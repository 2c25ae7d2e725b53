------------------------------ MODULE Memoria ------------------------------
(***************************************************************************)
(* Frame allocation in the memoria process (memoria/src).  The process     *)
(* runs one thread per connected client (atender_cliente) and no mutex     *)
(* protects procesos_en_memoria, the page tables or marcos_ocupados.  Two  *)
(* of the threads change them: the one that serves the kernel              *)
(* (CREAR_PROCESO, END_PROCESS) and the one that serves the CPU            *)
(* (AJUSTAR_TAMANIO_PROCESO).  An action is what one thread does between   *)
(* two points where the other can observe it: the loops that add, remove   *)
(* and free pages are modelled page by page, and the two separate searches *)
(* for a free frame in main.c:240 and main.c:246 are two steps.            *)
(* One bit of the bitmap is set or cleared atomically here: that the code  *)
(* rewrites the whole byte, with the bits of seven neighbours, is not      *)
(* modelled.                                                               *)
(***************************************************************************)
EXTENDS Integers, Sequences

CONSTANTS Pids,         \* the processes the kernel may create; a pid is never reused
          NULO,         \* no process
          TAM_PAGINA,   \* page size in bytes
          CANT_MARCOS,  \* TAM_MEMORIA / TAM_PAGINA
          Tamanios      \* sizes in bytes that programs pass to RESIZE

ASSUME PidsAssumption == NULO \notin Pids
ASSUME PaginaAssumption == TAM_PAGINA \in Nat \ {0}
ASSUME MarcosAssumption == CANT_MARCOS \in Nat \ {0}
ASSUME TamaniosAssumption == Tamanios \subseteq Nat

Marcos == 0..(CANT_MARCOS - 1)

VARIABLES
  creados,    \* pids the kernel has announced with CREAR_PROCESO
  procesos,   \* procesos_en_memoria
  tabla,      \* tabla_paginas of each process: its frames, page 0 first
  ocupado,    \* marcos_ocupados: the frames whose bit is set
  enCpu,      \* the process the CPU executes, NULO between two dispatches
  cpuOp,      \* where the thread of the CPU's connection is
  cpuPaginas, \* pages its resize loop still has to add or to remove
  cpuPedido,  \* nuevo_tamanio of the resize being served, in bytes
  respuesta,  \* the last op_code sent to the CPU
  kernelOp,   \* where the thread of the kernel's connection is
  kernelPid,  \* the process END_PROCESS is freeing
  kernelSig   \* i of liberar_tabla_paginas: the next page whose frame is freed

varsCpu    == <<cpuOp, cpuPaginas, cpuPedido, respuesta>>
varsKernel == <<kernelOp, kernelPid, kernelSig>>
vars == <<creados, procesos, tabla, ocupado, enCpu, varsCpu, varsKernel>>

Init ==
  /\ creados = {} /\ procesos = {}
  /\ tabla = [p \in Pids |-> <<>>]
  /\ ocupado = {}
  /\ enCpu = NULO
  /\ cpuOp = "libre" /\ cpuPaginas = 0 /\ cpuPedido = 0 /\ respuesta = "ninguna"
  /\ kernelOp = "libre" /\ kernelPid = NULO /\ kernelSig = 1

-----------------------------------------------------------------------------
(* Requests of the kernel.                                                 *)

\* A new process starts with an empty page table.
CrearProceso(p) ==
  /\ kernelOp = "libre"
  /\ p \notin creados
  /\ creados' = creados \cup {p}
  /\ procesos' = procesos \cup {p}
  /\ UNCHANGED <<tabla, ocupado, enCpu, varsCpu, varsKernel>>

\* The kernel asks for END_PROCESS once the process has left the CPU.
FinProceso(p) ==
  /\ kernelOp = "libre"
  /\ p \in procesos
  /\ p # enCpu
  /\ kernelOp' = "liberar" /\ kernelPid' = p /\ kernelSig' = 1
  /\ UNCHANGED <<creados, procesos, tabla, ocupado, enCpu, varsCpu>>

\* Fault: the table is walked but the frame is not given back.
LiberarPaginaSinMarco ==
  /\ kernelOp = "liberar"
  /\ kernelSig <= Len(tabla[kernelPid])
  /\ kernelSig' = kernelSig + 1
  /\ UNCHANGED <<creados, procesos, tabla, ocupado, enCpu, varsCpu, kernelOp, kernelPid>>

\* One turn of the loop of liberar_tabla_paginas.
LiberarPagina ==
  /\ kernelOp = "liberar"
  /\ kernelSig <= Len(tabla[kernelPid])
  /\ ocupado' = ocupado \ {tabla[kernelPid][kernelSig]}
  /\ kernelSig' = kernelSig + 1
  /\ UNCHANGED <<creados, procesos, tabla, enCpu, varsCpu, kernelOp, kernelPid>>

\* The table is destroyed, the process leaves the list, the kernel is answered.
TerminarFin ==
  /\ kernelOp = "liberar"
  /\ kernelSig > Len(tabla[kernelPid])
  /\ tabla' = [tabla EXCEPT ![kernelPid] = <<>>]
  /\ procesos' = procesos \ {kernelPid}
  /\ kernelOp' = "libre" /\ kernelPid' = NULO /\ kernelSig' = 1
  /\ UNCHANGED <<creados, ocupado, enCpu, varsCpu>>

-----------------------------------------------------------------------------
(* The CPU: the kernel dispatches a process that is not being destroyed,   *)
(* and evicts it only when the CPU waits for no answer of memoria.         *)

Despachar(p) ==
  /\ enCpu = NULO
  /\ p \in procesos
  /\ p # kernelPid
  /\ enCpu' = p
  /\ UNCHANGED <<creados, procesos, tabla, ocupado, varsCpu, varsKernel>>

Desalojar ==
  /\ enCpu # NULO
  /\ cpuOp = "libre"
  /\ enCpu' = NULO
  /\ respuesta' = "ninguna"
  /\ UNCHANGED <<creados, procesos, tabla, ocupado, cpuOp, cpuPaginas, cpuPedido, varsKernel>>

-----------------------------------------------------------------------------
(* AJUSTAR_TAMANIO_PROCESO.                                                *)

TamanioActual == Len(tabla[enCpu]) * TAM_PAGINA

PaginasFaltantesTruncadas(t) == (t - TamanioActual) \div TAM_PAGINA \* fault: rounds down
PaginasFaltantes(t) == (t - TamanioActual + TAM_PAGINA - 1) \div TAM_PAGINA

PaginasSobrantes(t) == (TamanioActual - t) \div TAM_PAGINA

\* The handler decides how many pages to add (rounded up) or to remove
\* (rounded down); an unchanged size is answered OK at once.
AjustarTamanio(t) ==
  /\ enCpu # NULO
  /\ cpuOp = "libre"
  /\ respuesta # "OUT_OF_MEMORY"
  /\ cpuPedido' = t
  /\ respuesta' = "ninguna"
  /\ \/ /\ t > TamanioActual
        /\ cpuOp' = "ampliar"
        /\ cpuPaginas' = PaginasFaltantes(t)
     \/ /\ t <= TamanioActual
        /\ cpuOp' = "reducir"
        /\ cpuPaginas' = PaginasSobrantes(t)
  /\ UNCHANGED <<creados, procesos, tabla, ocupado, enCpu, varsKernel>>

\* Fault: the first search is left out.
HayMarcoSinBuscar ==
  /\ cpuOp = "ampliar"
  /\ cpuPaginas > 0
  /\ cpuOp' = "asignar"
  /\ UNCHANGED <<creados, procesos, tabla, ocupado, enCpu, cpuPaginas, cpuPedido,
                 respuesta, varsKernel>>

\* The first search of the turn finds some frame ...
HayMarco ==
  /\ cpuOp = "ampliar"
  /\ cpuPaginas > 0
  /\ Marcos \ ocupado # {}
  /\ cpuOp' = "asignar"
  /\ UNCHANGED <<creados, procesos, tabla, ocupado, enCpu, cpuPaginas, cpuPedido,
                 respuesta, varsKernel>>

\* ... or none: the loop breaks and the pages added so far stay in the table.
SinMarcos ==
  /\ cpuOp = "ampliar"
  /\ cpuPaginas > 0
  /\ Marcos \ ocupado = {}
  /\ cpuOp' = "libre" /\ cpuPaginas' = 0 /\ cpuPedido' = 0
  /\ respuesta' = "OUT_OF_MEMORY"
  /\ UNCHANGED <<creados, procesos, tabla, ocupado, enCpu, varsKernel>>

\* Fault: the search does not look at the bitmap.
EsPrimerMarco(m) == m \in Marcos /\ \A k \in Marcos : m <= k

\* obtener_primer_marco_libre: the lowest frame whose bit is clear.
EsPrimerMarcoLibre(m) ==
  /\ m \in Marcos \ ocupado
  /\ \A k \in Marcos \ ocupado : m <= k

\* The second search, inicializar_pagina and list_add.
AsignarPagina ==
  /\ cpuOp = "asignar"
  /\ \E m \in Marcos :
       /\ EsPrimerMarcoLibre(m)
       /\ ocupado' = ocupado \cup {m}
       /\ tabla' = [tabla EXCEPT ![enCpu] = Append(@, m)]
  /\ cpuPaginas' = cpuPaginas - 1
  /\ cpuOp' = "ampliar"
  /\ UNCHANGED <<creados, procesos, enCpu, cpuPedido, respuesta, varsKernel>>

\* One turn of the loop that removes the last page and frees its frame.
ReducirPagina ==
  /\ cpuOp = "reducir"
  /\ cpuPaginas > 0
  /\ LET n == Len(tabla[enCpu])
     IN /\ ocupado' = ocupado \ {tabla[enCpu][n]}
        /\ tabla' = [tabla EXCEPT ![enCpu] = SubSeq(@, 1, n - 1)]
  /\ cpuPaginas' = cpuPaginas - 1
  /\ UNCHANGED <<creados, procesos, enCpu, cpuOp, cpuPedido, respuesta, varsKernel>>

\* Fault: a resize that shrinks is not answered.
ResponderSoloAmpliar ==
  /\ cpuOp = "ampliar"
  /\ cpuPaginas = 0
  /\ cpuOp' = "libre" /\ cpuPedido' = 0
  /\ respuesta' = "OK"
  /\ UNCHANGED <<creados, procesos, tabla, ocupado, enCpu, cpuPaginas, varsKernel>>

ResponderOK ==
  /\ cpuOp \in {"ampliar", "reducir"}
  /\ cpuPaginas = 0
  /\ cpuOp' = "libre" /\ cpuPedido' = 0
  /\ respuesta' = "OK"
  /\ UNCHANGED <<creados, procesos, tabla, ocupado, enCpu, cpuPaginas, varsKernel>>

-----------------------------------------------------------------------------
HiloKernel == LiberarPagina \/ TerminarFin
HiloCpu == HayMarco \/ SinMarcos \/ AsignarPagina \/ ReducirPagina \/ ResponderOK

Next ==
  \/ \E p \in Pids : CrearProceso(p) \/ FinProceso(p) \/ Despachar(p)
  \/ Desalojar
  \/ \E t \in Tamanios : AjustarTamanio(t)
  \/ HiloKernel
  \/ HiloCpu

Spec == Init /\ [][Next]_vars

\* Both threads keep running: neither handler blocks on anything.
FairSpec == Spec /\ WF_vars(HiloKernel) /\ WF_vars(HiloCpu)

-----------------------------------------------------------------------------
TypeOK ==
  /\ creados \subseteq Pids
  /\ procesos \subseteq creados
  /\ tabla \in [Pids -> Seq(Marcos)]
  /\ ocupado \subseteq Marcos
  /\ enCpu \in Pids \cup {NULO}
  /\ cpuOp \in {"libre", "ampliar", "asignar", "reducir"}
  /\ cpuPaginas \in Nat
  /\ cpuPedido \in Nat
  /\ respuesta \in {"ninguna", "OK", "OUT_OF_MEMORY"}
  /\ kernelOp \in {"libre", "liberar"}
  /\ kernelPid \in Pids \cup {NULO}
  /\ kernelSig \in Nat \ {0}

\* The pages of p whose frame END_PROCESS has not released yet.
PaginasVivas(p) ==
  IF p = kernelPid THEN kernelSig..Len(tabla[p]) ELSE 1..Len(tabla[p])

Posee(p, m) == \E i \in PaginasVivas(p) : tabla[p][i] = m

\* No frame backs two pages, of one process or of two, whatever the two
\* threads interleave: otherwise a process would read and write another's data.
SinMarcosCompartidos ==
  \A p, q \in Pids : \A i \in PaginasVivas(p), j \in PaginasVivas(q) :
    tabla[p][i] = tabla[q][j] => p = q /\ i = j

\* The bitmap says exactly which frames back a live page: a frame in use is
\* never offered again, and a frame given back by a resize or by END_PROCESS
\* is never lost (no leak on the out-of-memory break, either).
BitmapExacto ==
  \A m \in Marcos : m \in ocupado <=> \E p \in Pids : Posee(p, m)

\* The answer of the first search (main.c:240) still holds when the second
\* one (main.c:246) runs, although the kernel's thread may run in between:
\* inicializar_pagina never receives -1.
BusquedaVigente ==
  cpuOp = "asignar" => Marcos \ ocupado # {}

\* A resize is answered OK only when the pages hold the size asked for and
\* no page is superfluous, whatever the roundings and the other thread did.
TamanioPedido ==
  [][respuesta' = "OK" /\ respuesta # "OK" =>
       /\ cpuPedido <= TamanioActual'
       /\ TamanioActual' < cpuPedido + TAM_PAGINA]_vars

\* Every resize is answered, with OK or with OUT_OF_MEMORY.
ResizeRespondido == cpuOp # "libre" ~> cpuOp = "libre"

\* What keeps the two threads apart: the process being freed is never the
\* one that is resized, and each loop stays within the table it walks.
Control ==
  /\ kernelOp = "liberar" <=> kernelPid # NULO
  /\ kernelPid # NULO => kernelPid # enCpu
  /\ kernelPid = NULO => kernelSig = 1
  /\ kernelPid # NULO => kernelSig <= Len(tabla[kernelPid]) + 1
  /\ cpuOp # "libre" => enCpu # NULO
  /\ cpuOp = "asignar" => cpuPaginas > 0
  /\ cpuOp = "reducir" => cpuPaginas <= Len(tabla[enCpu])

\* The owner of each frame, as the abstract specification sees it.
Duenio ==
  [m \in Marcos |->
     IF \E p \in Pids : Posee(p, m) THEN CHOOSE p \in Pids : Posee(p, m) ELSE NULO]

Asignacion == INSTANCE AsignacionDeMarcos WITH duenio <- Duenio
AsignacionSpec == Asignacion!Spec
=============================================================================
