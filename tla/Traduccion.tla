----------------------------- MODULE Traduccion -----------------------------
(***************************************************************************)
(* How a logical address reaches the memory: the MMU and the TLB of the    *)
(* CPU (cpu/src/main.c), the page tables of memoria that they ask for, and *)
(* the interfaces, which use later the physical addresses that the CPU     *)
(* computed when the process asked for I/O.  What the bytes hold is not    *)
(* kept: only where they are.                                              *)
(*                                                                         *)
(* The CPU executes any process that is alive and not blocked, one         *)
(* instruction at a time, and never empties the TLB.  RESIZE and           *)
(* END_PROCESS are single steps: module Memoria has their loops.  Programs *)
(* access only bytes they have, and RESIZE finds the frames.               *)
(***************************************************************************)
EXTENDS Integers, Sequences, FiniteSets, FiniteSetsExt, SequencesExt, Functions

CONSTANTS Pids,
          tamanio_de_pagina,
          CANT_MARCOS,
          Entradas,    \* values of CANTIDAD_ENTRADAS_TLB
          Largos,      \* how many bytes an instruction accesses
          MAX_PAGINAS  \* bound: pages of a process

ASSUME PaginaAssumption == tamanio_de_pagina \in Nat \ {0}
ASSUME MarcosAssumption == CANT_MARCOS \in Nat \ {0}
ASSUME EntradasAssumption == Entradas \subseteq Nat
ASSUME LargosAssumption == Largos \subseteq Nat \ {0}
ASSUME PaginasAssumption == MAX_PAGINAS \in Nat

VARIABLES
  algoritmo_tlb, cant_entradas_tlb, \* read from the configuration
  TLB,        \* its entries, the first one is the next to be replaced
  vivos,      \* procesos_en_memoria
  tabla,      \* tabla_paginas of each process: its frames, page 0 first
  enIo,       \* of each blocked process: the bytes it asked for and where they are
  achicados   \* history: RESIZE took from them a page that was in the TLB

configuracion == <<algoritmo_tlb, cant_entradas_tlb>>
vars == <<configuracion, TLB, vivos, tabla, enIo, achicados>>

Marcos == 0 .. CANT_MARCOS - 1
Tam(p) == Len(tabla[p]) * tamanio_de_pagina

Init ==
  /\ algoritmo_tlb \in {"FIFO", "LRU"} /\ cant_entradas_tlb \in Entradas
  /\ TLB = <<>>
  /\ vivos = Pids /\ tabla = [p \in Pids |-> <<>>]
  /\ enIo = <<>>
  /\ achicados = {}

-----------------------------------------------------------------------------
(* The TLB.  tiempo_creacion orders the entries under FIFO and             *)
(* ultimo_acceso under LRU: they are kept in that order.                   *)

Entrada(p, pagina, marco) == [id_proceso |-> p, numero_pagina |-> pagina, numero_marco |-> marco]
EsDe(e, p, pagina) == e.id_proceso = p /\ e.numero_pagina = pagina
Posiciones(tlb, p, pagina) == {i \in DOMAIN tlb : EsDe(tlb[i], p, pagina)}
EnTlb(tlb, p, pagina) == Posiciones(tlb, p, pagina) # {}

\* Fault: the process is not compared.
BuscarSinPid(tlb, p, pagina) ==
  tlb[Min({i \in DOMAIN tlb : tlb[i].numero_pagina = pagina})].numero_marco
\* buscar_en_tlb: the first entry of the page, when there is one.
Buscar(tlb, p, pagina) == tlb[Min(Posiciones(tlb, p, pagina))].numero_marco

\* Fault: a hit does not count as an access.
TocarNada(tlb, p, pagina) == tlb
Tocar(tlb, p, pagina) ==
  LET i == Min(Posiciones(tlb, p, pagina))
  IN IF algoritmo_tlb = "LRU" THEN Append(RemoveAt(tlb, i), tlb[i]) ELSE tlb

\* Fault: <= for <.
ReemplazoDeMas(tlb, e) ==
  IF cant_entradas_tlb = 0 THEN tlb
  ELSE IF Len(tlb) <= cant_entradas_tlb THEN Append(tlb, e)
  ELSE Append(Tail(tlb), e)
\* reemplazo_tlb. Without entries there is no TLB.
Reemplazo(tlb, e) ==
  IF cant_entradas_tlb = 0 THEN tlb
  ELSE IF Len(tlb) < cant_entradas_tlb THEN Append(tlb, e)
  ELSE Append(Tail(tlb), e)

-----------------------------------------------------------------------------
(* traducir_DL_a_DF_generico, with the TLB it finds as a parameter.        *)

Paginas(dl, n) ==
  LET primera == dl \div tamanio_de_pagina
      cantidad == ((dl % tamanio_de_pagina) + n + tamanio_de_pagina - 1) \div tamanio_de_pagina
  IN [i \in 1..cantidad |-> primera + i - 1]

\* What ACCESO_TABLA_PAGINAS answers.
MarcoEnTabla(p, pagina) == tabla[p][pagina + 1]

Marco(tlb, p, pagina) ==
  IF EnTlb(tlb, p, pagina) THEN Buscar(tlb, p, pagina) ELSE MarcoEnTabla(p, pagina)

\* The hits first, and then the pages that memoria was asked for, in order.
TlbTras(tlb, p, dl, n) ==
  LET paginas == Paginas(dl, n)
      Falla(pagina) == ~EnTlb(tlb, p, pagina)
      TocarUna(t, pagina) == IF Falla(pagina) THEN t ELSE Tocar(t, p, pagina)
      Cargar(t, pagina) == Reemplazo(t, Entrada(p, pagina, MarcoEnTabla(p, pagina)))
  IN FoldLeft(Cargar, FoldLeft(TocarUna, tlb, paginas), SelectSeq(paginas, Falla))

\* How many of the bytes are in the pages before the i-th.
Antes(i, desplazamiento) == IF i = 1 THEN 0 ELSE (i - 1) * tamanio_de_pagina - desplazamiento

\* The physical address of each of the n bytes, page by page: in the first
\* page from the offset on, in the last one until there are n.
Direcciones(tlb, p, dl, n) ==
  LET paginas == Paginas(dl, n)
      desplazamiento == dl % tamanio_de_pagina
      DeLaPagina(i) ==
        LET desde == IF i = 1 THEN desplazamiento ELSE 0
            largo == Min({tamanio_de_pagina - desde, n - Antes(i, desplazamiento)})
        IN [k \in 1..largo |-> Marco(tlb, p, paginas[i]) * tamanio_de_pagina + desde + k - 1]
  IN FlattenSeq([i \in DOMAIN paginas |-> DeLaPagina(i)])

-----------------------------------------------------------------------------
(* Instructions.                                                           *)

\* Fault: the cycle goes on after an I/O instruction.
EjecutaSiempre(p) == p \in vivos
Ejecuta(p) == p \in vivos \ DOMAIN enIo
Accede(p, dl, n) == Ejecuta(p) /\ n \in Largos /\ dl + n <= Tam(p)

\* MOV_IN, MOV_OUT.
Mover(p, dl, n) ==
  /\ Accede(p, dl, n)
  /\ TLB' = TlbTras(TLB, p, dl, n)
  /\ UNCHANGED <<configuracion, vivos, tabla, enIo, achicados>>

\* SI is translated first, and then DI.
CopyString(p, si, di, n) ==
  /\ Accede(p, si, n) /\ Accede(p, di, n)
  /\ TLB' = TlbTras(TlbTras(TLB, p, si, n), p, di, n)
  /\ UNCHANGED <<configuracion, vivos, tabla, enIo, achicados>>

MarcosLibres == Marcos \ UNION {Range(tabla[p]) : p \in Pids}

\* The lowest free frames, or the last pages.
Redimensionar(p, paginas) ==
  LET actuales == Len(tabla[p])
      libres == SetToSortSeq(MarcosLibres, <)
      nueva == IF paginas <= actuales THEN SubSeq(tabla[p], 1, paginas)
               ELSE tabla[p] \o SubSeq(libres, 1, paginas - actuales)
  IN /\ Ejecuta(p) /\ paginas # actuales
     /\ paginas - actuales <= Len(libres)
     /\ tabla' = [tabla EXCEPT ![p] = nueva]
     /\ achicados' = IF \E q \in paginas .. actuales - 1 : EnTlb(TLB, p, q)
                     THEN achicados \cup {p} ELSE achicados
     /\ UNCHANGED <<configuracion, TLB, vivos, enIo>>

-----------------------------------------------------------------------------
(* I/O and the end of a process.                                           *)

\* IO_STDIN_READ, IO_STDOUT_WRITE, IO_FS_READ, IO_FS_WRITE: the kernel keeps
\* the addresses with the request.
PedirIo(p, dl, n) ==
  /\ Accede(p, dl, n)
  /\ TLB' = TlbTras(TLB, p, dl, n)
  /\ enIo' = [q \in DOMAIN enIo \cup {p} |->
                IF q = p THEN [dl |-> dl, direcciones |-> Direcciones(TLB, p, dl, n)]
                ELSE enIo[q]]
  /\ UNCHANGED <<configuracion, vivos, tabla, achicados>>

\* The interface reads or writes at those addresses, or fails.
TerminarIo(p) ==
  /\ p \in DOMAIN enIo
  /\ enIo' = Restrict(enIo, DOMAIN enIo \ {p})
  /\ UNCHANGED <<configuracion, TLB, vivos, tabla, achicados>>

\* END_PROCESS. The console may finalize a blocked process: its request stays.
FinProceso(p) ==
  /\ p \in vivos
  /\ vivos' = vivos \ {p}
  /\ tabla' = [tabla EXCEPT ![p] = <<>>]
  /\ achicados' = achicados \ {p}
  /\ UNCHANGED <<configuracion, TLB, enIo>>

-----------------------------------------------------------------------------
Dir == 0 .. MAX_PAGINAS * tamanio_de_pagina - 1

Next ==
  \E p \in Pids :
    \/ \E dl \in Dir, n \in Largos : Mover(p, dl, n) \/ PedirIo(p, dl, n)
    \/ \E si, di \in Dir, n \in Largos : CopyString(p, si, di, n)
    \/ \E paginas \in 0..MAX_PAGINAS : Redimensionar(p, paginas)
    \/ TerminarIo(p) \/ FinProceso(p)

Spec == Init /\ [][Next]_vars

-----------------------------------------------------------------------------
\* The TLB never has more entries than the configuration says, nor two for
\* one page: a hit would depend on which of them comes first.
TlbAcotada ==
  /\ Len(TLB) <= cant_entradas_tlb
  /\ \A i, j \in DOMAIN TLB :
       EsDe(TLB[i], TLB[j].id_proceso, TLB[j].numero_pagina) => i = j

TypeOK ==
  /\ algoritmo_tlb \in {"FIFO", "LRU"} /\ cant_entradas_tlb \in Entradas
  /\ TLB \in Seq([id_proceso : Pids, numero_pagina : 0 .. MAX_PAGINAS - 1, numero_marco : Marcos])
  /\ vivos \subseteq Pids /\ tabla \in [Pids -> Seq(Marcos)]
  /\ \A p \in Pids \ vivos : tabla[p] = <<>>
  /\ DOMAIN enIo \subseteq Pids
  /\ \A p \in DOMAIN enIo :
       enIo[p] \in [dl : Dir, direcciones : Seq(0 .. CANT_MARCOS * tamanio_de_pagina - 1)]
  /\ achicados \subseteq vivos
  /\ TlbAcotada

\* Where the page table of p has its byte d.
Fisica(p, d) ==
  MarcoEnTabla(p, d \div tamanio_de_pagina) * tamanio_de_pagina + (d % tamanio_de_pagina)

\* Byte by byte, any access that a process may make now goes where its page
\* table says, through hits and misses, first and last pages and whoever
\* executed before: unless RESIZE took from it a page that was in the TLB.
TraduccionExacta ==
  \A p \in vivos \ achicados : \A n \in Largos, dl \in Dir :
    dl + n <= Tam(p) =>
      Direcciones(TLB, p, dl, n) = [k \in 1..n |-> Fisica(p, dl + k - 1)]

\* The addresses an interface holds are still those of the process that asked
\* for I/O when it uses them, whatever the others did meanwhile: the process
\* is blocked and cannot resize, unless it was finalized.
IoVigente ==
  \A p \in DOMAIN enIo : p \in vivos \ achicados =>
    \A k \in DOMAIN enIo[p].direcciones :
      /\ enIo[p].dl + k <= Tam(p)
      /\ enIo[p].direcciones[k] = Fisica(p, enIo[p].dl + k - 1)

\* Under LRU the pages of an access that fits are all in the TLB after it: the
\* ones that come in never replace those that were hit by the same access.
AccesoResidente ==
  algoritmo_tlb = "LRU" =>
    \A p \in vivos : \A n \in Largos, dl \in Dir :
      dl + n <= Tam(p) /\ Len(Paginas(dl, n)) <= cant_entradas_tlb =>
        \A q \in Range(Paginas(dl, n)) : EnTlb(TlbTras(TLB, p, dl, n), p, q)
=============================================================================
