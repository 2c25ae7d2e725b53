---------------------------- MODULE Planificador ----------------------------
(***************************************************************************)
(* The life of a process in the kernel (kernel/src): the console, the      *)
(* long-term scheduler (creacion_de_procesos, eliminacion_de_procesos),    *)
(* the short-term scheduler, the thread that receives evictions            *)
(* (recibir_dispatch) and one thread per I/O interface (atender_interfaz). *)
(* They share queues and POSIX semaphores.  An action is what one thread   *)
(* does between two points where it can block or be observed; a semaphore  *)
(* is its counter, and sem_wait on it a guard and a decrement.             *)
(*                                                                         *)
(* The CPU is the part of cpu/src/main.c the kernel sees: it takes one PCB *)
(* at a time and answers with a reason to leave.  WAIT and SIGNAL are in   *)
(* module Recursos, FINALIZAR_PROCESO and MULTIPROGRAMACION in module      *)
(* Finalizacion, and the cycle of the CPU and the quantum timer in module  *)
(* CicloCpu: an expired quantum is FinDeQuantum here.                      *)
(***************************************************************************)
EXTENDS Integers, Sequences, FiniteSets

CONSTANTS Pids,                     \* the processes the console starts
          NULO,                     \* no process; a name that is no interface
          Interfaces,               \* the connected I/O interfaces
          GRADO_MULTIPROGRAMACION,
          ALGORITMO,                \* ALGORITMO_PLANIFICACION
          Motivos,                  \* why programs leave the CPU by themselves
          MAX_DETENCIONES           \* bound: DETENER_PLANIFICACION commands

ASSUME NuloAssumption == NULO \notin Pids \cup Interfaces
ASSUME GradoAssumption == GRADO_MULTIPROGRAMACION \in Nat
ASSUME AlgoritmoAssumption == ALGORITMO \in {"FIFO", "RR", "VRR"}
ASSUME MotivosAssumption == Motivos \subseteq {"OPERACION_IO", "END_PROCESS", "OUT_OF_MEMORY"}
ASSUME DetencionesAssumption == MAX_DETENCIONES \in Nat

VARIABLES
  creados,      \* pids that entered cola_procesos_new
  terminados,   \* pids whose PCB was destroyed
  sistema,      \* procesos_en_sistema
  colaNew, colaReady, colaReadyPlus, colaExit,
  bloqueados,   \* lista_procesos_blocked
  sem,          \* the semaphores of the kernel
  detenida,     \* planificacion_detenida
  detenciones,  \* DETENER_PLANIFICACION commands so far
  consola, creacion, corto, despacho, eliminacion, \* where each thread is
  io,           \* where the thread of each interface is
  colaIo,       \* colas_blocks_io: the requests of each interface
  semIo,        \* instruccion_en_cola and binario_io_libre of each interface
  respuestas,   \* answers of memoria on conexion_memoria, in order
  aCpu,         \* PCBs sent to the CPU, the first one executing
  desalojos,    \* evictions the CPU sent on the dispatch connection
  sinMemoria,   \* flag_out_of_memory of the CPU
  perdidos      \* PCBs the CPU took and never answered for

varsColas    == <<colaNew, colaReady, colaReadyPlus, colaExit, bloqueados>>
varsConsola  == <<creados, consola, detenida, detenciones>>
varsIo       == <<io, colaIo, semIo>>
varsCpu      == <<aCpu, desalojos, sinMemoria, perdidos>>
vars == <<varsConsola, terminados, sistema, varsColas, sem, creacion, corto, despacho,
          eliminacion, varsIo, respuestas, varsCpu>>

Semaforos == {"hay_proceso_nuevo", "grado_multi", "hay_proceso_a_ready", "cpu_libre",
  "hay_proceso_exit", "podes_crear_procesos", "podes_planificar_corto_plazo",
  "podes_manejar_desalojo", "podes_eliminar_procesos",
  "podes_manejar_recepcion_de_interfaces"}

\* Fault: INICIAR_PLANIFICACION forgets one gate.
CompuertasSinDesalojo == {"podes_crear_procesos", "podes_eliminar_procesos",
  "podes_planificar_corto_plazo", "podes_manejar_recepcion_de_interfaces"}

Compuertas == {"podes_crear_procesos", "podes_eliminar_procesos",
  "podes_planificar_corto_plazo", "podes_manejar_desalojo",
  "podes_manejar_recepcion_de_interfaces"}

\* A thread at a label, with the PCB it holds.
En(lugar, p) == [en |-> lugar, pid |-> p]

Init ==
  /\ creados = {} /\ terminados = {} /\ sistema = {}
  /\ colaNew = <<>> /\ colaReady = <<>> /\ colaReadyPlus = <<>> /\ colaExit = <<>>
  /\ bloqueados = {}
  /\ sem = [s \in Semaforos |-> CASE s = "grado_multi" -> GRADO_MULTIPROGRAMACION
                                  [] s = "cpu_libre"   -> 1
                                  [] OTHER             -> 0]
  /\ detenida = FALSE /\ detenciones = 0
  /\ consola = En("libre", NULO) /\ creacion = En("esperar", NULO)
  /\ corto = "esperar"
  /\ despacho = [en |-> "esperar", pid |-> NULO, motivo |-> "ninguno", interfaz |-> NULO]
  /\ eliminacion = [en |-> "esperar", pid |-> NULO, listado |-> {}]
  /\ io = [i \in Interfaces |-> En("esperar", NULO)]
  /\ colaIo = [i \in Interfaces |-> <<>>]
  /\ semIo = [i \in Interfaces |-> [instruccion_en_cola |-> 0, binario_io_libre |-> 1]]
  /\ respuestas = <<>>
  /\ aCpu = <<>> /\ desalojos = <<>> /\ sinMemoria = FALSE /\ perdidos = <<>>

Post(s) == sem' = [sem EXCEPT ![s] = @ + 1]
Wait(s) == sem[s] > 0 /\ sem' = [sem EXCEPT ![s] = @ - 1]

\* Faults: a call that is forgotten, a post made twice, a wait that does not wait.
Olvidar == UNCHANGED sem
SoltarCpuDosVeces == sem' = [sem EXCEPT !["cpu_libre"] = @ + 2]

\* What each semaphore is for.
AvisarNuevo == Post("hay_proceso_nuevo")
AvisarReady == Post("hay_proceso_a_ready")
AvisarExit == Post("hay_proceso_exit")
OcuparLugar == Wait("grado_multi")
DevolverLugar == Post("grado_multi")
OcuparCpu == Wait("cpu_libre")
SoltarCpu == Post("cpu_libre")

\* After its wait a thread looks at planificacion_detenida, once.
TrasEspera(sigue) == IF detenida THEN "compuerta" ELSE sigue

-----------------------------------------------------------------------------
(* The console.                                                            *)

\* INICIAR_PROCESO asks memoria to create the process and waits.
IniciarProceso(p) ==
  /\ consola.en = "libre"
  /\ p \notin creados
  /\ consola' = En("memoria", p)
  /\ respuestas' = Append(respuestas, "CREAR_PROCESO")
  /\ UNCHANGED <<creados, detenida, detenciones, terminados, sistema, varsColas, sem,
                 creacion, corto, despacho, eliminacion, varsIo, varsCpu>>

\* The answer arrives on the connection that eliminacion_de_procesos also
\* reads; any other operation code makes the command give up.
RespuestaCreacion ==
  /\ consola.en = "memoria"
  /\ respuestas # <<>>
  /\ respuestas' = Tail(respuestas)
  /\ \/ /\ Head(respuestas) = "CREAR_PROCESO"
        /\ colaNew' = Append(colaNew, consola.pid)
        /\ creados' = creados \cup {consola.pid}
        /\ AvisarNuevo
        /\ consola' = En("registrar", consola.pid)
     \/ /\ Head(respuestas) # "CREAR_PROCESO"
        /\ consola' = En("libre", NULO)
        /\ UNCHANGED <<colaNew, creados, sem>>
  /\ UNCHANGED <<detenida, detenciones, terminados, sistema, colaReady, colaReadyPlus,
                 colaExit, bloqueados, creacion, corto, despacho, eliminacion, varsIo,
                 varsCpu>>

\* Only now, after hay_proceso_nuevo, does it enter procesos_en_sistema.
Registrar ==
  /\ consola.en = "registrar"
  /\ sistema' = sistema \cup {consola.pid}
  /\ consola' = En("libre", NULO)
  /\ UNCHANGED <<creados, detenida, detenciones, terminados, varsColas, sem, creacion,
                 corto, despacho, eliminacion, varsIo, respuestas, varsCpu>>

DetenerPlanificacion ==
  /\ consola.en = "libre"
  /\ detenciones < MAX_DETENCIONES
  /\ detenida' = TRUE
  /\ detenciones' = detenciones + 1
  /\ UNCHANGED <<creados, consola, terminados, sistema, varsColas, sem, creacion, corto,
                 despacho, eliminacion, varsIo, respuestas, varsCpu>>

\* iniciar_planificacion posts every gate, whether somebody waits or not.
IniciarPlanificacion ==
  /\ consola.en = "libre"
  /\ detenida
  /\ detenida' = FALSE
  /\ sem' = [s \in Semaforos |-> IF s \in Compuertas THEN sem[s] + 1 ELSE sem[s]]
  /\ UNCHANGED <<creados, consola, detenciones, terminados, sistema, varsColas, creacion,
                 corto, despacho, eliminacion, varsIo, respuestas, varsCpu>>

-----------------------------------------------------------------------------
(* creacion_de_procesos: NEW -> READY.                                     *)

EsperarNuevo ==
  /\ creacion.en = "esperar"
  /\ Wait("hay_proceso_nuevo")
  /\ creacion' = En(TrasEspera("grado"), NULO)
  /\ UNCHANGED <<varsConsola, terminados, sistema, varsColas, corto, despacho,
                 eliminacion, varsIo, respuestas, varsCpu>>

CompuertaCreacion ==
  /\ creacion.en = "compuerta"
  /\ Wait("podes_crear_procesos")
  /\ creacion' = En("grado", NULO)
  /\ UNCHANGED <<varsConsola, terminados, sistema, varsColas, corto, despacho,
                 eliminacion, varsIo, respuestas, varsCpu>>

\* Fault: the new process is looked at and not popped.
TomarGradoSinSacar ==
  /\ creacion.en = "grado"
  /\ OcuparLugar
  /\ colaNew # <<>>
  /\ creacion' = En("agregar", Head(colaNew))
  /\ UNCHANGED <<varsConsola, terminados, sistema, varsColas, corto, despacho, eliminacion,
                 varsIo, respuestas, varsCpu>>

TomarGrado ==
  /\ creacion.en = "grado"
  /\ OcuparLugar
  /\ colaNew # <<>>
  /\ creacion' = En("agregar", Head(colaNew))
  /\ colaNew' = Tail(colaNew)
  /\ UNCHANGED <<varsConsola, terminados, sistema, colaReady, colaReadyPlus, colaExit,
                 bloqueados, corto, despacho, eliminacion, varsIo, respuestas, varsCpu>>

AgregarAReady ==
  /\ creacion.en = "agregar"
  /\ colaReady' = Append(colaReady, creacion.pid)
  /\ AvisarReady
  /\ creacion' = En("esperar", NULO)
  /\ UNCHANGED <<varsConsola, terminados, sistema, colaNew, colaReadyPlus, colaExit,
                 bloqueados, corto, despacho, eliminacion, varsIo, respuestas, varsCpu>>

-----------------------------------------------------------------------------
(* iniciar_planificador_corto_plazo: READY -> EXEC.                        *)

EsperarReady ==
  /\ corto = "esperar"
  /\ Wait("hay_proceso_a_ready")
  /\ corto' = "cpu"
  /\ UNCHANGED <<varsConsola, terminados, sistema, varsColas, creacion, despacho,
                 eliminacion, varsIo, respuestas, varsCpu>>

EsperarCpu ==
  /\ corto = "cpu"
  /\ OcuparCpu
  /\ corto' = TrasEspera("elegir")
  /\ UNCHANGED <<varsConsola, terminados, sistema, varsColas, creacion, despacho,
                 eliminacion, varsIo, respuestas, varsCpu>>

CompuertaCorto ==
  /\ corto = "compuerta"
  /\ Wait("podes_planificar_corto_plazo")
  /\ corto' = "elegir"
  /\ UNCHANGED <<varsConsola, terminados, sistema, varsColas, creacion, despacho,
                 eliminacion, varsIo, respuestas, varsCpu>>

\* VRR prefers cola_ready_plus; FIFO and RR never use it.
Despachar ==
  /\ corto = "elegir"
  /\ \/ /\ ALGORITMO = "VRR"
        /\ colaReadyPlus # <<>>
        /\ aCpu' = Append(aCpu, Head(colaReadyPlus))
        /\ colaReadyPlus' = Tail(colaReadyPlus)
        /\ UNCHANGED colaReady
     \/ /\ ALGORITMO = "VRR" => colaReadyPlus = <<>>
        /\ colaReady # <<>>
        /\ aCpu' = Append(aCpu, Head(colaReady))
        /\ colaReady' = Tail(colaReady)
        /\ UNCHANGED colaReadyPlus
  /\ corto' = "esperar"
  /\ UNCHANGED <<varsConsola, terminados, sistema, colaNew, colaExit, bloqueados, sem,
                 creacion, despacho, eliminacion, varsIo, respuestas, desalojos,
                 sinMemoria, perdidos>>

-----------------------------------------------------------------------------
(* The CPU, as comenzar_proceso answers the kernel.                        *)

Desalojo(p, m, i) == [pid |-> p, motivo |-> m, interfaz |-> i]

CpuSinTocar == UNCHANGED <<varsConsola, terminados, sistema, varsColas, sem, creacion,
                           corto, despacho, eliminacion, varsIo, respuestas>>

\* The program executes EXIT, or an I/O instruction: on a connected interface,
\* or on one that is not connected or does not admit it (NULO).
Salir ==
  /\ aCpu # <<>> /\ ~sinMemoria
  /\ \/ /\ "END_PROCESS" \in Motivos
        /\ desalojos' = Append(desalojos, Desalojo(Head(aCpu), "END_PROCESS", NULO))
     \/ /\ "OPERACION_IO" \in Motivos
        /\ \E i \in Interfaces \cup {NULO} :
             desalojos' = Append(desalojos, Desalojo(Head(aCpu), "OPERACION_IO", i))
  /\ aCpu' = Tail(aCpu)
  /\ UNCHANGED <<sinMemoria, perdidos>>
  /\ CpuSinTocar

FinDeQuantum ==
  /\ ALGORITMO # "FIFO"
  /\ aCpu # <<>> /\ ~sinMemoria
  /\ desalojos' = Append(desalojos, Desalojo(Head(aCpu), "FIN_CLOCK", NULO))
  /\ aCpu' = Tail(aCpu)
  /\ UNCHANGED <<sinMemoria, perdidos>>
  /\ CpuSinTocar

\* RESIZE fails.  The flag that ends the instruction cycle is never cleared,
\* and an interrupt pending at that moment is answered as well.
SinMemoria ==
  /\ "OUT_OF_MEMORY" \in Motivos
  /\ aCpu # <<>> /\ ~sinMemoria
  /\ LET oom == Desalojo(Head(aCpu), "OUT_OF_MEMORY", NULO)
         fin == Desalojo(Head(aCpu), "FIN_CLOCK", NULO)
     IN \/ desalojos' = Append(desalojos, oom)
        \/ ALGORITMO # "FIFO" /\ desalojos' = desalojos \o <<oom, fin>>
  /\ aCpu' = Tail(aCpu)
  /\ sinMemoria' = TRUE
  /\ UNCHANGED perdidos
  /\ CpuSinTocar

\* With the flag set, comenzar_proceso returns at once and answers nothing.
Descartar ==
  /\ aCpu # <<>> /\ sinMemoria
  /\ perdidos' = Append(perdidos, Head(aCpu))
  /\ aCpu' = Tail(aCpu)
  /\ UNCHANGED <<desalojos, sinMemoria>>
  /\ CpuSinTocar

-----------------------------------------------------------------------------
(* recibir_dispatch.                                                       *)

RecibirDesalojo ==
  /\ despacho.en = "esperar"
  /\ desalojos # <<>>
  /\ LET d == Head(desalojos)
     IN despacho' = [en |-> TrasEspera("manejar"), pid |-> d.pid, motivo |-> d.motivo,
                     interfaz |-> d.interfaz]
  /\ desalojos' = Tail(desalojos)
  /\ UNCHANGED <<varsConsola, terminados, sistema, varsColas, sem, creacion, corto,
                 eliminacion, varsIo, respuestas, aCpu, sinMemoria, perdidos>>

CompuertaDespacho ==
  /\ despacho.en = "compuerta"
  /\ Wait("podes_manejar_desalojo")
  /\ despacho' = [despacho EXCEPT !.en = "manejar"]
  /\ UNCHANGED <<varsConsola, terminados, sistema, varsColas, creacion, corto,
                 eliminacion, varsIo, respuestas, varsCpu>>

\* Every case ends with sem_post(&cpu_libre), a step of its own.
DejarCpu == despacho' = [en |-> "liberar", pid |-> NULO, motivo |-> "ninguno", interfaz |-> NULO]

\* finalizar_pcb.
ManejarFin ==
  /\ despacho.en = "manejar"
  /\ \/ despacho.motivo \in {"END_PROCESS", "OUT_OF_MEMORY"}
     \/ despacho.motivo = "OPERACION_IO" /\ despacho.interfaz = NULO
  /\ colaExit' = Append(colaExit, despacho.pid)
  /\ AvisarExit
  /\ DejarCpu
  /\ UNCHANGED <<varsConsola, terminados, sistema, colaNew, colaReady, colaReadyPlus,
                 bloqueados, creacion, corto, eliminacion, varsIo, respuestas, varsCpu>>

ManejarFinDeQuantum ==
  /\ despacho.en = "manejar"
  /\ despacho.motivo = "FIN_CLOCK"
  /\ colaReady' = Append(colaReady, despacho.pid)
  /\ AvisarReady
  /\ DejarCpu
  /\ UNCHANGED <<varsConsola, terminados, sistema, colaNew, colaReadyPlus, colaExit,
                 bloqueados, creacion, corto, eliminacion, varsIo, respuestas, varsCpu>>

\* bloquear_pcb, then the request enters the queue of the interface.
ManejarIo ==
  /\ despacho.en = "manejar"
  /\ despacho.motivo = "OPERACION_IO"
  /\ despacho.interfaz \in Interfaces
  /\ bloqueados' = bloqueados \cup {despacho.pid}
  /\ colaIo' = [colaIo EXCEPT ![despacho.interfaz] = Append(@, despacho.pid)]
  /\ semIo' = [semIo EXCEPT ![despacho.interfaz].instruccion_en_cola = @ + 1]
  /\ DejarCpu
  /\ UNCHANGED <<varsConsola, terminados, sistema, colaNew, colaReady, colaReadyPlus,
                 colaExit, sem, creacion, corto, eliminacion, io, respuestas, varsCpu>>

LiberarCpu ==
  /\ despacho.en = "liberar"
  /\ SoltarCpu
  /\ despacho' = [despacho EXCEPT !.en = "esperar"]
  /\ UNCHANGED <<varsConsola, terminados, sistema, varsColas, creacion, corto,
                 eliminacion, varsIo, respuestas, varsCpu>>

-----------------------------------------------------------------------------
(* atender_interfaz: BLOCKED -> READY.                                     *)

OtrasIo == UNCHANGED <<varsConsola, terminados, sistema, colaNew, colaExit, creacion,
                          corto, despacho, eliminacion, respuestas, varsCpu>>

TomarPedido(i) ==
  /\ io[i].en = "esperar"
  /\ semIo[i].instruccion_en_cola > 0 /\ semIo[i].binario_io_libre > 0
  /\ colaIo[i] # <<>>
  /\ semIo' = [semIo EXCEPT ![i] = [instruccion_en_cola |-> @.instruccion_en_cola - 1,
                                    binario_io_libre |-> @.binario_io_libre - 1]]
  /\ io' = [io EXCEPT ![i] = En("operando", Head(colaIo[i]))]
  /\ colaIo' = [colaIo EXCEPT ![i] = Tail(@)]
  /\ UNCHANGED <<colaReady, colaReadyPlus, bloqueados, sem>>
  /\ OtrasIo

\* IO_SUCCESS arrives; then the thread looks at planificacion_detenida.
RecibirResultado(i) ==
  /\ io[i].en = "operando"
  /\ io' = [io EXCEPT ![i].en = TrasEspera("completar")]
  /\ UNCHANGED <<colaReady, colaReadyPlus, bloqueados, sem, colaIo, semIo>>
  /\ OtrasIo

\* One gate for all the interfaces.
CompuertaIo(i) ==
  /\ io[i].en = "compuerta"
  /\ Wait("podes_manejar_recepcion_de_interfaces")
  /\ io' = [io EXCEPT ![i].en = "completar"]
  /\ UNCHANGED <<colaReady, colaReadyPlus, bloqueados, colaIo, semIo>>
  /\ OtrasIo

\* Under VRR a process with quantum left goes to cola_ready_plus.
Desbloquear(i) ==
  /\ io[i].en = "completar"
  /\ io[i].pid \in bloqueados
  /\ bloqueados' = bloqueados \ {io[i].pid}
  /\ \/ /\ colaReady' = Append(colaReady, io[i].pid)
        /\ UNCHANGED colaReadyPlus
     \/ /\ ALGORITMO = "VRR"
        /\ colaReadyPlus' = Append(colaReadyPlus, io[i].pid)
        /\ UNCHANGED colaReady
  /\ AvisarReady
  /\ semIo' = [semIo EXCEPT ![i].binario_io_libre = @ + 1]
  /\ io' = [io EXCEPT ![i] = En("esperar", NULO)]
  /\ UNCHANGED colaIo
  /\ OtrasIo

-----------------------------------------------------------------------------
(* eliminacion_de_procesos: EXIT.                                          *)

Eliminando(lugar, p, l) == [en |-> lugar, pid |-> p, listado |-> l]

EsperarExit ==
  /\ eliminacion.en = "esperar"
  /\ Wait("hay_proceso_exit")
  /\ eliminacion' = Eliminando(TrasEspera("sacar"), NULO, {})
  /\ UNCHANGED <<varsConsola, terminados, sistema, varsColas, creacion, corto, despacho,
                 varsIo, respuestas, varsCpu>>

CompuertaEliminacion ==
  /\ eliminacion.en = "compuerta"
  /\ Wait("podes_eliminar_procesos")
  /\ eliminacion' = Eliminando("sacar", NULO, {})
  /\ UNCHANGED <<varsConsola, terminados, sistema, varsColas, creacion, corto, despacho,
                 varsIo, respuestas, varsCpu>>

\* The index in procesos_en_sistema is looked up here and used after the
\* answer of memoria.
PedirFin ==
  /\ eliminacion.en = "sacar"
  /\ colaExit # <<>>
  /\ eliminacion' = Eliminando("memoria", Head(colaExit), {Head(colaExit)} \cap sistema)
  /\ colaExit' = Tail(colaExit)
  /\ respuestas' = Append(respuestas, "END_PROCESS")
  /\ UNCHANGED <<varsConsola, terminados, sistema, colaNew, colaReady, colaReadyPlus,
                 bloqueados, sem, creacion, corto, despacho, varsIo, varsCpu>>

\* Any other operation code makes the thread return, for good.
RespuestaFin ==
  /\ eliminacion.en = "memoria"
  /\ respuestas # <<>>
  /\ respuestas' = Tail(respuestas)
  /\ \/ /\ Head(respuestas) = "END_PROCESS"
        /\ sistema' = sistema \ eliminacion.listado
        /\ DevolverLugar
        /\ terminados' = terminados \cup {eliminacion.pid}
        /\ eliminacion' = Eliminando("esperar", NULO, {})
     \/ /\ Head(respuestas) # "END_PROCESS"
        /\ eliminacion' = [eliminacion EXCEPT !.en = "muerto"]
        /\ UNCHANGED <<sistema, sem, terminados>>
  /\ UNCHANGED <<varsConsola, varsColas, creacion, corto, despacho, varsIo, varsCpu>>

-----------------------------------------------------------------------------
HiloConsola == RespuestaCreacion \/ Registrar
HiloCreacion == EsperarNuevo \/ CompuertaCreacion \/ TomarGrado \/ AgregarAReady
HiloCorto == EsperarReady \/ EsperarCpu \/ CompuertaCorto \/ Despachar
HiloDespacho == RecibirDesalojo \/ CompuertaDespacho \/ ManejarFin \/ ManejarFinDeQuantum
                \/ ManejarIo \/ LiberarCpu
HiloIo(i) == TomarPedido(i) \/ RecibirResultado(i) \/ CompuertaIo(i) \/ Desbloquear(i)
HiloEliminacion == EsperarExit \/ CompuertaEliminacion \/ PedirFin \/ RespuestaFin
Cpu == Salir \/ FinDeQuantum \/ SinMemoria \/ Descartar

Next ==
  \/ \E p \in Pids : IniciarProceso(p)
  \/ DetenerPlanificacion \/ IniciarPlanificacion
  \/ HiloConsola \/ HiloCreacion \/ HiloCorto \/ HiloDespacho \/ HiloEliminacion \/ Cpu
  \/ \E i \in Interfaces : HiloIo(i)

Spec == Init /\ [][Next]_vars

\* The operating system keeps running every thread that can run, a program
\* leaves the CPU in the end, and an interface answers in the end.  The
\* commands of the console are up to the user.
FairSpec ==
  /\ Spec
  /\ WF_vars(HiloConsola) /\ WF_vars(HiloCreacion) /\ WF_vars(HiloCorto)
  /\ WF_vars(HiloDespacho) /\ WF_vars(HiloEliminacion) /\ WF_vars(Cpu)
  /\ \A i \in Interfaces : WF_vars(HiloIo(i))

-----------------------------------------------------------------------------
Bit(b) == IF b THEN 1 ELSE 0
Elementos(s) == {s[k] : k \in DOMAIN s}
Veces(s, p) == Cardinality({k \in DOMAIN s : s[k] = p})

\* recibir_dispatch holds a PCB it has not handled yet.
ConDesalojo == despacho.en \in {"compuerta", "manejar"}

Listos == Len(colaReady) + Len(colaReadyPlus)

MotivosDesalojo == {"OPERACION_IO", "END_PROCESS", "OUT_OF_MEMORY", "FIN_CLOCK"}

Respuestas == {"CREAR_PROCESO", "END_PROCESS"}
Desalojos == [pid : Pids, motivo : MotivosDesalojo, interfaz : Interfaces \cup {NULO}]
Pedidos == [instruccion_en_cola : Nat, binario_io_libre : Nat]

TiposConsola ==
  /\ creados \subseteq Pids /\ terminados \subseteq Pids /\ sistema \subseteq Pids
  /\ consola \in [en : {"libre", "memoria", "registrar"}, pid : Pids \cup {NULO}]
  /\ detenida \in BOOLEAN /\ detenciones \in 0..MAX_DETENCIONES
  /\ respuestas \in Seq(Respuestas)

TiposColas ==
  /\ colaNew \in Seq(Pids) /\ colaReady \in Seq(Pids) /\ colaReadyPlus \in Seq(Pids)
  /\ colaExit \in Seq(Pids) /\ bloqueados \subseteq Pids

TiposHilos ==
  /\ creacion \in [en : {"esperar", "compuerta", "grado", "agregar"}, pid : Pids \cup {NULO}]
  /\ corto \in {"esperar", "cpu", "compuerta", "elegir"}
  /\ eliminacion \in [en : {"esperar", "compuerta", "sacar", "memoria", "muerto"},
                      pid : Pids \cup {NULO}, listado : SUBSET Pids]

TiposCpu ==
  /\ despacho \in [en : {"esperar", "compuerta", "manejar", "liberar"},
                   pid : Pids \cup {NULO},
                   motivo : MotivosDesalojo \cup {"ninguno"},
                   interfaz : Interfaces \cup {NULO}]
  /\ aCpu \in Seq(Pids) /\ perdidos \in Seq(Pids)
  /\ desalojos \in Seq(Desalojos)
  /\ sinMemoria \in BOOLEAN

TiposIo ==
  /\ io \in [Interfaces -> [en : {"esperar", "operando", "compuerta", "completar"},
                            pid : Pids \cup {NULO}]]
  /\ colaIo \in [Interfaces -> Seq(Pids)]
  /\ semIo \in [Interfaces -> Pedidos]

TypeOK ==
  /\ TiposConsola /\ TiposColas /\ TiposHilos /\ TiposCpu /\ TiposIo
  /\ sem \in [Semaforos -> Nat]

\* cpu_libre is one token that exists once: free, taken by the short-term
\* scheduler, or in the hands of the PCB that went to the CPU and is not
\* handled yet.  Two processes are never dispatched at a time, and an
\* eviction never frees the CPU twice.
TokenCpu ==
  sem["cpu_libre"] + Bit(corto \in {"compuerta", "elegir"}) + Len(aCpu) + Len(desalojos)
    + Bit(despacho.en # "esperar") + Len(perdidos) = 1

SemNuevo ==
  sem["hay_proceso_nuevo"] + Bit(creacion.en \in {"compuerta", "grado"}) = Len(colaNew)
SemReady == sem["hay_proceso_a_ready"] + Bit(corto # "esperar") = Listos
SemExit ==
  sem["hay_proceso_exit"] + Bit(eliminacion.en \in {"compuerta", "sacar"}) = Len(colaExit)
SemInterfaz(i) ==
  /\ semIo[i].instruccion_en_cola = Len(colaIo[i])
  /\ semIo[i].binario_io_libre = Bit(io[i].en = "esperar")

\* Each counting semaphore equals the length of its queue, less the thread
\* that passed it and has not popped yet: queue_pop never meets an empty
\* queue, and no queued process is forgotten by its semaphore.
SemaforosExactos == SemNuevo /\ SemReady /\ SemExit /\ \A i \in Interfaces : SemInterfaz(i)

\* The degree of multiprogramming is neither exceeded nor leaked: every slot
\* is free or belongs to exactly one process between READY and its end.
GradoExacto ==
  sem["grado_multi"] + Bit(creacion.en = "agregar") + Listos + Len(aCpu) + Len(desalojos)
    + Bit(ConDesalojo) + Len(perdidos) + Cardinality(bloqueados) + Len(colaExit)
    + Bit(eliminacion.en \in {"memoria", "muerto"}) = GRADO_MULTIPROGRAMACION

\* A process that entered the system is in exactly one place, whatever the
\* threads that move it interleave, until it is destroyed.
UnaSolaCola ==
  \A p \in Pids :
    Veces(colaNew, p) + Veces(colaReady, p) + Veces(colaReadyPlus, p) + Veces(colaExit, p)
    + Veces(aCpu, p) + Cardinality({k \in DOMAIN desalojos : desalojos[k].pid = p})
    + Veces(perdidos, p) + Bit(p \in bloqueados) + Bit(creacion.pid = p)
    + Bit(despacho.pid = p) + Bit(eliminacion.pid = p) + Bit(p \in terminados)
    = Bit(p \in creados)

\* INICIAR_PLANIFICACION leaves a post for every thread it finds at its gate:
\* none that read planificacion_detenida too early stays there.
Abierta(lugar, compuerta) == ~detenida /\ lugar = "compuerta" => sem[compuerta] > 0
CompuertasAbiertas ==
  /\ Abierta(creacion.en, "podes_crear_procesos")
  /\ Abierta(corto, "podes_planificar_corto_plazo")
  /\ Abierta(despacho.en, "podes_manejar_desalojo")
  /\ Abierta(eliminacion.en, "podes_eliminar_procesos")

\* The state of a process in the diagram of five states.
Estado(p) ==
  CASE p \notin creados -> "NADA"
    [] p \in terminados -> "FIN"
    [] p \in Elementos(colaNew) \cup {creacion.pid} -> "NEW"
    [] p \in Elementos(colaReady) \cup Elementos(colaReadyPlus) -> "READY"
    [] p \in bloqueados -> "BLOCKED"
    [] p \in Elementos(colaExit) \cup {eliminacion.pid} -> "EXIT"
    [] OTHER -> "EXEC"

Estados == [p \in Pids |-> Estado(p)]

Ciclo == INSTANCE CicloDeVida WITH GRADO <- GRADO_MULTIPROGRAMACION, estado <- Estados

\* The threads and semaphores implement the diagram of five states.
CicloSpec == Ciclo!Spec

\* A process in READY reaches the CPU (FIFO and RR, nothing detained), unless
\* the CPU is mute after a RESIZE that failed.
LlegaACpu ==
  \A p \in Pids : p \in Elementos(colaReady) ~> (p \in Elementos(aCpu) \/ sinMemoria)

\* The first process in NEW is admitted once a slot is free.
SeAdmite ==
  \A p \in Pids :
    (colaNew # <<>> /\ Head(colaNew) = p /\ sem["grado_multi"] > 0)
      ~> p \notin Elementos(colaNew)

\* A process in EXIT is destroyed, unless the thread that does it has died
\* of the answer it did not expect.
SeElimina ==
  \A p \in Pids : p \in Elementos(colaExit) ~> (p \in terminados \/ eliminacion.en = "muerto")

-----------------------------------------------------------------------------
(* What the documents say and the code does not do.                        *)

\* eliminacion_de_procesos survives whatever the console does meanwhile.
EliminacionViva == eliminacion.en # "muerto"

\* While planning is detained no process goes to the CPU through the gate.
PausaRespetada == [][detenida /\ corto = "compuerta" => corto' = "compuerta"]_vars
=============================================================================
