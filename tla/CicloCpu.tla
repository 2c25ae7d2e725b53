------------------------------ MODULE CicloCpu ------------------------------
(***************************************************************************)
(* The instruction cycle of the CPU (cpu/src/main.c) composed with the     *)
(* threads of the kernel that it talks to: the short-term scheduler, the   *)
(* quantum timer, recibir_dispatch and the console that finalizes the      *)
(* process in execution.  Three connections join them: PCBs and answers to *)
(* WAIT and SIGNAL go to the CPU, evictions come back, interrupts go on a  *)
(* socket and to a thread of their own.                                    *)
(*                                                                         *)
(* An instruction is what it does to the flags that end the cycle and what *)
(* it sends; registers and memory are in module Traduccion.  RR and VRR    *)
(* have the same timer: how much quantum is left is not kept.              *)
(*                                                                         *)
(* "quiebre" records that kernel and CPU lost track of a PCB: the CPU      *)
(* answered for it twice, or answered KILL_PROCESS with another one, or    *)
(* the console was answered after it had left.  The model stops there.     *)
(***************************************************************************)
EXTENDS Integers, Sequences, FiniteSets

CONSTANTS Pids, NULO,
          ALGORITMO,          \* ALGORITMO_PLANIFICACION
          Instrucciones,      \* the kinds of instructions that programs have
          MAX_INTERRUPCIONES, \* bound: interrupts in the socket
          MAX_ARRANQUES,      \* bound: arrancar_quantum
          MAX_FINALIZAR       \* bound: FINALIZAR_PROCESO commands

ASSUME NuloAssumption == NULO \notin Pids
ASSUME AlgoritmoAssumption == ALGORITMO \in {"FIFO", "RR", "VRR"}
ASSUME InstruccionesAssumption ==
  Instrucciones \subseteq {"CALCULO", "IO", "EXIT", "WAIT", "SIGNAL", "RESIZE"}
ASSUME CotasAssumption ==
  MAX_INTERRUPCIONES \in Nat /\ MAX_ARRANQUES \in Nat /\ MAX_FINALIZAR \in Nat

VARIABLES
  estado,        \* estado_actual of each process
  listos,        \* cola_procesos_ready
  cpu_libre,     \* semaphore
  corto,         \* where the short-term scheduler is
  en_ejecucion,  \* pcb_en_ejecucion
  arrancar,      \* semaphore arrancar_quantum
  reloj,         \* where the timer is
  flag_cpu_libre,
  desalojos,     \* what the CPU sent on the dispatch connection
  tareas,        \* what recibir_dispatch has left to do for one eviction
  consola,       \* where the console is, and whom it finalizes
  loko,          \* semaphore podes_eliminar_loko
  finalizados,   \* FINALIZAR_PROCESO commands so far
  aCpu,          \* PCBs and answers sent to the CPU
  canal,         \* interrupts sent to the CPU
  interrupcion,  \* interrupcion_recibida
  cpu,           \* where the dispatch thread of the CPU is, and its PCB
  banderas,      \* the flags that end the cycle
  quiebre, tardio \* history

varsPlan     == <<estado, listos, cpu_libre, corto, en_ejecucion>>
varsReloj    == <<arrancar, reloj, flag_cpu_libre>>
varsDespacho == <<desalojos, tareas>>
varsConsola  == <<consola, loko, finalizados>>
varsCpu      == <<aCpu, cpu, banderas>>
varsInt      == <<canal, interrupcion>>
historia     == <<quiebre, tardio>>
vars == <<varsPlan, varsReloj, varsDespacho, varsConsola, varsCpu, varsInt, historia>>

Mensaje(tipo, p) == [tipo |-> tipo, pid |-> p]
Ninguna == {}

\* The flags, by the name of their variable.
Banderas == {"interruption", "end_process", "input_output", "bloqueado", "out_of_memory"}

Init ==
  /\ estado = [p \in Pids |-> "NEW"] /\ listos = <<>> /\ cpu_libre = 1
  /\ corto = "esperar" /\ en_ejecucion = NULO
  /\ arrancar = 0 /\ reloj = "esperar" /\ flag_cpu_libre = 0
  /\ desalojos = <<>> /\ tareas = <<>>
  /\ consola = [en |-> "libre", pid |-> NULO, vigente |-> TRUE]
  /\ loko = 0 /\ finalizados = 0
  /\ aCpu = <<>> /\ canal = <<>> /\ interrupcion = Mensaje("ninguna", NULO)
  /\ cpu = [en |-> "libre", pid |-> NULO, respondio |-> FALSE]
  /\ banderas = Ninguna
  /\ quiebre = FALSE /\ tardio = FALSE

-----------------------------------------------------------------------------
(* The kernel: short-term scheduler and what makes a process ready.        *)

\* The PCB that the console holds is replaced when its process changes state.
Cambiar(p, e) ==
  /\ estado' = [estado EXCEPT ![p] = e]
  /\ consola' = IF consola.pid = p THEN [consola EXCEPT !.vigente = FALSE] ELSE consola

\* A process is admitted, or comes back from an interface or a resource.
ALaCola(p) ==
  /\ estado[p] \in {"NEW", "BLOCKED"}
  /\ Cambiar(p, "READY")
  /\ listos' = Append(listos, p)
  /\ UNCHANGED <<cpu_libre, corto, en_ejecucion, varsReloj, varsDespacho, loko, finalizados,
                 varsCpu, varsInt, historia>>

\* ejecutar_PCB: pcb_en_ejecucion first, then the PCB goes out.
Despachar ==
  /\ corto = "esperar" /\ arrancar < MAX_ARRANQUES
  /\ listos # <<>> /\ cpu_libre > 0
  /\ cpu_libre' = cpu_libre - 1
  /\ listos' = Tail(listos)
  /\ Cambiar(Head(listos), "EXEC")
  /\ en_ejecucion' = Head(listos)
  /\ aCpu' = Append(aCpu, Mensaje("PCB", Head(listos)))
  /\ corto' = IF ALGORITMO = "FIFO" THEN "esperar" ELSE "arrancar"
  /\ UNCHANGED <<varsReloj, varsDespacho, loko, finalizados, cpu, banderas, varsInt, historia>>

\* RR and VRR.
ArrancarQuantum ==
  /\ corto = "arrancar"
  /\ arrancar' = arrancar + 1
  /\ corto' = "esperar"
  /\ UNCHANGED <<estado, listos, cpu_libre, en_ejecucion, reloj, flag_cpu_libre, varsDespacho,
                 varsConsola, varsCpu, varsInt, historia>>

-----------------------------------------------------------------------------
(* verificar_quantum, verificar_quantum_vrr.                               *)

RelojSolo == UNCHANGED <<varsPlan, varsDespacho, varsConsola, varsCpu, interrupcion, historia>>

TomarArranque ==
  /\ reloj = "esperar" /\ arrancar > 0
  /\ arrancar' = arrancar - 1
  /\ flag_cpu_libre' = 0
  /\ reloj' = "contar"
  /\ UNCHANGED canal
  /\ RelojSolo

CpuLibreATiempo ==
  /\ reloj = "contar" /\ flag_cpu_libre = 1
  /\ flag_cpu_libre' = 0
  /\ reloj' = "esperar"
  /\ UNCHANGED <<arrancar, canal>>
  /\ RelojSolo

\* Whoever is in execution now, not when the timer started.
Vencer ==
  /\ reloj = "contar" /\ flag_cpu_libre = 0
  /\ Len(canal) < MAX_INTERRUPCIONES
  /\ canal' = Append(canal, Mensaje("FIN_CLOCK", en_ejecucion))
  /\ reloj' = "esperar"
  /\ UNCHANGED <<arrancar, flag_cpu_libre>>
  /\ RelojSolo

-----------------------------------------------------------------------------
(* recibir_dispatch: the order of what each reason makes it do.            *)

Pasos(p, tipos) == [k \in DOMAIN tipos |-> Mensaje(tipos[k], p)]

\* Fault: the CPU is freed before the timer is told.
DesalojoFinDeQuantumAlReves(p) == Pasos(p, <<"listar", "soltar", "avisar">>)
DesalojoFinDeQuantum(p) == Pasos(p, <<"listar", "avisar", "soltar">>)

\* Fault: a process that gets the resource frees the CPU too.
DesalojoConRecursoDeMas(p) == Pasos(p, <<"RESOURCE_OK", "soltar">>)
DesalojoConRecurso(p) == Pasos(p, <<"RESOURCE_OK">>)

DesalojoIo(p) == {Pasos(p, <<"avisar", "bloquear", "soltar">>),
                  Pasos(p, <<"avisar", "finalizar", "soltar">>)}
DesalojoWait(p) == {DesalojoConRecurso(p),
                    Pasos(p, <<"RESOURCE_BLOCKED", "bloquear", "avisar", "soltar">>),
                    Pasos(p, <<"RESOURCE_FAIL", "avisar", "soltar", "finalizar">>)}
DesalojoSignal(p) == {DesalojoConRecurso(p),
                      Pasos(p, <<"RESOURCE_FAIL", "finalizar", "avisar", "soltar">>)}

\* OUT_OF_MEMORY does not tell the timer; KILL_PROCESS leaves the CPU to the
\* console; a RESOURCE_BLOCKED that the CPU confirms is ignored.
TareasDe(p, motivo) ==
  CASE motivo = "OPERACION_IO"     -> DesalojoIo(p)
    [] motivo = "FIN_CLOCK"        -> {DesalojoFinDeQuantum(p)}
    [] motivo = "END_PROCESS"      -> {Pasos(p, <<"finalizar", "avisar", "soltar">>)}
    [] motivo = "WAIT"             -> DesalojoWait(p)
    [] motivo = "SIGNAL"           -> DesalojoSignal(p)
    [] motivo = "KILL_PROCESS"     -> {Pasos(p, <<"matar", "avisar_muerte">>)}
    [] motivo = "OUT_OF_MEMORY"    -> {Pasos(p, <<"finalizar", "soltar">>)}
    [] motivo = "RESOURCE_BLOCKED" -> {<<>>}

Recibir ==
  /\ tareas = <<>> /\ desalojos # <<>>
  /\ tareas' \in TareasDe(Head(desalojos).pid, Head(desalojos).tipo)
  /\ desalojos' = Tail(desalojos)
  /\ UNCHANGED <<varsPlan, varsReloj, varsConsola, varsCpu, varsInt, historia>>

Tarea(tipos) == tareas # <<>> /\ Head(tareas).tipo \in tipos /\ tareas' = Tail(tareas)
DeTarea == Head(tareas).pid

\* After a kill, the console may already have freed the CPU for another one.
OtroEnExec(p) == \E q \in Pids \ {p} : estado[q] = "EXEC"

Avisar ==
  /\ Tarea({"avisar", "avisar_muerte"})
  /\ flag_cpu_libre' = 1
  /\ tardio' = (tardio \/ (Head(tareas).tipo = "avisar_muerte" /\ OtroEnExec(DeTarea)))
  /\ UNCHANGED <<varsPlan, arrancar, reloj, desalojos, varsConsola, varsCpu, varsInt, quiebre>>

Soltar ==
  /\ Tarea({"soltar"})
  /\ cpu_libre' = cpu_libre + 1
  /\ UNCHANGED <<estado, listos, corto, en_ejecucion, varsReloj, desalojos, varsConsola, varsCpu,
                 varsInt, historia>>

Listar ==
  /\ Tarea({"listar"})
  /\ Cambiar(DeTarea, "READY")
  /\ listos' = Append(listos, DeTarea)
  /\ UNCHANGED <<cpu_libre, corto, en_ejecucion, varsReloj, desalojos, loko, finalizados, varsCpu,
                 varsInt, historia>>

\* bloquear_pcb, finalizar_pcb.
Retirar ==
  /\ Tarea({"bloquear", "finalizar"})
  /\ Cambiar(DeTarea, IF Head(tareas).tipo = "bloquear" THEN "BLOCKED" ELSE "EXIT")
  /\ UNCHANGED <<listos, cpu_libre, corto, en_ejecucion, varsReloj, desalojos, loko, finalizados,
                 varsCpu, varsInt, historia>>

Responder ==
  /\ Tarea({"RESOURCE_OK", "RESOURCE_BLOCKED", "RESOURCE_FAIL"})
  /\ aCpu' = Append(aCpu, Head(tareas))
  /\ UNCHANGED <<varsPlan, varsReloj, desalojos, varsConsola, cpu, banderas, varsInt, historia>>

\* Fault: podes_eliminar_loko is not posted.
MatarSinAvisar ==
  /\ Tarea({"matar"})
  /\ UNCHANGED <<varsPlan, varsReloj, desalojos, varsConsola, varsCpu, varsInt, historia>>
Matar ==
  /\ Tarea({"matar"})
  /\ loko' = loko + 1
  /\ UNCHANGED <<varsPlan, varsReloj, desalojos, consola, finalizados, varsCpu, varsInt, historia>>

-----------------------------------------------------------------------------
(* FINALIZAR_PROCESO of a process whose state is EXEC.                     *)

Finalizar(p) ==
  /\ consola.en = "libre" /\ finalizados < MAX_FINALIZAR
  /\ estado[p] = "EXEC"
  /\ Len(canal) < MAX_INTERRUPCIONES
  /\ canal' = Append(canal, Mensaje("KILL_PROCESS", p))
  /\ consola' = [en |-> "esperar", pid |-> p, vigente |-> TRUE]
  /\ finalizados' = finalizados + 1
  /\ UNCHANGED <<varsPlan, varsReloj, varsDespacho, loko, varsCpu, interrupcion, historia>>

\* The PCB it holds was freed if the process changed state meanwhile.
Finalizado ==
  /\ consola.en = "esperar" /\ loko > 0
  /\ loko' = loko - 1
  /\ estado' = [estado EXCEPT ![consola.pid] = "EXIT"]
  /\ cpu_libre' = cpu_libre + 1
  /\ consola' = [consola EXCEPT !.en = "avisar"]
  /\ quiebre' = (quiebre \/ ~consola.vigente)
  /\ UNCHANGED <<listos, corto, en_ejecucion, varsReloj, varsDespacho, finalizados, varsCpu,
                 varsInt, tardio>>

\* The timer is told after the CPU was freed: another process may have it.
AvisarFinalizado ==
  /\ consola.en = "avisar"
  /\ flag_cpu_libre' = 1
  /\ consola' = [en |-> "libre", pid |-> NULO, vigente |-> TRUE]
  /\ tardio' = (tardio \/ OtroEnExec(consola.pid))
  /\ UNCHANGED <<varsPlan, arrancar, reloj, varsDespacho, loko, finalizados, varsCpu, varsInt,
                 quiebre>>

-----------------------------------------------------------------------------
(* The CPU: interrupts and PCBs arrive.                                    *)

CpuSola == UNCHANGED <<varsPlan, varsReloj, tareas, varsConsola, tardio>>

\* interrupcion_recibida keeps the last one, and is never cleared.
RecibirInterrupcion ==
  /\ canal # <<>>
  /\ interrupcion' = Head(canal)
  /\ canal' = Tail(canal)
  /\ UNCHANGED <<varsCpu, desalojos, quiebre>>
  /\ CpuSola

\* Fault: != for ==.
CheckInterruptDeOtro(p) == interrupcion.pid # p
CheckInterrupt(p) == interrupcion.tipo # "ninguna" /\ interrupcion.pid = p

\* Fault: a cycle ends without check_interrupt.
SinInterrupcion(b, p) == b
\* A cycle ends with check_interrupt.
ConInterrupcion(b, p) == IF CheckInterrupt(p) THEN b \cup {"interruption"} ELSE b

TomarPcb ==
  /\ cpu.en = "libre"
  /\ aCpu # <<>> /\ Head(aCpu).tipo = "PCB"
  /\ cpu' = [en |-> "ciclo", pid |-> Head(aCpu).pid, respondio |-> FALSE]
  /\ aCpu' = Tail(aCpu)
  /\ banderas' = banderas \ {"input_output"}
  /\ UNCHANGED <<varsInt, desalojos, quiebre>>
  /\ CpuSola

EnCiclo(instruccion) ==
  cpu.en = "ciclo" /\ banderas = Ninguna /\ instruccion \in Instrucciones

Enviar(tipo) == desalojos' = Append(desalojos, Mensaje(tipo, cpu.pid))

\* SET, SUM, MOV_IN, a RESIZE that succeeds...
Calculo ==
  /\ EnCiclo("CALCULO")
  /\ banderas' = ConInterrupcion({}, cpu.pid)
  /\ UNCHANGED <<aCpu, cpu, varsInt, desalojos, quiebre>>
  /\ CpuSola

Exit ==
  /\ EnCiclo("EXIT")
  /\ banderas' = ConInterrupcion({"end_process"}, cpu.pid)
  /\ UNCHANGED <<aCpu, cpu, varsInt, desalojos, quiebre>>
  /\ CpuSola

OperacionIo ==
  /\ EnCiclo("IO")
  /\ Enviar("OPERACION_IO")
  /\ banderas' = ConInterrupcion({"input_output"}, cpu.pid)
  /\ UNCHANGED <<aCpu, cpu, varsInt, quiebre>>
  /\ CpuSola

ResizeFalla ==
  /\ EnCiclo("RESIZE")
  /\ Enviar("OUT_OF_MEMORY")
  /\ cpu' = [cpu EXCEPT !.respondio = TRUE]
  /\ banderas' = ConInterrupcion({"out_of_memory"}, cpu.pid)
  /\ UNCHANGED <<aCpu, varsInt, quiebre>>
  /\ CpuSola

PedirRecurso(instruccion) ==
  /\ EnCiclo(instruccion)
  /\ Enviar(instruccion)
  /\ cpu' = [cpu EXCEPT !.en = "recurso"]
  /\ UNCHANGED <<aCpu, banderas, varsInt, quiebre>>
  /\ CpuSola

LeerRespuesta ==
  /\ cpu.en = "recurso" /\ aCpu # <<>>
  /\ LET r == Head(aCpu).tipo
     IN /\ cpu' = [cpu EXCEPT !.en = "ciclo", !.respondio = (r # "RESOURCE_OK")]
        /\ banderas' = ConInterrupcion(CASE r = "RESOURCE_FAIL" -> {"end_process"}
                                         [] r = "RESOURCE_BLOCKED" -> {"bloqueado"}
                                         [] OTHER -> {}, cpu.pid)
  /\ aCpu' = Tail(aCpu)
  /\ UNCHANGED <<varsInt, desalojos, quiebre>>
  /\ CpuSola

-----------------------------------------------------------------------------
(* comenzar_proceso, once a flag ends the cycle.                           *)

Terminar(enviados, quedan, roto) ==
  /\ cpu.en = "ciclo" /\ banderas # Ninguna
  /\ desalojos' = desalojos \o enviados
  /\ banderas' = quedan
  /\ cpu' = [en |-> "libre", pid |-> NULO, respondio |-> FALSE]
  /\ quiebre' = (quiebre \/ roto)
  /\ UNCHANGED <<aCpu, varsInt>>
  /\ CpuSola

TerminarFin ==
  /\ "end_process" \in banderas
  /\ Terminar(<<Mensaje("END_PROCESS", cpu.pid)>>, banderas \ {"end_process", "interruption"},
              cpu.respondio)

\* accion_interrupt answers with the reason of the last interrupt received,
\* and RESOURCE_BLOCKED may follow.
AccionInterrupt ==
  /\ "end_process" \notin banderas
  /\ "interruption" \in banderas /\ "input_output" \notin banderas
  /\ Terminar(<<Mensaje(interrupcion.tipo, cpu.pid)>>
                \o (IF "bloqueado" \in banderas
                    THEN <<Mensaje("RESOURCE_BLOCKED", cpu.pid)>> ELSE <<>>),
              banderas \ {"interruption", "bloqueado"},
              \/ cpu.respondio
              \/ interrupcion.tipo = "KILL_PROCESS" /\ interrupcion.pid # cpu.pid)

\* After an I/O instruction the interrupt stays for the next PCB.
TerminarCallado ==
  /\ "end_process" \notin banderas
  /\ ~("interruption" \in banderas /\ "input_output" \notin banderas)
  /\ Terminar(IF "bloqueado" \in banderas
              THEN <<Mensaje("RESOURCE_BLOCKED", cpu.pid)>> ELSE <<>>,
              banderas \ {"input_output", "bloqueado"}, FALSE)

-----------------------------------------------------------------------------
HiloCorto == Despachar \/ ArrancarQuantum
HiloReloj == TomarArranque \/ CpuLibreATiempo \/ Vencer
HiloDespacho == Recibir \/ Avisar \/ Soltar \/ Listar \/ Retirar \/ Responder \/ Matar
HiloConsola == Finalizado \/ AvisarFinalizado
Ciclo == Calculo \/ Exit \/ OperacionIo \/ ResizeFalla \/ PedirRecurso("WAIT")
         \/ PedirRecurso("SIGNAL") \/ LeerRespuesta
HiloCpu == TomarPcb \/ Ciclo \/ TerminarFin \/ AccionInterrupt \/ TerminarCallado

Next ==
  /\ ~quiebre
  /\ \/ \E p \in Pids : ALaCola(p) \/ Finalizar(p)
     \/ HiloCorto \/ HiloReloj \/ HiloDespacho \/ HiloConsola
     \/ RecibirInterrupcion \/ HiloCpu

Spec == Init /\ [][Next]_vars

\* The operating system keeps running every thread of the kernel and the CPU
\* that can run.  Users and interfaces need not do anything.
FairSpec ==
  /\ Spec
  /\ WF_vars(~quiebre /\ HiloCorto) /\ WF_vars(~quiebre /\ HiloReloj)
  /\ WF_vars(~quiebre /\ HiloDespacho) /\ WF_vars(~quiebre /\ HiloConsola)
  /\ WF_vars(~quiebre /\ RecibirInterrupcion) /\ WF_vars(~quiebre /\ HiloCpu)

-----------------------------------------------------------------------------
Bit(b) == IF b THEN 1 ELSE 0
Hay(tipos) == \E k \in DOMAIN tareas : tareas[k].tipo \in tipos

Estados == {"NEW", "READY", "EXEC", "BLOCKED", "EXIT"}
Motivos == {"OPERACION_IO", "FIN_CLOCK", "END_PROCESS", "WAIT", "SIGNAL", "KILL_PROCESS",
            "OUT_OF_MEMORY", "RESOURCE_BLOCKED"}
Respuestas == {"RESOURCE_OK", "RESOURCE_BLOCKED", "RESOURCE_FAIL"}
Interrupciones == [tipo : {"FIN_CLOCK", "KILL_PROCESS"}, pid : Pids]

TypeOK ==
  /\ estado \in [Pids -> Estados] /\ listos \in Seq(Pids)
  /\ cpu_libre \in Nat /\ corto \in {"esperar", "arrancar"} /\ en_ejecucion \in Pids \cup {NULO}
  /\ arrancar \in 0..MAX_ARRANQUES /\ reloj \in {"esperar", "contar"} /\ flag_cpu_libre \in {0, 1}
  /\ desalojos \in Seq([tipo : Motivos, pid : Pids])
  /\ tareas \in Seq([tipo : Respuestas \cup {"avisar", "avisar_muerte", "soltar", "listar",
                                             "bloquear", "finalizar", "matar"}, pid : Pids])
  /\ consola \in [en : {"libre", "esperar", "avisar"}, pid : Pids \cup {NULO}, vigente : BOOLEAN]
  /\ loko \in Nat /\ finalizados \in 0..MAX_FINALIZAR
  /\ aCpu \in Seq([tipo : Respuestas \cup {"PCB"}, pid : Pids])
  /\ canal \in Seq(Interrupciones)
  /\ interrupcion \in Interrupciones \cup {Mensaje("ninguna", NULO)}
  /\ cpu \in [en : {"libre", "ciclo", "recurso"}, pid : Pids \cup {NULO}, respondio : BOOLEAN]
  /\ banderas \subseteq Banderas /\ quiebre \in BOOLEAN /\ tardio \in BOOLEAN

Ejecuta(p) == cpu.en = "ciclo" /\ cpu.pid = p /\ banderas = Ninguna
EnExec == {p \in Pids : estado[p] = "EXEC"}
CambiaEstado == Hay({"listar", "bloquear", "finalizar"})

\* The CPU is free, or one process has it, or recibir_dispatch is between the
\* change of state and the post, in whichever order the reason has them:
\* until the CPU answers twice for a PCB, nobody is dispatched to a CPU that
\* is taken.  And only the process that the kernel has in EXEC executes, even
\* though evictions, answers and PCBs cross on the dispatch connection.
TokenCpu ==
  ~quiebre =>
    /\ cpu_libre + Cardinality(EnExec)
         + Bit(Hay({"soltar"}) /\ ~CambiaEstado)
         - Bit(CambiaEstado /\ ~Hay({"soltar"}) /\ ~Hay({"listar"})) = 1
    /\ \A p \in Pids : Ejecuta(p) => estado[p] = "EXEC" /\ en_ejecucion = p

\* Under RR and VRR a process that executes is always watched: its post of
\* arrancar_quantum is due, the timer is counting, or an interrupt for it is
\* on its way.  Unless the console told the timer too late (tardio).
QuantumCubierto ==
  ~quiebre /\ ~tardio /\ ALGORITMO # "FIFO" =>
    \A p \in Pids : Ejecuta(p) =>
      \/ corto = "arrancar" \/ arrancar > 0
      \/ reloj = "contar" /\ flag_cpu_libre = 0
      \/ CheckInterrupt(p) \/ \E k \in DOMAIN canal : canal[k].pid = p

\* The CPU is mute: it takes PCBs and never answers.
Muda == "out_of_memory" \in banderas

\* Under RR and VRR a process in EXEC leaves it, even if its program computes
\* for ever: while the CPU is not mute and the console was not late.
DejaLaCpu ==
  \A p \in Pids : estado[p] = "EXEC" ~> (estado[p] # "EXEC" \/ quiebre \/ tardio \/ Muda)

\* FINALIZAR_PROCESO of the process in EXEC ends, whichever interrupt of the
\* timer crosses its own, unless the process leaves EXEC by itself first.
ConsolaRespondida ==
  consola.en = "esperar" ~> (consola.en # "esperar" \/ ~consola.vigente \/ quiebre \/ Muda)
=============================================================================
