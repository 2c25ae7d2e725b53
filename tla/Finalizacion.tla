---------------------------- MODULE Finalizacion ----------------------------
(***************************************************************************)
(* The commands FINALIZAR_PROCESO and MULTIPROGRAMACION of the kernel's    *)
(* console (consola.c), run against the threads whose queues, semaphores   *)
(* and counters they change behind their backs: creacion_de_procesos,      *)
(* eliminacion_de_procesos, the short-term scheduler, recibir_dispatch and *)
(* the thread of an interface.  FIFO and RR, whose cola_ready_plus stays   *)
(* empty; planning is not paused (module Planificador has the gates).      *)
(*                                                                         *)
(* The console takes a process out of a queue and then waits for the post  *)
(* that was made for it, with the mutex of the queue taken: whoever pops   *)
(* waits for it, and whoever pushes copies the mutex (pcb.c:20) as it is,  *)
(* taken, and waits on the copy for ever ("trabado").                      *)
(*                                                                         *)
(* "quiebre" names the mistake after which the program uses freed memory   *)
(* or a wrong counter; the model stops there.  The process                 *)
(* changed state since the console read it ("movido"), it was being        *)
(* eliminated already ("terminado"), procesos_en_sistema shifted under an  *)
(* index ("corrido"), flag_grado_multi went below 0 ("carrera").           *)
(***************************************************************************)
EXTENDS Integers, Sequences, FiniteSets, SequencesExt

CONSTANTS MAX_PIDS,       \* bound: INICIAR_PROCESO commands
          GRADO_MULTIPROGRAMACION,
          Grados,         \* what MULTIPROGRAMACION is asked for
          MAX_FINALIZAR,  \* bound: FINALIZAR_PROCESO commands
          MAX_GRADOS      \* bound: MULTIPROGRAMACION commands

ASSUME GradoAssumption == GRADO_MULTIPROGRAMACION \in Nat /\ Grados \subseteq Nat
ASSUME CotasAssumption == {MAX_PIDS, MAX_FINALIZAR, MAX_GRADOS} \subseteq Nat

Pids == 0 .. MAX_PIDS - 1
NULO == -1

VARIABLES
  estado,      \* estado_actual; "NADA" before it is created, "FIN" when it is gone
  nuevos, listos, salida,             \* cola_procesos_new, _ready, _exit
  bloqueados,                         \* lista_procesos_blocked
  sistema,                            \* procesos_en_sistema
  hay_nuevo, hay_ready, hay_exit, cpu_libre, grado_multi, \* semaphores
  grado_multiprogramacion, flag_grado_multi,
  hilo,        \* the threads that push to cola_procesos_ready, and with which PCB
  corto,       \* where the short-term scheduler is
  elim,        \* where eliminacion_de_procesos is
  consola,     \* where the console is
  finalizados, cambios,               \* commands so far
  pisado, quiebre                     \* history

procesos  == <<estado, nuevos, listos, salida, bloqueados, sistema>>
semaforos == <<hay_nuevo, hay_ready, hay_exit, cpu_libre>>
grado     == <<grado_multi, grado_multiprogramacion, flag_grado_multi>>
cuenta    == <<finalizados, cambios, pisado>>
vars == <<procesos, semaforos, grado, hilo, corto, elim, consola, cuenta, quiebre>>

Hilos == {"creacion", "despacho", "interfaz"}
Quieto == [en |-> "esperar", pid |-> NULO]
ElimLibre == [en |-> "esperar", pid |-> NULO, indice |-> 0]
ConsolaLibre == [en |-> "libre", pid |-> NULO, indice |-> 0, caso |-> "NADA", esperas |-> 0, resto |-> 0]

Init ==
  /\ estado = [p \in Pids |-> "NADA"]
  /\ nuevos = <<>> /\ listos = <<>> /\ salida = <<>> /\ bloqueados = {} /\ sistema = <<>>
  /\ hay_nuevo = 0 /\ hay_ready = 0 /\ hay_exit = 0 /\ cpu_libre = 1
  /\ grado_multi = GRADO_MULTIPROGRAMACION
  /\ grado_multiprogramacion = GRADO_MULTIPROGRAMACION /\ flag_grado_multi = 0
  /\ hilo = [h \in Hilos |-> Quieto]
  /\ corto = "esperar" /\ elim = ElimLibre /\ consola = ConsolaLibre
  /\ finalizados = 0 /\ cambios = 0 /\ pisado = FALSE /\ quiebre = "no"

\* The console keeps the mutex of the queue while it waits for the post.
MutexNuevosTomado == consola.en = "esperarNuevo"
MutexListosTomado ==
  \/ consola.en = "esperarListo"
  \/ consola.caso = "READY" /\ consola.en \in {"ver", "sumar", "restar"}

-----------------------------------------------------------------------------
(* Processes come in and become ready.                                     *)

\* Pids are given out in order.
contador_pid == Cardinality({p \in Pids : estado[p] # "NADA"})

Iniciar(p) ==
  /\ consola.en = "libre" /\ p = contador_pid
  /\ estado' = [estado EXCEPT ![p] = "NEW"]
  /\ nuevos' = Append(nuevos, p) /\ hay_nuevo' = hay_nuevo + 1
  /\ sistema' = Append(sistema, p)
  /\ UNCHANGED <<listos, salida, bloqueados, hay_ready, hay_exit, cpu_libre, grado, hilo, corto,
                 elim, consola, cuenta, quiebre>>

Avanzar(h, en) == hilo' = [hilo EXCEPT ![h].en = en]

TomarNuevo ==
  /\ hilo["creacion"].en = "esperar" /\ hay_nuevo > 0
  /\ hay_nuevo' = hay_nuevo - 1
  /\ Avanzar("creacion", "cupo")
  /\ UNCHANGED <<procesos, hay_ready, hay_exit, cpu_libre, grado, corto, elim, consola, cuenta,
                 quiebre>>

TomarCupo ==
  /\ hilo["creacion"].en = "cupo" /\ grado_multi > 0
  /\ grado_multi' = grado_multi - 1
  /\ Avanzar("creacion", "sacar")
  /\ UNCHANGED <<procesos, semaforos, grado_multiprogramacion, flag_grado_multi, corto, elim,
                 consola, cuenta, quiebre>>

SacarNuevo ==
  /\ hilo["creacion"].en = "sacar" /\ ~MutexNuevosTomado
  /\ nuevos # <<>>
  /\ nuevos' = Tail(nuevos)
  /\ hilo' = [hilo EXCEPT !["creacion"] = [en |-> "poner", pid |-> Head(nuevos)]]
  /\ UNCHANGED <<estado, listos, salida, bloqueados, sistema, semaforos, grado, corto, elim,
                 consola, cuenta, quiebre>>

\* set_add_pcb_cola(pcb, READY, cola_procesos_ready, mutex_cola_de_readys)
PonerListo(h) ==
  /\ hilo[h].en = "poner"
  /\ estado' = [estado EXCEPT ![hilo[h].pid] = "READY"]
  /\ IF MutexListosTomado THEN Avanzar(h, "trabado") /\ UNCHANGED listos
     ELSE Avanzar(h, "avisar") /\ listos' = Append(listos, hilo[h].pid)
  /\ UNCHANGED <<nuevos, salida, bloqueados, sistema, semaforos, grado, corto, elim, consola,
                 cuenta, quiebre>>

\* Fault: the thread of the interface does not post.
AvisarListoSinPost(h) ==
  /\ hilo[h].en = "avisar"
  /\ hay_ready' = IF h = "interfaz" THEN hay_ready ELSE hay_ready + 1
  /\ cpu_libre' = IF h = "despacho" THEN cpu_libre + 1 ELSE cpu_libre
  /\ hilo' = [hilo EXCEPT ![h] = Quieto]
  /\ UNCHANGED <<procesos, hay_nuevo, hay_exit, grado, corto, elim, consola, cuenta, quiebre>>

AvisarListo(h) ==
  /\ hilo[h].en = "avisar"
  /\ hay_ready' = hay_ready + 1
  /\ cpu_libre' = IF h = "despacho" THEN cpu_libre + 1 ELSE cpu_libre
  /\ hilo' = [hilo EXCEPT ![h] = Quieto]
  /\ UNCHANGED <<procesos, hay_nuevo, hay_exit, grado, corto, elim, consola, cuenta, quiebre>>

-----------------------------------------------------------------------------
(* The short-term scheduler, and how processes leave the CPU.              *)

TomarListo ==
  /\ corto = "esperar" /\ hay_ready > 0
  /\ hay_ready' = hay_ready - 1
  /\ corto' = "cpu"
  /\ UNCHANGED <<procesos, hay_nuevo, hay_exit, cpu_libre, grado, hilo, elim, consola, cuenta,
                 quiebre>>

TomarCpu ==
  /\ corto = "cpu" /\ cpu_libre > 0
  /\ cpu_libre' = cpu_libre - 1
  /\ corto' = "sacar"
  /\ UNCHANGED <<procesos, hay_nuevo, hay_ready, hay_exit, grado, hilo, elim, consola, cuenta,
                 quiebre>>

Despachar ==
  /\ corto = "sacar" /\ ~MutexListosTomado
  /\ listos # <<>>
  /\ listos' = Tail(listos)
  /\ estado' = [estado EXCEPT ![Head(listos)] = "EXEC"]
  /\ corto' = "esperar"
  /\ UNCHANGED <<nuevos, salida, bloqueados, sistema, semaforos, grado, hilo, elim, consola,
                 cuenta, quiebre>>

\* What the CPU has killed for the console keeps EXEC until it is destroyed.
EnCpu(p) ==
  /\ estado[p] = "EXEC"
  /\ ~(consola.pid = p /\ consola.caso = "EXEC" /\ consola.en # "esperarMuerte")

\* It leaves by itself, and frees the PCB that the console holds.
DejaLaCpu(p) ==
  /\ EnCpu(p) /\ hilo["despacho"] = Quieto
  /\ quiebre' = IF consola.pid = p /\ consola.caso = "EXEC" THEN "movido" ELSE "no"
  /\ UNCHANGED <<nuevos, listos, sistema, hay_nuevo, hay_ready, grado, corto, elim, consola,
                 cuenta>>

Desalojar(p) ==
  /\ DejaLaCpu(p)
  /\ hilo' = [hilo EXCEPT !["despacho"] = [en |-> "poner", pid |-> p]]
  /\ UNCHANGED <<estado, salida, bloqueados, hay_exit, cpu_libre>>

Bloquear(p) ==
  /\ DejaLaCpu(p)
  /\ estado' = [estado EXCEPT ![p] = "BLOCKED"]
  /\ bloqueados' = bloqueados \cup {p}
  /\ cpu_libre' = cpu_libre + 1
  /\ UNCHANGED <<salida, hay_exit, hilo>>

Terminar(p) ==
  /\ DejaLaCpu(p)
  /\ estado' = [estado EXCEPT ![p] = "EXIT"]
  /\ salida' = Append(salida, p) /\ hay_exit' = hay_exit + 1
  /\ cpu_libre' = cpu_libre + 1
  /\ UNCHANGED <<bloqueados, hilo>>

\* An interface or a resource lets it go on.
Desbloquear(p) ==
  /\ p \in bloqueados /\ hilo["interfaz"] = Quieto
  /\ bloqueados' = bloqueados \ {p}
  /\ hilo' = [hilo EXCEPT !["interfaz"] = [en |-> "poner", pid |-> p]]
  /\ UNCHANGED <<estado, nuevos, listos, salida, sistema, semaforos, grado, corto, elim, consola,
                 cuenta, quiebre>>

-----------------------------------------------------------------------------
(* Both the console and the elimination thread remove an entry of          *)
(* procesos_en_sistema by an index that they computed before, and give     *)
(* back a slot of the degree of multiprogramming in two steps.             *)

\* tener_index_pid
Indice(p) == CHOOSE i \in DOMAIN sistema : sistema[i] = p
Corrido(p, i) == ~(i \in DOMAIN sistema /\ sistema[i] = p)

\* Fault: the entry after it.
QuitarOtro(i) == sistema' = IF i + 1 \in DOMAIN sistema THEN RemoveAt(sistema, i + 1) ELSE sistema
QuitarDelSistema(i) == sistema' = IF i \in DOMAIN sistema THEN RemoveAt(sistema, i) ELSE sistema

VerCupo == IF flag_grado_multi = 0 THEN "sumar" ELSE "restar"

\* flag_grado_multi is unsigned: below 0 it is huge.
DarCupo(en) ==
  /\ en \in {"sumar", "restar"}
  /\ grado_multi' = IF en = "sumar" THEN grado_multi + 1 ELSE grado_multi
  /\ flag_grado_multi' = IF en = "restar" THEN flag_grado_multi - 1 ELSE flag_grado_multi
  /\ quiebre' = IF en = "restar" /\ flag_grado_multi = 0 THEN "carrera" ELSE "no"
  /\ UNCHANGED grado_multiprogramacion

ElimSola == UNCHANGED <<nuevos, listos, bloqueados, hay_nuevo, hay_ready, cpu_libre, hilo, corto,
                        consola, cuenta>>

TomarSalida ==
  /\ elim.en = "esperar" /\ hay_exit > 0
  /\ hay_exit' = hay_exit - 1
  /\ salida' = Tail(salida)
  /\ elim' = [en |-> "quitar", pid |-> Head(salida), indice |-> Indice(Head(salida))]
  /\ UNCHANGED <<estado, sistema, grado, quiebre>>
  /\ ElimSola

ElimQuitar ==
  /\ elim.en = "quitar"
  /\ QuitarDelSistema(elim.indice)
  /\ quiebre' = IF Corrido(elim.pid, elim.indice) THEN "corrido" ELSE "no"
  /\ elim' = [elim EXCEPT !.en = "ver"]
  /\ UNCHANGED <<estado, salida, hay_exit, grado>>
  /\ ElimSola

ElimVerCupo ==
  /\ elim.en = "ver"
  /\ elim' = [elim EXCEPT !.en = VerCupo]
  /\ UNCHANGED <<estado, sistema, salida, hay_exit, grado, quiebre>>
  /\ ElimSola

ElimDarCupo ==
  /\ DarCupo(elim.en)
  /\ estado' = [estado EXCEPT ![elim.pid] = "FIN"]
  /\ elim' = ElimLibre
  /\ UNCHANGED <<sistema, salida, hay_exit>>
  /\ ElimSola

-----------------------------------------------------------------------------
(* FINALIZAR_PROCESO.                                                      *)

ConsolaSola == UNCHANGED <<salida, hay_exit, hilo, corto, elim>>

Finalizar(p) ==
  /\ consola.en = "libre" /\ finalizados < MAX_FINALIZAR
  /\ p \in ToSet(sistema)
  /\ consola' = [ConsolaLibre EXCEPT !.en = "estado", !.pid = p, !.indice = Indice(p)]
  /\ finalizados' = finalizados + 1
  /\ UNCHANGED <<estado, nuevos, listos, bloqueados, sistema, hay_nuevo, hay_ready, cpu_libre,
                 grado, cambios, pisado, quiebre>>
  /\ ConsolaSola

\* switch (pcb->estado_actual)
LeerEstado ==
  LET p == consola.pid
  IN /\ consola.en = "estado"
     /\ consola' = [consola EXCEPT !.caso = estado[p],
                      !.en = IF estado[p] = "EXEC" THEN "esperarMuerte" ELSE "buscar"]
     /\ quiebre' = IF Corrido(p, consola.indice) THEN "corrido"
                   ELSE IF estado[p] \in {"EXIT", "FIN"} THEN "terminado"
                   ELSE IF estado[p] = "EXEC" /\ hilo["despacho"] # Quieto THEN "movido" ELSE "no"
     /\ UNCHANGED <<estado, nuevos, listos, bloqueados, sistema, hay_nuevo, hay_ready, cpu_libre,
                    grado, cuenta>>
     /\ ConsolaSola

Posicion(p, cola) == CHOOSE i \in DOMAIN cola : cola[i] = p

\* The loop over cola_procesos_new stops where it finds the process: those
\* before it have gone to the end.
NuevosSin(p) ==
  LET k == Posicion(p, nuevos)
  IN SubSeq(nuevos, k + 1, Len(nuevos)) \o SubSeq(nuevos, 1, k - 1)

\* The loop over cola_procesos_ready goes on with one turn less: unless the
\* process was the last one, the last one ends in front.
ListosSin(p) ==
  LET otros == RemoveAt(listos, Posicion(p, listos))
  IN IF Last(listos) = p THEN otros ELSE <<Last(otros)>> \o Front(otros)

BuscarNuevo ==
  /\ consola.en = "buscar" /\ consola.caso = "NEW"
  /\ IF consola.pid \in ToSet(nuevos)
     THEN /\ nuevos' = NuevosSin(consola.pid)
          /\ consola' = [consola EXCEPT !.en = "esperarNuevo"]
          /\ UNCHANGED quiebre
     ELSE quiebre' = "movido" /\ UNCHANGED <<nuevos, consola>>
  /\ UNCHANGED <<estado, listos, bloqueados, sistema, hay_nuevo, hay_ready, cpu_libre, grado,
                 cuenta>>
  /\ ConsolaSola

BuscarListo ==
  /\ consola.en = "buscar" /\ consola.caso = "READY"
  /\ IF consola.pid \in ToSet(listos)
     THEN /\ listos' = ListosSin(consola.pid)
          /\ consola' = [consola EXCEPT !.en = "esperarListo"]
          /\ UNCHANGED quiebre
     ELSE quiebre' = "movido" /\ UNCHANGED <<listos, consola>>
  /\ UNCHANGED <<estado, nuevos, bloqueados, sistema, hay_nuevo, hay_ready, cpu_libre, grado,
                 cuenta>>
  /\ ConsolaSola

BuscarBloqueado ==
  /\ consola.en = "buscar" /\ consola.caso = "BLOCKED"
  /\ IF consola.pid \in bloqueados
     THEN /\ bloqueados' = bloqueados \ {consola.pid}
          /\ consola' = [consola EXCEPT !.en = "ver"]
          /\ UNCHANGED quiebre
     ELSE quiebre' = "movido" /\ UNCHANGED <<bloqueados, consola>>
  /\ UNCHANGED <<estado, nuevos, listos, sistema, hay_nuevo, hay_ready, cpu_libre, grado, cuenta>>
  /\ ConsolaSola

\* sem_wait of the post that was made for the process. A NEW one has no slot.
EsperarNuevo ==
  /\ consola.en = "esperarNuevo" /\ hay_nuevo > 0
  /\ hay_nuevo' = hay_nuevo - 1
  /\ consola' = [consola EXCEPT !.en = "quitar"]
  /\ UNCHANGED <<estado, nuevos, listos, bloqueados, sistema, hay_ready, cpu_libre, grado, cuenta,
                 quiebre>>
  /\ ConsolaSola

\* Fault: the post stays.
EsperarListoSinEsperar ==
  /\ consola.en = "esperarListo"
  /\ consola' = [consola EXCEPT !.en = "ver"]
  /\ UNCHANGED <<estado, nuevos, listos, bloqueados, sistema, hay_nuevo, hay_ready, cpu_libre,
                 grado, cuenta, quiebre>>
  /\ ConsolaSola

EsperarListo ==
  /\ consola.en = "esperarListo" /\ hay_ready > 0
  /\ hay_ready' = hay_ready - 1
  /\ consola' = [consola EXCEPT !.en = "ver"]
  /\ UNCHANGED <<estado, nuevos, listos, bloqueados, sistema, hay_nuevo, cpu_libre, grado, cuenta,
                 quiebre>>
  /\ ConsolaSola

\* The CPU answers KILL_PROCESS (module CicloCpu): podes_eliminar_loko.
EsperarMuerte ==
  /\ consola.en = "esperarMuerte" /\ estado[consola.pid] = "EXEC"
  /\ hilo["despacho"] = Quieto
  /\ consola' = [consola EXCEPT !.en = "quitar"]
  /\ UNCHANGED <<estado, nuevos, listos, bloqueados, sistema, hay_nuevo, hay_ready, cpu_libre,
                 grado, cuenta, quiebre>>
  /\ ConsolaSola

CpuAlQuitar == IF consola.caso = "EXEC" THEN cpu_libre + 1 ELSE cpu_libre

\* list_remove(procesos_en_sistema, index), liberar_recursos, END_PROCESS and,
\* for a process that had the CPU, sem_post(&cpu_libre).
Quitar ==
  LET p == consola.pid
      enExec == consola.caso = "EXEC"
  IN /\ consola.en = "quitar"
     /\ QuitarDelSistema(consola.indice)
     /\ quiebre' = IF Corrido(p, consola.indice) THEN "corrido" ELSE "no"
     /\ cpu_libre' = CpuAlQuitar
     /\ estado' = IF enExec THEN estado ELSE [estado EXCEPT ![p] = "FIN"]
     /\ consola' = IF enExec THEN [consola EXCEPT !.en = "ver"] ELSE ConsolaLibre
     /\ UNCHANGED <<nuevos, listos, bloqueados, hay_nuevo, hay_ready, grado, cuenta>>
     /\ ConsolaSola

VerCupoConsola ==
  /\ consola.en = "ver"
  /\ consola' = [consola EXCEPT !.en = VerCupo]
  /\ UNCHANGED <<estado, nuevos, listos, bloqueados, sistema, hay_nuevo, hay_ready, cpu_libre,
                 grado, cuenta, quiebre>>
  /\ ConsolaSola

DarCupoConsola ==
  /\ DarCupo(consola.en)
  /\ \/ /\ consola.caso = "EXEC"
        /\ estado' = [estado EXCEPT ![consola.pid] = "FIN"]
        /\ consola' = ConsolaLibre
     \/ /\ consola.caso # "EXEC"
        /\ consola' = [consola EXCEPT !.en = "quitar"]
        /\ UNCHANGED estado
  /\ UNCHANGED <<nuevos, listos, bloqueados, sistema, hay_nuevo, hay_ready, cpu_libre, cuenta>>
  /\ ConsolaSola

-----------------------------------------------------------------------------
(* MULTIPROGRAMACION.                                                      *)

SoloGrado == UNCHANGED <<procesos, semaforos, hilo, corto, elim, finalizados, quiebre>>
Menor(a, b) == IF a < b THEN a ELSE b

SubirGrado(n) ==
  /\ consola.en = "libre" /\ cambios < MAX_GRADOS
  /\ grado_multiprogramacion < n
  /\ grado_multi' = grado_multi + n - grado_multiprogramacion
  /\ grado_multiprogramacion' = n
  /\ cambios' = cambios + 1
  /\ UNCHANGED <<flag_grado_multi, consola, pisado>>
  /\ SoloGrado

\* sem_getvalue decides how many waits there are, and how much is left over.
BajarGrado(n) ==
  LET baja == grado_multiprogramacion - n
  IN /\ consola.en = "libre" /\ cambios < MAX_GRADOS
     /\ baja >= 0
     /\ consola' = [ConsolaLibre EXCEPT !.en = "bajar",
                      !.esperas = Menor(grado_multi, baja),
                      !.resto = baja - Menor(grado_multi, baja), !.indice = n]
     /\ cambios' = cambios + 1
     /\ UNCHANGED <<grado, pisado>>
     /\ SoloGrado

EsperarCupo ==
  /\ consola.en = "bajar" /\ consola.esperas > 0 /\ grado_multi > 0
  /\ grado_multi' = grado_multi - 1
  /\ consola' = [consola EXCEPT !.esperas = @ - 1]
  /\ UNCHANGED <<grado_multiprogramacion, flag_grado_multi, cambios, pisado>>
  /\ SoloGrado

\* Fault: nothing is left over.
AnotarRestoNunca ==
  /\ consola.en = "bajar" /\ consola.esperas = 0
  /\ grado_multiprogramacion' = consola.indice
  /\ consola' = ConsolaLibre
  /\ UNCHANGED <<grado_multi, flag_grado_multi, cambios, pisado>>
  /\ SoloGrado

\* What was left over before is forgotten.
AnotarResto ==
  /\ consola.en = "bajar" /\ consola.esperas = 0
  /\ flag_grado_multi' = IF consola.resto > 0 THEN consola.resto ELSE flag_grado_multi
  /\ pisado' = (pisado \/ (consola.resto > 0 /\ flag_grado_multi > 0))
  /\ grado_multiprogramacion' = consola.indice
  /\ consola' = ConsolaLibre
  /\ UNCHANGED <<grado_multi, cambios>>
  /\ SoloGrado

-----------------------------------------------------------------------------
Creacion == TomarNuevo \/ TomarCupo \/ SacarNuevo
Corto == TomarListo \/ TomarCpu \/ Despachar
Hilo(h) == PonerListo(h) \/ AvisarListo(h)
Eliminacion == TomarSalida \/ ElimQuitar \/ ElimVerCupo \/ ElimDarCupo
Consola ==
  \/ LeerEstado \/ BuscarNuevo \/ BuscarListo \/ BuscarBloqueado
  \/ EsperarNuevo \/ EsperarListo \/ EsperarMuerte \/ Quitar \/ VerCupoConsola \/ DarCupoConsola
Grado == EsperarCupo \/ AnotarResto \/ \E n \in Grados : SubirGrado(n) \/ BajarGrado(n)
Programa(p) == Iniciar(p) \/ Desalojar(p) \/ Bloquear(p) \/ Terminar(p) \/ Desbloquear(p)

Sano == quiebre = "no"

Next ==
  /\ Sano
  /\ \/ Creacion \/ Corto \/ Eliminacion \/ Consola \/ Grado
     \/ \E h \in Hilos : Hilo(h)
     \/ \E p \in Pids : Programa(p) \/ Finalizar(p)

Spec == Init /\ [][Next]_vars

\* Every thread of the kernel goes on when it can.  Nothing is assumed of the
\* programs, of the interfaces or of the user.
FairSpec ==
  /\ Spec
  /\ WF_vars(Sano /\ Creacion) /\ WF_vars(Sano /\ Corto)
  /\ WF_vars(Sano /\ Eliminacion) /\ WF_vars(Sano /\ Consola)
  /\ \A h \in Hilos : WF_vars(Sano /\ Hilo(h))

-----------------------------------------------------------------------------
Uno(b) == IF b THEN 1 ELSE 0

\* The slot is given back before procesos_en_sistema is updated for a process
\* that FINALIZAR_PROCESO found READY or BLOCKED (consola.c:188-195, 245-252).
CupoDevuelto(p) ==
  consola.pid = p /\ consola.caso \in {"READY", "BLOCKED"} /\ consola.en = "quitar"
ConCupo(p) ==
  /\ \/ estado[p] \in {"READY", "EXEC", "BLOCKED", "EXIT"}
     \/ estado[p] = "NEW" /\ hilo["creacion"].pid = p
  /\ ~CupoDevuelto(p)

\* The waits on grado_multi that a MULTIPROGRAMACION under way has done.
EsperasHechas ==
  IF consola.en # "bajar" THEN 0
  ELSE grado_multiprogramacion - consola.indice - consola.resto - consola.esperas

\* Whatever the interleaving of the console, which lowers the degree, with the
\* threads that take and give back slots, no slot is lost and none is made: the
\* free ones and the held ones add up to the degree plus what flag_grado_multi
\* still owes.  It does not hold any more after a second MULTIPROGRAMACION
\* overwrote the debt of the first (consola.c:338, "pisado").
CupoExacto ==
  Sano =>
  /\ flag_grado_multi >= 0
  /\ ~pisado =>
       grado_multi + Cardinality({p \in Pids : ConCupo(p)}) + Uno(hilo["creacion"].en = "sacar")
         + EsperasHechas
       = grado_multiprogramacion + flag_grado_multi

\* hay_proceso_a_ready counts cola_procesos_ready and hay_proceso_nuevo counts
\* cola_procesos_new, less the thread that passed and has not popped yet, also
\* while FINALIZAR_PROCESO takes a process out of the middle of the queue: the
\* sem_wait at consola.c:186 (162) takes the post of the process removed and no
\* other, so no scheduler ever pops an empty queue.
SemReady ==
  hay_ready + Uno(corto \in {"cpu", "sacar"}) + Cardinality({h \in Hilos : hilo[h].en = "avisar"})
  = Len(listos) + Uno(consola.en = "esperarListo")
SemNuevo ==
  hay_nuevo + Uno(hilo["creacion"].en \in {"cupo", "sacar"})
  = Len(nuevos) + Uno(consola.en = "esperarNuevo")
SemaforosExactos == Sano => SemReady /\ SemNuevo

\* The queues, the CPU, the PCBs that a thread holds and the one that the
\* console has taken out never share a process, and none is lost: each process
\* that started and has not ended is in exactly one of them, and in
\* procesos_en_sistema exactly until it is removed (consola.c:263,
\* planificador_largo_plazo.c:70).  One process at most has the CPU or will.
Sacado(p) ==
  /\ consola.pid = p
  /\ consola.en \in {"esperarNuevo", "esperarListo", "ver", "sumar", "restar", "quitar"}
QuitadoDelSistema(p) ==
  \/ elim.pid = p /\ elim.en \in {"ver", "sumar", "restar"}
  \/ consola.pid = p /\ consola.caso = "EXEC" /\ consola.en \in {"ver", "sumar", "restar"}

Lugares(p) ==
  Cardinality({i \in DOMAIN nuevos : nuevos[i] = p})
  + Cardinality({i \in DOMAIN listos : listos[i] = p})
  + Cardinality({i \in DOMAIN salida : salida[i] = p})
  + Uno(p \in bloqueados) + Uno(EnCpu(p) /\ hilo["despacho"] # [en |-> "poner", pid |-> p])
  + Cardinality({h \in Hilos : hilo[h].pid = p /\ hilo[h].en # "avisar"})
  + Uno(elim.pid = p) + Uno(Sacado(p))

EnUnLugar ==
  Sano =>
  /\ cpu_libre + Cardinality({p \in Pids : EnCpu(p)}) <= 1
  /\ \A p \in Pids :
       /\ Lugares(p) = Uno(estado[p] \notin {"NADA", "FIN"})
       /\ Cardinality({i \in DOMAIN sistema : sistema[i] = p})
          = Uno(estado[p] \notin {"NADA", "FIN"} /\ ~QuitadoDelSistema(p))

\* The scheduler has the post of the process that the console took out, and
\* waits for the mutex that the console holds: nobody goes on.
Trabada ==
  \/ /\ consola.en = "esperarListo" /\ hay_ready = 0 /\ corto # "esperar"
     /\ \A h \in Hilos : hilo[h].en # "avisar"
  \/ consola.en = "esperarNuevo" /\ hay_nuevo = 0 /\ hilo["creacion"].en \in {"cupo", "sacar"}

\* FINALIZAR_PROCESO ends, and the console reads another command, unless it met
\* that deadlock or one of the mistakes of "quiebre": there is no other way for
\* it to hang.
ConsolaTermina ==
  consola.pid # NULO ~> consola.pid = NULO \/ ~Sano \/ Trabada
=============================================================================
