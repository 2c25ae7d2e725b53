------------------------------ MODULE Recursos ------------------------------
(***************************************************************************)
(* WAIT and SIGNAL (kernel/src/recursos.c and dispatch.c) and the return   *)
(* of the resources of a process that ends (liberar_recursos).  Two        *)
(* threads run this code: "despacho" (recibir_dispatch), for the process   *)
(* in EXEC, and "eliminacion" (eliminacion_de_procesos), for a process in  *)
(* EXIT.  Both call sumar_instancia_a_recurso, whose reads of instancias   *)
(* and of lista_procesos_blocked are outside the mutexes: each is a step.  *)
(*                                                                         *)
(* The programs name resources that exist and SIGNAL only what they hold.  *)
(* The rest of a process's life is as short as the properties allow: it is *)
(* created into READY, runs alone in the CPU, may be preempted, may ask for *)
(* I/O, whose end is one step of an interface's thread, exits.             *)
(***************************************************************************)
EXTENDS Integers, Sequences, FiniteSets, SequencesExt

CONSTANTS Pids, NULO,
          Recursos,        \* recursos_disponibles
          Instancias,      \* instancias_maximas of each resource
          SalenCon,        \* resources a program may still hold when it exits
          MAX_IO,          \* bound: requests of I/O
          MAX_RETENIDAS    \* bound: instances of a resource a program asks for

ASSUME NuloAssumption == NULO \notin Pids \cup Recursos
ASSUME InstanciasAssumption == Instancias \in [Recursos -> Nat]
ASSUME SalenConAssumption == SalenCon \subseteq Recursos
ASSUME RetenidasAssumption == MAX_RETENIDAS \in Nat

VARIABLES
  instancias,   \* of each resource; below zero when processes wait
  asignadas,    \* recursos_asignados_por_proceso
  cola,         \* cola_de_bloqueados_por_recurso
  bloqueados,   \* lista_procesos_blocked
  enIo,         \* those that wait for an interface
  pedidosIo,    \* how many have asked for one
  listaRota,    \* history: an index removed another process from it, or nobody
  colaReady, colaExit,
  ejecutando,   \* the process in EXEC
  creados, terminados,
  hilo          \* where each of the two threads is

lista == <<bloqueados, enIo, pedidosIo, listaRota>>
vars == <<instancias, asignadas, cola, lista, colaReady, colaExit, ejecutando, creados,
          terminados, hilo>>

Hilos == {"despacho", "eliminacion"}
Libre == [en |-> "libre", pid |-> NULO, recurso |-> NULO, despertado |-> NULO, indice |-> 0]

Init ==
  /\ instancias = Instancias
  /\ asignadas = [p \in Pids |-> [r \in Recursos |-> 0]]
  /\ cola = [r \in Recursos |-> <<>>]
  /\ bloqueados = <<>> /\ colaReady = <<>> /\ colaExit = <<>>
  /\ enIo = {} /\ pedidosIo = 0 /\ listaRota = FALSE
  /\ ejecutando = NULO
  /\ creados = {} /\ terminados = {}
  /\ hilo = [h \in Hilos |-> Libre]

Ir(h, lugar) == hilo' = [hilo EXCEPT ![h].en = lugar]

-----------------------------------------------------------------------------
(* The process outside this code.                                          *)

Elementos(s) == {s[k] : k \in DOMAIN s}
Primero(s, e) == CHOOSE k \in DOMAIN s : s[k] = e /\ \A j \in DOMAIN s : s[j] = e => k <= j

\* A loop over a list that takes out the first entry of the process.
Sacar(s, e) == IF e \in Elementos(s) THEN RemoveAt(s, Primero(s, e)) ELSE s

Crear(p) ==
  /\ p \notin creados
  /\ creados' = creados \cup {p}
  /\ colaReady' = Append(colaReady, p)
  /\ UNCHANGED <<instancias, asignadas, cola, lista, colaExit, ejecutando, terminados,
                 hilo>>

Despachar ==
  /\ ejecutando = NULO
  /\ colaReady # <<>>
  /\ ejecutando' = Head(colaReady)
  /\ colaReady' = Tail(colaReady)
  /\ UNCHANGED <<instancias, asignadas, cola, lista, colaExit, creados, terminados, hilo>>

\* The CPU waits for the answer to a WAIT or a SIGNAL before it goes on.
Ejecuta == ejecutando # NULO /\ hilo["despacho"].en = "libre"

Desalojar ==
  /\ Ejecuta
  /\ colaReady' = Append(colaReady, ejecutando)
  /\ ejecutando' = NULO
  /\ UNCHANGED <<instancias, asignadas, cola, lista, colaExit, creados, terminados, hilo>>

Salir ==
  /\ Ejecuta
  /\ \A r \in Recursos \ SalenCon : asignadas[ejecutando][r] = 0
  /\ colaExit' = Append(colaExit, ejecutando)
  /\ ejecutando' = NULO
  /\ UNCHANGED <<instancias, asignadas, cola, lista, colaReady, creados, terminados, hilo>>

PedirIo ==
  /\ Ejecuta /\ pedidosIo < MAX_IO
  /\ pedidosIo' = pedidosIo + 1
  /\ bloqueados' = Append(bloqueados, ejecutando)
  /\ enIo' = enIo \cup {ejecutando}
  /\ ejecutando' = NULO
  /\ UNCHANGED <<instancias, asignadas, cola, listaRota, colaReady, colaExit, creados,
                 terminados, hilo>>

\* IO_SUCCESS, in a thread of its own.  A process that is not in the list any
\* more does not come back.
TerminarIo(p) ==
  /\ p \in enIo /\ p \in Elementos(bloqueados)
  /\ bloqueados' = Sacar(bloqueados, p)
  /\ enIo' = enIo \ {p}
  /\ colaReady' = Append(colaReady, p)
  /\ UNCHANGED <<instancias, asignadas, cola, pedidosIo, listaRota, colaExit, ejecutando, creados,
                 terminados, hilo>>

-----------------------------------------------------------------------------
(* WAIT_SOLICITADO.                                                        *)

\* restar_instancia_a_recurso, up to the unlock.
Restar(r) ==
  /\ Ejecuta
  /\ asignadas[ejecutando][r] < MAX_RETENIDAS
  /\ instancias' = [instancias EXCEPT ![r] = @ - 1]
  /\ hilo' = [hilo EXCEPT !["despacho"] =
                [Libre EXCEPT !.en = "leer", !.pid = ejecutando, !.recurso = r]]
  /\ UNCHANGED <<asignadas, cola, lista, colaReady, colaExit, ejecutando, creados,
                 terminados>>

DebeEsperarTarde(r) == instancias[r] < -1 \* fault: the bound of the comparison
DebeEsperar(r) == instancias[r] < 0

\* Fault: the instance is retained only by a process that does not wait.
LeerSinRetener ==
  /\ hilo["despacho"].en = "leer"
  /\ LET d == hilo["despacho"]
     IN \/ /\ DebeEsperar(d.recurso)
           /\ Ir("despacho", "encolar")
           /\ UNCHANGED asignadas
        \/ /\ ~DebeEsperar(d.recurso)
           /\ hilo' = [hilo EXCEPT !["despacho"] = Libre]
           /\ asignadas' = [asignadas EXCEPT ![d.pid][d.recurso] = @ + 1]
  /\ UNCHANGED <<instancias, cola, lista, colaReady, colaExit, ejecutando, creados,
                 terminados>>

\* It returns what the counter holds now; the instance is retained anyway.
LeerInstancias ==
  /\ hilo["despacho"].en = "leer"
  /\ LET d == hilo["despacho"]
     IN /\ asignadas' = [asignadas EXCEPT ![d.pid][d.recurso] = @ + 1]
        /\ hilo' = [hilo EXCEPT !["despacho"] =
                      IF DebeEsperar(d.recurso) THEN [d EXCEPT !.en = "encolar"] ELSE Libre]
  /\ UNCHANGED <<instancias, cola, lista, colaReady, colaExit, ejecutando, creados,
                 terminados>>

Encolar ==
  /\ hilo["despacho"].en = "encolar"
  /\ LET d == hilo["despacho"] IN cola' = [cola EXCEPT ![d.recurso] = Append(@, d.pid)]
  /\ Ir("despacho", "bloquear")
  /\ UNCHANGED <<instancias, asignadas, lista, colaReady, colaExit, ejecutando, creados,
                 terminados>>

\* bloquear_pcb and sem_post(&cpu_libre).
Bloquear ==
  /\ hilo["despacho"].en = "bloquear"
  /\ bloqueados' = Append(bloqueados, hilo["despacho"].pid)
  /\ ejecutando' = NULO
  /\ hilo' = [hilo EXCEPT !["despacho"] = Libre]
  /\ UNCHANGED <<instancias, asignadas, cola, enIo, pedidosIo, listaRota, colaReady, colaExit,
                 creados, terminados>>

-----------------------------------------------------------------------------
(* SIGNAL_SOLICITADO and liberar_recursos.                                 *)

\* Fault: a program signals a resource it does not hold.
SignalAjeno(r) ==
  /\ Ejecuta
  /\ hilo' = [hilo EXCEPT !["despacho"] =
                [Libre EXCEPT !.en = "sumar", !.pid = ejecutando, !.recurso = r]]
  /\ UNCHANGED <<instancias, asignadas, cola, lista, colaReady, colaExit, ejecutando,
                 creados, terminados>>

Signal(r) ==
  /\ Ejecuta
  /\ asignadas[ejecutando][r] > 0
  /\ hilo' = [hilo EXCEPT !["despacho"] =
                [Libre EXCEPT !.en = "sumar", !.pid = ejecutando, !.recurso = r]]
  /\ UNCHANGED <<instancias, asignadas, cola, lista, colaReady, colaExit, ejecutando,
                 creados, terminados>>

TomarExit ==
  /\ hilo["eliminacion"].en = "libre"
  /\ colaExit # <<>>
  /\ hilo' = [hilo EXCEPT !["eliminacion"] =
                [Libre EXCEPT !.en = "liberar", !.pid = Head(colaExit)]]
  /\ colaExit' = Tail(colaExit)
  /\ UNCHANGED <<instancias, asignadas, cola, lista, colaReady, ejecutando, creados,
                 terminados>>

\* One turn of the loop of liberar_recursos: leave the queue of the resource,
\* then return an instance unless the counter is at its maximum.
Liberar(r) ==
  LET p == hilo["eliminacion"].pid
  IN /\ hilo["eliminacion"].en = "liberar"
     /\ asignadas[p][r] > 0
     /\ cola' = [cola EXCEPT ![r] = Sacar(@, p)]
     /\ hilo' = [hilo EXCEPT !["eliminacion"].recurso = r,
                             !["eliminacion"].en = IF instancias[r] < Instancias[r]
                                                   THEN "sumar" ELSE "devolver"]
     /\ UNCHANGED <<instancias, asignadas, lista, colaReady, colaExit, ejecutando,
                    creados, terminados>>

Terminar ==
  LET p == hilo["eliminacion"].pid
  IN /\ hilo["eliminacion"].en = "liberar"
     /\ \A r \in Recursos : asignadas[p][r] = 0
     /\ terminados' = terminados \cup {p}
     /\ hilo' = [hilo EXCEPT !["eliminacion"] = Libre]
     /\ UNCHANGED <<instancias, asignadas, cola, lista, colaReady, colaExit, ejecutando,
                    creados>>

-----------------------------------------------------------------------------
(* sumar_instancia_a_recurso, by either thread.                            *)

Sumar(h) ==
  /\ hilo[h].en = "sumar"
  /\ instancias' = [instancias EXCEPT ![hilo[h].recurso] = @ + 1]
  /\ Ir(h, "revisar")
  /\ UNCHANGED <<asignadas, cola, lista, colaReady, colaExit, ejecutando, creados,
                 terminados>>

Revisar(h) ==
  /\ hilo[h].en = "revisar"
  /\ Ir(h, IF instancias[hilo[h].recurso] >= 0 THEN "despertar" ELSE "devolver")
  /\ UNCHANGED <<instancias, asignadas, cola, lista, colaReady, colaExit, ejecutando,
                 creados, terminados>>

\* Fault: the woken process stays in the queue (list_get for list_remove).
DespertarSinSacar(h) ==
  /\ hilo[h].en = "despertar"
  /\ cola[hilo[h].recurso] # <<>>
  /\ hilo' = [hilo EXCEPT ![h].en = "buscar", ![h].despertado = Head(cola[hilo[h].recurso])]
  /\ UNCHANGED <<instancias, asignadas, cola, lista, colaReady, colaExit, ejecutando,
                 creados, terminados>>

\* list_remove(lista, 0) answers NULL on an empty list, and the code checks it.
Despertar(h) ==
  /\ hilo[h].en = "despertar"
  /\ LET r == hilo[h].recurso
     IN \/ /\ cola[r] # <<>>
           /\ hilo' = [hilo EXCEPT ![h].en = "buscar", ![h].despertado = Head(cola[r])]
           /\ cola' = [cola EXCEPT ![r] = Tail(@)]
        \/ /\ cola[r] = <<>>
           /\ Ir(h, "devolver")
           /\ UNCHANGED cola
  /\ UNCHANGED <<instancias, asignadas, lista, colaReady, colaExit, ejecutando, creados,
                 terminados>>

\* buscar_index_pid_bloqueado; 0 stands for its -1.
BuscarIndice(h) ==
  /\ hilo[h].en = "buscar"
  /\ LET p == hilo[h].despertado
     IN hilo' = [hilo EXCEPT ![h].en = "sacar",
                             ![h].indice = IF p \in Elementos(bloqueados)
                                           THEN Primero(bloqueados, p) ELSE 0]
  /\ UNCHANGED <<instancias, asignadas, cola, lista, colaReady, colaExit, ejecutando,
                 creados, terminados>>

SacarDeBloqueados(h) ==
  LET i == hilo[h].indice
      hay == i \in DOMAIN bloqueados
  IN /\ hilo[h].en = "sacar"
     /\ bloqueados' = IF hay THEN RemoveAt(bloqueados, i) ELSE bloqueados
     /\ listaRota' = (listaRota \/ ~hay \/ bloqueados[i] # hilo[h].despertado)
     /\ Ir(h, "agregar")
     /\ UNCHANGED <<instancias, asignadas, cola, enIo, pedidosIo, colaReady, colaExit,
                    ejecutando, creados, terminados>>

AgregarAReady(h) ==
  /\ hilo[h].en = "agregar"
  /\ colaReady' = Append(colaReady, hilo[h].despertado)
  /\ hilo' = [hilo EXCEPT ![h].en = "devolver", ![h].despertado = NULO, ![h].indice = 0]
  /\ UNCHANGED <<instancias, asignadas, cola, lista, colaExit, ejecutando, creados,
                 terminados>>

\* restar_instancia_retenida_a_proceso, or the next turn of the loop.
Devolver(h) ==
  /\ hilo[h].en = "devolver"
  /\ asignadas' = [asignadas EXCEPT ![hilo[h].pid][hilo[h].recurso] = @ - 1]
  /\ hilo' = [hilo EXCEPT ![h] = IF h = "despacho" THEN Libre
                                 ELSE [@ EXCEPT !.en = "liberar", !.recurso = NULO]]
  /\ UNCHANGED <<instancias, cola, lista, colaReady, colaExit, ejecutando, creados,
                 terminados>>

-----------------------------------------------------------------------------
SumarInstancia(h) == Sumar(h) \/ Revisar(h) \/ Despertar(h) \/ BuscarIndice(h)
                     \/ SacarDeBloqueados(h) \/ AgregarAReady(h) \/ Devolver(h)

Next ==
  \/ \E p \in Pids : Crear(p) \/ TerminarIo(p)
  \/ Despachar \/ Desalojar \/ Salir \/ PedirIo
  \/ \E r \in Recursos : Restar(r) \/ Signal(r) \/ Liberar(r)
  \/ LeerInstancias \/ Encolar \/ Bloquear
  \/ TomarExit \/ Terminar
  \/ \E h \in Hilos : SumarInstancia(h)

Spec == Init /\ [][Next]_vars

-----------------------------------------------------------------------------
Bit(b) == IF b THEN 1 ELSE 0
Veces(s, p) == Cardinality({k \in DOMAIN s : s[k] = p})

\* The accounts of all the processes, one pair for each instance of r.
Retenidas(r) == {pk \in Pids \X (1..MAX_RETENIDAS) : pk[2] <= asignadas[pk[1]][r]}
Total(r) == Cardinality(Retenidas(r))

\* A thread that has added an instance its process still has on its account.
Sumando == {"revisar", "despertar", "buscar", "sacar", "agregar", "devolver"}

\* A process waits for r from the moment LeerInstancias decides it until
\* somebody takes it out of the queue.
EnEspera(r) ==
  Len(cola[r]) + Bit(hilo["despacho"].en = "encolar" /\ hilo["despacho"].recurso = r)

Devuelve(h, r) == hilo[h].en \in Sumando /\ hilo[h].recurso = r
Devueltas(r) == Bit(Devuelve("despacho", r)) + Bit(Devuelve("eliminacion", r))
Otorgadas(r) == Total(r) - Devueltas(r) - EnEspera(r)

TypeOK ==
  /\ instancias \in [Recursos -> Int]
  /\ asignadas \in [Pids -> [Recursos -> 0..MAX_RETENIDAS]]
  /\ cola \in [Recursos -> Seq(Pids)]
  /\ enIo \subseteq Pids /\ pedidosIo \in Nat /\ listaRota \in BOOLEAN
  /\ bloqueados \in Seq(Pids) /\ colaReady \in Seq(Pids) /\ colaExit \in Seq(Pids)
  /\ ejecutando \in Pids \cup {NULO}
  /\ creados \subseteq Pids /\ terminados \subseteq creados
  /\ hilo \in [Hilos -> [en : Sumando \cup {"libre", "leer", "encolar", "bloquear", "sumar",
                                            "liberar"},
                         pid : Pids \cup {NULO}, recurso : Recursos \cup {NULO},
                         despertado : Pids \cup {NULO}, indice : Nat]]

\* Instances are neither created nor lost: the counter and the accounts of
\* the processes, those that ended included, add up to instancias_maximas.
Conservacion ==
  \A r \in Recursos :
    instancias[r] + Total(r) + Bit(hilo["despacho"].en = "leer" /\ hilo["despacho"].recurso = r)
      - Devueltas(r)
    = Instancias[r]

\* A process that waits for a resource is not in READY nor, once the handler
\* of its WAIT is done, in EXEC; and it waits for that resource only, once.
\* lista_procesos_blocked has it, once, until a thread that woke it takes it out;
\* and those that wait for an interface, and nobody else.  That is so until an
\* index computed before another thread changed the list takes out a process
\* that goes on waiting, or nobody (recursos.c:78-80).
Despertando(p) == \E h \in Hilos : hilo[h].en \in {"buscar", "sacar"} /\ hilo[h].despertado = p
EsperaFuera ==
  \A p \in Pids :
    LET esperados == {r \in Recursos : p \in Elementos(cola[r])}
        porEntrar == hilo["despacho"].en = "bloquear" /\ hilo["despacho"].pid = p
    IN /\ \A r \in esperados :
            /\ esperados = {r} /\ Veces(cola[r], p) = 1
            /\ p \notin Elementos(colaReady) \cup Elementos(colaExit) \cup enIo
            /\ p = ejecutando => porEntrar
       /\ ~listaRota =>
            Veces(bloqueados, p)
            = Bit(p \in enIo \/ ((esperados # {} \/ Despertando(p)) /\ ~porEntrar))

\* Never more instances granted than there are, for a resource that every
\* program returns with SIGNAL before it exits.  For the others it does not hold:
\* liberar_recursos finds instancias >= 0 and takes a waiter out of the queue
\* after a WAIT took the instance (recursos.c:67-73).
ExclusionMutua == \A r \in Recursos \ SalenCon : Otorgadas(r) <= Instancias[r]

-----------------------------------------------------------------------------
(* What the documents say and the code does not do.                        *)

\* With both threads at rest nobody waits for an instance that nobody has.
SignalDespierta ==
  (\A h \in Hilos : hilo[h].en = "libre") =>
    \A r \in Recursos : cola[r] # <<>> => Otorgadas(r) = Instancias[r]
=============================================================================
