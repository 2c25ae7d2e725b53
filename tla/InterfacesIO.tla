---------------------------- MODULE InterfacesIO ----------------------------
(***************************************************************************)
(* The interfaces of I/O as the kernel sees them (interfaces.c): modules   *)
(* that connect while processes run, each registered by a thread of its    *)
(* own in three dictionaries, one after the other; recibir_dispatch, which *)
(* reads the three; one atender_interfaz per registration; modules that    *)
(* answer in order, die, and come back under the same name; the console,   *)
(* which kills blocked processes and detains the planning.                 *)
(*                                                                         *)
(* A connection stands for the socket, and for the queue and semaphores    *)
(* that crear_interfaz makes for it.  A module that died never comes back  *)
(* on the same one.  The gate of recibir_dispatch is in Planificador: here *)
(* the dispatch thread never waits at it.                                  *)
(*                                                                         *)
(* "quiebre" names the mistake at which the model stops: a thread uses or  *)
(* frees the name another one received ("nombre"), the dispatch thread     *)
(* finds no queue or semaphores ("nula"), atender_interfaz pops an empty   *)
(* queue ("vacia") or does not find its process, and uses a pointer that   *)
(* was never initialised ("muerto").                                       *)
(***************************************************************************)
EXTENDS Integers, Sequences, FiniteSets, SequencesExt

CONSTANTS Pids, Conexiones, Nombres,
          Bautismos,        \* the names that the modules may be given
          Tipo,             \* cod_interfaz of each name
          Identificadores,  \* the operations that programs ask for
          MAX_DETENCIONES,  \* bound: DETENER_PLANIFICACION commands
          MAX_MUERTES,      \* bound: modules that die
          MAX_FINALIZADOS,  \* bound: FINALIZAR_PROCESO only while fewer processes ended
          NULO

ASSUME NuloAssumption == NULO \notin Conexiones \cup Pids \cup Nombres
ASSUME FinitosAssumption == IsFiniteSet(Pids) /\ IsFiniteSet(Conexiones)
ASSUME BautismosAssumption == Bautismos \subseteq [Conexiones -> Nombres]
ASSUME TipoAssumption == Tipo \in [Nombres -> {"GENERICA", "STDIN", "STDOUT", "DIALFS"}]

VARIABLES
  nombreDe,     \* argv[1] of the module at the other end
  viva,         \* the module runs
  cliente,      \* where the atender_cliente of each connection is
  nombre_entrada_salida_conectada,  \* whose name it is
  conexiones_io, colas_blocks_io, diccionario_semaforos_io,
  cola,         \* the requests of each queue
  instruccion_en_cola, binario_io_libre,
  hilo,         \* the atender_interfaz that each connection started
  pedidos, respuestas,              \* in the sockets
  bloqueados, terminados,           \* lista_procesos_blocked; in EXIT or gone
  despacho,     \* where recibir_dispatch is
  detenida, puerta, detenciones,    \* planificacion_detenida and its gate
  perdidos,     \* history: their request got no answer
  quiebre

diccionarios == <<conexiones_io, colas_blocks_io, diccionario_semaforos_io>>
semaforosIO  == <<instruccion_en_cola, binario_io_libre>>
registro     == <<nombreDe, cliente, nombre_entrada_salida_conectada, diccionarios>>
sockets      == <<viva, pedidos, respuestas>>
planificacion == <<detenida, puerta, detenciones>>
procesos     == <<bloqueados, terminados>>
vars == <<registro, cola, semaforosIO, hilo, sockets, procesos, despacho, planificacion, perdidos,
          quiebre>>

SinHilo == [en |-> "no", sem |-> NULO, pid |-> NULO, con |-> NULO, bien |-> FALSE]
Libre == [en |-> "esperar", pid |-> NULO, nombre |-> NULO]

Init ==
  /\ nombreDe \in Bautismos
  /\ viva = [c \in Conexiones |-> FALSE] /\ cliente = [c \in Conexiones |-> "fuera"]
  /\ nombre_entrada_salida_conectada = NULO
  /\ conexiones_io = [n \in Nombres |-> NULO] /\ colas_blocks_io = conexiones_io
  /\ diccionario_semaforos_io = conexiones_io
  /\ cola = [c \in Conexiones |-> <<>>]
  /\ instruccion_en_cola = [c \in Conexiones |-> 0]
  /\ binario_io_libre = [c \in Conexiones |-> 1]
  /\ hilo = [c \in Conexiones |-> SinHilo]
  /\ pedidos = cola /\ respuestas = instruccion_en_cola
  /\ bloqueados = {} /\ terminados = {} /\ despacho = Libre
  /\ detenida = FALSE /\ puerta = 0 /\ detenciones = 0
  /\ perdidos = {} /\ quiebre = "no"

Sano == quiebre = "no"
Muertas == {c \in Conexiones : cliente[c] # "fuera" /\ ~viva[c]}

-----------------------------------------------------------------------------
(* A module connects: atender_cliente and crear_interfaz.                  *)

RegistroSolo == UNCHANGED <<nombreDe, cola, semaforosIO, pedidos, respuestas, procesos, despacho,
                            planificacion, perdidos>>

\* Names are unique among the modules that run.  The name is received in a
\* global variable.
Conectar(c) ==
  /\ cliente[c] = "fuera"
  /\ \A d \in Conexiones : viva[d] => nombreDe[d] # nombreDe[c]
  /\ viva' = [viva EXCEPT ![c] = TRUE]
  /\ cliente' = [cliente EXCEPT ![c] = "conexion"]
  /\ nombre_entrada_salida_conectada' = c
  /\ UNCHANGED <<diccionarios, hilo, quiebre>>
  /\ RegistroSolo

\* The call to crear_interfaz reads the global, which is its argument from here.
PublicarConexion(c) ==
  LET dueno == nombre_entrada_salida_conectada
  IN /\ cliente[c] = "conexion"
     /\ IF dueno = NULO THEN UNCHANGED conexiones_io
        ELSE conexiones_io' = [conexiones_io EXCEPT ![nombreDe[dueno]] = c]
     /\ quiebre' = IF dueno = c THEN "no" ELSE "nombre"
     /\ cliente' = [cliente EXCEPT ![c] = "cola"]
     /\ UNCHANGED <<viva, nombre_entrada_salida_conectada, colas_blocks_io,
                    diccionario_semaforos_io, hilo>>
     /\ RegistroSolo

PublicarCola(c) ==
  /\ cliente[c] = "cola"
  /\ colas_blocks_io' = [colas_blocks_io EXCEPT ![nombreDe[c]] = c]
  /\ cliente' = [cliente EXCEPT ![c] = "semaforos"]
  /\ UNCHANGED <<viva, nombre_entrada_salida_conectada, conexiones_io, diccionario_semaforos_io,
                 hilo, quiebre>>
  /\ RegistroSolo

PublicarSemaforos(c) ==
  /\ cliente[c] = "semaforos"
  /\ diccionario_semaforos_io' = [diccionario_semaforos_io EXCEPT ![nombreDe[c]] = c]
  /\ cliente' = [cliente EXCEPT ![c] = "hilo"]
  /\ UNCHANGED <<viva, nombre_entrada_salida_conectada, conexiones_io, colas_blocks_io, hilo,
                 quiebre>>
  /\ RegistroSolo

\* pthread_create, and free of whatever the global holds by then.
CrearHilo(c) ==
  /\ cliente[c] = "hilo"
  /\ hilo' = [hilo EXCEPT ![c].en = "inicio"]
  /\ quiebre' = IF nombre_entrada_salida_conectada = c THEN "no" ELSE "nombre"
  /\ nombre_entrada_salida_conectada' = NULO
  /\ cliente' = [cliente EXCEPT ![c] = "listo"]
  /\ UNCHANGED <<viva, diccionarios>>
  /\ RegistroSolo

-----------------------------------------------------------------------------
(* recibir_dispatch, OPERACION_IO.                                         *)

interfaz_conectada(n) == conexiones_io[n] # NULO

esOperacionValida(identificador, tipo) ==
  \/ tipo = "GENERICA" /\ identificador = "IO_GEN_SLEEP"
  \/ tipo = "STDIN" /\ identificador = "IO_STDIN_READ"
  \/ tipo = "STDOUT" /\ identificador = "IO_STDOUT_WRITE"
  \/ tipo = "DIALFS" /\ identificador \in {"IO_FS_TRUNCATE", "IO_FS_READ", "IO_FS_WRITE",
                                           "IO_FS_CREATE", "IO_FS_DELETE"}

DespachoSolo == UNCHANGED <<registro, hilo, sockets, binario_io_libre, planificacion, perdidos>>

PedirIo(p, n, identificador) ==
  /\ despacho = Libre /\ p \notin bloqueados \cup terminados
  /\ IF interfaz_conectada(n) /\ esOperacionValida(identificador, Tipo[n])
     THEN /\ bloqueados' = bloqueados \cup {p}
          /\ despacho' = [en |-> "cola", pid |-> p, nombre |-> n]
          /\ UNCHANGED terminados
     ELSE terminados' = terminados \cup {p} /\ UNCHANGED <<bloqueados, despacho>>
  /\ UNCHANGED <<cola, instruccion_en_cola, quiebre>>
  /\ DespachoSolo

Encolar ==
  LET q == colas_blocks_io[despacho.nombre]
  IN /\ despacho.en = "cola"
     /\ IF q = NULO THEN quiebre' = "nula" /\ UNCHANGED cola
        ELSE cola' = [cola EXCEPT ![q] = Append(@, despacho.pid)] /\ UNCHANGED quiebre
     /\ despacho' = [despacho EXCEPT !.en = "avisar", !.pid = NULO]
     /\ UNCHANGED <<procesos, instruccion_en_cola>>
     /\ DespachoSolo

\* Fault: the semaphore does not count.
AvisarBinario ==
  LET s == diccionario_semaforos_io[despacho.nombre]
  IN /\ despacho.en = "avisar"
     /\ IF s = NULO THEN quiebre' = "nula" /\ UNCHANGED instruccion_en_cola
        ELSE /\ instruccion_en_cola' = [instruccion_en_cola EXCEPT ![s] = 1]
             /\ UNCHANGED quiebre
     /\ despacho' = Libre
     /\ UNCHANGED <<procesos, cola>>
     /\ DespachoSolo

Avisar ==
  LET s == diccionario_semaforos_io[despacho.nombre]
  IN /\ despacho.en = "avisar"
     /\ IF s = NULO THEN quiebre' = "nula" /\ UNCHANGED instruccion_en_cola
        ELSE /\ instruccion_en_cola' = [instruccion_en_cola EXCEPT ![s] = @ + 1]
             /\ UNCHANGED quiebre
     /\ despacho' = Libre
     /\ UNCHANGED <<procesos, cola>>
     /\ DespachoSolo
-----------------------------------------------------------------------------
(* atender_interfaz.  Each look-up in a dictionary is a step: a module that *)
(* came back under the same name changes what the next one finds.           *)

Pasar(c, en) == hilo' = [hilo EXCEPT ![c].en = en]
HiloSolo == UNCHANGED <<registro, viva, despacho, detenida, detenciones>>

LeerSemaforos(c) ==
  /\ hilo[c].en = "inicio"
  /\ hilo' = [hilo EXCEPT ![c] =
       [SinHilo EXCEPT !.en = "esperar", !.sem = diccionario_semaforos_io[nombreDe[c]]]]
  /\ UNCHANGED <<cola, semaforosIO, pedidos, respuestas, procesos, puerta, perdidos, quiebre>>
  /\ HiloSolo

EsperarInstruccion(c) ==
  LET s == hilo[c].sem
  IN /\ hilo[c].en = "esperar" /\ instruccion_en_cola[s] > 0
     /\ instruccion_en_cola' = [instruccion_en_cola EXCEPT ![s] = @ - 1]
     /\ Pasar(c, "libre")
     /\ UNCHANGED <<cola, binario_io_libre, pedidos, respuestas, procesos, puerta, perdidos,
                    quiebre>>
     /\ HiloSolo

EsperarLibre(c) ==
  LET s == hilo[c].sem
  IN /\ hilo[c].en = "libre" /\ binario_io_libre[s] > 0
     /\ binario_io_libre' = [binario_io_libre EXCEPT ![s] = @ - 1]
     /\ Pasar(c, "sacar")
     /\ UNCHANGED <<cola, instruccion_en_cola, pedidos, respuestas, procesos, puerta, perdidos,
                    quiebre>>
     /\ HiloSolo

\* Fault: queue_peek.
SacarPedidoSinQuitar(c) ==
  LET q == colas_blocks_io[nombreDe[c]]
  IN /\ hilo[c].en = "sacar"
     /\ IF cola[q] = <<>> THEN quiebre' = "vacia" /\ UNCHANGED hilo
        ELSE /\ hilo' = [hilo EXCEPT ![c].en = "pedir", ![c].pid = Head(cola[q])]
             /\ UNCHANGED quiebre
     /\ UNCHANGED <<cola, semaforosIO, pedidos, respuestas, procesos, puerta, perdidos>>
     /\ HiloSolo

SacarPedido(c) ==
  LET q == colas_blocks_io[nombreDe[c]]
  IN /\ hilo[c].en = "sacar"
     /\ IF cola[q] = <<>> THEN quiebre' = "vacia" /\ UNCHANGED <<hilo, cola>>
        ELSE /\ cola' = [cola EXCEPT ![q] = Tail(@)]
             /\ hilo' = [hilo EXCEPT ![c].en = "pedir", ![c].pid = Head(cola[q])]
             /\ UNCHANGED quiebre
     /\ UNCHANGED <<semaforosIO, pedidos, respuestas, procesos, puerta, perdidos>>
     /\ HiloSolo

\* ejecutar_instruccion_io.  What is sent to a module that died is lost.
EnviarPedido(c) ==
  LET con == conexiones_io[nombreDe[c]]
  IN /\ hilo[c].en = "pedir"
     /\ pedidos' = IF viva[con] THEN [pedidos EXCEPT ![con] = Append(@, hilo[c].pid)] ELSE pedidos
     /\ hilo' = [hilo EXCEPT ![c].en = "recibir", ![c].con = con]
     /\ UNCHANGED <<cola, semaforosIO, respuestas, procesos, puerta, perdidos, quiebre>>
     /\ HiloSolo

\* recibir_operacion answers -1 when the socket is closed.
RecibirRespuesta(c) ==
  LET con == hilo[c].con
      hay == respuestas[con] > 0
  IN /\ hilo[c].en = "recibir"
     /\ hay \/ ~viva[con]
     /\ respuestas' = [respuestas EXCEPT ![con] = IF hay THEN @ - 1 ELSE 0]
     /\ hilo' = [hilo EXCEPT ![c].en = IF detenida THEN "compuerta" ELSE "manejar",
                             ![c].bien = hay]
     /\ UNCHANGED <<cola, semaforosIO, pedidos, procesos, puerta, perdidos, quiebre>>
     /\ HiloSolo

PasarCompuerta(c) ==
  /\ hilo[c].en = "compuerta" /\ puerta > 0
  /\ puerta' = puerta - 1
  /\ Pasar(c, "manejar")
  /\ UNCHANGED <<cola, semaforosIO, pedidos, respuestas, procesos, perdidos, quiebre>>
  /\ HiloSolo

\* IO_SUCCESS: the process found in lista_procesos_blocked becomes READY.
ManejarExito(c) ==
  /\ hilo[c].en = "manejar" /\ hilo[c].bien
  /\ IF hilo[c].pid \in bloqueados
     THEN /\ bloqueados' = bloqueados \ {hilo[c].pid}
          /\ binario_io_libre' = [binario_io_libre EXCEPT ![hilo[c].sem] = @ + 1]
          /\ Pasar(c, "inicio")
          /\ UNCHANGED quiebre
     ELSE quiebre' = "muerto" /\ UNCHANGED <<bloqueados, binario_io_libre, hilo>>
  /\ UNCHANGED <<cola, instruccion_en_cola, pedidos, respuestas, terminados, puerta, perdidos>>
  /\ HiloSolo

\* Fault: the interface is given back although it failed.
ManejarFallaLiberando(c) ==
  /\ hilo[c].en = "manejar" /\ ~hilo[c].bien
  /\ perdidos' = perdidos \cup {hilo[c].pid}
  /\ binario_io_libre' = [binario_io_libre EXCEPT ![hilo[c].sem] = @ + 1]
  /\ Pasar(c, "inicio")
  /\ UNCHANGED <<cola, instruccion_en_cola, pedidos, respuestas, procesos, puerta, quiebre>>
  /\ HiloSolo

\* Any other answer: the request is freed, and nothing else happens.
ManejarFalla(c) ==
  /\ hilo[c].en = "manejar" /\ ~hilo[c].bien
  /\ perdidos' = perdidos \cup {hilo[c].pid}
  /\ Pasar(c, "inicio")
  /\ UNCHANGED <<cola, semaforosIO, pedidos, respuestas, procesos, puerta, quiebre>>
  /\ HiloSolo

-----------------------------------------------------------------------------
(* The modules at the other end, and the console.                          *)

ModuloSolo == UNCHANGED <<registro, cola, semaforosIO, hilo, procesos, despacho, planificacion,
                          perdidos, quiebre>>

Responder(c) ==
  /\ viva[c] /\ pedidos[c] # <<>>
  /\ pedidos' = [pedidos EXCEPT ![c] = Tail(@)]
  /\ respuestas' = [respuestas EXCEPT ![c] = @ + 1]
  /\ UNCHANGED viva
  /\ ModuloSolo

\* exit(EXIT_FAILURE) in the middle of a request, or the user stops it.
Morir(c) ==
  /\ viva[c] /\ Cardinality(Muertas) < MAX_MUERTES
  /\ viva' = [viva EXCEPT ![c] = FALSE]
  /\ pedidos' = [pedidos EXCEPT ![c] = <<>>]
  /\ UNCHANGED respuestas
  /\ ModuloSolo

ConsolaSola == UNCHANGED <<registro, cola, semaforosIO, hilo, sockets, despacho, perdidos, quiebre>>

\* FINALIZAR_PROCESO of a BLOCKED process leaves its request where it is.
FinalizarProceso(p) ==
  /\ p \in bloqueados /\ Cardinality(terminados) < MAX_FINALIZADOS
  /\ bloqueados' = bloqueados \ {p} /\ terminados' = terminados \cup {p}
  /\ UNCHANGED planificacion
  /\ ConsolaSola

DetenerPlanificacion ==
  /\ ~detenida /\ detenciones < MAX_DETENCIONES
  /\ detenida' = TRUE /\ detenciones' = detenciones + 1
  /\ UNCHANGED <<puerta, procesos>>
  /\ ConsolaSola

\* iniciar_planificacion, its post of podes_manejar_recepcion_de_interfaces.
IniciarPlanificacion ==
  /\ detenida
  /\ detenida' = FALSE /\ puerta' = puerta + 1
  /\ UNCHANGED <<detenciones, procesos>>
  /\ ConsolaSola

-----------------------------------------------------------------------------
Cliente(c) == PublicarConexion(c) \/ PublicarCola(c) \/ PublicarSemaforos(c) \/ CrearHilo(c)
HiloIo(c) ==
  \/ LeerSemaforos(c) \/ EsperarInstruccion(c) \/ EsperarLibre(c) \/ SacarPedido(c)
  \/ EnviarPedido(c) \/ RecibirRespuesta(c) \/ PasarCompuerta(c)
  \/ ManejarExito(c) \/ ManejarFalla(c)
HiloDespacho == Encolar \/ Avisar
Consola ==
  \/ \E p \in Pids : FinalizarProceso(p)
  \/ DetenerPlanificacion \/ IniciarPlanificacion

Next ==
  /\ Sano
  /\ \/ \E c \in Conexiones : Conectar(c) \/ Cliente(c) \/ HiloIo(c) \/ Responder(c) \/ Morir(c)
     \/ HiloDespacho \/ Consola
     \/ \E p \in Pids, n \in Nombres, i \in Identificadores : PedirIo(p, n, i)

Spec == Init /\ [][Next]_vars

\* The threads of the kernel go on when they can, and a module that lives
\* answers.  Nobody has to ask, connect, die or type.
FairSpec ==
  /\ Spec
  /\ WF_vars(Sano /\ HiloDespacho)
  /\ \A c \in Conexiones :
       WF_vars(Sano /\ Cliente(c)) /\ WF_vars(Sano /\ HiloIo(c)) /\ WF_vars(Sano /\ Responder(c))

-----------------------------------------------------------------------------
Uno(b) == IF b THEN 1 ELSE 0
EnMano == {"pedir", "recibir", "compuerta", "manejar"}

Hilos == [en : {"no", "inicio", "esperar", "libre", "sacar"} \cup EnMano,
          sem : Conexiones \cup {NULO}, pid : Pids \cup {NULO}, con : Conexiones \cup {NULO},
          bien : BOOLEAN]
Despachos == [en : {"esperar", "cola", "avisar"}, pid : Pids \cup {NULO},
              nombre : Nombres \cup {NULO}]

\* Every variable has its type.
TypeOK ==
  /\ nombreDe \in [Conexiones -> Nombres] /\ viva \in [Conexiones -> BOOLEAN]
  /\ cliente \in [Conexiones -> {"fuera", "conexion", "cola", "semaforos", "hilo", "listo"}]
  /\ nombre_entrada_salida_conectada \in Conexiones \cup {NULO}
  /\ conexiones_io \in [Nombres -> Conexiones \cup {NULO}]
  /\ colas_blocks_io \in [Nombres -> Conexiones \cup {NULO}]
  /\ diccionario_semaforos_io \in [Nombres -> Conexiones \cup {NULO}]
  /\ cola \in [Conexiones -> Seq(Pids)] /\ pedidos \in [Conexiones -> Seq(Pids)]
  /\ instruccion_en_cola \in [Conexiones -> Nat] /\ binario_io_libre \in [Conexiones -> Nat]
  /\ respuestas \in [Conexiones -> Nat]
  /\ hilo \in [Conexiones -> Hilos]
  /\ bloqueados \subseteq Pids /\ terminados \subseteq Pids /\ perdidos \subseteq Pids
  /\ despacho \in Despachos
  /\ detenida \in BOOLEAN /\ puerta \in Nat /\ detenciones \in Nat
  /\ quiebre \in {"no", "nombre", "nula", "vacia", "muerto"}

\* A blocked process has exactly one request: dispatch is about to queue it, or
\* it waits in one queue, or one thread has it.  Only the request that a dead
\* module took with it is nowhere.  It holds also when the module comes back and
\* two threads, two queues and two pairs of semaphores have its name.  And only a
\* process that FINALIZAR_PROCESO killed leaves a request without being blocked.
Pedidos(p) ==
  Uno(despacho.pid = p)
  + Cardinality({ci \in Conexiones \X (1 .. Cardinality(Pids)) :
                   ci[2] \in DOMAIN cola[ci[1]] /\ cola[ci[1]][ci[2]] = p})
  + Cardinality({c \in Conexiones : hilo[c].en \in EnMano /\ hilo[c].pid = p})
PedidoUnico ==
  Sano => /\ \A p \in Pids \ terminados : Pedidos(p) = Uno(p \in bloqueados \ perdidos)
          /\ \A c \in Conexiones : Len(cola[c]) <= Cardinality(Pids)

\* A name that two modules have used, one after the other.
Reusado(n) == Cardinality({c \in Conexiones : nombreDe[c] = n /\ cliente[c] # "fuera"}) > 1

\* A thread that has passed binario_io_libre has that interface, and nobody else
\* has it or will before the thread gives it back, also when two threads, of a
\* module and of the one that came back, wait on the same semaphores.
Tiene(c, s) == hilo[c].en \in {"sacar"} \cup EnMano /\ hilo[c].sem = s
UnPedidoALaVez ==
  \A s \in Conexiones :
    /\ binario_io_libre[s] <= 1
    /\ \A c \in Conexiones : Tiene(c, s) =>
         binario_io_libre[s] = 0 /\ \A d \in Conexiones : Tiene(d, s) => d = c

\* instruccion_en_cola counts the queue of the interface, and binario_io_libre
\* says whether it is busy.  Once a module has died with a request its interface
\* is never free again: each death loses one request at most.
SemaforosIO ==
  Sano =>
  /\ Cardinality(perdidos) <= Cardinality(Muertas)
  /\ UnPedidoALaVez
  /\ \A c \in Conexiones : cliente[c] = "listo" /\ ~Reusado(nombreDe[c]) =>
      /\ instruccion_en_cola[c] + Uno(hilo[c].en \in {"libre", "sacar"})
           + Uno(despacho.en = "avisar" /\ despacho.nombre = nombreDe[c])
         = Len(cola[c])
      /\ IF hilo[c].en \in {"sacar"} \cup EnMano THEN binario_io_libre[c] = 0
         ELSE binario_io_libre[c] = 1 \/ (~viva[c] /\ perdidos # {})

\* At the gate that all the threads share, with fewer posts than threads: one
\* INICIAR_PLANIFICACION posts once.
Olvidado == Cardinality({c \in Conexiones : hilo[c].en = "compuerta"}) > puerta

\* A request that was queued is served, whatever becomes of the other processes
\* and interfaces, unless its module dies (the kernel never notices), the
\* planning is detained or left a thread at the gate, or two modules had its
\* name: one that comes back replaces the queue before the semaphores, and a
\* request that arrives in between is queued for it and posted to the old one.
PedidoAtendido ==
  \A c \in Conexiones, p \in Pids :
    p \in ToSet(cola[c]) ~> \/ p \notin bloqueados \/ ~Sano
                            \/ ~viva[c] \/ detenida \/ Olvidado \/ Reusado(nombreDe[c])
=============================================================================
