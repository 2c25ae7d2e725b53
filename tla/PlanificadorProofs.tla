------------------------- MODULE PlanificadorProofs -------------------------
(***************************************************************************)
(* Proofs about Planificador, for any number of processes and interfaces,  *)
(* any degree of multiprogramming, the three algorithms and any number of  *)
(* DETENER_PLANIFICACION commands.  The invariants are about semaphores:   *)
(* each is the length of a queue, or a token that exists once.  They are   *)
(* inductive together with the types and with ManoConsola, ManoHilos, ...: *)
(* a thread that is to queue a process holds one.  The second half is      *)
(* about where a process is, and the refinement of CicloDeVida.            *)
(***************************************************************************)
EXTENDS Planificador, Conteo

\* The names of the posts and waits stand for Post and Wait everywhere.
USE DEF AvisarNuevo, AvisarReady, AvisarExit, OcuparLugar, DevolverLugar, OcuparCpu, SoltarCpu

ManoConsola == consola.en # "libre" => consola.pid \in Pids
ManoHilos ==
  /\ creacion.en = "agregar" => creacion.pid \in Pids
  /\ eliminacion.en \in {"memoria", "muerto"} => eliminacion.pid \in Pids
ManoDespacho == ConDesalojo => despacho.pid \in Pids
ManoIo == \A i \in Interfaces : io[i].en # "esperar" => io[i].pid \in Pids

Tipos == TypeOK /\ ManoConsola /\ ManoHilos /\ ManoDespacho /\ ManoIo

\* The CPU answers once for each PCB.
UnaRespuesta == ALGORITMO = "FIFO" \/ "OUT_OF_MEMORY" \notin Motivos

-----------------------------------------------------------------------------
(* What Append, Head and Tail do to a queue.                               *)
LEMMA Colas ==
  ASSUME NEW S, NEW s \in Seq(S)
  PROVE  /\ Len(s) \in Nat
         /\ s # <<>> <=> Len(s) > 0
         /\ \A e \in S : Append(s, e) \in Seq(S) /\ Len(Append(s, e)) = Len(s) + 1
         /\ s # <<>> => /\ Head(s) \in S
                        /\ Tail(s) \in Seq(S)
                        /\ Len(Tail(s)) = Len(s) - 1
  OBVIOUS

LEMMA Vacia ==
  ASSUME NEW S
  PROVE <<>> \in Seq(S)
  OBVIOUS

(* sem_post and sem_wait change one counter, and keep it a natural number. *)
LEMMA SemTipo ==
  ASSUME sem \in [Semaforos -> Nat], NEW s \in Semaforos, Post(s) \/ Wait(s)
  PROVE  /\ sem' \in [Semaforos -> Nat]
         /\ \A t \in Semaforos \ {s} : sem'[t] = sem[t]
         /\ Post(s) => sem'[s] = sem[s] + 1
         /\ Wait(s) => sem[s] > 0 /\ sem'[s] = sem[s] - 1
  BY DEF Post, Wait

(* Which actions can change which variables.                               *)
LEMMA Marco ==
  ASSUME [Next]_vars
  PROVE  /\ \/ UNCHANGED <<varsConsola, sistema, terminados, respuestas>>
            \/ \E p \in Pids : IniciarProceso(p)
            \/ RespuestaCreacion \/ Registrar \/ DetenerPlanificacion \/ IniciarPlanificacion
            \/ PedirFin \/ RespuestaFin
         /\ \/ UNCHANGED varsColas
            \/ RespuestaCreacion \/ TomarGrado \/ AgregarAReady \/ Despachar \/ ManejarFin
            \/ ManejarFinDeQuantum \/ ManejarIo \/ PedirFin
            \/ \E i \in Interfaces : Desbloquear(i)
         /\ \/ UNCHANGED <<creacion, corto, eliminacion>>
            \/ HiloCreacion \/ HiloCorto \/ HiloEliminacion
         /\ UNCHANGED <<despacho, varsCpu>> \/ Despachar \/ HiloDespacho \/ Cpu
         /\ UNCHANGED varsIo \/ ManejarIo \/ \E i \in Interfaces : HiloIo(i)
         /\ \/ UNCHANGED sem
            \/ IniciarPlanificacion
            \/ \E s \in Semaforos : Post(s) \/ Wait(s)
  <1> USE DEF vars, varsConsola, varsColas, varsIo, varsCpu, Next, HiloConsola, HiloCreacion,
       HiloCorto, HiloDespacho, HiloEliminacion, HiloIo, Cpu, IniciarProceso,
       RespuestaCreacion, Registrar, DetenerPlanificacion, IniciarPlanificacion,
       EsperarNuevo, CompuertaCreacion, TomarGrado, AgregarAReady, EsperarReady, EsperarCpu,
       CompuertaCorto, Despachar, Salir, FinDeQuantum, SinMemoria, Descartar, CpuSinTocar,
       RecibirDesalojo, CompuertaDespacho, ManejarFin, ManejarFinDeQuantum, ManejarIo,
       LiberarCpu, TomarPedido, RecibirResultado, CompuertaIo, Desbloquear, OtrasIo,
       EsperarExit, CompuertaEliminacion, PedirFin, RespuestaFin
  <1>1. \/ UNCHANGED <<varsConsola, sistema, terminados, respuestas>>
        \/ \E p \in Pids : IniciarProceso(p)
        \/ RespuestaCreacion \/ Registrar \/ DetenerPlanificacion \/ IniciarPlanificacion
        \/ PedirFin \/ RespuestaFin
    <2> HIDE DEF Next
    <2>1. CASE \/ \E p \in Pids : IniciarProceso(p)
               \/ DetenerPlanificacion \/ IniciarPlanificacion \/ HiloConsola
      BY <2>1
    <2>2. CASE HiloCreacion \/ HiloCorto
      BY <2>2
    <2>3. CASE HiloDespacho \/ Cpu
      BY <2>3
    <2>4. CASE HiloEliminacion
      BY <2>4
    <2>5. CASE (\E i \in Interfaces : HiloIo(i)) \/ UNCHANGED vars
      BY <2>5
    <2> HIDE DEF HiloConsola, HiloCreacion, HiloCorto, HiloDespacho, HiloEliminacion, HiloIo, Cpu,
                 vars, varsConsola, IniciarProceso, DetenerPlanificacion, IniciarPlanificacion,
                 RespuestaCreacion, Registrar, PedirFin, RespuestaFin
    <2> QED
      BY <2>1, <2>2, <2>3, <2>4, <2>5 DEF Next
  <1>2. \/ UNCHANGED varsColas
        \/ RespuestaCreacion \/ TomarGrado \/ AgregarAReady \/ Despachar \/ ManejarFin
        \/ ManejarFinDeQuantum \/ ManejarIo \/ PedirFin
        \/ \E i \in Interfaces : Desbloquear(i)
    <2> HIDE DEF Next
    <2>1. CASE \/ \E p \in Pids : IniciarProceso(p)
               \/ DetenerPlanificacion \/ IniciarPlanificacion \/ HiloConsola
      BY <2>1
    <2>2. CASE HiloCreacion \/ HiloCorto
      BY <2>2
    <2>3. CASE HiloDespacho \/ Cpu
      BY <2>3
    <2>4. CASE HiloEliminacion \/ \E i \in Interfaces : HiloIo(i)
      BY <2>4
    <2>5. CASE UNCHANGED vars
      BY <2>5
    <2> HIDE DEF HiloConsola, HiloCreacion, HiloCorto, HiloDespacho, HiloEliminacion, HiloIo, Cpu,
                 vars, varsColas, IniciarProceso, DetenerPlanificacion, IniciarPlanificacion,
                 RespuestaCreacion, TomarGrado, AgregarAReady, Despachar, ManejarFin,
                 ManejarFinDeQuantum, ManejarIo, PedirFin, Desbloquear
    <2> QED
      BY <2>1, <2>2, <2>3, <2>4, <2>5 DEF Next
  <1>3. \/ UNCHANGED <<creacion, corto, eliminacion>>
        \/ HiloCreacion \/ HiloCorto \/ HiloEliminacion
    OBVIOUS
  <1>4. UNCHANGED <<despacho, varsCpu>> \/ Despachar \/ HiloDespacho \/ Cpu
    OBVIOUS
  <1>5. UNCHANGED varsIo \/ ManejarIo \/ \E i \in Interfaces : HiloIo(i)
    OBVIOUS
  <1>6. \/ UNCHANGED sem
        \/ IniciarPlanificacion
        \/ \E s \in Semaforos : Post(s) \/ Wait(s)
    BY DEF Semaforos
  <1> QED
    BY <1>1, <1>2, <1>3, <1>4, <1>5, <1>6

-----------------------------------------------------------------------------
(* Types.                                                                  *)

LEMMA InicioTipos == Init => Tipos
  <1> SUFFICES ASSUME Init PROVE Tipos
    OBVIOUS
  <1> USE DEF Init, En
  <1>1. TiposConsola /\ ManoConsola
    <2>1. respuestas \in Seq(Respuestas)
      BY Vacia
    <2>2. /\ creados = {} /\ terminados = {} /\ sistema = {}
          /\ consola = En("libre", NULO) /\ detenida = FALSE
      OBVIOUS
    <2>3. detenciones \in 0..MAX_DETENCIONES
      BY DetencionesAssumption
    <2> HIDE DEF Init
    <2> QED
      BY <2>1, <2>2, <2>3 DEF TiposConsola, ManoConsola
  <1>2. TiposColas
    BY DEF TiposColas
  <1>3. TiposHilos /\ ManoHilos
    BY DEF TiposHilos, ManoHilos
  <1>4. TiposCpu /\ ManoDespacho
    BY Vacia DEF TiposCpu, ManoDespacho, ConDesalojo
  <1>5. TiposIo /\ ManoIo
    BY Vacia DEF TiposIo, ManoIo, Pedidos
  <1>6. sem \in [Semaforos -> Nat]
    BY GradoAssumption DEF Semaforos
  <1> QED
    BY <1>1, <1>2, <1>3, <1>4, <1>5, <1>6 DEF Tipos, TypeOK

LEMMA PasoTiposConsola == Tipos /\ [Next]_vars => TiposConsola' /\ ManoConsola'
  <1> SUFFICES ASSUME Tipos, [Next]_vars PROVE TiposConsola' /\ ManoConsola'
    OBVIOUS
  <1>0. TiposConsola /\ ManoConsola /\ TiposHilos /\ ManoHilos
    BY DEF Tipos, TypeOK
  <1> USE DEF TiposConsola, ManoConsola, En
  <1>a. ASSUME NEW r \in Respuestas PROVE Append(respuestas, r) \in Seq(Respuestas)
    BY <1>0, Colas
  <1>b. respuestas # <<>> => Tail(respuestas) \in Seq(Respuestas)
    BY <1>0, Colas
  <1>c. "CREAR_PROCESO" \in Respuestas /\ "END_PROCESS" \in Respuestas
    BY DEF Respuestas
  <1>1. CASE UNCHANGED <<varsConsola, sistema, terminados, respuestas>>
    BY <1>0, <1>1 DEF varsConsola
  <1>2. ASSUME NEW p \in Pids, IniciarProceso(p) PROVE TiposConsola' /\ ManoConsola'
    BY <1>0, <1>2, <1>a, <1>c DEF IniciarProceso
  <1>3. CASE RespuestaCreacion
    BY <1>0, <1>3, <1>b DEF RespuestaCreacion
  <1>4. CASE Registrar
    BY <1>0, <1>4 DEF Registrar
  <1>5. CASE DetenerPlanificacion
    BY <1>0, <1>5, DetencionesAssumption DEF DetenerPlanificacion
  <1>6. CASE IniciarPlanificacion
    BY <1>0, <1>6 DEF IniciarPlanificacion
  <1>7. CASE PedirFin
    BY <1>0, <1>7, <1>a, <1>c DEF PedirFin, varsConsola
  <1>8. CASE RespuestaFin
    BY <1>0, <1>8, <1>b DEF RespuestaFin, varsConsola, TiposHilos, ManoHilos
  <1> QED
    BY <1>1, <1>2, <1>3, <1>4, <1>5, <1>6, <1>7, <1>8, Marco

LEMMA PasoTiposColas == Tipos /\ [Next]_vars => TiposColas'
  <1> SUFFICES ASSUME Tipos, [Next]_vars PROVE TiposColas'
    OBVIOUS
  <1>0. /\ TiposColas /\ TiposConsola /\ ManoConsola /\ TiposHilos /\ ManoHilos
        /\ TiposCpu /\ ManoDespacho /\ TiposIo /\ ManoIo
    BY DEF Tipos, TypeOK
  <1> USE DEF TiposColas
  <1>1. CASE UNCHANGED varsColas
    BY <1>0, <1>1 DEF varsColas
  <1>2. CASE RespuestaCreacion
    <2>1. consola.pid \in Pids
      BY <1>0, <1>2 DEF RespuestaCreacion, ManoConsola
    <2>2. Append(colaNew, consola.pid) \in Seq(Pids)
      BY <1>0, <2>1, Colas
    <2>3. /\ colaNew' \in {colaNew, Append(colaNew, consola.pid)}
          /\ UNCHANGED <<colaReady, colaReadyPlus, colaExit, bloqueados>>
      BY <1>2 DEF RespuestaCreacion
    <2> QED
      BY <1>0, <2>2, <2>3
  <1>3. CASE TomarGrado
    BY <1>0, <1>3, Colas DEF TomarGrado
  <1>4. CASE AgregarAReady
    BY <1>0, <1>4, Colas DEF AgregarAReady, ManoHilos
  <1>5. CASE Despachar
    BY <1>0, <1>5, Colas DEF Despachar
  <1>6. CASE ManejarFin
    BY <1>0, <1>6, Colas DEF ManejarFin, ManoDespacho, ConDesalojo
  <1>7. CASE ManejarFinDeQuantum
    BY <1>0, <1>7, Colas DEF ManejarFinDeQuantum, ManoDespacho, ConDesalojo
  <1>8. CASE ManejarIo
    BY <1>0, <1>8 DEF ManejarIo, ManoDespacho, ConDesalojo
  <1>9. CASE PedirFin
    BY <1>0, <1>9, Colas DEF PedirFin
  <1>10. ASSUME NEW i \in Interfaces, Desbloquear(i) PROVE TiposColas'
    <2>1. PICK p \in Pids : p = io[i].pid
      BY <1>0, <1>10 DEF Desbloquear, ManoIo
    <2>2. Append(colaReady, p) \in Seq(Pids) /\ Append(colaReadyPlus, p) \in Seq(Pids)
      BY <1>0, Colas
    <2>3. /\ colaReady' \in {colaReady, Append(colaReady, p)}
          /\ colaReadyPlus' \in {colaReadyPlus, Append(colaReadyPlus, p)}
          /\ bloqueados' = bloqueados \ {p} /\ UNCHANGED <<colaNew, colaExit>>
      BY <1>10, <2>1 DEF Desbloquear, OtrasIo
    <2> QED
      BY <1>0, <2>2, <2>3
  <1> QED
    BY <1>1, <1>2, <1>3, <1>4, <1>5, <1>6, <1>7, <1>8, <1>9, <1>10, Marco

LEMMA PasoTiposHilos == Tipos /\ [Next]_vars => TiposHilos' /\ ManoHilos'
  <1> SUFFICES ASSUME Tipos, [Next]_vars PROVE TiposHilos' /\ ManoHilos'
    OBVIOUS
  <1>0. TiposHilos /\ ManoHilos /\ TiposColas
    BY DEF Tipos, TypeOK
  <1> USE DEF TiposHilos, ManoHilos, En, Eliminando, TrasEspera
  <1>1. CASE UNCHANGED <<creacion, corto, eliminacion>>
    BY <1>0, <1>1
  <1>2. CASE EsperarNuevo \/ CompuertaCreacion \/ AgregarAReady
    BY <1>0, <1>2 DEF EsperarNuevo, CompuertaCreacion, AgregarAReady
  <1>3. CASE TomarGrado
    BY <1>0, <1>3, Colas DEF TomarGrado, TiposColas
  <1>4. CASE HiloCorto
    BY <1>0, <1>4 DEF HiloCorto, EsperarReady, EsperarCpu, CompuertaCorto, Despachar
  <1>5. CASE EsperarExit \/ CompuertaEliminacion
    <2>1. /\ eliminacion' \in {Eliminando("compuerta", NULO, {}),
                               Eliminando("sacar", NULO, {})}
          /\ UNCHANGED <<creacion, corto>>
      BY <1>5 DEF EsperarExit, CompuertaEliminacion
    <2> QED
      BY <1>0, <2>1
  <1>6. CASE PedirFin
    BY <1>0, <1>6, Colas DEF PedirFin, TiposColas
  <1>7. CASE RespuestaFin
    <2>1. /\ \/ eliminacion' = Eliminando("esperar", NULO, {})
             \/ /\ eliminacion' = [eliminacion EXCEPT !.en = "muerto"]
                /\ eliminacion.en = "memoria"
          /\ UNCHANGED <<creacion, corto>>
      BY <1>7 DEF RespuestaFin
    <2> QED
      BY <1>0, <2>1
  <1> QED
    BY <1>1, <1>2, <1>3, <1>4, <1>5, <1>6, <1>7, Marco DEF HiloCreacion, HiloEliminacion

LEMMA PasoTiposCpu == Tipos /\ [Next]_vars => TiposCpu' /\ ManoDespacho'
  <1> SUFFICES ASSUME Tipos, [Next]_vars PROVE TiposCpu' /\ ManoDespacho'
    OBVIOUS
  <1>0. TiposCpu /\ ManoDespacho /\ TiposColas
    BY DEF Tipos, TypeOK
  <1> DEFINE Despachos == [en : {"esperar", "compuerta", "manejar", "liberar"},
                           pid : Pids \cup {NULO},
                           motivo : MotivosDesalojo \cup {"ninguno"},
                           interfaz : Interfaces \cup {NULO}]
  <1>a. ASSUME NEW p \in Pids, NEW m \in MotivosDesalojo, NEW i \in Interfaces \cup {NULO}
        PROVE  Desalojo(p, m, i) \in Desalojos
    BY DEF Desalojo, Desalojos
  <1>b. {"OPERACION_IO", "END_PROCESS", "OUT_OF_MEMORY", "FIN_CLOCK"} \subseteq MotivosDesalojo
    BY DEF MotivosDesalojo
  <1>c. aCpu \in Seq(Pids) /\ perdidos \in Seq(Pids) /\ desalojos \in Seq(Desalojos)
    BY <1>0 DEF TiposCpu
  <1>d. aCpu # <<>> => Head(aCpu) \in Pids /\ Tail(aCpu) \in Seq(Pids)
    BY <1>c, Colas
  <1>e. ASSUME NEW e \in Desalojos PROVE Append(desalojos, e) \in Seq(Desalojos)
    BY <1>c, Colas
  <1>1. CASE UNCHANGED <<despacho, varsCpu>>
    BY <1>0, <1>1 DEF varsCpu, TiposCpu, ManoDespacho, ConDesalojo
  <1>2. CASE Despachar
    <2>1. aCpu' \in Seq(Pids)
      <3>1. colaReady # <<>> => Head(colaReady) \in Pids
        BY <1>0, Colas DEF TiposColas
      <3>2. colaReadyPlus # <<>> => Head(colaReadyPlus) \in Pids
        BY <1>0, Colas DEF TiposColas
      <3>3. \E p \in Pids : aCpu' = Append(aCpu, p)
        BY <1>2, <3>1, <3>2 DEF Despachar
      <3> QED
        BY <1>c, <3>3, Colas
    <2> QED
      BY <1>0, <1>2, <2>1 DEF Despachar, TiposCpu, ManoDespacho, ConDesalojo
  <1>3. CASE Salir
    <2>1. desalojos' \in Seq(Desalojos)
      BY <1>3, <1>a, <1>b, <1>d, <1>e DEF Salir
    <2> QED
      BY <1>0, <1>3, <1>d, <2>1 DEF Salir, CpuSinTocar, TiposCpu, ManoDespacho, ConDesalojo
  <1>4. CASE FinDeQuantum
    <2>1. desalojos' \in Seq(Desalojos)
      BY <1>4, <1>a, <1>b, <1>d, <1>e DEF FinDeQuantum
    <2> QED
      BY <1>0, <1>4, <1>d, <2>1
      DEF FinDeQuantum, CpuSinTocar, TiposCpu, ManoDespacho, ConDesalojo
  <1>5. CASE SinMemoria
    <2> DEFINE oom == Desalojo(Head(aCpu), "OUT_OF_MEMORY", NULO)
               fin == Desalojo(Head(aCpu), "FIN_CLOCK", NULO)
    <2>1. oom \in Desalojos /\ fin \in Desalojos
      BY <1>5, <1>a, <1>b, <1>d DEF SinMemoria
    <2>2. Append(desalojos, oom) \in Seq(Desalojos)
      BY <1>e, <2>1
    <2>3. desalojos \o <<oom, fin>> \in Seq(Desalojos)
      <3> HIDE DEF oom, fin
      <3> QED
        BY <1>c, <2>1
    <2>4. desalojos' \in {Append(desalojos, oom), desalojos \o <<oom, fin>>}
      BY <1>5 DEF SinMemoria
    <2>5. desalojos' \in Seq(Desalojos)
      BY <2>2, <2>3, <2>4
    <2> QED
      BY <1>0, <1>5, <1>d, <2>5
      DEF SinMemoria, CpuSinTocar, TiposCpu, ManoDespacho, ConDesalojo
  <1>6. CASE Descartar
    <2>1. aCpu' \in Seq(Pids) /\ perdidos' \in Seq(Pids)
      BY <1>6, <1>c, <1>d, Colas DEF Descartar
    <2> QED
      BY <1>0, <1>6, <2>1 DEF Descartar, CpuSinTocar, TiposCpu, ManoDespacho, ConDesalojo
  <1>7. CASE RecibirDesalojo
    <2>1. Head(desalojos) \in Desalojos /\ desalojos' \in Seq(Desalojos)
      BY <1>7, <1>c, Colas DEF RecibirDesalojo
    <2>2. /\ Head(desalojos).pid \in Pids
          /\ Head(desalojos).motivo \in MotivosDesalojo
          /\ Head(desalojos).interfaz \in Interfaces \cup {NULO}
      BY <2>1 DEF Desalojos
    <2>3. despacho' \in Despachos /\ despacho'.pid \in Pids
      BY <1>7, <2>2 DEF RecibirDesalojo, TrasEspera
    <2> QED
      BY <1>0, <1>7, <2>1, <2>3 DEF RecibirDesalojo, TiposCpu, ManoDespacho
  <1>8. CASE CompuertaDespacho \/ LiberarCpu
    BY <1>0, <1>8
    DEF CompuertaDespacho, LiberarCpu, varsCpu, TiposCpu, ManoDespacho, ConDesalojo
  <1>9. CASE ManejarFin \/ ManejarFinDeQuantum \/ ManejarIo
    <2>1. DejarCpu /\ UNCHANGED varsCpu
      BY <1>9 DEF ManejarFin, ManejarFinDeQuantum, ManejarIo
    <2>2. despacho' \in Despachos /\ despacho'.en = "liberar"
      BY <2>1 DEF DejarCpu
    <2> QED
      BY <1>0, <2>1, <2>2 DEF varsCpu, TiposCpu, ManoDespacho, ConDesalojo
  <1> QED
    BY <1>1, <1>2, <1>3, <1>4, <1>5, <1>6, <1>7, <1>8, <1>9, Marco DEF HiloDespacho, Cpu

LEMMA PasoTiposIo == Tipos /\ [Next]_vars => TiposIo' /\ ManoIo'
  <1> SUFFICES ASSUME Tipos, [Next]_vars PROVE TiposIo' /\ ManoIo'
    OBVIOUS
  <1>0. TiposIo /\ ManoIo /\ ManoDespacho
    BY DEF Tipos, TypeOK
  <1>a. ASSUME NEW i \in Interfaces, NEW q \in Seq(Pids), colaIo' = [colaIo EXCEPT ![i] = q]
        PROVE  colaIo' \in [Interfaces -> Seq(Pids)]
    BY <1>0, <1>a DEF TiposIo
  <1>1. CASE UNCHANGED varsIo
    BY <1>0, <1>1 DEF varsIo, TiposIo, ManoIo
  <1>2. CASE ManejarIo
    <2> DEFINE i == despacho.interfaz
    <2>1. i \in Interfaces /\ despacho.pid \in Pids
      BY <1>0, <1>2 DEF ManejarIo, ManoDespacho, ConDesalojo
    <2>2. Append(colaIo[i], despacho.pid) \in Seq(Pids)
      BY <1>0, <2>1, Colas DEF TiposIo
    <2>3. colaIo' \in [Interfaces -> Seq(Pids)]
      BY <1>2, <1>a, <2>1, <2>2 DEF ManejarIo
    <2>4. semIo' \in [Interfaces -> Pedidos]
      <3>1. semIo[i].instruccion_en_cola + 1 \in Nat /\ semIo[i] \in Pedidos
        BY <1>0, <2>1 DEF TiposIo, Pedidos
      <3>2. [semIo[i] EXCEPT !.instruccion_en_cola = @ + 1] \in Pedidos
        BY <3>1 DEF Pedidos
      <3>3. semIo' = [semIo EXCEPT ![i] = [semIo[i] EXCEPT !.instruccion_en_cola = @ + 1]]
        BY <1>2 DEF ManejarIo
      <3> HIDE DEF i
      <3> QED
        BY <1>0, <2>1, <3>2, <3>3 DEF TiposIo
    <2> QED
      BY <1>0, <1>2, <2>3, <2>4 DEF ManejarIo, TiposIo, ManoIo
  <1>3. ASSUME NEW i \in Interfaces, TomarPedido(i) PROVE TiposIo' /\ ManoIo'
    <2>1. Head(colaIo[i]) \in Pids /\ Tail(colaIo[i]) \in Seq(Pids)
      BY <1>0, <1>3, Colas DEF TomarPedido, TiposIo
    <2>2. colaIo' \in [Interfaces -> Seq(Pids)]
      BY <1>3, <1>a, <2>1 DEF TomarPedido
    <2>3. semIo' \in [Interfaces -> Pedidos]
      BY <1>0, <1>3 DEF TomarPedido, TiposIo, Pedidos
    <2>4. /\ io' \in [Interfaces -> [en : {"esperar", "operando", "compuerta", "completar"},
                                     pid : Pids \cup {NULO}]]
          /\ ManoIo'
      BY <1>0, <1>3, <2>1 DEF TomarPedido, TiposIo, ManoIo, En
    <2> QED
      BY <2>2, <2>3, <2>4 DEF TiposIo
  <1>4. ASSUME NEW i \in Interfaces, RecibirResultado(i) PROVE TiposIo' /\ ManoIo'
    BY <1>0, <1>4 DEF RecibirResultado, TiposIo, ManoIo, TrasEspera
  <1>5. ASSUME NEW i \in Interfaces, CompuertaIo(i) PROVE TiposIo' /\ ManoIo'
    BY <1>0, <1>5 DEF CompuertaIo, TiposIo, ManoIo
  <1>6. ASSUME NEW i \in Interfaces, Desbloquear(i) PROVE TiposIo' /\ ManoIo'
    <2>1. semIo' \in [Interfaces -> Pedidos]
      <3>1. semIo[i].binario_io_libre + 1 \in Nat /\ semIo[i] \in Pedidos
        BY <1>0, <1>6 DEF TiposIo, Pedidos
      <3>2. [semIo[i] EXCEPT !.binario_io_libre = @ + 1] \in Pedidos
        BY <3>1 DEF Pedidos
      <3>3. semIo' = [semIo EXCEPT ![i] = [semIo[i] EXCEPT !.binario_io_libre = @ + 1]]
        BY <1>6 DEF Desbloquear
      <3> QED
        BY <1>0, <3>2, <3>3 DEF TiposIo
    <2> QED
      BY <1>0, <1>6, <2>1 DEF Desbloquear, TiposIo, ManoIo, En
  <1> QED
    BY <1>1, <1>2, <1>3, <1>4, <1>5, <1>6, Marco DEF HiloIo

LEMMA PasoTipos == Tipos /\ [Next]_vars => Tipos'
  <1> SUFFICES ASSUME Tipos, [Next]_vars PROVE Tipos'
    OBVIOUS
  <1>1. sem \in [Semaforos -> Nat]
    BY DEF Tipos, TypeOK
  <1>2. (sem \in [Semaforos -> Nat])'
    <2>1. CASE UNCHANGED sem
      BY <1>1, <2>1
    <2>2. CASE IniciarPlanificacion
      BY <1>1, <2>2 DEF IniciarPlanificacion
    <2>3. ASSUME NEW s \in Semaforos, Post(s) \/ Wait(s) PROVE sem' \in [Semaforos -> Nat]
      BY <1>1, <2>3, SemTipo
    <2> QED
      BY <2>1, <2>2, <2>3, Marco
  <1> QED
    BY <1>2, PasoTiposConsola, PasoTiposColas, PasoTiposHilos, PasoTiposCpu, PasoTiposIo
    DEF Tipos, TypeOK

LEMMA SiempreTipos == Spec => []Tipos
  BY InicioTipos, PasoTipos, PTL DEF Spec

(* The variables of the scheduler stay in their types; in particular no    *)
(* semaphore goes below zero and no queue holds anything but a process.    *)
THEOREM TiposDelPlanificador == Spec => []TypeOK
  <1>1. Tipos => TypeOK
    BY DEF Tipos
  <1> QED
    BY <1>1, SiempreTipos, PTL

-----------------------------------------------------------------------------
(* Semaphores and queues.                                                  *)

(* Who touches each semaphore, its queue and the thread that waits on it.  *)
LEMMA MarcoSem ==
  ASSUME Tipos, [Next]_vars
  PROVE  /\ \/ /\ sem'["hay_proceso_nuevo"] = sem["hay_proceso_nuevo"]
               /\ UNCHANGED <<creacion, colaNew>>
            \/ RespuestaCreacion \/ HiloCreacion
         /\ \/ /\ sem'["hay_proceso_a_ready"] = sem["hay_proceso_a_ready"]
               /\ UNCHANGED <<corto, colaReady, colaReadyPlus>>
            \/ AgregarAReady \/ HiloCorto \/ ManejarFinDeQuantum
            \/ \E i \in Interfaces : Desbloquear(i)
         /\ \/ /\ sem'["hay_proceso_exit"] = sem["hay_proceso_exit"]
               /\ UNCHANGED <<eliminacion, colaExit>>
            \/ ManejarFin \/ HiloEliminacion
         /\ \/ /\ sem'["cpu_libre"] = sem["cpu_libre"]
               /\ UNCHANGED <<corto, despacho, varsCpu>>
            \/ HiloCorto \/ HiloDespacho \/ Cpu
  <1> DEFINE Nuevo == /\ sem'["hay_proceso_nuevo"] = sem["hay_proceso_nuevo"]
                      /\ UNCHANGED <<creacion, colaNew>>
             Ready == /\ sem'["hay_proceso_a_ready"] = sem["hay_proceso_a_ready"]
                      /\ UNCHANGED <<corto, colaReady, colaReadyPlus>>
             Fin == /\ sem'["hay_proceso_exit"] = sem["hay_proceso_exit"]
                    /\ UNCHANGED <<eliminacion, colaExit>>
             Libre == /\ sem'["cpu_libre"] = sem["cpu_libre"]
                      /\ UNCHANGED <<corto, despacho, varsCpu>>
  <1>1. \A s, t \in Semaforos : Post(s) \/ Wait(s) => t = s \/ sem'[t] = sem[t]
    BY SemTipo DEF Tipos, TypeOK
  <1>2. /\ {"hay_proceso_nuevo", "hay_proceso_a_ready", "hay_proceso_exit", "cpu_libre"}
              \subseteq Semaforos \ Compuertas
        /\ "grado_multi" \in Semaforos /\ Compuertas \subseteq Semaforos
    BY DEF Semaforos, Compuertas
  <1>3. {"podes_crear_procesos", "podes_eliminar_procesos", "podes_planificar_corto_plazo",
         "podes_manejar_desalojo", "podes_manejar_recepcion_de_interfaces"} \subseteq Semaforos
    BY DEF Semaforos
  <1>4. CASE UNCHANGED vars
    BY <1>4 DEF vars, varsColas, varsCpu
  <1>5. ASSUME NEW p \in Pids, IniciarProceso(p) PROVE Nuevo /\ Ready /\ Fin /\ Libre
    BY <1>5 DEF IniciarProceso, varsColas, varsCpu
  <1>6. CASE DetenerPlanificacion
    BY <1>6 DEF DetenerPlanificacion, varsColas, varsCpu
  <1>7. CASE IniciarPlanificacion
    <2>1. \A t \in Semaforos \ Compuertas : sem'[t] = sem[t]
      BY <1>7 DEF IniciarPlanificacion
    <2>2. UNCHANGED <<varsColas, creacion, corto, despacho, eliminacion, varsCpu>>
      BY <1>7 DEF IniciarPlanificacion
    <2> QED
      BY <1>2, <2>1, <2>2 DEF varsColas
  <1>8. CASE Registrar
    BY <1>8 DEF Registrar, varsColas, varsCpu
  <1>9. CASE RespuestaCreacion
    <2>1. UNCHANGED sem \/ Post("hay_proceso_nuevo")
      BY <1>9 DEF RespuestaCreacion, AvisarNuevo
    <2>2. UNCHANGED <<colaReady, colaReadyPlus, colaExit, corto, despacho, eliminacion, varsCpu>>
      BY <1>9 DEF RespuestaCreacion
    <2> QED
      BY <1>1, <1>2, <1>9, <2>1, <2>2
  <1>10. CASE HiloCreacion
    <2>1. \/ Wait("hay_proceso_nuevo") \/ Wait("podes_crear_procesos") \/ Wait("grado_multi")
          \/ AgregarAReady /\ Post("hay_proceso_a_ready")
      BY <1>10
      DEF HiloCreacion, EsperarNuevo, CompuertaCreacion, TomarGrado, AgregarAReady, OcuparLugar,
          AvisarReady
    <2>2. /\ UNCHANGED <<colaExit, corto, despacho, eliminacion, varsCpu>>
          /\ AgregarAReady \/ UNCHANGED <<colaReady, colaReadyPlus>>
      BY <1>10
      DEF HiloCreacion, EsperarNuevo, CompuertaCreacion, TomarGrado, AgregarAReady, varsColas
    <2>3. sem'["hay_proceso_exit"] = sem["hay_proceso_exit"] /\ sem'["cpu_libre"] = sem["cpu_libre"]
      BY <1>1, <1>2, <1>3, <2>1
    <2>4. AgregarAReady \/ sem'["hay_proceso_a_ready"] = sem["hay_proceso_a_ready"]
      BY <1>1, <1>2, <1>3, <2>1
    <2> QED
      BY <1>10, <2>2, <2>3, <2>4
  <1>11. CASE HiloCorto
    <2>1. \/ UNCHANGED sem \/ Wait("hay_proceso_a_ready") \/ Wait("cpu_libre")
          \/ Wait("podes_planificar_corto_plazo")
      BY <1>11 DEF HiloCorto, EsperarReady, EsperarCpu, CompuertaCorto, Despachar, OcuparCpu
    <2>2. UNCHANGED <<creacion, colaNew, eliminacion, colaExit>>
      BY <1>11 DEF HiloCorto, EsperarReady, EsperarCpu, CompuertaCorto, Despachar, varsColas
    <2> QED
      BY <1>1, <1>2, <1>3, <1>11, <2>1, <2>2
  <1>12. CASE HiloDespacho
    <2>1. /\ UNCHANGED <<creacion, colaNew, corto, colaReadyPlus, eliminacion>>
          /\ ManejarFinDeQuantum \/ UNCHANGED colaReady
          /\ ManejarFin \/ UNCHANGED colaExit
      BY <1>12
      DEF HiloDespacho, RecibirDesalojo, CompuertaDespacho, ManejarFin, ManejarFinDeQuantum,
          ManejarIo, LiberarCpu, varsColas
    <2>2. \/ UNCHANGED sem \/ Wait("podes_manejar_desalojo") \/ Post("cpu_libre")
          \/ ManejarFin /\ Post("hay_proceso_exit")
          \/ ManejarFinDeQuantum /\ Post("hay_proceso_a_ready")
      BY <1>12
      DEF HiloDespacho, RecibirDesalojo, CompuertaDespacho, ManejarFin, ManejarFinDeQuantum,
          ManejarIo, LiberarCpu, AvisarExit, AvisarReady, SoltarCpu
    <2>3. /\ sem'["hay_proceso_nuevo"] = sem["hay_proceso_nuevo"]
          /\ ManejarFin \/ sem'["hay_proceso_exit"] = sem["hay_proceso_exit"]
          /\ ManejarFinDeQuantum \/ sem'["hay_proceso_a_ready"] = sem["hay_proceso_a_ready"]
      BY <1>1, <1>2, <1>3, <2>2
    <2> QED
      BY <1>12, <2>1, <2>3
  <1>13. CASE HiloEliminacion
    <2>1. \/ UNCHANGED sem \/ Wait("hay_proceso_exit") \/ Wait("podes_eliminar_procesos")
          \/ Post("grado_multi")
      BY <1>13
      DEF HiloEliminacion, EsperarExit, CompuertaEliminacion, PedirFin, RespuestaFin, DevolverLugar
    <2>2. UNCHANGED <<creacion, colaNew, corto, colaReady, colaReadyPlus, despacho, varsCpu>>
      BY <1>13
      DEF HiloEliminacion, EsperarExit, CompuertaEliminacion, PedirFin, RespuestaFin, varsColas
    <2> QED
      BY <1>1, <1>2, <1>3, <1>13, <2>1, <2>2
  <1>14. CASE Cpu
    <2>1. UNCHANGED <<sem, creacion, colaNew, corto, colaReady, colaReadyPlus, eliminacion, colaExit>>
      BY <1>14 DEF Cpu, Salir, FinDeQuantum, SinMemoria, Descartar, CpuSinTocar, varsColas
    <2> QED
      BY <1>14, <2>1
  <1>15. ASSUME NEW i \in Interfaces, HiloIo(i)
         PROVE  Nuevo /\ Fin /\ Libre /\ (Ready \/ Desbloquear(i))
    <2>1. UNCHANGED <<creacion, colaNew, eliminacion, colaExit, corto, despacho, varsCpu>>
      BY <1>15 DEF HiloIo, TomarPedido, RecibirResultado, CompuertaIo, Desbloquear, OtrasIo
    <2>2. Desbloquear(i) \/ UNCHANGED <<colaReady, colaReadyPlus>>
      BY <1>15 DEF HiloIo, TomarPedido, RecibirResultado, CompuertaIo
    <2>3. \/ UNCHANGED sem \/ Wait("podes_manejar_recepcion_de_interfaces")
          \/ Desbloquear(i) /\ Post("hay_proceso_a_ready")
      BY <1>15 DEF HiloIo, TomarPedido, RecibirResultado, CompuertaIo, Desbloquear, AvisarReady
    <2>4. /\ sem'["hay_proceso_nuevo"] = sem["hay_proceso_nuevo"]
          /\ sem'["hay_proceso_exit"] = sem["hay_proceso_exit"]
          /\ sem'["cpu_libre"] = sem["cpu_libre"]
          /\ Desbloquear(i) \/ sem'["hay_proceso_a_ready"] = sem["hay_proceso_a_ready"]
      BY <1>1, <1>2, <1>3, <2>3
    <2> QED
      BY <2>1, <2>2, <2>4
  <1> QED
    BY <1>4, <1>5, <1>6, <1>7, <1>8, <1>9, <1>10, <1>11, <1>12, <1>13, <1>14, <1>15
    DEF Next, HiloConsola

LEMMA PasoSemNuevo == Tipos /\ SemNuevo /\ [Next]_vars => SemNuevo'
  <1> SUFFICES ASSUME Tipos, SemNuevo, [Next]_vars PROVE SemNuevo'
    OBVIOUS
  <1>0. /\ sem \in [Semaforos -> Nat] /\ sem["hay_proceso_nuevo"] \in Nat
        /\ "hay_proceso_nuevo" \in Semaforos
    BY DEF Tipos, TypeOK, Semaforos
  <1>1. colaNew \in Seq(Pids) /\ (consola.en # "libre" => consola.pid \in Pids)
    BY DEF Tipos, TypeOK, TiposColas, ManoConsola
  <1> USE DEF SemNuevo, Bit
  <1>2. CASE /\ sem'["hay_proceso_nuevo"] = sem["hay_proceso_nuevo"]
             /\ UNCHANGED <<creacion, colaNew>>
    BY <1>2
  <1>3. CASE RespuestaCreacion
    <2>1. UNCHANGED creacion
      BY <1>3 DEF RespuestaCreacion
    <2>2. \/ UNCHANGED <<sem, colaNew>>
          \/ Len(colaNew') = Len(colaNew) + 1 /\ Post("hay_proceso_nuevo")
      BY <1>1, <1>3, Colas DEF RespuestaCreacion
    <2> QED
      BY <1>0, <1>1, <2>1, <2>2, SemTipo, Colas
  <1>4. CASE EsperarNuevo
    <2>1. /\ creacion.en = "esperar" /\ creacion'.en \in {"compuerta", "grado"}
          /\ Wait("hay_proceso_nuevo") /\ UNCHANGED colaNew
      BY <1>4 DEF EsperarNuevo, En, TrasEspera, varsColas
    <2> QED
      BY <1>0, <1>1, <2>1, SemTipo, Colas
  <1>5. CASE CompuertaCreacion \/ TomarGrado \/ AgregarAReady
    <2>1. sem'["hay_proceso_nuevo"] = sem["hay_proceso_nuevo"]
      BY <1>0, <1>5 DEF CompuertaCreacion, TomarGrado, AgregarAReady, Wait, Post
    <2>2. CASE CompuertaCreacion \/ AgregarAReady
      BY <1>0, <1>1, <2>1, <2>2 DEF CompuertaCreacion, AgregarAReady, En, varsColas
    <2>3. CASE TomarGrado
      <3>1. Len(colaNew') = Len(colaNew) - 1 /\ Len(colaNew) \in Nat
        BY <1>1, <2>3, Colas DEF TomarGrado
      <3>2. creacion.en = "grado" /\ creacion'.en = "agregar"
        BY <2>3 DEF TomarGrado, En
      <3> QED
        BY <1>0, <2>1, <3>1, <3>2
    <2> QED
      BY <1>5, <2>2, <2>3
  <1> QED
    BY <1>2, <1>3, <1>4, <1>5, MarcoSem DEF HiloCreacion

LEMMA PasoSemReady == Tipos /\ SemReady /\ [Next]_vars => SemReady'
  <1> SUFFICES ASSUME Tipos, SemReady, [Next]_vars PROVE SemReady'
    OBVIOUS
  <1>0. /\ sem \in [Semaforos -> Nat] /\ sem["hay_proceso_a_ready"] \in Nat
        /\ "hay_proceso_a_ready" \in Semaforos
    BY DEF Tipos, TypeOK, Semaforos
  <1>1. colaReady \in Seq(Pids) /\ colaReadyPlus \in Seq(Pids)
    BY DEF Tipos, TypeOK, TiposColas
  <1>2. Len(colaReady) \in Nat /\ Len(colaReadyPlus) \in Nat
    BY <1>1
  <1> USE DEF SemReady, Bit, Listos
  <1>3. CASE /\ sem'["hay_proceso_a_ready"] = sem["hay_proceso_a_ready"]
             /\ UNCHANGED <<corto, colaReady, colaReadyPlus>>
    BY <1>3
  <1>4. ASSUME UNCHANGED corto, Post("hay_proceso_a_ready"), NEW p \in Pids,
               \/ colaReady' = Append(colaReady, p) /\ UNCHANGED colaReadyPlus
               \/ colaReadyPlus' = Append(colaReadyPlus, p) /\ UNCHANGED colaReady
        PROVE  SemReady'
    <2>1. Listos' = Listos + 1
      <3>1. /\ Len(Append(colaReady, p)) = Len(colaReady) + 1
            /\ Len(Append(colaReadyPlus, p)) = Len(colaReadyPlus) + 1
        BY <1>1, <1>4, Colas
      <3> QED
        BY <1>2, <1>4, <3>1
    <2>2. sem'["hay_proceso_a_ready"] = sem["hay_proceso_a_ready"] + 1
      BY <1>0, <1>4, SemTipo
    <2> HIDE DEF Listos
    <2> QED
      BY <1>0, <1>4, <2>1, <2>2
  <1>5. CASE AgregarAReady
    <2>1. creacion.pid \in Pids
      BY <1>5 DEF AgregarAReady, Tipos, ManoHilos
    <2> QED
      BY <1>4, <1>5, <2>1 DEF AgregarAReady
  <1>6. CASE ManejarFinDeQuantum
    <2>1. despacho.pid \in Pids
      BY <1>6 DEF ManejarFinDeQuantum, Tipos, ManoDespacho, ConDesalojo
    <2> QED
      BY <1>4, <1>6, <2>1 DEF ManejarFinDeQuantum
  <1>7. ASSUME NEW i \in Interfaces, Desbloquear(i) PROVE SemReady'
    <2>1. io[i].pid \in Pids
      BY <1>7 DEF Desbloquear, Tipos, ManoIo
    <2> QED
      BY <1>4, <1>7, <2>1 DEF Desbloquear, OtrasIo
  <1>8. CASE EsperarReady
    <2>1. /\ corto = "esperar" /\ corto' = "cpu" /\ Wait("hay_proceso_a_ready")
          /\ UNCHANGED <<colaReady, colaReadyPlus>>
      BY <1>8 DEF EsperarReady, varsColas
    <2> QED
      BY <1>0, <1>2, <2>1, SemTipo
  <1>9. CASE EsperarCpu \/ CompuertaCorto
    <2>1. /\ corto # "esperar" /\ corto' # "esperar"
          /\ UNCHANGED <<colaReady, colaReadyPlus>>
      BY <1>9 DEF EsperarCpu, CompuertaCorto, varsColas, TrasEspera
    <2>2. sem'["hay_proceso_a_ready"] = sem["hay_proceso_a_ready"]
      BY <1>0, <1>9 DEF EsperarCpu, CompuertaCorto, Wait
    <2> QED
      BY <2>1, <2>2
  <1>10. CASE Despachar
    <2>1. corto # "esperar" /\ corto' = "esperar" /\ UNCHANGED sem
      BY <1>10 DEF Despachar
    <2>2. Listos' = Listos - 1
      <3>1. colaReady # <<>> => Len(Tail(colaReady)) = Len(colaReady) - 1
        BY <1>1, Colas
      <3>2. colaReadyPlus # <<>> => Len(Tail(colaReadyPlus)) = Len(colaReadyPlus) - 1
        BY <1>1, Colas
      <3>3. \/ colaReadyPlus # <<>> /\ colaReadyPlus' = Tail(colaReadyPlus) /\ UNCHANGED colaReady
            \/ colaReady # <<>> /\ colaReady' = Tail(colaReady) /\ UNCHANGED colaReadyPlus
        BY <1>10 DEF Despachar
      <3> QED
        BY <1>2, <3>1, <3>2, <3>3
    <2> HIDE DEF Listos
    <2> QED
      BY <1>0, <2>1, <2>2
  <1> QED
    BY <1>3, <1>5, <1>6, <1>7, <1>8, <1>9, <1>10, MarcoSem DEF HiloCorto

LEMMA PasoSemExit == Tipos /\ SemExit /\ [Next]_vars => SemExit'
  <1> SUFFICES ASSUME Tipos, SemExit, [Next]_vars PROVE SemExit'
    OBVIOUS
  <1>0. /\ sem \in [Semaforos -> Nat] /\ sem["hay_proceso_exit"] \in Nat
        /\ "hay_proceso_exit" \in Semaforos
    BY DEF Tipos, TypeOK, Semaforos
  <1>1. colaExit \in Seq(Pids) /\ Len(colaExit) \in Nat
    BY DEF Tipos, TypeOK, TiposColas
  <1> USE DEF SemExit, Bit
  <1>2. CASE /\ sem'["hay_proceso_exit"] = sem["hay_proceso_exit"]
             /\ UNCHANGED <<eliminacion, colaExit>>
    BY <1>2
  <1>3. CASE ManejarFin
    <2>1. despacho.pid \in Pids
      BY <1>3 DEF ManejarFin, Tipos, ManoDespacho, ConDesalojo
    <2>2. Len(colaExit') = Len(colaExit) + 1 /\ Post("hay_proceso_exit") /\ UNCHANGED eliminacion
      BY <1>1, <1>3, <2>1, Colas DEF ManejarFin
    <2> QED
      BY <1>0, <1>1, <2>2, SemTipo
  <1>4. CASE EsperarExit
    <2>1. /\ eliminacion.en = "esperar" /\ eliminacion'.en \in {"compuerta", "sacar"}
          /\ Wait("hay_proceso_exit") /\ UNCHANGED colaExit
      BY <1>4 DEF EsperarExit, Eliminando, TrasEspera, varsColas
    <2> QED
      BY <1>0, <1>1, <2>1, SemTipo
  <1>5. CASE CompuertaEliminacion
    <2>1. sem'["hay_proceso_exit"] = sem["hay_proceso_exit"]
      BY <1>0, <1>5 DEF CompuertaEliminacion, Wait
    <2> QED
      BY <1>5, <2>1 DEF CompuertaEliminacion, Eliminando, varsColas
  <1>6. CASE PedirFin
    <2>1. Len(colaExit') = Len(colaExit) - 1
      BY <1>1, <1>6, Colas DEF PedirFin
    <2>2. eliminacion.en = "sacar" /\ eliminacion'.en = "memoria" /\ UNCHANGED sem
      BY <1>6 DEF PedirFin, Eliminando
    <2> QED
      BY <1>0, <1>1, <2>1, <2>2
  <1>7. CASE RespuestaFin
    <2>1. sem'["hay_proceso_exit"] = sem["hay_proceso_exit"]
      BY <1>0, <1>7 DEF RespuestaFin, Post
    <2>2. /\ eliminacion.en = "memoria" /\ eliminacion'.en \in {"esperar", "muerto"}
          /\ UNCHANGED colaExit
      BY <1>7 DEF RespuestaFin, Eliminando, varsColas, Tipos, TypeOK, TiposHilos
    <2> QED
      BY <2>1, <2>2
  <1> QED
    BY <1>2, <1>3, <1>4, <1>5, <1>6, <1>7, MarcoSem DEF HiloEliminacion

SemInterfaces == \A i \in Interfaces : SemInterfaz(i)

LEMMA PasoSemInterfaces == Tipos /\ SemInterfaces /\ [Next]_vars => SemInterfaces'
  <1> SUFFICES ASSUME Tipos, SemInterfaces, [Next]_vars, NEW j \in Interfaces
               PROVE  SemInterfaz(j)'
    BY DEF SemInterfaces
  <1>0. TiposIo /\ SemInterfaz(j)
    BY DEF Tipos, TypeOK, SemInterfaces
  <1>1. /\ colaIo \in [Interfaces -> Seq(Pids)] /\ colaIo[j] \in Seq(Pids)
        /\ semIo \in [Interfaces -> Pedidos] /\ semIo[j] \in Pedidos
        /\ Len(colaIo[j]) \in Nat
    BY <1>0 DEF TiposIo
  <1>2. io \in [Interfaces -> [en : {"esperar", "operando", "compuerta", "completar"},
                             pid : Pids \cup {NULO}]]
    BY <1>0 DEF TiposIo
  <1>3. ASSUME UNCHANGED <<io[j], colaIo[j], semIo[j]>> PROVE SemInterfaz(j)'
    BY <1>0, <1>3 DEF SemInterfaz, Bit
  <1>4. CASE UNCHANGED varsIo
    BY <1>3, <1>4 DEF varsIo
  <1>5. CASE ManejarIo
    <2>1. CASE despacho.interfaz # j
      BY <1>1, <1>2, <1>3, <1>5, <2>1 DEF ManejarIo
    <2>2. CASE despacho.interfaz = j
      <3>1. despacho.pid \in Pids
        BY <1>5 DEF ManejarIo, Tipos, ManoDespacho, ConDesalojo
      <3>2. colaIo'[j] = Append(colaIo[j], despacho.pid) /\ UNCHANGED io
        BY <1>1, <1>5, <2>2 DEF ManejarIo
      <3>3. Len(colaIo'[j]) = Len(colaIo[j]) + 1
        BY <1>1, <3>1, <3>2, Colas
      <3>4. semIo'[j] = [semIo[j] EXCEPT !.instruccion_en_cola = @ + 1]
        BY <1>1, <1>5, <2>2 DEF ManejarIo
      <3> QED
        BY <1>0, <1>1, <3>2, <3>3, <3>4 DEF SemInterfaz, Bit, Pedidos
    <2> QED
      BY <2>1, <2>2
  <1>6. ASSUME NEW i \in Interfaces, TomarPedido(i) PROVE SemInterfaz(j)'
    <2>1. CASE i # j
      BY <1>1, <1>2, <1>3, <1>6, <2>1 DEF TomarPedido
    <2>2. CASE i = j
      <3>1. Len(colaIo'[j]) = Len(colaIo[j]) - 1
        BY <1>1, <1>6, <2>2, Colas DEF TomarPedido
      <3>2. io[j].en = "esperar" /\ io'[j].en = "operando"
        BY <1>2, <1>6, <2>2 DEF TomarPedido, En
      <3>3. /\ semIo'[j].instruccion_en_cola = semIo[j].instruccion_en_cola - 1
            /\ semIo'[j].binario_io_libre = semIo[j].binario_io_libre - 1
        BY <1>1, <1>6, <2>2 DEF TomarPedido
      <3> QED
        BY <1>0, <1>1, <3>1, <3>2, <3>3 DEF SemInterfaz, Bit, Pedidos
    <2> QED
      BY <2>1, <2>2
  <1>7. ASSUME NEW i \in Interfaces, RecibirResultado(i) \/ CompuertaIo(i) PROVE SemInterfaz(j)'
    <2>1. UNCHANGED <<colaIo, semIo>> /\ (io'[j].en = "esperar" <=> io[j].en = "esperar")
      BY <1>2, <1>7 DEF RecibirResultado, CompuertaIo, TrasEspera
    <2> QED
      BY <1>0, <2>1 DEF SemInterfaz, Bit
  <1>8. ASSUME NEW i \in Interfaces, Desbloquear(i) PROVE SemInterfaz(j)'
    <2>1. CASE i # j
      BY <1>1, <1>2, <1>3, <1>8, <2>1 DEF Desbloquear
    <2>2. CASE i = j
      <3>1. io[j].en = "completar" /\ io'[j].en = "esperar" /\ UNCHANGED colaIo
        BY <1>2, <1>8, <2>2 DEF Desbloquear, En
      <3>2. semIo'[j] = [semIo[j] EXCEPT !.binario_io_libre = @ + 1]
        BY <1>1, <1>8, <2>2 DEF Desbloquear
      <3> QED
        BY <1>0, <1>1, <3>1, <3>2 DEF SemInterfaz, Bit, Pedidos
    <2> QED
      BY <2>1, <2>2
  <1> QED
    BY <1>4, <1>5, <1>6, <1>7, <1>8, Marco DEF HiloIo

(* The counting semaphores never disagree with the queues they count, for  *)
(* any interleaving of the threads, and whatever the console detains.      *)
THEOREM SemaforosSiempreExactos == Spec => []SemaforosExactos
  <1>1. Init => SemaforosExactos
    <2> SUFFICES ASSUME Init PROVE SemaforosExactos
      OBVIOUS
    <2>1. /\ sem["hay_proceso_nuevo"] = 0 /\ sem["hay_proceso_a_ready"] = 0
          /\ sem["hay_proceso_exit"] = 0
      BY DEF Init, Semaforos
    <2>2. /\ colaNew = <<>> /\ colaReady = <<>> /\ colaReadyPlus = <<>> /\ colaExit = <<>>
          /\ creacion.en = "esperar" /\ corto = "esperar" /\ eliminacion.en = "esperar"
      BY DEF Init, En
    <2>3. SemNuevo /\ SemReady /\ SemExit
      BY <2>1, <2>2 DEF SemNuevo, SemReady, SemExit, Listos, Bit
    <2>4. ASSUME NEW i \in Interfaces PROVE SemInterfaz(i)
      BY DEF Init, SemInterfaz, En, Bit
    <2> QED
      BY <2>3, <2>4 DEF SemaforosExactos
  <1>2. Tipos /\ SemaforosExactos /\ [Next]_vars => SemaforosExactos'
    BY PasoSemNuevo, PasoSemReady, PasoSemExit, PasoSemInterfaces
    DEF SemaforosExactos, SemInterfaces
  <1> QED
    BY <1>1, <1>2, SiempreTipos, PTL DEF Spec

-----------------------------------------------------------------------------
(* The CPU and the gates.                                                  *)

LEMMA PasoTokenCpu ==
  ASSUME UnaRespuesta, Tipos, TokenCpu, [Next]_vars
  PROVE  TokenCpu'
  <1>0. /\ sem \in [Semaforos -> Nat] /\ sem["cpu_libre"] \in Nat
        /\ {"cpu_libre", "hay_proceso_a_ready", "hay_proceso_exit",
            "podes_planificar_corto_plazo", "podes_manejar_desalojo"} \subseteq Semaforos
    BY DEF Tipos, TypeOK, Semaforos
  <1>1. aCpu \in Seq(Pids) /\ desalojos \in Seq(Desalojos) /\ perdidos \in Seq(Pids)
    BY DEF Tipos, TypeOK, TiposCpu
  <1>2. Len(aCpu) \in Nat /\ Len(desalojos) \in Nat /\ Len(perdidos) \in Nat
    BY <1>1
  <1>3. aCpu # <<>> =>
          /\ Len(Tail(aCpu)) = Len(aCpu) - 1
          /\ Head(aCpu) \in Pids
    BY <1>1, Colas
  <1>4. ASSUME NEW m \in MotivosDesalojo, NEW i \in Interfaces \cup {NULO}, aCpu # <<>>
        PROVE  Len(Append(desalojos, Desalojo(Head(aCpu), m, i))) = Len(desalojos) + 1
    <2>1. Desalojo(Head(aCpu), m, i) \in Desalojos
      BY <1>3, <1>4 DEF Desalojo, Desalojos
    <2> QED
      BY <1>1, <2>1, Colas
  <1>5. {"OPERACION_IO", "END_PROCESS", "OUT_OF_MEMORY", "FIN_CLOCK"} \subseteq MotivosDesalojo
    BY DEF MotivosDesalojo
  <1> DEFINE planificando == Bit(corto \in {"compuerta", "elegir"})
             manejando == Bit(despacho.en # "esperar")
  <1>6. planificando \in 0..1 /\ manejando \in 0..1
    BY DEF Bit
  <1>7. CASE /\ sem'["cpu_libre"] = sem["cpu_libre"]
             /\ UNCHANGED <<corto, despacho, varsCpu>>
    BY <1>7 DEF TokenCpu, varsCpu
  <1>8. CASE EsperarReady
    <2>1. corto = "esperar" /\ corto' = "cpu" /\ UNCHANGED <<despacho, varsCpu>>
      BY <1>8 DEF EsperarReady
    <2>2. sem'["cpu_libre"] = sem["cpu_libre"]
      BY <1>0, <1>8 DEF EsperarReady, Wait
    <2> QED
      BY <2>1, <2>2 DEF TokenCpu, varsCpu, Bit
  <1>9. CASE EsperarCpu
    <2>1. /\ corto = "cpu" /\ corto' \in {"compuerta", "elegir"}
          /\ UNCHANGED <<despacho, varsCpu>> /\ Wait("cpu_libre")
      BY <1>9 DEF EsperarCpu, TrasEspera
    <2>2. sem["cpu_libre"] > 0 /\ sem'["cpu_libre"] = sem["cpu_libre"] - 1
      BY <1>0, <2>1, SemTipo
    <2>3. planificando = 0 /\ planificando' = 1
      BY <2>1 DEF Bit
    <2>4. manejando' = manejando /\ UNCHANGED <<aCpu, desalojos, perdidos>>
      BY <2>1 DEF varsCpu
    <2>5. PICK s \in Nat, a \in Nat, d \in Nat, f \in Nat, b \in 0..1 :
            /\ s = sem["cpu_libre"] /\ a = Len(aCpu) /\ d = Len(desalojos)
            /\ f = Len(perdidos) /\ b = manejando
      BY <1>0, <1>2, <1>6
    <2>6. s + 0 + a + d + b + f = 1
      BY <2>3, <2>5 DEF TokenCpu
    <2>7. s - 1 + 1 + a + d + b + f = 1
      BY <2>6
    <2>8. sem'["cpu_libre"] = s - 1
      BY <2>2, <2>5
    <2>9. Len(aCpu)' = a /\ Len(desalojos)' = d /\ Len(perdidos)' = f /\ manejando' = b
      BY <2>4, <2>5
    <2> QED
      BY <2>3, <2>7, <2>8, <2>9 DEF TokenCpu
  <1>10. CASE CompuertaCorto
    <2>1. corto = "compuerta" /\ corto' = "elegir" /\ UNCHANGED <<despacho, varsCpu>>
      BY <1>10 DEF CompuertaCorto
    <2>2. sem'["cpu_libre"] = sem["cpu_libre"]
      BY <1>0, <1>10 DEF CompuertaCorto, Wait
    <2> QED
      BY <2>1, <2>2 DEF TokenCpu, varsCpu, Bit
  <1>11. CASE Despachar
    <2>1. corto = "elegir" /\ corto' = "esperar" /\ UNCHANGED <<sem, despacho, desalojos, perdidos>>
      BY <1>11 DEF Despachar
    <2>2. Len(aCpu') = Len(aCpu) + 1
      <3>1. /\ colaReady # <<>> => Head(colaReady) \in Pids
            /\ colaReadyPlus # <<>> => Head(colaReadyPlus) \in Pids
        BY Colas DEF Tipos, TypeOK, TiposColas
      <3>2. \E p \in Pids : aCpu' = Append(aCpu, p)
        BY <1>11, <3>1 DEF Despachar
      <3> QED
        BY <1>1, <3>2, Colas
    <2> QED
      BY <1>0, <1>2, <2>1, <2>2 DEF TokenCpu, Bit
  <1>12. ASSUME aCpu # <<>>, Len(aCpu') = Len(aCpu) - 1, UNCHANGED <<sem, corto, despacho>>,
                \/ Len(desalojos') = Len(desalojos) + 1 /\ UNCHANGED perdidos
                \/ Len(perdidos') = Len(perdidos) + 1 /\ UNCHANGED desalojos
         PROVE  TokenCpu'
    <2>1. planificando' = planificando /\ manejando' = manejando
      BY <1>12 DEF Bit
    <2>2. sem'["cpu_libre"] = sem["cpu_libre"]
      BY <1>12
    <2>5. PICK b \in 0..1, c \in 0..1 : b = planificando /\ c = manejando
      BY <1>6
    <2>3. sem["cpu_libre"] + b + Len(aCpu) + Len(desalojos) + c + Len(perdidos) = 1
      BY <2>5 DEF TokenCpu, Bit
    <2>6. sem'["cpu_libre"] + b + Len(aCpu') + Len(desalojos') + c + Len(perdidos') = 1
      <3>1. sem'["cpu_libre"] \in Nat /\ b \in Nat /\ c \in Nat
        BY <1>0, <2>2
      <3>2. PICK n \in Nat, x \in Nat, y \in Nat, z \in Nat :
               n = sem["cpu_libre"] /\ x = Len(aCpu) /\ y = Len(desalojos) /\ z = Len(perdidos)
        BY <1>0, <1>2
      <3>3. n + b + x + y + c + z = 1
        BY <2>3, <3>2
      <3>4. Len(aCpu') = x - 1 /\ sem'["cpu_libre"] = n
        BY <1>12, <2>2, <3>2
      <3>5. \/ Len(desalojos') = y + 1 /\ Len(perdidos') = z
            \/ Len(perdidos') = z + 1 /\ Len(desalojos') = y
        BY <1>12, <3>2
      <3> QED
        BY <3>1, <3>3, <3>4, <3>5
    <2> QED
      BY <2>1, <2>5, <2>6 DEF TokenCpu, Bit
  <1>13. CASE Salir
    <2>1. Len(desalojos') = Len(desalojos) + 1
      BY <1>4, <1>5, <1>13 DEF Salir
    <2> QED
      BY <1>3, <1>12, <1>13, <2>1 DEF Salir, CpuSinTocar
  <1>14. CASE FinDeQuantum
    <2>1. Len(desalojos') = Len(desalojos) + 1
      BY <1>4, <1>5, <1>14 DEF FinDeQuantum
    <2> QED
      BY <1>3, <1>12, <1>14, <2>1 DEF FinDeQuantum, CpuSinTocar
  <1>15. CASE SinMemoria
    <2>1. desalojos' = Append(desalojos, Desalojo(Head(aCpu), "OUT_OF_MEMORY", NULO))
      BY <1>15, UnaRespuesta DEF SinMemoria, UnaRespuesta
    <2>2. Len(desalojos') = Len(desalojos) + 1
      BY <1>4, <1>5, <1>15, <2>1 DEF SinMemoria
    <2> QED
      BY <1>3, <1>12, <1>15, <2>2 DEF SinMemoria, CpuSinTocar
  <1>16. CASE Descartar
    <2>1. Len(perdidos') = Len(perdidos) + 1
      BY <1>1, <1>3, <1>16, Colas DEF Descartar
    <2> QED
      BY <1>3, <1>12, <1>16, <2>1 DEF Descartar, CpuSinTocar
  <1>17. CASE RecibirDesalojo
    <2>1. despacho.en = "esperar" /\ despacho'.en # "esperar" /\ UNCHANGED <<sem, corto, aCpu, perdidos>>
      BY <1>17 DEF RecibirDesalojo, TrasEspera
    <2>2. Len(desalojos') = Len(desalojos) - 1
      BY <1>1, <1>17, Colas DEF RecibirDesalojo
    <2>3. planificando' = planificando
      BY <2>1
    <2>4. PICK b \in 0..1 : b = planificando
      BY <1>6
    <2>5. sem["cpu_libre"] + b + Len(aCpu) + Len(desalojos) + 0 + Len(perdidos) = 1
      BY <2>1, <2>4 DEF TokenCpu, Bit
    <2>6. sem'["cpu_libre"] + b + Len(aCpu') + Len(desalojos') + 1 + Len(perdidos') = 1
      BY <1>0, <1>2, <2>1, <2>2, <2>5
    <2> QED
      BY <2>1, <2>3, <2>4, <2>6 DEF TokenCpu, Bit
  <1>18. CASE CompuertaDespacho \/ ManejarFin \/ ManejarFinDeQuantum \/ ManejarIo
    <2>1. despacho.en # "esperar" /\ despacho'.en # "esperar" /\ UNCHANGED <<corto, varsCpu>>
      BY <1>18
      DEF CompuertaDespacho, ManejarFin, ManejarFinDeQuantum, ManejarIo, DejarCpu, Tipos,
          TypeOK, TiposCpu
    <2>a. \/ UNCHANGED sem \/ Wait("podes_manejar_desalojo") \/ Post("hay_proceso_exit")
          \/ Post("hay_proceso_a_ready")
      BY <1>18
      DEF CompuertaDespacho, ManejarFin, ManejarFinDeQuantum, ManejarIo, AvisarExit, AvisarReady
    <2>b. /\ {"podes_manejar_desalojo", "hay_proceso_exit", "hay_proceso_a_ready", "cpu_libre"}
                \subseteq Semaforos
          /\ sem \in [Semaforos -> Nat]
      BY DEF Semaforos, Tipos, TypeOK
    <2>2. sem'["cpu_libre"] = sem["cpu_libre"]
      BY <2>a, <2>b, SemTipo
    <2> QED
      BY <2>1, <2>2 DEF TokenCpu, varsCpu, Bit
  <1>19. CASE LiberarCpu
    <2>1. /\ despacho.en = "liberar" /\ despacho'.en = "esperar" /\ Post("cpu_libre")
          /\ UNCHANGED <<corto, varsCpu>>
      BY <1>19 DEF LiberarCpu, Tipos, TypeOK, TiposCpu
    <2>2. sem'["cpu_libre"] = sem["cpu_libre"] + 1
      BY <1>0, <2>1, SemTipo
    <2>3. PICK b \in 0..1 : b = planificando /\ b = planificando'
      BY <1>6, <2>1
    <2>4. sem["cpu_libre"] + b + Len(aCpu) + Len(desalojos) + 1 + Len(perdidos) = 1
      BY <2>1, <2>3 DEF TokenCpu, Bit
    <2>5. sem'["cpu_libre"] + b + Len(aCpu) + Len(desalojos) + 0 + Len(perdidos) = 1
      <3>1. PICK s \in Nat, a \in Nat, d \in Nat, f \in Nat :
              /\ s = sem["cpu_libre"] /\ a = Len(aCpu) /\ d = Len(desalojos)
              /\ f = Len(perdidos)
        BY <1>0, <1>2
      <3>2. s + b + a + d + 1 + f = 1
        BY <2>4, <3>1
      <3>3. s + 1 + b + a + d + 0 + f = 1
        BY <2>3, <3>2
      <3>4. sem'["cpu_libre"] = s + 1
        BY <2>2, <3>1
      <3> QED
        BY <3>1, <3>3, <3>4
    <2>6. manejando' = 0 /\ UNCHANGED <<aCpu, desalojos, perdidos>>
      BY <2>1 DEF Bit, varsCpu
    <2> QED
      BY <2>3, <2>5, <2>6 DEF TokenCpu
  <1> QED
    BY <1>7, <1>8, <1>9, <1>10, <1>11, <1>13, <1>14, <1>15, <1>16, <1>17, <1>18, <1>19, MarcoSem
    DEF HiloCorto, HiloDespacho, Cpu

(* At most one process is on its way to, in, or on its way back from the   *)
(* CPU, and cpu_libre is posted once for each: the short-term scheduler    *)
(* never dispatches over a running process.  It needs UnaRespuesta: a CPU  *)
(* that answers an OUT_OF_MEMORY and an interrupt of the same PCB breaks   *)
(* it.                                                                     *)
THEOREM CpuDeAUno ==
  ASSUME UnaRespuesta
  PROVE  Spec => []TokenCpu
  <1>1. Init => TokenCpu
    <2> SUFFICES ASSUME Init PROVE TokenCpu
      OBVIOUS
    <2>1. sem["cpu_libre"] = 1
      BY DEF Init, Semaforos
    <2>2. /\ corto = "esperar" /\ despacho.en = "esperar"
          /\ aCpu = <<>> /\ desalojos = <<>> /\ perdidos = <<>>
      BY DEF Init
    <2> QED
      BY <2>1, <2>2 DEF TokenCpu, Bit
  <1>2. Tipos /\ TokenCpu /\ [Next]_vars => TokenCpu'
    BY PasoTokenCpu, UnaRespuesta
  <1> QED
    BY <1>1, <1>2, SiempreTipos, PTL DEF Spec

(* Who touches each gate and the thread that waits at it.                  *)
LEMMA MarcoCompuertas ==
  ASSUME Tipos, [Next]_vars, ~IniciarPlanificacion, ~detenida'
  PROVE  /\ ~detenida
         /\ \/ creacion'.en # "compuerta"
            \/ /\ sem'["podes_crear_procesos"] = sem["podes_crear_procesos"]
               /\ UNCHANGED creacion
         /\ \/ corto' # "compuerta"
            \/ /\ sem'["podes_planificar_corto_plazo"] = sem["podes_planificar_corto_plazo"]
               /\ UNCHANGED corto
         /\ \/ despacho'.en # "compuerta"
            \/ /\ sem'["podes_manejar_desalojo"] = sem["podes_manejar_desalojo"]
               /\ UNCHANGED despacho
         /\ \/ eliminacion'.en # "compuerta"
            \/ /\ sem'["podes_eliminar_procesos"] = sem["podes_eliminar_procesos"]
               /\ UNCHANGED eliminacion
  <1>0. /\ creacion \in [en : {"esperar", "compuerta", "grado", "agregar"}, pid : Pids \cup {NULO}]
        /\ despacho \in [en : {"esperar", "compuerta", "manejar", "liberar"},
                        pid : Pids \cup {NULO},
                        motivo : MotivosDesalojo \cup {"ninguno"},
                        interfaz : Interfaces \cup {NULO}]
        /\ eliminacion \in [en : {"esperar", "compuerta", "sacar", "memoria", "muerto"},
                           pid : Pids \cup {NULO}, listado : SUBSET Pids]
    BY DEF Tipos, TypeOK, TiposHilos, TiposCpu
  <1>1. \A s, t \in Semaforos : Post(s) \/ Wait(s) => t = s \/ sem'[t] = sem[t]
    BY SemTipo DEF Tipos, TypeOK
  <1>2. {"podes_crear_procesos", "podes_eliminar_procesos", "podes_planificar_corto_plazo",
         "podes_manejar_desalojo", "podes_manejar_recepcion_de_interfaces", "grado_multi",
         "hay_proceso_nuevo", "hay_proceso_a_ready", "hay_proceso_exit", "cpu_libre"}
           \subseteq Semaforos
    BY DEF Semaforos
  <1>3. UNCHANGED detenida /\ ~detenida
    <2>1. UNCHANGED detenida \/ DetenerPlanificacion
      BY Marco
      DEF varsConsola, IniciarProceso, RespuestaCreacion, Registrar, PedirFin, RespuestaFin
    <2> QED
      BY <2>1 DEF DetenerPlanificacion
  <1> DEFINE Crear == /\ sem'["podes_crear_procesos"] = sem["podes_crear_procesos"]
                      /\ UNCHANGED creacion
             Corto == /\ sem'["podes_planificar_corto_plazo"] = sem["podes_planificar_corto_plazo"]
                      /\ UNCHANGED corto
             Manejo == /\ sem'["podes_manejar_desalojo"] = sem["podes_manejar_desalojo"]
                          /\ UNCHANGED despacho
             Eliminar == /\ sem'["podes_eliminar_procesos"] = sem["podes_eliminar_procesos"]
                         /\ UNCHANGED eliminacion
  <1>4. CASE UNCHANGED vars
    BY <1>3, <1>4 DEF vars
  <1>5. ASSUME NEW p \in Pids, IniciarProceso(p) PROVE Crear /\ Corto /\ Manejo /\ Eliminar
    BY <1>5 DEF IniciarProceso
  <1>6. CASE DetenerPlanificacion
    BY <1>3, <1>6 DEF DetenerPlanificacion
  <1>8. CASE Registrar
    BY <1>3, <1>8 DEF Registrar
  <1>9. CASE RespuestaCreacion
    <2>1. UNCHANGED sem \/ Post("hay_proceso_nuevo")
      BY <1>9 DEF RespuestaCreacion, AvisarNuevo
    <2>2. UNCHANGED <<creacion, corto, despacho, eliminacion>>
      BY <1>9 DEF RespuestaCreacion
    <2> QED
      BY <1>1, <1>2, <1>3, <2>1, <2>2
  <1>10. CASE HiloCreacion
    <2>1. \/ Wait("hay_proceso_nuevo") \/ Wait("podes_crear_procesos") \/ Wait("grado_multi")
          \/ Post("hay_proceso_a_ready")
      BY <1>10
      DEF HiloCreacion, EsperarNuevo, CompuertaCreacion, TomarGrado, AgregarAReady, OcuparLugar,
          AvisarReady
    <2>2. creacion'.en # "compuerta" /\ UNCHANGED <<corto, despacho, eliminacion>>
      BY <1>3, <1>10
      DEF HiloCreacion, EsperarNuevo, CompuertaCreacion, TomarGrado, AgregarAReady, TrasEspera, En
    <2> QED
      BY <1>1, <1>2, <1>3, <2>1, <2>2
  <1>11. CASE HiloCorto
    <2>1. \/ UNCHANGED sem \/ Wait("hay_proceso_a_ready") \/ Wait("cpu_libre")
          \/ Wait("podes_planificar_corto_plazo")
      BY <1>11 DEF HiloCorto, EsperarReady, EsperarCpu, CompuertaCorto, Despachar, OcuparCpu
    <2>2. corto' # "compuerta" /\ UNCHANGED <<creacion, despacho, eliminacion>>
      BY <1>3, <1>11
      DEF HiloCorto, EsperarReady, EsperarCpu, CompuertaCorto, Despachar, TrasEspera
    <2> QED
      BY <1>1, <1>2, <1>3, <2>1, <2>2
  <1>12. CASE HiloDespacho
    <2>1. UNCHANGED <<creacion, corto, eliminacion>>
      BY <1>12
      DEF HiloDespacho, RecibirDesalojo, CompuertaDespacho, ManejarFin, ManejarFinDeQuantum,
          ManejarIo, LiberarCpu
    <2>2. \/ UNCHANGED sem \/ Wait("podes_manejar_desalojo") \/ Post("cpu_libre")
          \/ Post("hay_proceso_exit") \/ Post("hay_proceso_a_ready")
      BY <1>12
      DEF HiloDespacho, RecibirDesalojo, CompuertaDespacho, ManejarFin, ManejarFinDeQuantum,
          ManejarIo, LiberarCpu, AvisarExit, AvisarReady, SoltarCpu
    <2>3. despacho'.en # "compuerta"
      <3>1. CASE RecibirDesalojo
        BY <1>3, <3>1 DEF RecibirDesalojo, TrasEspera
      <3>2. CASE CompuertaDespacho \/ LiberarCpu
        BY <1>0, <3>2 DEF CompuertaDespacho, LiberarCpu
      <3>3. CASE ManejarFin \/ ManejarFinDeQuantum \/ ManejarIo
        BY <3>3 DEF ManejarFin, ManejarFinDeQuantum, ManejarIo, DejarCpu
      <3> QED
        BY <1>12, <3>1, <3>2, <3>3 DEF HiloDespacho
    <2> QED
      BY <1>1, <1>2, <1>3, <2>1, <2>2, <2>3
  <1>13. CASE HiloEliminacion
    <2>1. \/ UNCHANGED sem \/ Wait("hay_proceso_exit") \/ Wait("podes_eliminar_procesos")
          \/ Post("grado_multi")
      BY <1>13
      DEF HiloEliminacion, EsperarExit, CompuertaEliminacion, PedirFin, RespuestaFin, DevolverLugar
    <2>2. UNCHANGED <<creacion, corto, despacho>>
      BY <1>13
      DEF HiloEliminacion, EsperarExit, CompuertaEliminacion, PedirFin, RespuestaFin
    <2>3. eliminacion'.en # "compuerta"
      <3>1. CASE EsperarExit \/ CompuertaEliminacion \/ PedirFin
        BY <1>3, <3>1 DEF EsperarExit, CompuertaEliminacion, PedirFin, TrasEspera, Eliminando
      <3>2. CASE RespuestaFin
        BY <1>0, <3>2 DEF RespuestaFin, Eliminando
      <3> QED
        BY <1>13, <3>1, <3>2 DEF HiloEliminacion
    <2> QED
      BY <1>1, <1>2, <1>3, <2>1, <2>2, <2>3
  <1>14. CASE Cpu
    BY <1>3, <1>14 DEF Cpu, Salir, FinDeQuantum, SinMemoria, Descartar, CpuSinTocar
  <1>15. ASSUME NEW i \in Interfaces, HiloIo(i) PROVE Crear /\ Corto /\ Manejo /\ Eliminar
    <2>1. UNCHANGED <<creacion, corto, despacho, eliminacion>>
      BY <1>15 DEF HiloIo, TomarPedido, RecibirResultado, CompuertaIo, Desbloquear, OtrasIo
    <2>2. \/ UNCHANGED sem \/ Wait("podes_manejar_recepcion_de_interfaces")
          \/ Post("hay_proceso_a_ready")
      BY <1>15 DEF HiloIo, TomarPedido, RecibirResultado, CompuertaIo, Desbloquear, AvisarReady
    <2> QED
      BY <1>1, <1>2, <2>1, <2>2
  <1> QED
    BY <1>3, <1>4, <1>5, <1>6, <1>8, <1>9, <1>10, <1>11, <1>12, <1>13, <1>14, <1>15
    DEF Next, HiloConsola

(* Whoever read planificacion_detenida before INICIAR_PLANIFICACION and    *)
(* waits at its gate after it finds the gate open.                         *)
THEOREM CompuertasSiempreAbiertas == Spec => []CompuertasAbiertas
  <1>1. Init => CompuertasAbiertas
    BY DEF Init, CompuertasAbiertas, Abierta, En
  <1>2. ASSUME Tipos, CompuertasAbiertas, [Next]_vars PROVE CompuertasAbiertas'
    <2>1. CASE detenida'
      BY <2>1 DEF CompuertasAbiertas, Abierta
    <2>2. CASE IniciarPlanificacion
      <3>1. sem \in [Semaforos -> Nat]
        BY <1>2 DEF Tipos, TypeOK
      <3>2. \A s \in Compuertas : s \in Semaforos /\ sem'[s] = sem[s] + 1
        BY <2>2 DEF IniciarPlanificacion, Semaforos, Compuertas
      <3>3. \A s \in Compuertas : sem'[s] > 0
        BY <3>1, <3>2
      <3> QED
        BY <3>3 DEF CompuertasAbiertas, Abierta, Compuertas
    <2>3. CASE ~detenida' /\ ~IniciarPlanificacion
      BY <1>2, <2>3, MarcoCompuertas DEF CompuertasAbiertas, Abierta
    <2> QED
      BY <2>1, <2>2, <2>3
  <1> QED
    BY <1>1, <1>2, SiempreTipos, PTL DEF Spec

-----------------------------------------------------------------------------
(***************************************************************************)
(* Where a process is.  A process that entered the system is in exactly    *)
(* one queue or thread; the degree of multiprogramming is the number of    *)
(* processes between READY and their end plus the free slots; and the      *)
(* threads, queues and semaphores of Planificador implement the diagram of *)
(* five states, CicloDeVida.                                               *)
(*                                                                         *)
(* The places of a process are grouped by the state they stand for.  Lemma *)
(* Movimiento says what any step does to the groups: nothing, or it moves  *)
(* one process along one edge of the diagram.  The three theorems follow   *)
(* from it.                                                                *)
(***************************************************************************)

\* The evictions of a process that recibir_dispatch has not read.
VecesDesalojo(s, p) == Cardinality({k \in DOMAIN s : s[k].pid = p})

EnNew(p) == Veces(colaNew, p) + Bit(creacion.pid = p)
EnReady(p) == Veces(colaReady, p) + Veces(colaReadyPlus, p)
EnExec(p) ==
  Veces(aCpu, p) + VecesDesalojo(desalojos, p) + Veces(perdidos, p) + Bit(despacho.pid = p)
EnBlocked(p) == Bit(p \in bloqueados)
EnExit(p) == Veces(colaExit, p) + Bit(eliminacion.pid = p)
EnFin(p) == Bit(p \in terminados)

\* A process is in one group, once.
EnUno(p) ==
  EnNew(p) + EnReady(p) + EnExec(p) + EnBlocked(p) + EnExit(p) + EnFin(p) = Bit(p \in creados)

\* A thread that has put down its PCB holds none, and the console creates a
\* process that does not exist yet.
Ociosos ==
  /\ creacion.en # "agregar" => creacion.pid = NULO
  /\ ~ConDesalojo => despacho.pid = NULO
  /\ eliminacion.en \notin {"memoria", "muerto"} => eliminacion.pid = NULO
  /\ consola.en = "memoria" => consola.pid \notin creados

-----------------------------------------------------------------------------
(* Counting a process in a queue.                                          *)

LEMMA Aparece ==
  ASSUME NEW s \in Seq(Pids), NEW p
  PROVE  /\ Veces(s, p) \in Nat
         /\ Veces(s, p) > 0 <=> p \in Elementos(s)
         /\ Veces(s, p) <= Len(s)
  <1>1. Veces(s, p) = Cuantos(s, {p})
    BY DEF Veces, Cuantos, Posiciones
  <1>2. Cuantos(s, {p}) \in Nat /\ Cuantos(s, {p}) <= Len(s)
    BY PosicionesFinitas
  <1>3. Cuantos(s, {p}) > 0 <=> \E k \in DOMAIN s : s[k] \in {p}
    BY CuantosPositivo
  <1> QED
    BY <1>1, <1>2, <1>3 DEF Elementos

LEMMA Entra ==
  ASSUME NEW s \in Seq(Pids), NEW e \in Pids, NEW p
  PROVE  Veces(Append(s, e), p) = Veces(s, p) + Bit(e = p)
  <1>1. Veces(s, p) = Cuantos(s, {p}) /\ Veces(Append(s, e), p) = Cuantos(Append(s, e), {p})
    BY DEF Veces, Cuantos, Posiciones
  <1>2. Cuantos(Append(s, e), {p}) = Cuantos(s, {p}) + (IF e \in {p} THEN 1 ELSE 0)
    BY CuantosAppend
  <1> QED
    BY <1>1, <1>2 DEF Bit

LEMMA Sale ==
  ASSUME NEW s \in Seq(Pids), s # <<>>, NEW p
  PROVE  Veces(s, p) = Veces(Tail(s), p) + Bit(Head(s) = p)
  <1>1. Veces(s, p) = Cuantos(s, {p}) /\ Veces(Tail(s), p) = Cuantos(Tail(s), {p})
    BY DEF Veces, Cuantos, Posiciones
  <1>2. Cuantos(s, {p}) = Cuantos(Tail(s), {p}) + (IF Head(s) \in {p} THEN 1 ELSE 0)
    BY CuantosTail
  <1> QED
    BY <1>1, <1>2 DEF Bit

DeProceso(p) == {d \in Desalojos : d.pid = p}

LEMMA CuentaDesalojos ==
  ASSUME NEW s \in Seq(Desalojos), NEW p
  PROVE  VecesDesalojo(s, p) = Cuantos(s, DeProceso(p))
  <1>1. \A k \in DOMAIN s : s[k] \in Desalojos
    OBVIOUS
  <1>2. {k \in DOMAIN s : s[k].pid = p} = {k \in DOMAIN s : s[k] \in DeProceso(p)}
    BY <1>1 DEF DeProceso
  <1> QED
    BY <1>2 DEF VecesDesalojo, Cuantos, Posiciones

LEMMA DesalojoAparece ==
  ASSUME NEW s \in Seq(Desalojos), NEW p
  PROVE  /\ VecesDesalojo(s, p) \in Nat
         /\ VecesDesalojo(s, p) > 0 <=> \E k \in DOMAIN s : s[k].pid = p
         /\ VecesDesalojo(s, p) <= Len(s)
  <1>1. \A k \in DOMAIN s : s[k] \in Desalojos
    OBVIOUS
  <1>2. Cuantos(s, DeProceso(p)) \in Nat /\ Cuantos(s, DeProceso(p)) <= Len(s)
    BY PosicionesFinitas
  <1>3. Cuantos(s, DeProceso(p)) > 0 <=> \E k \in DOMAIN s : s[k] \in DeProceso(p)
    BY CuantosPositivo
  <1> QED
    BY <1>1, <1>2, <1>3, CuentaDesalojos DEF DeProceso

LEMMA DesalojoEntra ==
  ASSUME NEW s \in Seq(Desalojos), NEW e \in Desalojos, NEW p
  PROVE  VecesDesalojo(Append(s, e), p) = VecesDesalojo(s, p) + Bit(e.pid = p)
  <1>1. Append(s, e) \in Seq(Desalojos)
    OBVIOUS
  <1>2. Cuantos(Append(s, e), DeProceso(p))
          = Cuantos(s, DeProceso(p)) + (IF e \in DeProceso(p) THEN 1 ELSE 0)
    BY CuantosAppend
  <1> QED
    BY <1>1, <1>2, CuentaDesalojos DEF Bit, DeProceso

LEMMA DesalojoSale ==
  ASSUME NEW s \in Seq(Desalojos), s # <<>>, NEW p
  PROVE  VecesDesalojo(s, p) = VecesDesalojo(Tail(s), p) + Bit(Head(s).pid = p)
  <1>1. Tail(s) \in Seq(Desalojos) /\ Head(s) \in Desalojos
    OBVIOUS
  <1>2. Cuantos(s, DeProceso(p))
          = Cuantos(Tail(s), DeProceso(p)) + (IF Head(s) \in DeProceso(p) THEN 1 ELSE 0)
    BY CuantosTail
  <1> QED
    BY <1>1, <1>2, CuentaDesalojos DEF Bit, DeProceso

LEMMA UnaSolaColaEsEnUno ==
  ASSUME Tipos
  PROVE  UnaSolaCola <=> \A p \in Pids : EnUno(p)
  <1>1. ASSUME NEW p \in Pids
        PROVE  /\ Veces(colaNew, p) \in Nat /\ Veces(colaReady, p) \in Nat
               /\ Veces(colaReadyPlus, p) \in Nat /\ Veces(colaExit, p) \in Nat
               /\ Veces(aCpu, p) \in Nat /\ Veces(perdidos, p) \in Nat
               /\ VecesDesalojo(desalojos, p) \in Nat
    BY Aparece, DesalojoAparece DEF Tipos, TypeOK, TiposColas, TiposCpu
  <1>2. ASSUME NEW p \in Pids
        PROVE  /\ Bit(p \in bloqueados) \in Nat /\ Bit(creacion.pid = p) \in Nat
               /\ Bit(despacho.pid = p) \in Nat /\ Bit(eliminacion.pid = p) \in Nat
               /\ Bit(p \in terminados) \in Nat
    BY DEF Bit
  <1>3. ASSUME NEW p \in Pids
        PROVE  EnUno(p) <=>
    Veces(colaNew, p) + Veces(colaReady, p) + Veces(colaReadyPlus, p) + Veces(colaExit, p)
    + Veces(aCpu, p) + VecesDesalojo(desalojos, p)
    + Veces(perdidos, p) + Bit(p \in bloqueados) + Bit(creacion.pid = p)
    + Bit(despacho.pid = p) + Bit(eliminacion.pid = p) + Bit(p \in terminados)
    = Bit(p \in creados)
    <2>1. PICK a \in Nat, b \in Nat, c \in Nat, d \in Nat, e \in Nat, f \in Nat, g \in Nat :
            /\ a = Veces(colaNew, p) /\ b = Veces(colaReady, p) /\ c = Veces(colaReadyPlus, p)
            /\ d = Veces(colaExit, p) /\ e = Veces(aCpu, p) /\ f = Veces(perdidos, p)
            /\ g = VecesDesalojo(desalojos, p)
      BY <1>1
    <2>2. PICK h \in Nat, i \in Nat, j \in Nat, k \in Nat, l \in Nat :
            /\ h = Bit(p \in bloqueados) /\ i = Bit(creacion.pid = p)
            /\ j = Bit(despacho.pid = p) /\ k = Bit(eliminacion.pid = p)
            /\ l = Bit(p \in terminados)
      BY <1>2
    <2>3. EnUno(p) <=> Bit(p \in creados) = EnNew(p) + EnReady(p) + EnExec(p) + EnBlocked(p)
                                             + EnExit(p) + EnFin(p)
      BY DEF EnUno
    <2>4. /\ EnNew(p) = a + i /\ EnReady(p) = b + c /\ EnExec(p) = e + g + f + j
          /\ EnBlocked(p) = h /\ EnExit(p) = d + k /\ EnFin(p) = l
      BY <2>1, <2>2 DEF EnNew, EnReady, EnExec, EnBlocked, EnExit, EnFin
    <2> QED
      BY <2>1, <2>2, <2>3, <2>4
  <1> QED
    BY <1>3 DEF UnaSolaCola, VecesDesalojo

-----------------------------------------------------------------------------
(* What a step does to the groups.                                         *)

Grupos(p) == <<EnNew(p), EnReady(p), EnExec(p), EnBlocked(p), EnExit(p), EnFin(p)>>

Quieto(p) == UNCHANGED Grupos(p) /\ (p \in creados' <=> p \in creados)

Nace(p) ==
  /\ p \notin creados /\ p \in creados'
  /\ EnNew(p)' = EnNew(p) + 1
  /\ UNCHANGED <<EnReady(p), EnExec(p), EnBlocked(p), EnExit(p), EnFin(p)>>

Igual(p) == p \in creados' <=> p \in creados

Admite(p) ==
  /\ Igual(p) /\ AgregarAReady
  /\ EnNew(p) = EnNew(p)' + 1 /\ EnReady(p)' = EnReady(p) + 1
  /\ UNCHANGED <<EnExec(p), EnBlocked(p), EnExit(p), EnFin(p)>>

Despacha(p) ==
  /\ Igual(p) /\ Despachar
  /\ EnReady(p) = EnReady(p)' + 1 /\ EnExec(p)' = EnExec(p) + 1
  /\ UNCHANGED <<EnNew(p), EnBlocked(p), EnExit(p), EnFin(p)>>

Desaloja(p) ==
  /\ Igual(p)
  /\ EnExec(p) = EnExec(p)' + 1
  /\ UNCHANGED <<EnNew(p), EnFin(p)>>
  /\ \/ /\ EnReady(p)' = EnReady(p) + 1
        /\ UNCHANGED <<EnBlocked(p), EnExit(p)>>
     \/ /\ EnBlocked(p)' = EnBlocked(p) + 1
        /\ UNCHANGED <<EnReady(p), EnExit(p)>>
     \/ /\ EnExit(p)' = EnExit(p) + 1
        /\ UNCHANGED <<EnReady(p), EnBlocked(p)>>

Desbloquea(p) ==
  /\ Igual(p)
  /\ EnBlocked(p) = EnBlocked(p)' + 1 /\ EnReady(p)' = EnReady(p) + 1
  /\ UNCHANGED <<EnNew(p), EnExec(p), EnExit(p), EnFin(p)>>

Elimina(p) ==
  /\ Igual(p)
  /\ EnExit(p) = EnExit(p)' + 1 /\ EnFin(p)' = EnFin(p) + 1
  /\ UNCHANGED <<EnNew(p), EnReady(p), EnExec(p), EnBlocked(p)>>

Arista(p) ==
  Nace(p) \/ Admite(p) \/ Despacha(p) \/ Desaloja(p) \/ Desbloquea(p) \/ Elimina(p)

\* Nothing moves, or one process does.
SeMueve ==
  \/ \A p \in Pids : Quieto(p)
  \/ \E m \in Pids : Arista(m) /\ \A p \in Pids \ {m} : Quieto(p)

LEMMA SumandosNat ==
  ASSUME Tipos, NEW p \in Pids
  PROVE  /\ Veces(colaNew, p) \in Nat /\ Veces(colaReady, p) \in Nat
         /\ Veces(colaReadyPlus, p) \in Nat /\ Veces(colaExit, p) \in Nat
         /\ Veces(aCpu, p) \in Nat /\ Veces(perdidos, p) \in Nat
         /\ VecesDesalojo(desalojos, p) \in Nat
         /\ EnNew(p) \in Nat /\ EnReady(p) \in Nat /\ EnExec(p) \in Nat
         /\ EnBlocked(p) \in 0 .. 1 /\ EnExit(p) \in Nat /\ EnFin(p) \in 0 .. 1
  <1>1. /\ Veces(colaNew, p) \in Nat /\ Veces(colaReady, p) \in Nat
        /\ Veces(colaReadyPlus, p) \in Nat /\ Veces(colaExit, p) \in Nat
        /\ Veces(aCpu, p) \in Nat /\ Veces(perdidos, p) \in Nat
        /\ VecesDesalojo(desalojos, p) \in Nat
    BY Aparece, DesalojoAparece DEF Tipos, TypeOK, TiposColas, TiposCpu
  <1>2. /\ Bit(p \in bloqueados) \in 0 .. 1 /\ Bit(creacion.pid = p) \in 0 .. 1
        /\ Bit(despacho.pid = p) \in 0 .. 1 /\ Bit(eliminacion.pid = p) \in 0 .. 1
        /\ Bit(p \in terminados) \in 0 .. 1
    BY DEF Bit
  <1>3. /\ EnNew(p) \in Nat /\ EnReady(p) \in Nat /\ EnExec(p) \in Nat
        /\ EnBlocked(p) \in 0 .. 1 /\ EnExit(p) \in Nat /\ EnFin(p) \in 0 .. 1
    BY <1>1, <1>2 DEF EnNew, EnReady, EnExec, EnBlocked, EnExit, EnFin
  <1> QED
    BY <1>1, <1>3

LEMMA PasoOciosos == Tipos /\ Ociosos /\ [Next]_vars => Ociosos'
  <1> SUFFICES ASSUME Tipos, Ociosos, [Next]_vars PROVE Ociosos'
    OBVIOUS
  <1>0. /\ creacion \in [en : {"esperar", "compuerta", "grado", "agregar"}, pid : Pids \cup {NULO}]
        /\ despacho \in [en : {"esperar", "compuerta", "manejar", "liberar"},
                        pid : Pids \cup {NULO},
                        motivo : MotivosDesalojo \cup {"ninguno"},
                        interfaz : Interfaces \cup {NULO}]
        /\ eliminacion \in [en : {"esperar", "compuerta", "sacar", "memoria", "muerto"},
                           pid : Pids \cup {NULO}, listado : SUBSET Pids]
        /\ consola \in [en : {"libre", "memoria", "registrar"}, pid : Pids \cup {NULO}]
    BY DEF Tipos, TypeOK, TiposHilos, TiposCpu, TiposConsola
  <1>1. consola'.en = "memoria" => consola'.pid \notin creados'
    <2>1. CASE UNCHANGED <<varsConsola, sistema, terminados, respuestas>>
      BY <2>1 DEF Ociosos, varsConsola
    <2>2. ASSUME NEW p \in Pids, IniciarProceso(p)
          PROVE  consola'.en = "memoria" => consola'.pid \notin creados'
      BY <2>2 DEF IniciarProceso, En
    <2>3. CASE RespuestaCreacion \/ Registrar
      BY <2>3 DEF RespuestaCreacion, Registrar, En
    <2>4. CASE DetenerPlanificacion \/ IniciarPlanificacion \/ PedirFin \/ RespuestaFin
      BY <2>4
      DEF DetenerPlanificacion, IniciarPlanificacion, PedirFin, RespuestaFin, varsConsola, Ociosos
    <2> QED
      BY <2>1, <2>2, <2>3, <2>4, Marco
  <1>2. creacion'.en # "agregar" => creacion'.pid = NULO
    <2>1. CASE UNCHANGED <<creacion, corto, eliminacion>>
      BY <2>1 DEF Ociosos
    <2>2. CASE HiloCreacion
      BY <2>2
      DEF HiloCreacion, EsperarNuevo, CompuertaCreacion, TomarGrado, AgregarAReady, En
    <2>3. CASE HiloCorto \/ HiloEliminacion
      BY <2>3
      DEF HiloCorto, EsperarReady, EsperarCpu, CompuertaCorto, Despachar, HiloEliminacion,
          EsperarExit, CompuertaEliminacion, PedirFin, RespuestaFin, Ociosos
    <2> QED
      BY <2>1, <2>2, <2>3, Marco
  <1>3. eliminacion'.en \notin {"memoria", "muerto"} => eliminacion'.pid = NULO
    <2>1. CASE UNCHANGED <<creacion, corto, eliminacion>>
      BY <2>1 DEF Ociosos
    <2>2. CASE EsperarExit \/ CompuertaEliminacion \/ PedirFin
      BY <2>2
      DEF EsperarExit, CompuertaEliminacion, PedirFin, Eliminando
    <2>3. CASE RespuestaFin
      <3>1. \/ eliminacion' = Eliminando("esperar", NULO, {})
            \/ eliminacion' = [eliminacion EXCEPT !.en = "muerto"]
        BY <2>3 DEF RespuestaFin
      <3> QED
        BY <1>0, <3>1 DEF Eliminando
    <2>4. CASE HiloCorto \/ HiloCreacion
      BY <2>4
      DEF HiloCorto, EsperarReady, EsperarCpu, CompuertaCorto, Despachar, HiloCreacion,
          EsperarNuevo, CompuertaCreacion, TomarGrado, AgregarAReady, Ociosos
    <2> QED
      BY <2>1, <2>2, <2>3, <2>4, Marco DEF HiloEliminacion
  <1>4. ~ConDesalojo' => despacho'.pid = NULO
    <2>1. CASE UNCHANGED <<despacho, varsCpu>>
      BY <2>1 DEF Ociosos, ConDesalojo
    <2>2. CASE Despachar \/ Cpu
      BY <2>2
      DEF Despachar, Cpu, Salir, FinDeQuantum, SinMemoria, Descartar, CpuSinTocar, Ociosos,
          ConDesalojo
    <2>3. CASE RecibirDesalojo \/ CompuertaDespacho
      BY <1>0, <2>3 DEF RecibirDesalojo, CompuertaDespacho, TrasEspera, ConDesalojo
    <2>4. CASE ManejarFin \/ ManejarFinDeQuantum \/ ManejarIo
      BY <2>4 DEF ManejarFin, ManejarFinDeQuantum, ManejarIo, DejarCpu
    <2>5. CASE LiberarCpu
      BY <1>0, <2>5 DEF LiberarCpu, Ociosos, ConDesalojo
    <2> QED
      BY <2>1, <2>2, <2>3, <2>4, <2>5, Marco DEF HiloDespacho
  <1> QED
    BY <1>1, <1>2, <1>3, <1>4 DEF Ociosos, ConDesalojo

LEMMA SiempreOciosos == Spec => []Ociosos
  <1>1. Init => Ociosos
    BY DEF Init, Ociosos, En
  <1> QED
    BY <1>1, PasoOciosos, SiempreTipos, PTL DEF Spec

LEMMA Quietos ==
  ASSUME UNCHANGED <<creados, varsColas, terminados, aCpu, desalojos, perdidos>>,
         UNCHANGED <<creacion.pid, despacho.pid, eliminacion.pid>>,
         NEW p \in Pids
  PROVE  Quieto(p)
  BY DEF varsColas, Quieto, Grupos, EnNew, EnReady, EnExec, EnBlocked, EnExit, EnFin, Veces,
         VecesDesalojo, Bit

GruposNat ==
  \A p \in Pids :
    /\ EnNew(p) \in Nat /\ EnReady(p) \in Nat /\ EnExec(p) \in Nat
    /\ EnBlocked(p) \in 0 .. 1 /\ EnExit(p) \in Nat /\ EnFin(p) \in 0 .. 1

LEMMA TiposGruposNat == Tipos => GruposNat
  BY SumandosNat DEF GruposNat

\* Everything the movements below need of a state, before and after.
LEMMA Base ==
  ASSUME Tipos, [Next]_vars
  PROVE  /\ Tipos' /\ GruposNat /\ GruposNat' /\ NULO \notin Pids
         /\ colaNew \in Seq(Pids) /\ colaReady \in Seq(Pids) /\ colaReadyPlus \in Seq(Pids)
         /\ colaExit \in Seq(Pids) /\ aCpu \in Seq(Pids) /\ perdidos \in Seq(Pids)
         /\ desalojos \in Seq(Desalojos)
  <1>1. Tipos'
    BY PasoTipos
  <1>2. GruposNat /\ GruposNat'
    BY <1>1, TiposGruposNat, PTL
  <1>3. NULO \notin Pids
    BY NuloAssumption
  <1>4. /\ colaNew \in Seq(Pids) /\ colaReady \in Seq(Pids) /\ colaReadyPlus \in Seq(Pids)
        /\ colaExit \in Seq(Pids) /\ aCpu \in Seq(Pids) /\ perdidos \in Seq(Pids)
        /\ desalojos \in Seq(Desalojos)
    BY DEF Tipos, TypeOK, TiposColas, TiposCpu
  <1> QED
    BY <1>1, <1>2, <1>3, <1>4

LEMMA MueveCreacion ==
  ASSUME Tipos, Ociosos, [Next]_vars, RespuestaCreacion
  PROVE  SeMueve
  <1>0. GruposNat /\ GruposNat' /\ NULO \notin Pids /\ colaNew \in Seq(Pids)
    BY Base
  <1>1. PICK m \in Pids : m = consola.pid /\ m \notin creados
    BY DEF RespuestaCreacion, Tipos, ManoConsola, Ociosos
  <1>2. UNCHANGED <<colaReady, colaReadyPlus, colaExit, bloqueados, terminados, aCpu,
                    desalojos, perdidos, creacion, despacho, eliminacion>>
    BY DEF RespuestaCreacion, varsCpu
  <1>3. CASE UNCHANGED <<colaNew, creados>>
    BY <1>2, <1>3, Quietos DEF SeMueve, varsColas
  <1>4. CASE colaNew' = Append(colaNew, m) /\ creados' = creados \cup {m}
    <2>1. ASSUME NEW p \in Pids
          PROVE  /\ EnNew(p)' = EnNew(p) + Bit(m = p)
                 /\ UNCHANGED <<EnReady(p), EnExec(p), EnBlocked(p), EnExit(p), EnFin(p)>>
      <3>1. Veces(colaNew', p) = Veces(colaNew, p) + Bit(m = p)
        BY <1>0, <1>1, <1>4, Entra
      <3>2. Veces(colaNew, p) \in Nat
        BY <1>0, Aparece
      <3> QED
        BY <1>2, <3>1, <3>2 DEF EnNew, EnReady, EnExec, EnBlocked, EnExit, EnFin, Bit
    <2>2. Nace(m)
      BY <1>1, <1>4, <2>1 DEF Nace, Bit
    <2>3. ASSUME NEW p \in Pids \ {m} PROVE Quieto(p)
      BY <1>0, <1>4, <2>1 DEF Quieto, Grupos, GruposNat, Bit
    <2> QED
      BY <1>1, <2>2, <2>3 DEF SeMueve, Arista
  <1> QED
    BY <1>1, <1>3, <1>4 DEF RespuestaCreacion

LEMMA MueveTomarGrado ==
  ASSUME Tipos, Ociosos, [Next]_vars, TomarGrado
  PROVE  SeMueve
  <1>0. GruposNat /\ GruposNat' /\ NULO \notin Pids /\ colaNew \in Seq(Pids)
    BY Base
  <1>1. /\ colaNew # <<>> /\ colaNew' = Tail(colaNew) /\ creacion.pid = NULO
        /\ creacion'.pid = Head(colaNew)
        /\ UNCHANGED <<creados, colaReady, colaReadyPlus, colaExit, bloqueados, terminados,
                       aCpu, desalojos, perdidos, despacho, eliminacion>>
    BY DEF TomarGrado, Ociosos, En, varsConsola, varsCpu
  <1>2. ASSUME NEW p \in Pids PROVE Quieto(p)
    <2>1. Veces(colaNew, p) = Veces(colaNew', p) + Bit(creacion'.pid = p)
      BY <1>0, <1>1, Sale
    <2>2. Veces(colaNew, p) \in Nat /\ Bit(creacion.pid = p) = 0
      BY <1>0, <1>1, Aparece DEF Bit
    <2> QED
      BY <1>1, <2>1, <2>2
      DEF Quieto, Grupos, EnNew, EnReady, EnExec, EnBlocked, EnExit, EnFin
  <1> QED
    BY <1>2 DEF SeMueve

LEMMA MueveAgregar ==
  ASSUME Tipos, Ociosos, [Next]_vars, AgregarAReady
  PROVE  SeMueve
  <1>0. GruposNat /\ GruposNat' /\ NULO \notin Pids /\ colaReady \in Seq(Pids)
    BY Base
  <1>1. PICK m \in Pids : m = creacion.pid
    BY DEF AgregarAReady, Tipos, ManoHilos
  <1>2. /\ colaReady' = Append(colaReady, m) /\ creacion'.pid = NULO
        /\ UNCHANGED <<creados, colaNew, colaReadyPlus, colaExit, bloqueados, terminados, aCpu,
                       desalojos, perdidos, despacho, eliminacion>>
    BY <1>1 DEF AgregarAReady, En, varsConsola, varsCpu
  <1>3. ASSUME NEW p \in Pids
        PROVE  /\ EnNew(p) = EnNew(p)' + Bit(m = p) /\ EnReady(p)' = EnReady(p) + Bit(m = p)
               /\ UNCHANGED <<EnExec(p), EnBlocked(p), EnExit(p), EnFin(p)>>
    <2>1. Veces(colaReady', p) = Veces(colaReady, p) + Bit(m = p)
      BY <1>0, <1>2, Entra
    <2>2. /\ Veces(colaReady, p) \in Nat /\ Veces(colaReadyPlus, p) \in Nat
          /\ Veces(colaNew, p) \in Nat
      BY SumandosNat
    <2>3. Bit(creacion'.pid = p) = 0 /\ Bit(m = p) \in Nat
      BY <1>0, <1>2 DEF Bit
    <2> QED
      BY <1>1, <1>2, <2>1, <2>2, <2>3 DEF EnNew, EnReady, EnExec, EnBlocked, EnExit, EnFin
  <1>4. Arista(m)
    BY <1>2, <1>3 DEF Arista, Admite, Igual, Bit
  <1>5. ASSUME NEW p \in Pids \ {m} PROVE Quieto(p)
    BY <1>0, <1>2, <1>3 DEF Quieto, Grupos, GruposNat, Bit
  <1> QED
    BY <1>4, <1>5 DEF SeMueve

LEMMA MueveDespachar ==
  ASSUME Tipos, Ociosos, [Next]_vars, Despachar
  PROVE  SeMueve
  <1>0. /\ GruposNat /\ GruposNat' /\ aCpu \in Seq(Pids)
        /\ colaReady \in Seq(Pids) /\ colaReadyPlus \in Seq(Pids)
    BY Base
  <1>1. PICK m \in Pids :
          /\ aCpu' = Append(aCpu, m)
          /\ \/ /\ colaReadyPlus # <<>> /\ m = Head(colaReadyPlus)
                /\ colaReadyPlus' = Tail(colaReadyPlus) /\ UNCHANGED colaReady
             \/ /\ colaReady # <<>> /\ m = Head(colaReady)
                /\ colaReady' = Tail(colaReady) /\ UNCHANGED colaReadyPlus
    <2>1. /\ colaReady # <<>> => Head(colaReady) \in Pids
          /\ colaReadyPlus # <<>> => Head(colaReadyPlus) \in Pids
      BY <1>0, Colas
    <2> QED
      BY <2>1 DEF Despachar
  <1>2. UNCHANGED <<creados, colaNew, colaExit, bloqueados, terminados, desalojos, perdidos,
                    creacion, despacho, eliminacion>>
    BY DEF Despachar, varsConsola
  <1>3. ASSUME NEW p \in Pids
        PROVE  /\ EnReady(p) = EnReady(p)' + Bit(m = p) /\ EnExec(p)' = EnExec(p) + Bit(m = p)
               /\ UNCHANGED <<EnNew(p), EnBlocked(p), EnExit(p), EnFin(p)>>
    <2>1. Veces(aCpu', p) = Veces(aCpu, p) + Bit(m = p)
      BY <1>0, <1>1, Entra
    <2>2. \/ /\ Veces(colaReadyPlus, p) = Veces(colaReadyPlus', p) + Bit(m = p)
             /\ UNCHANGED colaReady
          \/ /\ Veces(colaReady, p) = Veces(colaReady', p) + Bit(m = p)
             /\ UNCHANGED colaReadyPlus
      <3>1. /\ colaReadyPlus # <<>> => Veces(colaReadyPlus, p)
                 = Veces(Tail(colaReadyPlus), p) + Bit(Head(colaReadyPlus) = p)
            /\ colaReady # <<>> => Veces(colaReady, p)
                 = Veces(Tail(colaReady), p) + Bit(Head(colaReady) = p)
        BY <1>0, Sale
      <3> QED
        BY <1>1, <3>1
    <2>3. /\ Veces(colaReady, p) \in Nat /\ Veces(colaReadyPlus, p) \in Nat
          /\ Veces(aCpu, p) \in Nat /\ VecesDesalojo(desalojos, p) \in Nat
          /\ Veces(perdidos, p) \in Nat
      BY SumandosNat
    <2>4. /\ Veces(colaReady', p) \in Nat /\ Veces(colaReadyPlus', p) \in Nat
      <3>1. colaReady' \in Seq(Pids) /\ colaReadyPlus' \in Seq(Pids)
        BY <1>0, <1>1, Colas
      <3> QED
        BY <3>1, Aparece
    <2>5. Bit(m = p) \in Nat /\ Bit(despacho.pid = p) \in Nat
      BY DEF Bit
    <2> QED
      BY <1>2, <2>1, <2>2, <2>3, <2>4, <2>5
      DEF EnNew, EnReady, EnExec, EnBlocked, EnExit, EnFin
  <1>4. Arista(m)
    BY <1>2, <1>3 DEF Arista, Despacha, Igual, Bit
  <1>5. ASSUME NEW p \in Pids \ {m} PROVE Quieto(p)
    BY <1>0, <1>2, <1>3 DEF Quieto, Grupos, GruposNat, Bit
  <1> QED
    BY <1>4, <1>5 DEF SeMueve

(* The CPU moves its first process to its answers, or to the lost ones.    *)
LEMMA MueveCpu ==
  ASSUME UnaRespuesta, Tipos, Ociosos, [Next]_vars, Cpu
  PROVE  SeMueve
  <1>0. /\ GruposNat /\ GruposNat' /\ aCpu \in Seq(Pids) /\ perdidos \in Seq(Pids)
        /\ desalojos \in Seq(Desalojos)
    BY Base
  <1>1. /\ aCpu # <<>> /\ aCpu' = Tail(aCpu)
        /\ UNCHANGED <<creados, varsColas, terminados, creacion, despacho, eliminacion>>
    BY DEF Cpu, Salir, FinDeQuantum, SinMemoria, Descartar, CpuSinTocar, varsConsola
  <1>2. \/ perdidos' = Append(perdidos, Head(aCpu)) /\ UNCHANGED desalojos
        \/ /\ UNCHANGED perdidos
           /\ \E d \in Desalojos : d.pid = Head(aCpu) /\ desalojos' = Append(desalojos, d)
    <2>1. ASSUME NEW x \in MotivosDesalojo, NEW i \in Interfaces \cup {NULO}
          PROVE  /\ Desalojo(Head(aCpu), x, i) \in Desalojos
                 /\ Desalojo(Head(aCpu), x, i).pid = Head(aCpu)
      BY <1>0, <1>1, Colas DEF Desalojo, Desalojos
    <2>2. /\ {"OPERACION_IO", "END_PROCESS", "OUT_OF_MEMORY", "FIN_CLOCK"} \subseteq MotivosDesalojo
          /\ NULO \in Interfaces \cup {NULO}
      BY DEF MotivosDesalojo
    <2>3. CASE Salir
      BY <2>1, <2>2, <2>3 DEF Salir
    <2>4. CASE FinDeQuantum
      BY <2>1, <2>2, <2>4 DEF FinDeQuantum
    <2>5. CASE SinMemoria
      BY <2>1, <2>2, <2>5 DEF SinMemoria, UnaRespuesta
    <2>6. CASE Descartar
      BY <2>6 DEF Descartar
    <2> QED
      BY <2>3, <2>4, <2>5, <2>6 DEF Cpu
  <1>3. ASSUME NEW p \in Pids PROVE Quieto(p)
    <2>1. PICK b \in 0 .. 1 : b = Bit(Head(aCpu) = p)
      BY DEF Bit
    <2>2. Veces(aCpu, p) = Veces(aCpu', p) + b
      BY <1>0, <1>1, <2>1, Sale
    <2>3. \/ Veces(perdidos', p) = Veces(perdidos, p) + b /\ UNCHANGED desalojos
          \/ VecesDesalojo(desalojos', p) = VecesDesalojo(desalojos, p) + b /\ UNCHANGED perdidos
      <3>1. CASE perdidos' = Append(perdidos, Head(aCpu)) /\ UNCHANGED desalojos
        BY <1>0, <1>1, <2>1, <3>1, Entra, Colas
      <3>2. ASSUME UNCHANGED perdidos, NEW d \in Desalojos, d.pid = Head(aCpu),
                   desalojos' = Append(desalojos, d)
            PROVE  VecesDesalojo(desalojos', p) = VecesDesalojo(desalojos, p) + b
        BY <1>0, <2>1, <3>2, DesalojoEntra
      <3> QED
        BY <1>2, <3>1, <3>2
    <2>4. /\ Veces(aCpu, p) \in Nat /\ Veces(perdidos, p) \in Nat
          /\ VecesDesalojo(desalojos, p) \in Nat /\ Veces(aCpu', p) \in Nat
      BY <1>0, <1>1, Colas, Aparece, DesalojoAparece
    <2>5. Bit(despacho.pid = p) \in Nat
      BY DEF Bit
    <2>6. EnExec(p)' = EnExec(p)
      <3>1. PICK k \in Nat, q \in Nat, d \in Nat, x \in Nat :
              /\ k = Veces(aCpu', p) /\ q = Veces(perdidos, p)
              /\ d = VecesDesalojo(desalojos, p) /\ x = Bit(despacho.pid = p)
        BY <2>4, <2>5
      <3>2. EnExec(p) = (k + b) + d + q + x
        BY <2>2, <3>1 DEF EnExec
      <3>3. Bit(despacho'.pid = p) = x
        BY <1>1, <3>1
      <3>4. \/ Veces(perdidos', p) = q + b /\ VecesDesalojo(desalojos', p) = d
            \/ VecesDesalojo(desalojos', p) = d + b /\ Veces(perdidos', p) = q
        BY <2>3, <3>1
      <3>5. \/ EnExec(p)' = k + d + (q + b) + x
            \/ EnExec(p)' = k + (d + b) + q + x
        BY <3>1, <3>3, <3>4 DEF EnExec
      <3> QED
        BY <2>1, <3>1, <3>2, <3>5
    <2>7. /\ UNCHANGED <<EnNew(p), EnReady(p), EnBlocked(p), EnExit(p), EnFin(p)>>
          /\ creados' = creados
      BY <1>1 DEF varsColas, EnNew, EnReady, EnBlocked, EnExit, EnFin
    <2> QED
      BY <2>6, <2>7 DEF Quieto, Grupos
  <1> QED
    BY <1>3 DEF SeMueve

LEMMA MueveRecibir ==
  ASSUME Tipos, Ociosos, [Next]_vars, RecibirDesalojo
  PROVE  SeMueve
  <1>0. NULO \notin Pids /\ desalojos \in Seq(Desalojos)
    BY Base
  <1>1. /\ desalojos # <<>> /\ desalojos' = Tail(desalojos) /\ despacho.pid = NULO
        /\ despacho'.pid = Head(desalojos).pid
        /\ UNCHANGED <<creados, varsColas, terminados, aCpu, perdidos, creacion, eliminacion>>
    BY DEF RecibirDesalojo, Ociosos, ConDesalojo, varsConsola
  <1>2. ASSUME NEW p \in Pids PROVE Quieto(p)
    <2>1. VecesDesalojo(desalojos, p) = VecesDesalojo(desalojos', p) + Bit(despacho'.pid = p)
      BY <1>0, <1>1, DesalojoSale
    <2>2. /\ Veces(aCpu, p) \in Nat /\ Veces(perdidos, p) \in Nat
          /\ VecesDesalojo(desalojos', p) \in Nat
      BY <1>0, <1>1, SumandosNat, DesalojoAparece, Colas
    <2>3. Bit(despacho.pid = p) = 0 /\ Bit(despacho'.pid = p) \in Nat
      BY <1>0, <1>1 DEF Bit
    <2> QED
      BY <1>1, <2>1, <2>2, <2>3
      DEF varsColas, Quieto, Grupos, EnNew, EnReady, EnExec, EnBlocked, EnExit, EnFin
  <1> QED
    BY <1>2 DEF SeMueve

(* recibir_dispatch handles an eviction: to EXIT, READY or BLOCKED.        *)
LEMMA MueveManejar ==
  ASSUME Tipos, Ociosos, UnaSolaCola, [Next]_vars, ManejarFin \/ ManejarFinDeQuantum \/ ManejarIo
  PROVE  SeMueve
  <1>0. /\ GruposNat /\ GruposNat' /\ NULO \notin Pids
        /\ colaReady \in Seq(Pids) /\ colaExit \in Seq(Pids)
    BY Base
  <1>1. PICK m \in Pids : m = despacho.pid
    BY DEF ManejarFin, ManejarFinDeQuantum, ManejarIo, Tipos, ManoDespacho, ConDesalojo
  <1>2. /\ despacho'.pid = NULO
        /\ UNCHANGED <<creados, colaNew, colaReadyPlus, terminados, aCpu, desalojos, perdidos,
                       creacion, eliminacion>>
    BY DEF ManejarFin, ManejarFinDeQuantum, ManejarIo, DejarCpu, varsConsola, varsCpu
  <1>3. \/ colaExit' = Append(colaExit, m) /\ UNCHANGED <<colaReady, bloqueados>>
        \/ colaReady' = Append(colaReady, m) /\ UNCHANGED <<colaExit, bloqueados>>
        \/ bloqueados' = bloqueados \cup {m} /\ UNCHANGED <<colaReady, colaExit>>
    BY <1>1 DEF ManejarFin, ManejarFinDeQuantum, ManejarIo
  <1>4. m \notin bloqueados
    <2>1. EnUno(m)
      BY UnaSolaColaEsEnUno
    <2>2. EnExec(m) > 0
      <3>1. Bit(despacho.pid = m) = 1
        BY <1>1 DEF Bit
      <3> QED
        BY <3>1, SumandosNat DEF EnExec
    <2>3. /\ EnNew(m) \in Nat /\ EnReady(m) \in Nat /\ EnExec(m) \in Nat
          /\ EnBlocked(m) \in 0 .. 1 /\ EnExit(m) \in Nat /\ EnFin(m) \in 0 .. 1
          /\ Bit(m \in creados) \in 0 .. 1
      BY <1>0 DEF GruposNat, Bit
    <2>4. EnBlocked(m) = 0
      BY <2>1, <2>2, <2>3 DEF EnUno
    <2> QED
      BY <2>4 DEF EnBlocked, Bit
  <1>5. ASSUME NEW p \in Pids
        PROVE  /\ EnExec(p) = EnExec(p)' + Bit(m = p) /\ UNCHANGED <<EnNew(p), EnFin(p)>>
               /\ \/ /\ EnReady(p)' = EnReady(p) + Bit(m = p)
                     /\ UNCHANGED <<EnBlocked(p), EnExit(p), colaExit, bloqueados>>
                  \/ /\ EnBlocked(p)' = EnBlocked(p) + Bit(m = p)
                     /\ UNCHANGED <<EnReady(p), EnExit(p), colaReady, colaExit>>
                  \/ /\ EnExit(p)' = EnExit(p) + Bit(m = p)
                     /\ UNCHANGED <<EnReady(p), EnBlocked(p), colaReady, bloqueados>>
    <2>1. /\ Veces(aCpu, p) \in Nat /\ Veces(perdidos, p) \in Nat
          /\ VecesDesalojo(desalojos, p) \in Nat /\ Veces(colaReady, p) \in Nat
          /\ Veces(colaReadyPlus, p) \in Nat /\ Veces(colaExit, p) \in Nat
      BY SumandosNat
    <2>2. /\ Bit(m = p) \in Nat /\ Bit(despacho.pid = p) = Bit(m = p)
          /\ Bit(despacho'.pid = p) = 0 /\ Bit(eliminacion.pid = p) \in Nat
      BY <1>0, <1>1, <1>2 DEF Bit
    <2>3. EnExec(p) = EnExec(p)' + Bit(m = p) /\ UNCHANGED <<EnNew(p), EnFin(p)>>
      BY <1>2, <2>1, <2>2 DEF EnExec, EnNew, EnFin
    <2>4. CASE colaExit' = Append(colaExit, m) /\ UNCHANGED <<colaReady, bloqueados>>
      <3>1. Veces(colaExit', p) = Veces(colaExit, p) + Bit(m = p)
        BY <1>0, <2>4, Entra
      <3> QED
        BY <1>2, <2>1, <2>2, <2>3, <2>4, <3>1 DEF EnReady, EnBlocked, EnExit
    <2>5. CASE colaReady' = Append(colaReady, m) /\ UNCHANGED <<colaExit, bloqueados>>
      <3>1. Veces(colaReady', p) = Veces(colaReady, p) + Bit(m = p)
        BY <1>0, <2>5, Entra
      <3> QED
        BY <1>2, <2>1, <2>2, <2>3, <2>5, <3>1 DEF EnReady, EnBlocked, EnExit
    <2>6. CASE bloqueados' = bloqueados \cup {m} /\ UNCHANGED <<colaReady, colaExit>>
      <3>1. EnBlocked(p)' = EnBlocked(p) + Bit(m = p)
        BY <1>4, <2>6 DEF EnBlocked, Bit
      <3> QED
        BY <1>2, <2>3, <2>6, <3>1 DEF EnReady, EnExit
    <2> QED
      BY <1>3, <2>4, <2>5, <2>6
  <1>6. Arista(m)
    BY <1>2, <1>5 DEF Arista, Desaloja, Igual, Bit
  <1>7. ASSUME NEW p \in Pids \ {m} PROVE Quieto(p)
    <2>1. Bit(m = p) = 0
      BY DEF Bit
    <2>2. /\ EnReady(p) \in Nat /\ EnExec(p) \in Nat /\ EnExec(p)' \in Nat
          /\ EnBlocked(p) \in 0 .. 1 /\ EnExit(p) \in Nat
      BY <1>0 DEF GruposNat
    <2>3. UNCHANGED <<EnNew(p), EnFin(p), EnExec(p)>>
      BY <1>5, <2>1, <2>2
    <2>4. UNCHANGED <<EnReady(p), EnBlocked(p), EnExit(p)>>
      <3>1. /\ EnReady(p)' \in {EnReady(p), EnReady(p) + Bit(m = p)}
            /\ EnBlocked(p)' \in {EnBlocked(p), EnBlocked(p) + Bit(m = p)}
            /\ EnExit(p)' \in {EnExit(p), EnExit(p) + Bit(m = p)}
        BY <1>5
      <3> QED
        BY <2>1, <2>2, <3>1
    <2> QED
      BY <1>2, <2>3, <2>4 DEF Quieto, Grupos
  <1> QED
    BY <1>6, <1>7 DEF SeMueve

(* An interface gives its process back to READY.                           *)
LEMMA MueveDesbloquear ==
  ASSUME Tipos, Ociosos, [Next]_vars, NEW i \in Interfaces, Desbloquear(i)
  PROVE  SeMueve
  <1>0. GruposNat /\ GruposNat' /\ colaReady \in Seq(Pids) /\ colaReadyPlus \in Seq(Pids)
    BY Base
  <1>1. PICK m \in Pids : m = io[i].pid
    BY DEF Desbloquear, Tipos, ManoIo
  <1>2. /\ m \in bloqueados /\ bloqueados' = bloqueados \ {m}
        /\ UNCHANGED <<creados, colaNew, colaExit, terminados, aCpu, desalojos, perdidos,
                       creacion, despacho, eliminacion>>
        /\ \/ colaReady' = Append(colaReady, m) /\ UNCHANGED colaReadyPlus
           \/ colaReadyPlus' = Append(colaReadyPlus, m) /\ UNCHANGED colaReady
    BY <1>1 DEF Desbloquear, OtrasIo, varsConsola, varsCpu
  <1>3. ASSUME NEW p \in Pids
        PROVE  /\ EnBlocked(p) = EnBlocked(p)' + Bit(m = p) /\ EnReady(p)' = EnReady(p) + Bit(m = p)
               /\ UNCHANGED <<EnNew(p), EnExec(p), EnExit(p), EnFin(p)>>
    <2>1. EnBlocked(p) = EnBlocked(p)' + Bit(m = p)
      BY <1>2 DEF EnBlocked, Bit
    <2>2. \/ Veces(colaReady', p) = Veces(colaReady, p) + Bit(m = p) /\ UNCHANGED colaReadyPlus
          \/ Veces(colaReadyPlus', p) = Veces(colaReadyPlus, p) + Bit(m = p) /\ UNCHANGED colaReady
      <3>1. /\ Veces(Append(colaReady, m), p) = Veces(colaReady, p) + Bit(m = p)
            /\ Veces(Append(colaReadyPlus, m), p) = Veces(colaReadyPlus, p) + Bit(m = p)
        BY <1>0, Entra
      <3> QED
        BY <1>2, <3>1
    <2>3. /\ Veces(colaReady, p) \in Nat /\ Veces(colaReadyPlus, p) \in Nat
          /\ Bit(m = p) \in Nat
      BY SumandosNat DEF Bit
    <2>4. EnReady(p)' = EnReady(p) + Bit(m = p)
      BY <2>2, <2>3 DEF EnReady
    <2>5. UNCHANGED <<EnNew(p), EnExec(p), EnExit(p), EnFin(p)>>
      BY <1>2 DEF EnNew, EnExec, EnExit, EnFin
    <2> QED
      BY <2>1, <2>4, <2>5
  <1>4. Arista(m)
    BY <1>2, <1>3 DEF Arista, Desbloquea, Igual, Bit
  <1>5. ASSUME NEW p \in Pids \ {m} PROVE Quieto(p)
    <2>1. EnReady(p) \in Nat /\ EnBlocked(p)' \in 0 .. 1
      BY <1>0 DEF GruposNat
    <2>2. Bit(m = p) = 0
      BY DEF Bit
    <2> QED
      BY <1>2, <1>3, <2>1, <2>2 DEF Quieto, Grupos
  <1> QED
    BY <1>4, <1>5 DEF SeMueve

LEMMA MuevePedirFin ==
  ASSUME Tipos, Ociosos, [Next]_vars, PedirFin
  PROVE  SeMueve
  <1>0. NULO \notin Pids /\ colaExit \in Seq(Pids)
    BY Base
  <1>1. /\ colaExit # <<>> /\ colaExit' = Tail(colaExit) /\ eliminacion.pid = NULO
        /\ eliminacion'.pid = Head(colaExit)
        /\ UNCHANGED <<creados, colaNew, colaReady, colaReadyPlus, bloqueados, terminados, aCpu,
                       desalojos, perdidos, creacion, despacho>>
    BY DEF PedirFin, Ociosos, Eliminando, varsConsola, varsCpu
  <1>2. ASSUME NEW p \in Pids PROVE Quieto(p)
    <2>1. Veces(colaExit, p) = Veces(colaExit', p) + Bit(eliminacion'.pid = p)
      BY <1>0, <1>1, Sale
    <2>2. Veces(colaExit, p) \in Nat /\ Bit(eliminacion.pid = p) = 0
      BY <1>0, <1>1, Aparece DEF Bit
    <2> QED
      BY <1>1, <2>1, <2>2
      DEF Quieto, Grupos, EnNew, EnReady, EnExec, EnBlocked, EnExit, EnFin
  <1> QED
    BY <1>2 DEF SeMueve

(* Memoria has released the process: its PCB is destroyed.                 *)
LEMMA MueveFin ==
  ASSUME Tipos, Ociosos, UnaSolaCola, [Next]_vars, RespuestaFin
  PROVE  SeMueve
  <1>0. GruposNat /\ GruposNat' /\ NULO \notin Pids
    BY Base
  <1>1. /\ eliminacion.en = "memoria"
        /\ UNCHANGED <<creados, varsColas, aCpu, desalojos, perdidos, creacion, despacho>>
    BY DEF RespuestaFin, varsConsola, varsCpu
  <1>2. PICK m \in Pids : m = eliminacion.pid
    BY <1>1 DEF Tipos, ManoHilos
  <1>3. CASE UNCHANGED <<terminados, eliminacion.pid>>
    BY <1>1, <1>3, Quietos DEF SeMueve
  <1>4. CASE terminados' = terminados \cup {m} /\ eliminacion'.pid = NULO
    <2>1. m \notin terminados
      <3>1. EnUno(m)
        BY UnaSolaColaEsEnUno
      <3>2. EnExit(m) > 0
        <4>1. Bit(eliminacion.pid = m) = 1
          BY <1>2 DEF Bit
        <4> QED
          BY <4>1, SumandosNat DEF EnExit
      <3>3. /\ EnNew(m) \in Nat /\ EnReady(m) \in Nat /\ EnExec(m) \in Nat
            /\ EnBlocked(m) \in 0 .. 1 /\ EnExit(m) \in Nat /\ EnFin(m) \in 0 .. 1
            /\ Bit(m \in creados) \in 0 .. 1
        BY <1>0 DEF GruposNat, Bit
      <3>4. EnFin(m) = 0
        BY <3>1, <3>2, <3>3 DEF EnUno
      <3> QED
        BY <3>4 DEF EnFin, Bit
    <2>2. ASSUME NEW p \in Pids
          PROVE  /\ EnExit(p) = EnExit(p)' + Bit(m = p) /\ EnFin(p)' = EnFin(p) + Bit(m = p)
                 /\ UNCHANGED <<EnNew(p), EnReady(p), EnExec(p), EnBlocked(p)>>
      <3>1. /\ Veces(colaExit, p) \in Nat /\ Bit(m = p) \in Nat
            /\ Bit(eliminacion.pid = p) = Bit(m = p) /\ Bit(eliminacion'.pid = p) = 0
        BY <1>0, <1>2, <1>4, SumandosNat DEF Bit
      <3>2. EnFin(p)' = EnFin(p) + Bit(m = p)
        BY <1>4, <2>1 DEF EnFin, Bit
      <3> QED
        BY <1>1, <3>1, <3>2 DEF varsColas, EnExit, EnNew, EnReady, EnExec, EnBlocked
    <2>3. Arista(m)
      BY <1>1, <2>2 DEF Arista, Elimina, Igual, Bit
    <2>4. ASSUME NEW p \in Pids \ {m} PROVE Quieto(p)
      <3>1. Bit(m = p) = 0 /\ EnExit(p)' \in Nat /\ EnFin(p) \in Nat
        BY <1>0 DEF Bit, GruposNat
      <3> QED
        BY <1>1, <2>2, <3>1 DEF Quieto, Grupos
    <2> QED
      BY <2>3, <2>4 DEF SeMueve
  <1>5. \/ UNCHANGED <<terminados, eliminacion.pid>>
        \/ terminados' = terminados \cup {m} /\ eliminacion'.pid = NULO
    <2>1. \/ /\ eliminacion' = [eliminacion EXCEPT !.en = "muerto"] /\ UNCHANGED terminados
          \/ /\ terminados' = terminados \cup {m}
             /\ eliminacion' = Eliminando("esperar", NULO, {})
      BY <1>2 DEF RespuestaFin
    <2>2. eliminacion \in [en : {"esperar", "compuerta", "sacar", "memoria", "muerto"},
                           pid : Pids \cup {NULO}, listado : SUBSET Pids]
      BY DEF Tipos, TypeOK, TiposHilos
    <2> QED
      BY <2>1, <2>2 DEF Eliminando
  <1> QED
    BY <1>3, <1>4, <1>5

(* A step moves no process, or one process along one edge.                 *)
LEMMA Movimiento ==
  ASSUME UnaRespuesta, Tipos, Ociosos, UnaSolaCola, [Next]_vars
  PROVE  SeMueve
  <1>1. ASSUME UNCHANGED <<creados, varsColas, terminados, aCpu, desalojos, perdidos>>,
               UNCHANGED <<creacion.pid, despacho.pid, eliminacion.pid>>
        PROVE  SeMueve
    BY <1>1, Quietos DEF SeMueve
  <1>0. /\ despacho \in [en : {"esperar", "compuerta", "manejar", "liberar"},
                        pid : Pids \cup {NULO},
                        motivo : MotivosDesalojo \cup {"ninguno"},
                        interfaz : Interfaces \cup {NULO}]
    BY DEF Tipos, TypeOK, TiposCpu
  <1>2. CASE \/ \E p \in Pids : IniciarProceso(p)
             \/ Registrar \/ DetenerPlanificacion \/ IniciarPlanificacion
             \/ UNCHANGED vars
    BY <1>1, <1>2
    DEF IniciarProceso, Registrar, DetenerPlanificacion, IniciarPlanificacion, vars,
        varsConsola, varsCpu
  <1>3. CASE EsperarNuevo \/ CompuertaCreacion \/ EsperarExit \/ CompuertaEliminacion
    BY <1>1, <1>3
    DEF EsperarNuevo, CompuertaCreacion, EsperarExit, CompuertaEliminacion, Ociosos, En,
        Eliminando, varsConsola, varsCpu
  <1>4. CASE EsperarReady \/ EsperarCpu \/ CompuertaCorto
    BY <1>1, <1>4 DEF EsperarReady, EsperarCpu, CompuertaCorto, varsConsola, varsCpu
  <1>5. CASE CompuertaDespacho \/ LiberarCpu
    BY <1>0, <1>1, <1>5 DEF CompuertaDespacho, LiberarCpu, varsConsola, varsCpu
  <1>6. ASSUME NEW i \in Interfaces, TomarPedido(i) \/ RecibirResultado(i) \/ CompuertaIo(i)
        PROVE  SeMueve
    BY <1>1, <1>6
    DEF TomarPedido, RecibirResultado, CompuertaIo, OtrasIo, varsConsola, varsCpu, varsColas
  <1> QED
    BY <1>2, <1>3, <1>4, <1>5, <1>6, MueveCreacion, MueveTomarGrado, MueveAgregar,
       MueveDespachar, MueveCpu, MueveRecibir, MueveManejar, MueveDesbloquear, MuevePedirFin,
       MueveFin
    DEF Next, HiloConsola, HiloCreacion, HiloCorto, HiloDespacho, HiloEliminacion, HiloIo

LEMMA PasoUnaSolaCola ==
  ASSUME UnaRespuesta, Tipos, Ociosos, UnaSolaCola, [Next]_vars
  PROVE  UnaSolaCola'
  <1>1. \A p \in Pids : EnUno(p)
    BY UnaSolaColaEsEnUno
  <1>2. SeMueve /\ GruposNat /\ GruposNat' /\ Tipos'
    BY Movimiento, Base
  <1>3. ASSUME NEW p \in Pids PROVE EnUno(p)'
    <2>1. /\ EnNew(p) \in Nat /\ EnReady(p) \in Nat /\ EnExec(p) \in Nat
          /\ EnBlocked(p) \in 0 .. 1 /\ EnExit(p) \in Nat /\ EnFin(p) \in 0 .. 1
          /\ EnNew(p)' \in Nat /\ EnReady(p)' \in Nat /\ EnExec(p)' \in Nat
          /\ EnBlocked(p)' \in 0 .. 1 /\ EnExit(p)' \in Nat /\ EnFin(p)' \in 0 .. 1
      BY <1>2 DEF GruposNat
    <2>2. EnNew(p) + EnReady(p) + EnExec(p) + EnBlocked(p) + EnExit(p) + EnFin(p)
            = Bit(p \in creados)
      BY <1>1 DEF EnUno
    <2>3. CASE Quieto(p)
      BY <2>1, <2>2, <2>3 DEF Quieto, Grupos, EnUno, Bit
    <2>4. CASE Nace(p)
      BY <2>1, <2>2, <2>4 DEF Nace, EnUno, Bit
    <2>5. CASE Admite(p) \/ Despacha(p) \/ Desbloquea(p) \/ Elimina(p)
      <3>1. Bit(p \in creados') = Bit(p \in creados)
        BY <2>5 DEF Admite, Despacha, Desbloquea, Elimina, Igual, Bit
      <3> QED
        BY <2>1, <2>2, <2>5, <3>1 DEF Admite, Despacha, Desbloquea, Elimina, EnUno
    <2>6. CASE Desaloja(p)
      <3>1. Bit(p \in creados') = Bit(p \in creados)
        BY <2>6 DEF Desaloja, Igual, Bit
      <3> QED
        BY <2>1, <2>2, <2>6, <3>1 DEF Desaloja, EnUno
    <2> QED
      BY <1>2, <2>3, <2>4, <2>5, <2>6 DEF SeMueve, Arista
  <1>4. Tipos' => (UnaSolaCola' <=> (\A p \in Pids : EnUno(p))')
    BY UnaSolaColaEsEnUno, PTL
  <1> QED
    BY <1>2, <1>3, <1>4

LEMMA SiempreUnaSolaCola ==
  ASSUME UnaRespuesta
  PROVE  Spec => []UnaSolaCola
  <1>1. Init => UnaSolaCola
    <2> SUFFICES ASSUME Init, NEW p \in Pids PROVE EnUno(p)
      BY InicioTipos, UnaSolaColaEsEnUno
    <2>1. /\ colaNew = <<>> /\ colaReady = <<>> /\ colaReadyPlus = <<>> /\ colaExit = <<>>
          /\ aCpu = <<>> /\ perdidos = <<>> /\ desalojos = <<>>
          /\ creacion.pid = NULO /\ despacho.pid = NULO /\ eliminacion.pid = NULO
          /\ bloqueados = {} /\ terminados = {} /\ creados = {}
      BY DEF Init, En
    <2>2. Veces(<<>>, p) = 0
      <3>1. Veces(<<>>, p) = Cuantos(<<>>, {p})
        BY DEF Veces, Cuantos, Posiciones
      <3> QED
        BY <3>1, CuantosVacia
    <2>3. VecesDesalojo(<<>>, p) = 0
      <3>1. VecesDesalojo(<<>>, p) = Cuantos(<<>>, DeProceso(p))
        BY Vacia, CuentaDesalojos
      <3> QED
        BY <3>1, CuantosVacia
    <2>4. p # NULO
      BY NuloAssumption
    <2> QED
      BY <2>1, <2>2, <2>3, <2>4
      DEF EnUno, EnNew, EnReady, EnExec, EnBlocked, EnExit, EnFin, Bit
  <1>2. Tipos /\ Ociosos /\ UnaSolaCola /\ [Next]_vars => UnaSolaCola'
    BY PasoUnaSolaCola, UnaRespuesta
  <1> QED
    BY <1>1, <1>2, SiempreTipos, SiempreOciosos, PTL DEF Spec

(* A process that entered the system is in exactly one queue, thread or    *)
(* message, for any interleaving of the threads, and in none of them once  *)
(* its PCB is destroyed.  A CPU that answers twice for one PCB would put   *)
(* it in two.                                                              *)
THEOREM ProcesoEnUnSoloLugar ==
  ASSUME UnaRespuesta
  PROVE  Spec => []UnaSolaCola
  BY SiempreUnaSolaCola, UnaRespuesta

-----------------------------------------------------------------------------
(* The degree of multiprogramming.                                         *)

LugarCpu == Len(aCpu) + Len(desalojos) + Bit(ConDesalojo) + Len(perdidos)
LugarExit == Len(colaExit) + Bit(eliminacion.en \in {"memoria", "muerto"})
LugarNew == Bit(creacion.en = "agregar")

\* blocked processes, counted.
Finitos == IsFiniteSet(bloqueados)

LEMMA LugaresNat ==
  ASSUME Tipos, Finitos
  PROVE  /\ LugarCpu \in Nat /\ LugarExit \in Nat /\ LugarNew \in 0 .. 1 /\ Listos \in Nat
         /\ Cardinality(bloqueados) \in Nat /\ sem["grado_multi"] \in Nat
         /\ Len(aCpu) \in Nat /\ Len(desalojos) \in Nat /\ Len(perdidos) \in Nat
         /\ Len(colaExit) \in Nat /\ Len(colaReady) \in Nat /\ Len(colaReadyPlus) \in Nat
         /\ GradoExacto <=>
              sem["grado_multi"] + LugarNew + Listos + LugarCpu + Cardinality(bloqueados)
                + LugarExit = GRADO_MULTIPROGRAMACION
  <1>1. /\ Len(aCpu) \in Nat /\ Len(desalojos) \in Nat /\ Len(perdidos) \in Nat
        /\ Len(colaExit) \in Nat /\ Len(colaReady) \in Nat /\ Len(colaReadyPlus) \in Nat
    BY Colas DEF Tipos, TypeOK, TiposColas, TiposCpu
  <1>2. Cardinality(bloqueados) \in Nat
    BY FS_CardinalityType DEF Finitos
  <1>3. sem["grado_multi"] \in Nat
    BY DEF Tipos, TypeOK, Semaforos
  <1>4. /\ Bit(ConDesalojo) \in 0 .. 1 /\ Bit(eliminacion.en \in {"memoria", "muerto"}) \in 0 .. 1
        /\ Bit(creacion.en = "agregar") \in 0 .. 1
    BY DEF Bit
  <1>5. /\ LugarCpu \in Nat /\ LugarExit \in Nat /\ LugarNew \in 0 .. 1 /\ Listos \in Nat
    BY <1>1, <1>4 DEF LugarCpu, LugarExit, LugarNew, Listos
  <1>6. GradoExacto <=>
              sem["grado_multi"] + LugarNew + Listos + LugarCpu + Cardinality(bloqueados)
                + LugarExit = GRADO_MULTIPROGRAMACION
    <2>1. PICK a \in Nat, b \in Nat, c \in Nat, d \in Nat, e \in Nat :
             /\ a = Len(aCpu) /\ b = Len(desalojos) /\ c = Bit(ConDesalojo)
             /\ d = Len(perdidos) /\ e = Cardinality(bloqueados)
      BY <1>1, <1>2, <1>4
    <2>2. PICK f \in Nat, g \in Nat, h \in Nat, n \in Nat, l \in Nat :
             /\ f = Len(colaExit) /\ g = Bit(eliminacion.en \in {"memoria", "muerto"})
             /\ h = Bit(creacion.en = "agregar") /\ n = sem["grado_multi"] /\ l = Listos
      BY <1>1, <1>3, <1>4, <1>5
    <2>3. GradoExacto <=> n + h + l + a + b + c + d + e + f + g = GRADO_MULTIPROGRAMACION
      BY <2>1, <2>2 DEF GradoExacto
    <2>4. LugarCpu = a + b + c + d /\ LugarExit = f + g /\ LugarNew = h
      BY <2>1, <2>2 DEF LugarCpu, LugarExit, LugarNew
    <2>5. n + h + l + a + b + c + d + e + f + g = n + h + l + (a + b + c + d) + e + (f + g)
      OBVIOUS
    <2>6. sem["grado_multi"] + LugarNew + Listos + LugarCpu + Cardinality(bloqueados) + LugarExit
            = n + h + l + (a + b + c + d) + e + (f + g)
      BY <2>1, <2>2, <2>4
    <2> QED
      BY <2>3, <2>5, <2>6
  <1> QED
    BY <1>1, <1>2, <1>3, <1>5, <1>6

TotalGrado ==
  sem["grado_multi"] + LugarNew + Listos + LugarCpu + Cardinality(bloqueados) + LugarExit

LEMMA GradoEsTotal ==
  Tipos /\ Finitos => (GradoExacto <=> TotalGrado = GRADO_MULTIPROGRAMACION)
  BY LugaresNat DEF TotalGrado

(* Which actions touch the slots.                                          *)
LEMMA MarcoGrado ==
  ASSUME Tipos, [Next]_vars
  PROVE  \/ sem'["grado_multi"] = sem["grado_multi"]
         \/ TomarGrado \/ RespuestaFin
  <1>1. \A s \in Semaforos \ {"grado_multi"} :
          Post(s) \/ Wait(s) => sem'["grado_multi"] = sem["grado_multi"]
    BY SemTipo DEF Tipos, TypeOK, Semaforos
  <1>2. {"hay_proceso_nuevo", "hay_proceso_a_ready", "cpu_libre", "hay_proceso_exit",
         "podes_crear_procesos", "podes_planificar_corto_plazo", "podes_manejar_desalojo",
         "podes_eliminar_procesos", "podes_manejar_recepcion_de_interfaces"}
           \subseteq Semaforos \ {"grado_multi"}
    BY DEF Semaforos
  <1>3. IniciarPlanificacion => sem'["grado_multi"] = sem["grado_multi"]
    BY DEF IniciarPlanificacion, Semaforos, Compuertas
  <1> QED
    BY <1>1, <1>2, <1>3
    DEF vars, Next, HiloConsola, HiloCreacion,
       HiloCorto, HiloDespacho, HiloEliminacion, HiloIo, Cpu, IniciarProceso,
       RespuestaCreacion, Registrar, DetenerPlanificacion,
       EsperarNuevo, CompuertaCreacion, TomarGrado, AgregarAReady, EsperarReady, EsperarCpu,
       CompuertaCorto, Despachar, Salir, FinDeQuantum, SinMemoria, Descartar, CpuSinTocar,
       RecibirDesalojo, CompuertaDespacho, ManejarFin, ManejarFinDeQuantum, ManejarIo,
       LiberarCpu, TomarPedido, RecibirResultado, CompuertaIo, Desbloquear, OtrasIo,
       EsperarExit, CompuertaEliminacion, PedirFin, RespuestaFin

(* The CPU keeps the number of PCBs that went to it and are not handled.   *)
LEMMA CpuCuenta ==
  ASSUME UnaRespuesta, Tipos, Cpu
  PROVE  LugarCpu' = LugarCpu
  <1>1. /\ aCpu \in Seq(Pids) /\ perdidos \in Seq(Pids) /\ desalojos \in Seq(Desalojos)
        /\ Len(aCpu) \in Nat /\ Len(perdidos) \in Nat /\ Len(desalojos) \in Nat
    BY Colas DEF Tipos, TypeOK, TiposCpu
  <1>2. aCpu # <<>> /\ aCpu' = Tail(aCpu) /\ UNCHANGED despacho
    BY DEF Cpu, Salir, FinDeQuantum, SinMemoria, Descartar, CpuSinTocar
  <1>3. Len(aCpu') = Len(aCpu) - 1 /\ Head(aCpu) \in Pids
    BY <1>1, <1>2, Colas
  <1>4. \/ Len(perdidos') = Len(perdidos) + 1 /\ UNCHANGED desalojos
        \/ Len(desalojos') = Len(desalojos) + 1 /\ UNCHANGED perdidos
    <2>1. ASSUME NEW x \in MotivosDesalojo, NEW i \in Interfaces \cup {NULO}
          PROVE  Len(Append(desalojos, Desalojo(Head(aCpu), x, i))) = Len(desalojos) + 1
      <3>1. Desalojo(Head(aCpu), x, i) \in Desalojos
        BY <1>3 DEF Desalojo, Desalojos
      <3> QED
        BY <1>1, <3>1, Colas
    <2>2. /\ {"OPERACION_IO", "END_PROCESS", "OUT_OF_MEMORY", "FIN_CLOCK"} \subseteq MotivosDesalojo
          /\ NULO \in Interfaces \cup {NULO}
      BY DEF MotivosDesalojo
    <2>3. CASE Salir
      BY <2>1, <2>2, <2>3 DEF Salir
    <2>4. CASE FinDeQuantum
      BY <2>1, <2>2, <2>4 DEF FinDeQuantum
    <2>5. CASE SinMemoria
      BY <2>1, <2>2, <2>5 DEF SinMemoria, UnaRespuesta
    <2>6. CASE Descartar
      BY <1>1, <1>3, <2>6, Colas DEF Descartar
    <2> QED
      BY <2>3, <2>4, <2>5, <2>6 DEF Cpu
  <1>5. PICK b \in Nat : b = Bit(ConDesalojo) /\ b = Bit(ConDesalojo)'
    BY <1>2 DEF ConDesalojo, Bit
  <1>6. LugarCpu = Len(aCpu) + Len(desalojos) + b + Len(perdidos)
    BY <1>5 DEF LugarCpu
  <1>7. LugarCpu' = Len(aCpu') + Len(desalojos') + b + Len(perdidos')
    BY <1>5 DEF LugarCpu
  <1>8. PICK x \in Nat, y \in Nat, z \in Nat :
          x = Len(aCpu) /\ y = Len(desalojos) /\ z = Len(perdidos)
    BY <1>1
  <1>9. LugarCpu = x + y + b + z /\ Len(aCpu') = x - 1
    BY <1>3, <1>6, <1>8
  <1>10. \/ Len(perdidos') = z + 1 /\ Len(desalojos') = y
         \/ Len(desalojos') = y + 1 /\ Len(perdidos') = z
    BY <1>4, <1>8
  <1>11. LugarCpu' = x + y + b + z
    BY <1>7, <1>9, <1>10
  <1> QED
    BY <1>9, <1>11

LEMMA LibreDeBloqueo ==
  ASSUME Tipos, UnaSolaCola, NEW m \in Pids, despacho.pid = m
  PROVE  m \notin bloqueados
  <1>1. EnUno(m)
    BY UnaSolaColaEsEnUno
  <1>2. EnExec(m) > 0
    <2>1. Bit(despacho.pid = m) = 1
      BY DEF Bit
    <2> QED
      BY <2>1, SumandosNat DEF EnExec
  <1>3. /\ EnNew(m) \in Nat /\ EnReady(m) \in Nat /\ EnExec(m) \in Nat
        /\ EnBlocked(m) \in 0 .. 1 /\ EnExit(m) \in Nat /\ EnFin(m) \in 0 .. 1
        /\ Bit(m \in creados) \in 0 .. 1
    BY SumandosNat DEF Bit
  <1>4. EnBlocked(m) = 0
    BY <1>1, <1>2, <1>3 DEF EnUno
  <1> QED
    BY <1>4 DEF EnBlocked, Bit

LEMMA PasoGrado ==
  ASSUME UnaRespuesta, Tipos, Ociosos, UnaSolaCola, Finitos, [Next]_vars
  PROVE  TotalGrado' = TotalGrado /\ Finitos'
  <1>0. /\ LugarCpu \in Nat /\ LugarExit \in Nat /\ LugarNew \in 0 .. 1 /\ Listos \in Nat
        /\ Cardinality(bloqueados) \in Nat /\ sem["grado_multi"] \in Nat
        /\ Len(aCpu) \in Nat /\ Len(desalojos) \in Nat /\ Len(perdidos) \in Nat
        /\ Len(colaExit) \in Nat /\ Len(colaReady) \in Nat /\ Len(colaReadyPlus) \in Nat
    BY LugaresNat
  <1>1. /\ sem \in [Semaforos -> Nat] /\ "grado_multi" \in Semaforos
        /\ colaReady \in Seq(Pids) /\ colaReadyPlus \in Seq(Pids) /\ colaExit \in Seq(Pids)
        /\ aCpu \in Seq(Pids) /\ desalojos \in Seq(Desalojos)
    BY DEF Tipos, TypeOK, TiposColas, TiposCpu, Semaforos
  <1>2. /\ creacion \in [en : {"esperar", "compuerta", "grado", "agregar"}, pid : Pids \cup {NULO}]
        /\ despacho \in [en : {"esperar", "compuerta", "manejar", "liberar"},
                        pid : Pids \cup {NULO},
                        motivo : MotivosDesalojo \cup {"ninguno"},
                        interfaz : Interfaces \cup {NULO}]
        /\ eliminacion \in [en : {"esperar", "compuerta", "sacar", "memoria", "muerto"},
                           pid : Pids \cup {NULO}, listado : SUBSET Pids]
    BY DEF Tipos, TypeOK, TiposHilos, TiposCpu
  <1> DEFINE libres == sem["grado_multi"]
             trabados == Cardinality(bloqueados)
  <1> USE DEF Finitos
  <1>3. ASSUME UNCHANGED <<libres, LugarNew, Listos, LugarCpu, bloqueados, LugarExit>>
        PROVE  TotalGrado' = TotalGrado /\ Finitos'
    BY <1>3 DEF TotalGrado
  <1>b. PICK a \in Nat, b \in 0 .. 1, c \in Nat, d \in Nat, e \in Nat, f \in Nat :
          /\ a = libres /\ b = LugarNew /\ c = Listos /\ d = LugarCpu /\ e = trabados
          /\ f = LugarExit
    BY <1>0
  <1>d. PICK x \in Nat, y \in Nat : x = Len(colaReady) /\ y = Len(colaReadyPlus)
    BY <1>0
  <1>e. Listos = x + y /\ Listos' = Len(colaReady') + Len(colaReadyPlus')
    BY <1>d DEF Listos
  <1>c. TotalGrado = a + b + c + d + e + f
    BY <1>b DEF TotalGrado
  <1>4. CASE TomarGrado
    <2>1. libres = libres' + 1
      BY <1>1, <1>4, SemTipo DEF TomarGrado
    <2>2. LugarNew = 0 /\ LugarNew' = 1
      BY <1>4 DEF TomarGrado, LugarNew, En, Bit
    <2>3. UNCHANGED <<Listos, LugarCpu, bloqueados, LugarExit>>
      BY <1>4 DEF TomarGrado, Listos, LugarCpu, LugarExit, varsCpu, ConDesalojo
    <2>4. libres' \in Nat
      BY <1>1, <1>4, SemTipo DEF TomarGrado
    <2> QED
      BY <1>0, <2>1, <2>2, <2>3, <2>4 DEF TotalGrado
  <1>5. CASE AgregarAReady
    <2>1. LugarNew = 1 /\ LugarNew' = 0
      BY <1>5 DEF AgregarAReady, LugarNew, En, Bit
    <2>2. Listos' = Listos + 1
      <3>1. Len(colaReady') = Len(colaReady) + 1 /\ UNCHANGED colaReadyPlus
        BY <1>1, <1>5, Colas DEF AgregarAReady, Tipos, ManoHilos
      <3> QED
        BY <1>d, <1>e, <3>1
    <2>3. UNCHANGED <<LugarCpu, bloqueados, LugarExit>>
      BY <1>5 DEF AgregarAReady, LugarCpu, LugarExit, varsCpu, ConDesalojo
    <2>4. libres' = libres
      BY <1>1, <1>5 DEF AgregarAReady, Post
    <2>5. /\ libres' = a /\ LugarNew' = 0 /\ Listos' = c + 1 /\ LugarCpu' = d
          /\ trabados' = e /\ LugarExit' = f /\ b = 1
      BY <1>b, <2>1, <2>2, <2>3, <2>4
    <2>6. TotalGrado' = a + 0 + (c + 1) + d + e + f
      BY <2>5 DEF TotalGrado
    <2>7. a + 0 + (c + 1) + d + e + f = a + 1 + c + d + e + f
      OBVIOUS
    <2> QED
      BY <1>c, <2>3, <2>5, <2>6, <2>7
  <1>6. CASE Despachar
    <2>1. PICK m \in Pids :
            /\ aCpu' = Append(aCpu, m)
            /\ \/ colaReadyPlus # <<>> /\ colaReadyPlus' = Tail(colaReadyPlus) /\ UNCHANGED colaReady
               \/ colaReady # <<>> /\ colaReady' = Tail(colaReady) /\ UNCHANGED colaReadyPlus
      BY <1>1, <1>6, Colas DEF Despachar
    <2>2. Listos' = Listos - 1
      <3>1. \/ Len(colaReadyPlus') = Len(colaReadyPlus) - 1 /\ UNCHANGED colaReady
            \/ Len(colaReady') = Len(colaReady) - 1 /\ UNCHANGED colaReadyPlus
        BY <1>1, <2>1, Colas
      <3> QED
        BY <1>d, <1>e, <3>1
    <2>3. LugarCpu' = LugarCpu + 1
      <3>1. Len(aCpu') = Len(aCpu) + 1 /\ UNCHANGED <<desalojos, perdidos, despacho>>
        BY <1>1, <1>6, <2>1, Colas DEF Despachar
      <3>2. PICK k \in Nat : k = Bit(ConDesalojo) /\ k = Bit(ConDesalojo)'
        BY <3>1 DEF ConDesalojo, Bit
      <3>3. /\ LugarCpu = Len(aCpu) + Len(desalojos) + k + Len(perdidos)
             /\ LugarCpu' = Len(aCpu') + Len(desalojos') + k + Len(perdidos')
        BY <3>2 DEF LugarCpu
      <3> QED
        BY <1>0, <3>1, <3>3
    <2>4. UNCHANGED <<libres, LugarNew, bloqueados, LugarExit>>
      BY <1>6 DEF Despachar, LugarNew, LugarExit
    <2>6. /\ libres' = a /\ LugarNew' = b /\ Listos' = c - 1
          /\ LugarCpu' = d + 1 /\ trabados' = e /\ LugarExit' = f
      BY <1>b, <2>2, <2>3, <2>4
    <2>7. TotalGrado' = a + b + (c - 1) + (d + 1) + e + f
      BY <2>6 DEF TotalGrado
    <2>8. a + b + (c - 1) + (d + 1) + e + f = a + b + c + d + e + f
      OBVIOUS
    <2> QED
      BY <1>c, <2>4, <2>7, <2>8
  <1>7. CASE Cpu
    <2>1. UNCHANGED <<libres, LugarNew, Listos, bloqueados, LugarExit>>
      BY <1>7 DEF Cpu, Salir, FinDeQuantum, SinMemoria, Descartar, CpuSinTocar, LugarNew, Listos,
                  LugarExit, varsColas
    <2> QED
      BY <1>3, <1>7, <2>1, CpuCuenta
  <1>8. CASE RecibirDesalojo
    <2>1. Len(desalojos') = Len(desalojos) - 1 /\ UNCHANGED <<aCpu, perdidos>>
      BY <1>1, <1>8, Colas DEF RecibirDesalojo
    <2>2. Bit(ConDesalojo) = 0 /\ Bit(ConDesalojo)' = 1
      BY <1>8 DEF RecibirDesalojo, TrasEspera, ConDesalojo, Bit
    <2>3. /\ LugarCpu = Len(aCpu) + Len(desalojos) + 0 + Len(perdidos)
           /\ LugarCpu' = Len(aCpu') + Len(desalojos') + 1 + Len(perdidos')
      BY <2>2 DEF LugarCpu
    <2>4. LugarCpu' = LugarCpu
      BY <1>0, <2>1, <2>3
    <2> QED
      BY <1>3, <1>8, <2>4 DEF RecibirDesalojo, LugarNew, Listos, LugarExit, varsColas
  <1>9. CASE CompuertaDespacho \/ LiberarCpu
    <2>1. UNCHANGED <<aCpu, desalojos, perdidos, varsColas, creacion, eliminacion, ConDesalojo>>
      BY <1>2, <1>9 DEF CompuertaDespacho, LiberarCpu, varsCpu, ConDesalojo
    <2>2. libres' = libres
      BY <1>1, <1>9 DEF CompuertaDespacho, LiberarCpu, Wait, Post
    <2>3. UNCHANGED <<LugarNew, Listos, LugarCpu, LugarExit>>
      BY <2>1 DEF LugarNew, Listos, LugarCpu, LugarExit, varsColas, Bit
    <2> QED
      BY <1>3, <2>1, <2>2, <2>3 DEF varsColas
  <1>10. CASE ManejarFin \/ ManejarFinDeQuantum \/ ManejarIo
    <2>1. PICK m \in Pids : m = despacho.pid
      BY <1>10 DEF ManejarFin, ManejarFinDeQuantum, ManejarIo, Tipos, ManoDespacho, ConDesalojo
    <2>2. LugarCpu' = LugarCpu - 1
      <3>1. Bit(ConDesalojo) = 1 /\ Bit(ConDesalojo)' = 0 /\ UNCHANGED <<aCpu, desalojos, perdidos>>
        BY <1>10
        DEF ManejarFin, ManejarFinDeQuantum, ManejarIo, DejarCpu, varsCpu, ConDesalojo, Bit
      <3>2. /\ LugarCpu = Len(aCpu) + Len(desalojos) + 1 + Len(perdidos)
             /\ LugarCpu' = Len(aCpu) + Len(desalojos) + 0 + Len(perdidos)
        BY <3>1 DEF LugarCpu
      <3> QED
        BY <1>0, <3>2
    <2>3. LugarNew' = LugarNew /\ libres' = libres
      BY <1>1, <1>10 DEF ManejarFin, ManejarFinDeQuantum, ManejarIo, LugarNew, Post
    <2>4. CASE ManejarFin
      <3>1. LugarExit' = LugarExit + 1
        <4>1. Len(colaExit') = Len(colaExit) + 1 /\ UNCHANGED eliminacion
          BY <1>1, <2>1, <2>4, Colas DEF ManejarFin
        <4>2. PICK k \in Nat : k = Bit(eliminacion.en \in {"memoria", "muerto"})
          BY DEF Bit
        <4>3. LugarExit = Len(colaExit) + k /\ LugarExit' = Len(colaExit') + k
          BY <4>1, <4>2 DEF LugarExit
        <4> QED
          BY <1>0, <4>1, <4>3
      <3>2. UNCHANGED <<Listos, bloqueados>>
        BY <2>4 DEF ManejarFin, Listos
      <3>3. /\ libres' = a /\ LugarNew' = b /\ Listos' = c
            /\ LugarCpu' = d - 1 /\ trabados' = e /\ LugarExit' = f + 1
        BY <1>b, <2>2, <2>3, <3>1, <3>2
      <3>4. TotalGrado' = a + b + c + (d - 1) + e + (f + 1)
        BY <3>3 DEF TotalGrado
      <3>5. a + b + c + (d - 1) + e + (f + 1) = a + b + c + d + e + f
        OBVIOUS
      <3> QED
        BY <1>c, <3>2, <3>4, <3>5
    <2>5. CASE ManejarFinDeQuantum
      <3>1. Listos' = Listos + 1
        <4>1. Len(colaReady') = Len(colaReady) + 1 /\ UNCHANGED colaReadyPlus
          BY <1>1, <2>1, <2>5, Colas DEF ManejarFinDeQuantum
        <4> QED
          BY <1>0, <4>1 DEF Listos
      <3>2. UNCHANGED <<LugarExit, bloqueados>>
        BY <2>5 DEF ManejarFinDeQuantum, LugarExit
      <3>3. /\ libres' = a /\ LugarNew' = b /\ Listos' = c + 1
            /\ LugarCpu' = d - 1 /\ trabados' = e /\ LugarExit' = f
        BY <1>b, <2>2, <2>3, <3>1, <3>2
      <3>4. TotalGrado' = a + b + (c + 1) + (d - 1) + e + f
        BY <3>3 DEF TotalGrado
      <3>5. a + b + (c + 1) + (d - 1) + e + f = a + b + c + d + e + f
        OBVIOUS
      <3> QED
        BY <1>c, <3>2, <3>4, <3>5
    <2>6. CASE ManejarIo
      <3>1. m \notin bloqueados
        BY <2>1, LibreDeBloqueo
      <3>2. bloqueados' = bloqueados \cup {m}
        BY <2>1, <2>6 DEF ManejarIo
      <3>3. Cardinality(bloqueados') = Cardinality(bloqueados) + 1 /\ Finitos'
        BY <3>1, <3>2, FS_AddElement
      <3>4. UNCHANGED <<Listos, LugarExit>>
        BY <2>6 DEF ManejarIo, Listos, LugarExit
      <3>5. /\ libres' = a /\ LugarNew' = b /\ Listos' = c
            /\ LugarCpu' = d - 1 /\ trabados' = e + 1 /\ LugarExit' = f
        BY <1>b, <2>2, <2>3, <3>3, <3>4
      <3>6. TotalGrado' = a + b + c + (d - 1) + (e + 1) + f
        BY <3>5 DEF TotalGrado
      <3>7. a + b + c + (d - 1) + (e + 1) + f = a + b + c + d + e + f
        OBVIOUS
      <3> QED
        BY <1>c, <3>6, <3>7, <3>3
    <2> QED
      BY <1>10, <2>4, <2>5, <2>6
  <1>11. ASSUME NEW i \in Interfaces, Desbloquear(i) PROVE TotalGrado' = TotalGrado /\ Finitos'
    <2>1. PICK m \in Pids : m = io[i].pid
      BY <1>11 DEF Desbloquear, Tipos, ManoIo
    <2>2. m \in bloqueados /\ bloqueados' = bloqueados \ {m}
      BY <1>11, <2>1 DEF Desbloquear
    <2>3. Cardinality(bloqueados') = Cardinality(bloqueados) - 1 /\ Finitos'
      BY <2>2, FS_RemoveElement
    <2>4. Listos' = Listos + 1
      <3>1. \/ Len(colaReady') = Len(colaReady) + 1 /\ UNCHANGED colaReadyPlus
            \/ Len(colaReadyPlus') = Len(colaReadyPlus) + 1 /\ UNCHANGED colaReady
        BY <1>1, <1>11, <2>1, Colas DEF Desbloquear
      <3> QED
        BY <1>d, <1>e, <3>1
    <2>5. UNCHANGED <<LugarNew, LugarCpu, LugarExit>>
      BY <1>11 DEF Desbloquear, OtrasIo, LugarNew, LugarCpu, LugarExit, varsCpu, ConDesalojo
    <2>6. libres' = libres
      BY <1>1, <1>11 DEF Desbloquear, Post
    <2>7. /\ libres' = a /\ LugarNew' = b /\ Listos' = c + 1
          /\ LugarCpu' = d /\ trabados' = e - 1 /\ LugarExit' = f
      BY <1>b, <2>3, <2>4, <2>5, <2>6
    <2>8. TotalGrado' = a + b + (c + 1) + d + (e - 1) + f
      BY <2>7 DEF TotalGrado
    <2>9. a + b + (c + 1) + d + (e - 1) + f = a + b + c + d + e + f
      OBVIOUS
    <2> QED
      BY <1>c, <2>8, <2>9, <2>3
  <1>12. CASE PedirFin
    <2>1. LugarExit' = LugarExit
      <3>1. Len(colaExit') = Len(colaExit) - 1
        BY <1>1, <1>12, Colas DEF PedirFin
      <3>2. /\ Bit(eliminacion.en \in {"memoria", "muerto"}) = 0
            /\ Bit(eliminacion'.en \in {"memoria", "muerto"}) = 1
        BY <1>12 DEF PedirFin, Eliminando, Bit
      <3> QED
        BY <1>0, <3>1, <3>2 DEF LugarExit
    <2> QED
      BY <1>3, <1>12, <2>1 DEF PedirFin, LugarNew, Listos, LugarCpu, varsCpu, ConDesalojo
  <1>13. CASE RespuestaFin
    <2>1. UNCHANGED <<LugarNew, Listos, LugarCpu, bloqueados, colaExit>>
      BY <1>13 DEF RespuestaFin, LugarNew, Listos, LugarCpu, varsColas, varsCpu, ConDesalojo
    <2>2. Bit(eliminacion.en \in {"memoria", "muerto"}) = 1
      BY <1>13 DEF RespuestaFin, Bit
    <2>3. CASE Post("grado_multi") /\ eliminacion' = Eliminando("esperar", NULO, {})
      <3>1. libres' = libres + 1
        BY <1>1, <2>3, SemTipo
      <3>2. Bit(eliminacion'.en \in {"memoria", "muerto"}) = 0
        BY <2>3 DEF Eliminando, Bit
      <3>3. LugarExit' = LugarExit - 1
        BY <1>0, <2>1, <2>2, <3>2 DEF LugarExit
      <3>4. /\ libres' = a + 1 /\ LugarNew' = b /\ Listos' = c
            /\ LugarCpu' = d /\ trabados' = e /\ LugarExit' = f - 1
        BY <1>b, <2>1, <3>1, <3>3
      <3>5. TotalGrado' = (a + 1) + b + c + d + e + (f - 1)
        BY <3>4 DEF TotalGrado
      <3>6. (a + 1) + b + c + d + e + (f - 1) = a + b + c + d + e + f
        OBVIOUS
      <3> QED
        BY <1>c, <3>5, <3>6, <2>1
    <2>4. CASE UNCHANGED sem /\ eliminacion' = [eliminacion EXCEPT !.en = "muerto"]
      <3>1. Bit(eliminacion'.en \in {"memoria", "muerto"}) = 1
        BY <1>2, <2>4 DEF Bit
      <3>2. LugarExit' = LugarExit
        BY <2>1, <2>2, <3>1 DEF LugarExit
      <3> QED
        BY <1>3, <2>1, <2>4, <3>2
    <2> QED
      BY <1>13, <2>3, <2>4 DEF RespuestaFin
  <1>14. CASE EsperarExit \/ CompuertaEliminacion
    <2>1. /\ Bit(eliminacion.en \in {"memoria", "muerto"}) = 0
          /\ Bit(eliminacion'.en \in {"memoria", "muerto"}) = 0
      BY <1>14 DEF EsperarExit, CompuertaEliminacion, Eliminando, TrasEspera, Bit
    <2>2. UNCHANGED <<LugarNew, Listos, LugarCpu, bloqueados, colaExit>>
      BY <1>14 DEF EsperarExit, CompuertaEliminacion, LugarNew, Listos, LugarCpu, varsColas,
                   varsCpu, ConDesalojo
    <2>3. libres' = libres
      BY <1>1, <1>14 DEF EsperarExit, CompuertaEliminacion, Wait
    <2>4. LugarExit' = LugarExit
      BY <2>1, <2>2 DEF LugarExit
    <2> QED
      BY <1>3, <2>2, <2>3, <2>4
  <1>15. CASE EsperarNuevo \/ CompuertaCreacion
    <2>1. LugarNew = 0 /\ LugarNew' = 0
      BY <1>15 DEF EsperarNuevo, CompuertaCreacion, LugarNew, En, TrasEspera, Bit
    <2>2. UNCHANGED <<Listos, LugarCpu, bloqueados, LugarExit>>
      BY <1>15 DEF EsperarNuevo, CompuertaCreacion, Listos, LugarCpu, LugarExit, varsColas,
                   varsCpu, ConDesalojo
    <2>3. libres' = libres
      BY <1>1, <1>15 DEF EsperarNuevo, CompuertaCreacion, Wait
    <2> QED
      BY <1>3, <2>1, <2>2, <2>3
  <1>16. ASSUME UNCHANGED <<creacion, despacho, eliminacion, aCpu, desalojos, perdidos, colaReady,
                            colaReadyPlus, colaExit, bloqueados>>,
                ~TomarGrado, ~RespuestaFin
         PROVE  TotalGrado' = TotalGrado /\ Finitos'
    <2>1. libres' = libres
      BY <1>16, MarcoGrado
    <2> QED
      BY <1>3, <1>16, <2>1 DEF LugarNew, Listos, LugarCpu, LugarExit, ConDesalojo
  <1>17. CASE \/ \E p \in Pids : IniciarProceso(p)
              \/ RespuestaCreacion \/ Registrar \/ DetenerPlanificacion \/ IniciarPlanificacion
              \/ UNCHANGED vars \/ EsperarReady \/ EsperarCpu \/ CompuertaCorto
              \/ \E i \in Interfaces : TomarPedido(i) \/ RecibirResultado(i) \/ CompuertaIo(i)
    <2>1. UNCHANGED <<creacion, despacho, eliminacion, aCpu, desalojos, perdidos, colaReady,
                      colaReadyPlus, colaExit, bloqueados>>
      BY <1>17
      DEF IniciarProceso, RespuestaCreacion, Registrar, DetenerPlanificacion,
          IniciarPlanificacion, vars, EsperarReady, EsperarCpu, CompuertaCorto, TomarPedido,
          RecibirResultado, CompuertaIo, OtrasIo, varsColas, varsCpu
    <2> QED
      BY <1>4, <1>13, <1>16, <2>1
  <1> QED
    BY <1>4, <1>5, <1>6, <1>7, <1>8, <1>9, <1>10, <1>11, <1>12, <1>13, <1>14, <1>15, <1>17
    DEF Next, HiloConsola, HiloCreacion, HiloCorto, HiloDespacho, HiloEliminacion, HiloIo

LEMMA SiempreGrado ==
  ASSUME UnaRespuesta
  PROVE  Spec => [](Finitos /\ GradoExacto)
  <1>1. Init => Finitos /\ GradoExacto
    <2> SUFFICES ASSUME Init PROVE Finitos /\ GradoExacto
      OBVIOUS
    <2>1. /\ sem["grado_multi"] = GRADO_MULTIPROGRAMACION /\ creacion.en = "esperar"
          /\ colaReady = <<>> /\ colaReadyPlus = <<>> /\ colaExit = <<>> /\ bloqueados = {}
          /\ aCpu = <<>> /\ desalojos = <<>> /\ perdidos = <<>>
          /\ ~ConDesalojo /\ eliminacion.en = "esperar"
      BY DEF Init, En, Semaforos, ConDesalojo
    <2>2. IsFiniteSet({}) /\ Cardinality({}) = 0 /\ Len(<<>>) = 0
      BY FS_EmptySet
    <2> QED
      BY <2>1, <2>2, GradoAssumption DEF GradoExacto, Finitos, Listos, Bit
  <1>2. Tipos /\ Ociosos /\ UnaSolaCola /\ Finitos /\ GradoExacto /\ [Next]_vars
          => Finitos' /\ (TotalGrado = GRADO_MULTIPROGRAMACION)'
    <2> SUFFICES ASSUME Tipos, Ociosos, UnaSolaCola, Finitos, GradoExacto, [Next]_vars
                 PROVE  Finitos' /\ TotalGrado' = GRADO_MULTIPROGRAMACION
      OBVIOUS
    <2> QED
      BY PasoGrado, GradoEsTotal, UnaRespuesta
  <1> QED
    BY <1>1, <1>2, GradoEsTotal, SiempreTipos, SiempreOciosos, SiempreUnaSolaCola, UnaRespuesta,
       PTL DEF Spec

(* The degree of multiprogramming is neither exceeded nor leaked: every    *)
(* slot is free or belongs to one process between READY and its end,       *)
(* whatever the threads interleave.                                        *)
THEOREM GradoSiempreExacto ==
  ASSUME UnaRespuesta
  PROVE  Spec => []GradoExacto
  <1>1. Spec => [](Finitos /\ GradoExacto)
    BY SiempreGrado, UnaRespuesta
  <1> QED
    BY <1>1, PTL

-----------------------------------------------------------------------------
(* The diagram of five states.                                             *)

\* The state each group stands for; a process in none does not exist.
LEMMA EstadoDeGrupo ==
  ASSUME Tipos, UnaSolaCola, NEW p \in Pids
  PROVE  /\ p \notin creados <=> Estado(p) = "NADA"
         /\ EnNew(p) > 0 <=> Estado(p) = "NEW"
         /\ EnReady(p) > 0 <=> Estado(p) = "READY"
         /\ EnExec(p) > 0 <=> Estado(p) = "EXEC"
         /\ EnBlocked(p) > 0 <=> Estado(p) = "BLOCKED"
         /\ EnExit(p) > 0 <=> Estado(p) = "EXIT"
         /\ EnFin(p) > 0 <=> Estado(p) = "FIN"
  <1>1. /\ EnNew(p) \in Nat /\ EnReady(p) \in Nat /\ EnExec(p) \in Nat
        /\ EnBlocked(p) \in 0 .. 1 /\ EnExit(p) \in Nat /\ EnFin(p) \in 0 .. 1
        /\ EnNew(p) + EnReady(p) + EnExec(p) + EnBlocked(p) + EnExit(p) + EnFin(p)
             = Bit(p \in creados)
    BY SumandosNat, UnaSolaColaEsEnUno DEF EnUno
  <1>2. EnNew(p) > 0 <=> p \in Elementos(colaNew) \cup {creacion.pid}
    <2>1. Veces(colaNew, p) \in Nat /\ (Veces(colaNew, p) > 0 <=> p \in Elementos(colaNew))
      BY Aparece DEF Tipos, TypeOK, TiposColas
    <2> QED
      BY <2>1 DEF EnNew, Bit
  <1>3. EnReady(p) > 0 <=> p \in Elementos(colaReady) \cup Elementos(colaReadyPlus)
    <2>1. /\ Veces(colaReady, p) \in Nat /\ Veces(colaReadyPlus, p) \in Nat
          /\ Veces(colaReady, p) > 0 <=> p \in Elementos(colaReady)
          /\ Veces(colaReadyPlus, p) > 0 <=> p \in Elementos(colaReadyPlus)
      BY Aparece DEF Tipos, TypeOK, TiposColas
    <2> QED
      BY <2>1 DEF EnReady
  <1>4. EnExit(p) > 0 <=> p \in Elementos(colaExit) \cup {eliminacion.pid}
    <2>1. Veces(colaExit, p) \in Nat /\ (Veces(colaExit, p) > 0 <=> p \in Elementos(colaExit))
      BY Aparece DEF Tipos, TypeOK, TiposColas
    <2> QED
      BY <2>1 DEF EnExit, Bit
  <1>5. (EnBlocked(p) > 0 <=> p \in bloqueados) /\ (EnFin(p) > 0 <=> p \in terminados)
    BY DEF EnBlocked, EnFin, Bit
  <1>6. CASE p \notin creados
    <2>1. /\ ~(EnNew(p) > 0) /\ ~(EnReady(p) > 0) /\ ~(EnExec(p) > 0)
          /\ ~(EnBlocked(p) > 0) /\ ~(EnExit(p) > 0) /\ ~(EnFin(p) > 0)
      BY <1>1, <1>6 DEF Bit
    <2>2. Estado(p) = "NADA"
      BY <1>2, <1>3, <1>4, <1>5, <1>6, <2>1 DEF Estado
    <2> QED
      BY <1>6, <2>1, <2>2
  <1>7. CASE p \in creados
    <2>1. EnNew(p) + EnReady(p) + EnExec(p) + EnBlocked(p) + EnExit(p) + EnFin(p) = 1
      BY <1>1, <1>7 DEF Bit
    <2>2. CASE EnNew(p) > 0
      <3>1. /\ ~(EnReady(p) > 0) /\ ~(EnExec(p) > 0) /\ ~(EnBlocked(p) > 0)
            /\ ~(EnExit(p) > 0) /\ ~(EnFin(p) > 0)
        BY <1>1, <2>1, <2>2
      <3>2. Estado(p) = "NEW"
        BY <1>2, <1>3, <1>4, <1>5, <1>7, <2>2, <3>1 DEF Estado
      <3> QED
        BY <1>7, <2>2, <3>1, <3>2
    <2>3. CASE EnReady(p) > 0
      <3>1. /\ ~(EnNew(p) > 0) /\ ~(EnExec(p) > 0) /\ ~(EnBlocked(p) > 0)
            /\ ~(EnExit(p) > 0) /\ ~(EnFin(p) > 0)
        BY <1>1, <2>1, <2>3
      <3>2. Estado(p) = "READY"
        BY <1>2, <1>3, <1>4, <1>5, <1>7, <2>3, <3>1 DEF Estado
      <3> QED
        BY <1>7, <2>3, <3>1, <3>2
    <2>4. CASE EnExec(p) > 0
      <3>1. /\ ~(EnNew(p) > 0) /\ ~(EnReady(p) > 0) /\ ~(EnBlocked(p) > 0)
            /\ ~(EnExit(p) > 0) /\ ~(EnFin(p) > 0)
        BY <1>1, <2>1, <2>4
      <3>2. Estado(p) = "EXEC"
        BY <1>2, <1>3, <1>4, <1>5, <1>7, <3>1 DEF Estado
      <3> QED
        BY <1>7, <2>4, <3>1, <3>2
    <2>5. CASE EnBlocked(p) > 0
      <3>1. /\ ~(EnNew(p) > 0) /\ ~(EnReady(p) > 0) /\ ~(EnExec(p) > 0)
            /\ ~(EnExit(p) > 0) /\ ~(EnFin(p) > 0)
        BY <1>1, <2>1, <2>5
      <3>2. Estado(p) = "BLOCKED"
        BY <1>2, <1>3, <1>4, <1>5, <1>7, <2>5, <3>1 DEF Estado
      <3> QED
        BY <1>7, <2>5, <3>1, <3>2
    <2>6. CASE EnExit(p) > 0
      <3>1. /\ ~(EnNew(p) > 0) /\ ~(EnReady(p) > 0) /\ ~(EnExec(p) > 0)
            /\ ~(EnBlocked(p) > 0) /\ ~(EnFin(p) > 0)
        BY <1>1, <2>1, <2>6
      <3>2. Estado(p) = "EXIT"
        BY <1>2, <1>3, <1>4, <1>5, <1>7, <2>6, <3>1 DEF Estado
      <3> QED
        BY <1>7, <2>6, <3>1, <3>2
    <2>7. CASE EnFin(p) > 0
      <3>1. /\ ~(EnNew(p) > 0) /\ ~(EnReady(p) > 0) /\ ~(EnExec(p) > 0)
            /\ ~(EnBlocked(p) > 0) /\ ~(EnExit(p) > 0)
        BY <1>1, <2>1, <2>7
      <3>2. Estado(p) = "FIN"
        BY <1>2, <1>3, <1>4, <1>5, <1>7, <2>7, <3>1 DEF Estado
      <3> QED
        BY <1>7, <2>7, <3>1, <3>2
    <2>8. \/ EnNew(p) > 0 \/ EnReady(p) > 0 \/ EnExec(p) > 0 \/ EnBlocked(p) > 0
          \/ EnExit(p) > 0 \/ EnFin(p) > 0
      BY <1>1, <2>1
    <2> QED
      BY <2>2, <2>3, <2>4, <2>5, <2>6, <2>7, <2>8
  <1> QED
    BY <1>6, <1>7

LEMMA ElementosAcotados ==
  ASSUME NEW s \in Seq(Pids)
  PROVE  IsFiniteSet(Elementos(s)) /\ Cardinality(Elementos(s)) <= Len(s)
  <1>1. Len(s) \in Nat /\ DOMAIN s = 1 .. Len(s) /\ s = [k \in 1 .. Len(s) |-> s[k]]
    OBVIOUS
  <1>2. Elementos(s) = {s[k] : k \in 1 .. Len(s)}
    BY <1>1 DEF Elementos
  <1> QED
    BY <1>1, <1>2, ImagenAcotada

LEMMA DesalojadosAcotados ==
  ASSUME NEW s \in Seq(Desalojos)
  PROVE  LET D == {s[k].pid : k \in DOMAIN s}
         IN  IsFiniteSet(D) /\ Cardinality(D) <= Len(s)
  <1> DEFINE f == [k \in 1 .. Len(s) |-> s[k].pid]
  <1>1. Len(s) \in Nat /\ DOMAIN s = 1 .. Len(s)
    OBVIOUS
  <1>2. DOMAIN f = 1 .. Len(s) /\ f = [k \in 1 .. Len(s) |-> f[k]]
    OBVIOUS
  <1>3. {s[k].pid : k \in DOMAIN s} = {f[k] : k \in 1 .. Len(s)}
    BY <1>1
  <1> HIDE DEF f
  <1> QED
    BY <1>1, <1>2, <1>3, ImagenAcotada

(* The processes that occupy the degree are no more than the slots taken.  *)
LEMMA AdmitidosAcotados ==
  ASSUME Tipos, UnaSolaCola, Ociosos, Finitos
  PROVE  /\ Cardinality(Ciclo!Admitidos) \in Nat
         /\ Cardinality(Ciclo!Admitidos) <= Listos + LugarCpu + Cardinality(bloqueados) + LugarExit
  <1>0. /\ Len(aCpu) \in Nat /\ Len(desalojos) \in Nat /\ Len(perdidos) \in Nat
        /\ Len(colaExit) \in Nat /\ Len(colaReady) \in Nat /\ Len(colaReadyPlus) \in Nat
        /\ Cardinality(bloqueados) \in Nat
    BY LugaresNat
  <1>1. /\ colaReady \in Seq(Pids) /\ colaReadyPlus \in Seq(Pids) /\ colaExit \in Seq(Pids)
        /\ aCpu \in Seq(Pids) /\ desalojos \in Seq(Desalojos) /\ perdidos \in Seq(Pids)
    BY DEF Tipos, TypeOK, TiposColas, TiposCpu
  <1> DEFINE R == Elementos(colaReady) \cup Elementos(colaReadyPlus)
             D == {desalojos[k].pid : k \in DOMAIN desalojos}
             M == IF ConDesalojo THEN {despacho.pid} ELSE {}
             C == ((Elementos(aCpu) \cup D) \cup M) \cup Elementos(perdidos)
             L == IF eliminacion.en \in {"memoria", "muerto"} THEN {eliminacion.pid} ELSE {}
             X == Elementos(colaExit) \cup L
             todos == ((R \cup C) \cup bloqueados) \cup X
  <1>2. IsFiniteSet(R) /\ Cardinality(R) <= Listos
    <2>1. /\ IsFiniteSet(Elementos(colaReady))
          /\ Cardinality(Elementos(colaReady)) <= Len(colaReady)
      BY <1>1, ElementosAcotados
    <2>2. /\ IsFiniteSet(Elementos(colaReadyPlus))
          /\ Cardinality(Elementos(colaReadyPlus)) <= Len(colaReadyPlus)
      BY <1>1, ElementosAcotados
    <2>3. /\ IsFiniteSet(R)
          /\ Cardinality(R) <= Len(colaReady) + Len(colaReadyPlus)
      BY <1>0, <2>1, <2>2, UnionAcotada
    <2> QED
      BY <2>3 DEF Listos
  <1>3. IsFiniteSet(M) /\ Cardinality(M) <= Bit(ConDesalojo) /\ Bit(ConDesalojo) \in Nat
    <2>1. ConDesalojo \in BOOLEAN
      BY DEF ConDesalojo
    <2> QED
      BY <2>1, UnoONinguno DEF Bit
  <1>4. IsFiniteSet(C) /\ Cardinality(C) <= LugarCpu
    <2>1. IsFiniteSet(D) /\ Cardinality(D) <= Len(desalojos)
      BY <1>1, DesalojadosAcotados
    <2>2. /\ IsFiniteSet(Elementos(aCpu)) /\ Cardinality(Elementos(aCpu)) <= Len(aCpu)
          /\ IsFiniteSet(Elementos(perdidos)) /\ Cardinality(Elementos(perdidos)) <= Len(perdidos)
      BY <1>1, ElementosAcotados
    <2> HIDE DEF D, M
    <2>3. /\ IsFiniteSet(Elementos(aCpu) \cup D)
          /\ Cardinality(Elementos(aCpu) \cup D) <= Len(aCpu) + Len(desalojos)
      BY <1>0, <2>1, <2>2, UnionAcotada
    <2>4. Len(aCpu) + Len(desalojos) \in Nat
      BY <1>0
    <2>5. /\ IsFiniteSet((Elementos(aCpu) \cup D) \cup M)
          /\ Cardinality((Elementos(aCpu) \cup D) \cup M)
               <= Len(aCpu) + Len(desalojos) + Bit(ConDesalojo)
      BY <1>3, <2>3, <2>4, UnionAcotada
    <2>6. Len(aCpu) + Len(desalojos) + Bit(ConDesalojo) \in Nat
      BY <1>3, <2>4
    <2>7. /\ IsFiniteSet(C)
          /\ Cardinality(C) <= (Len(aCpu) + Len(desalojos) + Bit(ConDesalojo)) + Len(perdidos)
      BY <1>0, <2>2, <2>5, <2>6, UnionAcotada
    <2> QED
      BY <2>7 DEF LugarCpu
  <1>5. IsFiniteSet(X) /\ Cardinality(X) <= LugarExit
    <2>1. /\ IsFiniteSet(L) /\ Cardinality(L) <= Bit(eliminacion.en \in {"memoria", "muerto"})
          /\ Bit(eliminacion.en \in {"memoria", "muerto"}) \in Nat
      <3>1. (eliminacion.en \in {"memoria", "muerto"}) \in BOOLEAN
        OBVIOUS
      <3> QED
        BY <3>1, UnoONinguno DEF Bit
    <2>2. IsFiniteSet(Elementos(colaExit)) /\ Cardinality(Elementos(colaExit)) <= Len(colaExit)
      BY <1>1, ElementosAcotados
    <2> HIDE DEF L
    <2>3. /\ IsFiniteSet(X)
          /\ Cardinality(X) <= Len(colaExit) + Bit(eliminacion.en \in {"memoria", "muerto"})
      BY <1>0, <2>1, <2>2, UnionAcotada
    <2> QED
      BY <2>3 DEF LugarExit
  <1>6. IsFiniteSet(todos)
        /\ Cardinality(todos) <= Listos + LugarCpu + Cardinality(bloqueados) + LugarExit
    <2> HIDE DEF R, C, X
    <2>1. Listos \in Nat /\ LugarCpu \in Nat /\ LugarExit \in Nat
      BY LugaresNat
    <2>2. IsFiniteSet(R \cup C) /\ Cardinality(R \cup C) <= Listos + LugarCpu
      BY <1>2, <1>4, <2>1, UnionAcotada
    <2>3. Listos + LugarCpu \in Nat /\ Listos + LugarCpu + Cardinality(bloqueados) \in Nat
      BY <1>0, <2>1
    <2>4. /\ IsFiniteSet((R \cup C) \cup bloqueados)
          /\ Cardinality((R \cup C) \cup bloqueados) <= Listos + LugarCpu + Cardinality(bloqueados)
      <3>1. IsFiniteSet(bloqueados) /\ Cardinality(bloqueados) <= Cardinality(bloqueados)
        BY <1>0 DEF Finitos
      <3> QED
        BY <1>0, <2>2, <2>3, <3>1, UnionAcotada
    <2> QED
      BY <1>5, <2>1, <2>3, <2>4, UnionAcotada
  <1>7. Ciclo!Admitidos \subseteq todos
    <2> SUFFICES ASSUME NEW p \in Pids, Estado(p) \in {"READY", "EXEC", "BLOCKED", "EXIT"}
                 PROVE  p \in todos
      BY DEF Ciclo!Admitidos, Estados
    <2>1. CASE EnReady(p) > 0
      <3>1. /\ Veces(colaReady, p) \in Nat /\ Veces(colaReadyPlus, p) \in Nat
            /\ Veces(colaReady, p) > 0 <=> p \in Elementos(colaReady)
            /\ Veces(colaReadyPlus, p) > 0 <=> p \in Elementos(colaReadyPlus)
        BY <1>1, Aparece
      <3> QED
        BY <2>1, <3>1 DEF EnReady
    <2>2. CASE EnExec(p) > 0
      <3>1. /\ Veces(aCpu, p) \in Nat /\ Veces(perdidos, p) \in Nat
            /\ VecesDesalojo(desalojos, p) \in Nat
            /\ Veces(aCpu, p) > 0 <=> p \in Elementos(aCpu)
            /\ Veces(perdidos, p) > 0 <=> p \in Elementos(perdidos)
            /\ VecesDesalojo(desalojos, p) > 0 <=> p \in D
        BY <1>1, Aparece, DesalojoAparece
      <3>2. Bit(despacho.pid = p) > 0 => p \in M
        BY NuloAssumption DEF Ociosos, Bit
      <3>3. Bit(despacho.pid = p) \in Nat
        BY DEF Bit
      <3> HIDE DEF D, M
      <3> QED
        BY <2>2, <3>1, <3>2, <3>3 DEF EnExec
    <2>3. CASE EnBlocked(p) > 0
      BY <2>3 DEF EnBlocked, Bit
    <2>4. CASE EnExit(p) > 0
      <3>1. /\ Veces(colaExit, p) \in Nat
            /\ Veces(colaExit, p) > 0 <=> p \in Elementos(colaExit)
        BY <1>1, Aparece
      <3>2. Bit(eliminacion.pid = p) > 0 => p \in L
        BY NuloAssumption DEF Ociosos, Bit
      <3>3. Bit(eliminacion.pid = p) \in Nat
        BY DEF Bit
      <3> HIDE DEF L
      <3> QED
        BY <2>4, <3>1, <3>2, <3>3 DEF EnExit
    <2> QED
      BY <2>1, <2>2, <2>3, <2>4, EstadoDeGrupo
  <1>8. Cardinality(Ciclo!Admitidos) <= Cardinality(todos)
        /\ IsFiniteSet(Ciclo!Admitidos)
    <2> DEFINE admitidos == Ciclo!Admitidos
    <2>1. admitidos \in SUBSET todos /\ IsFiniteSet(todos)
      BY <1>6, <1>7
    <2> HIDE DEF todos, admitidos
    <2>2. Cardinality(admitidos) <= Cardinality(todos) /\ IsFiniteSet(admitidos)
      BY <2>1, FS_Subset
    <2> QED
      BY <2>2 DEF admitidos
  <1>9. Cardinality(Ciclo!Admitidos) \in Nat /\ Cardinality(todos) \in Nat
    BY <1>6, <1>8, FS_CardinalityType
  <1> HIDE DEF todos
  <1>10. Listos + LugarCpu + Cardinality(bloqueados) + LugarExit \in Nat
    <2>1. /\ Listos \in Nat /\ LugarCpu \in Nat /\ LugarExit \in Nat
          /\ Cardinality(bloqueados) \in Nat
      BY LugaresNat
    <2> QED
      BY <2>1
  <1> DEFINE a == Cardinality(Ciclo!Admitidos)
             t == Cardinality(todos)
             n == Listos + LugarCpu + Cardinality(bloqueados) + LugarExit
  <1>11. /\ a \in Nat /\ t \in Nat /\ n \in Nat /\ a <= t /\ t <= n
         /\ IsFiniteSet(Ciclo!Admitidos)
    <2>1. a \in Nat /\ t \in Nat
      BY <1>9
    <2>2. n \in Nat
      BY <1>10
    <2>3. a <= t /\ IsFiniteSet(Ciclo!Admitidos)
      BY <1>8
    <2>4. t <= n
      BY <1>6
    <2> HIDE DEF a, t, n
    <2> QED
      BY <2>1, <2>2, <2>3, <2>4
  <1> HIDE DEF a, t, n
  <1>12. a <= n
    BY <1>11
  <1> QED
    BY <1>11, <1>12 DEF a, n

\* What the groups say of the state of each process.
EstadoFiel ==
  \A p \in Pids :
    /\ Estado(p) \in {"NADA", "NEW", "READY", "EXEC", "BLOCKED", "EXIT", "FIN"}
    /\ p \notin creados <=> Estado(p) = "NADA"
    /\ EnNew(p) > 0 <=> Estado(p) = "NEW"
    /\ EnReady(p) > 0 <=> Estado(p) = "READY"
    /\ EnExec(p) > 0 <=> Estado(p) = "EXEC"
    /\ EnBlocked(p) > 0 <=> Estado(p) = "BLOCKED"
    /\ EnExit(p) > 0 <=> Estado(p) = "EXIT"
    /\ EnFin(p) > 0 <=> Estado(p) = "FIN"

LEMMA EstadosFieles == Tipos /\ UnaSolaCola => EstadoFiel
  <1>1. \A p \in Pids :
          Estado(p) \in {"NADA", "NEW", "READY", "EXEC", "BLOCKED", "EXIT", "FIN"}
    BY DEF Estado
  <1> QED
    BY <1>1, EstadoDeGrupo DEF EstadoFiel

(* The instance counts with the same operator.                             *)
LEMMA MismaCuenta == \A S : Ciclo!Cardinality(S) = Cardinality(S)
  BY DEF Ciclo!Cardinality, Cardinality

(* There is a slot for the process that creacion_de_procesos holds.        *)
LEMMA HayLugar ==
  ASSUME Tipos, UnaSolaCola, Ociosos, Finitos, GradoExacto, creacion.en = "agregar"
  PROVE  Cardinality(Ciclo!Admitidos) < GRADO_MULTIPROGRAMACION
  <1>1. TotalGrado = GRADO_MULTIPROGRAMACION
    BY GradoEsTotal
  <1>2. LugarNew = 1
    BY DEF LugarNew, Bit
  <1>3. /\ Listos \in Nat /\ LugarCpu \in Nat /\ LugarExit \in Nat
        /\ Cardinality(bloqueados) \in Nat
    BY LugaresNat
  <1>4. sem["grado_multi"] \in Nat
    BY DEF Tipos, TypeOK, Semaforos
  <1>5. Cardinality(Ciclo!Admitidos) <= Listos + LugarCpu + Cardinality(bloqueados) + LugarExit
    BY AdmitidosAcotados
  <1>6. Cardinality(Ciclo!Admitidos) \in Nat
    BY AdmitidosAcotados
  <1> QED
    BY <1>1, <1>2, <1>3, <1>4, <1>5, <1>6 DEF TotalGrado

(* The CPU is empty when the short-term scheduler chooses.                 *)
LEMMA CpuVacia ==
  ASSUME Tipos, UnaSolaCola, Ociosos, TokenCpu, corto = "elegir", NEW q \in Pids
  PROVE  ~(EnExec(q) > 0)
  <1>1. /\ Len(aCpu) \in Nat /\ Len(desalojos) \in Nat /\ Len(perdidos) \in Nat
        /\ sem["cpu_libre"] \in Nat
    BY LugaresNat DEF Tipos, TypeOK, Semaforos, TiposCpu
  <1>2. Bit(corto \in {"compuerta", "elegir"}) = 1 /\ Bit(despacho.en # "esperar") \in 0 .. 1
    BY DEF Bit
  <1>3. Len(aCpu) = 0 /\ Len(desalojos) = 0 /\ Len(perdidos) = 0 /\ Bit(despacho.en # "esperar") = 0
    BY <1>1, <1>2 DEF TokenCpu
  <1>4. despacho.pid = NULO
    BY <1>3 DEF Bit, Ociosos, ConDesalojo
  <1>5. /\ Veces(aCpu, q) \in Nat /\ Veces(aCpu, q) <= Len(aCpu)
        /\ Veces(perdidos, q) \in Nat /\ Veces(perdidos, q) <= Len(perdidos)
        /\ VecesDesalojo(desalojos, q) \in Nat /\ VecesDesalojo(desalojos, q) <= Len(desalojos)
    BY Aparece, DesalojoAparece DEF Tipos, TypeOK, TiposCpu
  <1>6. Bit(despacho.pid = q) = 0
    BY <1>4, NuloAssumption DEF Bit
  <1> QED
    BY <1>3, <1>5, <1>6 DEF EnExec

(* A process that no step moves keeps its state.                           *)
LEMMA QuietoEstado ==
  ASSUME EstadoFiel, EstadoFiel', GruposNat, GruposNat', NEW p \in Pids, Quieto(p)
  PROVE  Estado(p)' = Estado(p)
  <1>1. /\ EnNew(p)' = EnNew(p) /\ EnReady(p)' = EnReady(p) /\ EnExec(p)' = EnExec(p)
        /\ EnBlocked(p)' = EnBlocked(p) /\ EnExit(p)' = EnExit(p) /\ EnFin(p)' = EnFin(p)
        /\ (p \in creados' <=> p \in creados)
    BY DEF Quieto, Grupos
  <1> QED
    BY <1>1 DEF EstadoFiel

\* Process m goes from one state to the other, the rest stay.
Pasa(m, de, a) == Estado(m) = de /\ Estado(m)' = a

\* What a step of the diagram needs of the state it starts from.
IndCiclo == Tipos /\ Ociosos /\ UnaSolaCola /\ Finitos /\ GradoExacto /\ TokenCpu

(* A step of the threads is a step of the diagram, or none.                *)
LEMMA PasoCiclo ==
  ASSUME UnaRespuesta, IndCiclo, EstadoFiel', [Next]_vars
  PROVE  [Ciclo!Next]_Estados
  <1>0. /\ Tipos /\ Ociosos /\ UnaSolaCola /\ Finitos /\ GradoExacto /\ TokenCpu
    BY DEF IndCiclo
  <1>1. SeMueve /\ GruposNat /\ GruposNat' /\ EstadoFiel
    BY <1>0, Movimiento, Base, EstadosFieles
  <1>2. CASE \A p \in Pids : Quieto(p)
    <2>1. \A p \in Pids : Estado(p)' = Estado(p)
      BY <1>1, <1>2, QuietoEstado
    <2> QED
      BY <2>1 DEF Estados
  <1>3. ASSUME NEW m \in Pids, Arista(m), \A p \in Pids \ {m} : Quieto(p)
        PROVE  Ciclo!Next
    <2>1. \A p \in Pids \ {m} : Estado(p)' = Estado(p)
      BY <1>1, <1>3, QuietoEstado
    <2>2. /\ EnNew(m) \in Nat /\ EnReady(m) \in Nat /\ EnExec(m) \in Nat
          /\ EnBlocked(m) \in 0 .. 1 /\ EnExit(m) \in Nat /\ EnFin(m) \in 0 .. 1
          /\ EnNew(m)' \in Nat /\ EnReady(m)' \in Nat /\ EnExec(m)' \in Nat
          /\ EnBlocked(m)' \in 0 .. 1 /\ EnExit(m)' \in Nat /\ EnFin(m)' \in 0 .. 1
      BY <1>1 DEF GruposNat
    <2>3. ASSUME NEW de, NEW a, Pasa(m, de, a)
          PROVE  Ciclo!Pasar(m, de, a)
      <3>1. Estados' = [Estados EXCEPT ![m] = a]
        BY <2>1, <2>3 DEF Estados, Pasa
      <3>2. Estados[m] = de
        BY <2>3 DEF Estados, Pasa
      <3> QED
        BY <3>1, <3>2 DEF Ciclo!Pasar
    <2>4. CASE Nace(m)
      <3>1. Pasa(m, "NADA", "NEW")
        BY <1>1, <2>2, <2>4 DEF Nace, EstadoFiel, Pasa
      <3> QED
        BY <2>3, <3>1 DEF Ciclo!Next, Ciclo!Crear
    <2>5. CASE Admite(m)
      <3>1. Pasa(m, "NEW", "READY")
        BY <1>1, <2>2, <2>5 DEF Admite, EstadoFiel, Pasa
      <3>2. creacion.en = "agregar"
        BY <2>5 DEF Admite, AgregarAReady
      <3>3. Ciclo!Cardinality(Ciclo!Admitidos) < GRADO_MULTIPROGRAMACION
        BY <1>0, <3>2, HayLugar, MismaCuenta
      <3> QED
        BY <2>3, <3>1, <3>3 DEF Ciclo!Next, Ciclo!Admitir
    <2>6. CASE Despacha(m)
      <3>1. Pasa(m, "READY", "EXEC")
        BY <1>1, <2>2, <2>6 DEF Despacha, EstadoFiel, Pasa
      <3>2. corto = "elegir"
        BY <2>6 DEF Despacha, Despachar
      <3>3. \A q \in Pids : Estados[q] # "EXEC"
        BY <1>0, <1>1, <3>2, CpuVacia DEF EstadoFiel, Estados
      <3> QED
        BY <2>3, <3>1, <3>3 DEF Ciclo!Next, Ciclo!Despachar
    <2>7. CASE Desaloja(m)
      <3>1. \E a \in {"READY", "BLOCKED", "EXIT"} : Pasa(m, "EXEC", a)
        BY <1>1, <2>2, <2>7 DEF Desaloja, EstadoFiel, Pasa
      <3> QED
        BY <2>3, <3>1 DEF Ciclo!Next, Ciclo!Desalojar
    <2>8. CASE Desbloquea(m)
      <3>1. Pasa(m, "BLOCKED", "READY")
        BY <1>1, <2>2, <2>8 DEF Desbloquea, EstadoFiel, Pasa
      <3> QED
        BY <2>3, <3>1 DEF Ciclo!Next, Ciclo!Desbloquear
    <2>9. CASE Elimina(m)
      <3>1. Pasa(m, "EXIT", "FIN")
        BY <1>1, <2>2, <2>9 DEF Elimina, EstadoFiel, Pasa
      <3> QED
        BY <2>3, <3>1 DEF Ciclo!Next, Ciclo!Eliminar
    <2> QED
      BY <1>3, <2>4, <2>5, <2>6, <2>7, <2>8, <2>9 DEF Arista
  <1> QED
    BY <1>1, <1>2, <1>3 DEF SeMueve

(* The threads, queues, semaphores and sockets implement the diagram of    *)
(* five states: a process goes from one state to the next along its edges  *)
(* and no others, one process at a time is in EXEC, and no process is      *)
(* admitted beyond the degree of multiprogramming.                         *)
THEOREM ImplementaCiclo ==
  ASSUME UnaRespuesta
  PROVE  Spec => CicloSpec
  <1>1. Init /\ EstadoFiel => Ciclo!Init
    <2> SUFFICES ASSUME creados = {}, EstadoFiel PROVE Ciclo!Init
      BY DEF Init
    <2>1. \A p \in Pids : Estado(p) = "NADA"
      BY DEF EstadoFiel
    <2> QED
      BY <2>1 DEF Ciclo!Init, Estados
  <1>2. IndCiclo /\ EstadoFiel' /\ [Next]_vars => [Ciclo!Next]_Estados
    BY PasoCiclo, UnaRespuesta
  <1>3. Spec => []TokenCpu
    BY CpuDeAUno, UnaRespuesta
  <1>4. Spec => []UnaSolaCola
    BY SiempreUnaSolaCola, UnaRespuesta
  <1>5. Spec => [](Finitos /\ GradoExacto)
    BY SiempreGrado, UnaRespuesta
  <1> QED
    BY <1>1, <1>2, <1>3, <1>4, <1>5, EstadosFieles, SiempreTipos, SiempreOciosos,
       PTL DEF IndCiclo, Spec, CicloSpec, Ciclo!Spec
=============================================================================
