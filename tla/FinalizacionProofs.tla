------------------------- MODULE FinalizacionProofs -------------------------
(***************************************************************************)
(* Proofs about Finalizacion, for any number of processes and of commands  *)
(* and any degrees.                                                        *)
(*                                                                         *)
(* 1. The semaphores hay_proceso_nuevo and hay_proceso_a_ready keep        *)
(* counting their queues while FINALIZAR_PROCESO takes processes out of    *)
(* the middle of them, and so a thread that pops finds a process.  The     *)
(* invariant is inductive together with the types and with Manos: a thread *)
(* that is to queue a process holds one.                                   *)
(*                                                                         *)
(* 2. Until the code makes a mistake (Sano), each process that lives is in *)
(* one of ten places, once, and the place agrees with its state.  The      *)
(* inductive invariant is Orden.                                           *)
(*                                                                         *)
(* 3. The slots of the degree of multiprogramming are conserved.  The      *)
(* inductive invariant is GradoBien, over Orden.                           *)
(***************************************************************************)
EXTENDS Finalizacion, Conteo

Estados == {"NADA", "NEW", "READY", "EXEC", "BLOCKED", "EXIT", "FIN"}
LugaresHilo == {"esperar", "cupo", "sacar", "poner", "avisar", "trabado"}
LugaresConsola == {"libre", "estado", "buscar", "esperarNuevo", "esperarListo", "esperarMuerte",
                   "quitar", "ver", "sumar", "restar", "bajar"}

TiposColas ==
  /\ estado \in [Pids -> Estados]
  /\ nuevos \in Seq(Pids) /\ listos \in Seq(Pids) /\ sistema \in Seq(Pids)
TiposSem ==
  /\ hay_nuevo \in Nat /\ hay_ready \in Nat
  /\ grado_multi \in Nat /\ grado_multiprogramacion \in Nat
TiposHilos ==
  /\ hilo \in [Hilos -> [en : LugaresHilo, pid : Pids \cup {NULO}]]
  /\ corto \in {"esperar", "cpu", "sacar"}
TiposConsola ==
  consola \in [en : LugaresConsola, pid : Pids \cup {NULO}, indice : Nat, caso : Estados,
               esperas : Nat, resto : Nat]
Manos ==
  /\ \A h \in Hilos : hilo[h].en \in {"poner", "avisar", "trabado"} => hilo[h].pid \in Pids
  /\ consola.en \notin {"libre", "bajar"} => consola.pid \in Pids

Tipos == TiposColas /\ TiposSem /\ TiposHilos /\ TiposConsola /\ Manos

-----------------------------------------------------------------------------
(* Queues and what the loops of the console do to them.                    *)

LEMMA Colas ==
  ASSUME NEW S, NEW s \in Seq(S)
  PROVE  /\ Len(s) \in Nat
         /\ s # <<>> <=> Len(s) > 0
         /\ \A e \in S : Append(s, e) \in Seq(S) /\ Len(Append(s, e)) = Len(s) + 1
         /\ s # <<>> => /\ Head(s) \in S
                        /\ Tail(s) \in Seq(S)
                        /\ Len(Tail(s)) = Len(s) - 1
  OBVIOUS

LEMMA Vacia == ASSUME NEW S PROVE <<>> \in Seq(S)
  OBVIOUS

LEMMA Concatenar ==
  ASSUME NEW S, NEW s \in Seq(S), NEW t \in Seq(S)
  PROVE  s \o t \in Seq(S) /\ Len(s \o t) = Len(s) + Len(t)
  OBVIOUS

LEMMA SinUno ==
  ASSUME NEW S, NEW s \in Seq(S), NEW i \in 1..Len(s)
  PROVE  RemoveAt(s, i) \in Seq(S) /\ Len(RemoveAt(s, i)) = Len(s) - 1
  <1> DEFINE a == SubSeq(s, 1, i - 1)
             b == SubSeq(s, i + 1, Len(s))
  <1>1. a \in Seq(S) /\ Len(a) = i - 1
    OBVIOUS
  <1>2. b \in Seq(S) /\ Len(b) = Len(s) - i
    OBVIOUS
  <1>3. RemoveAt(s, i) = a \o b
    BY DEF RemoveAt
  <1>4. Len(s) \in Nat /\ i \in Nat
    OBVIOUS
  <1> HIDE DEF a, b
  <1>5. a \o b \in Seq(S) /\ Len(a \o b) = Len(a) + Len(b)
    BY <1>1, <1>2, Concatenar
  <1>6. Len(a) + Len(b) = Len(s) - 1
    BY <1>1, <1>2, <1>4
  <1> QED
    BY <1>3, <1>5, <1>6

LEMMA EstaEn ==
  ASSUME NEW S, NEW s \in Seq(S), NEW e \in ToSet(s)
  PROVE  Posicion(e, s) \in 1..Len(s) /\ s[Posicion(e, s)] = e
  <1>1. \E i \in DOMAIN s : s[i] = e
    BY DEF ToSet
  <1>2. DOMAIN s = 1..Len(s)
    OBVIOUS
  <1> QED
    BY <1>1, <1>2 DEF Posicion

LEMMA ListosSinUno ==
  ASSUME listos \in Seq(Pids), NEW p \in ToSet(listos)
  PROVE  ListosSin(p) \in Seq(Pids) /\ Len(ListosSin(p)) = Len(listos) - 1
  <1> DEFINE i == Posicion(p, listos)
             otros == RemoveAt(listos, i)
  <1>1. i \in 1..Len(listos) /\ listos[i] = p
    BY EstaEn
  <1>2. otros \in Seq(Pids) /\ Len(otros) = Len(listos) - 1 /\ Len(listos) \in Nat
    BY <1>1, SinUno
  <1>3. CASE Last(listos) = p
    BY <1>2, <1>3 DEF ListosSin
  <1>4. CASE Last(listos) # p
    <2>1. Len(otros) > 0
      BY <1>1, <1>2, <1>4 DEF Last
    <2>2. Front(otros) \in Seq(Pids) /\ Len(Front(otros)) = Len(otros) - 1
      BY <1>2, <2>1 DEF Front
    <2>3. <<Last(otros)>> \in Seq(Pids) /\ Len(<<Last(otros)>>) = 1
      BY <1>2, <2>1 DEF Last
    <2>4. ListosSin(p) = <<Last(otros)>> \o Front(otros)
      BY <1>4 DEF ListosSin
    <2> QED
      BY <1>2, <2>2, <2>3, <2>4
  <1> QED
    BY <1>3, <1>4

LEMMA NuevosSinUno ==
  ASSUME nuevos \in Seq(Pids), NEW p \in ToSet(nuevos)
  PROVE  NuevosSin(p) \in Seq(Pids) /\ Len(NuevosSin(p)) = Len(nuevos) - 1
  <1> DEFINE k == Posicion(p, nuevos)
  <1>1. k \in 1..Len(nuevos) /\ Len(nuevos) \in Nat
    BY EstaEn
  <1> HIDE DEF k
  <1> DEFINE a == SubSeq(nuevos, k + 1, Len(nuevos))
             b == SubSeq(nuevos, 1, k - 1)
  <1>2. a \in Seq(Pids) /\ Len(a) = Len(nuevos) - k
    BY <1>1
  <1>3. b \in Seq(Pids) /\ Len(b) = k - 1
    BY <1>1
  <1>4. NuevosSin(p) = a \o b
    BY DEF NuevosSin, k
  <1> HIDE DEF a, b
  <1>5. a \o b \in Seq(Pids) /\ Len(a \o b) = Len(a) + Len(b)
    BY <1>2, <1>3, Concatenar
  <1>6. Len(a) + Len(b) = Len(nuevos) - 1
    BY <1>1, <1>2, <1>3
  <1> QED
    BY <1>4, <1>5, <1>6

-----------------------------------------------------------------------------
(* The threads that are about to post.                                     *)

Avisan == {h \in Hilos : hilo[h].en = "avisar"}

LEMMA AvisanFinito == IsFiniteSet(Avisan) /\ Cardinality(Avisan) \in Nat
  <1>1. IsFiniteSet({"creacion"})
    BY FS_Singleton
  <1>2. IsFiniteSet({"creacion"} \cup {"despacho"})
    BY <1>1, FS_AddElement
  <1>3. IsFiniteSet(({"creacion"} \cup {"despacho"}) \cup {"interfaz"})
    BY <1>2, FS_AddElement
  <1>4. Hilos = ({"creacion"} \cup {"despacho"}) \cup {"interfaz"}
    BY DEF Hilos
  <1>5. Avisan \subseteq Hilos
    BY DEF Avisan
  <1>6. IsFiniteSet(Avisan)
    BY <1>3, <1>4, <1>5, FS_Subset
  <1> QED
    BY <1>6, FS_CardinalityType

-----------------------------------------------------------------------------
(* The types.                                                              *)

\* In the initial state the queues are empty and no thread holds a process.
LEMMA InicioTipos == Init => Tipos
  <1> SUFFICES ASSUME Init PROVE Tipos
    OBVIOUS
  <1> USE GradoAssumption DEF Init
  <1>1. TiposColas
    <2>1. estado \in [Pids -> Estados]
      BY DEF Estados
    <2> QED
      BY <2>1, Vacia DEF TiposColas
  <1>2. TiposSem
    BY DEF TiposSem
  <1>3. TiposHilos
    BY DEF TiposHilos, LugaresHilo, Quieto
  <1>4. TiposConsola
    BY DEF TiposConsola, LugaresConsola, Estados, ConsolaLibre
  <1>5. Manos
    BY DEF Manos, Quieto, ConsolaLibre
  <1> QED
    BY <1>1, <1>2, <1>3, <1>4, <1>5 DEF Tipos

\* The threads that push and the scheduler: none of them moves the console.
LEMMA TiposHilosPaso ==
  ASSUME Tipos
  PROVE  (Creacion \/ Corto \/ \E h \in Hilos : Hilo(h)) => Tipos'
  <1> USE DEF Tipos, TiposColas, TiposSem, TiposHilos, TiposConsola, Manos, procesos, semaforos,
              grado, cuenta
  <1>1. TomarNuevo => Tipos'
    BY DEF TomarNuevo, Avanzar, LugaresHilo, Hilos
  <1>2. TomarCupo => Tipos'
    BY DEF TomarCupo, Avanzar, LugaresHilo, Hilos
  <1>3. SacarNuevo => Tipos'
    BY DEF SacarNuevo, LugaresHilo, Hilos
  <1>4. TomarListo => Tipos'
    BY DEF TomarListo
  <1>5. TomarCpu => Tipos'
    BY DEF TomarCpu
  <1>6. ASSUME Despachar PROVE Tipos'
    <2>1. Head(listos) \in Pids /\ Tail(listos) \in Seq(Pids)
      BY <1>6, Colas DEF Despachar
    <2>2. "EXEC" \in Estados
      BY DEF Estados
    <2>3. estado' \in [Pids -> Estados] /\ listos' \in Seq(Pids)
      BY <1>6, <2>1, <2>2 DEF Despachar
    <2> QED
      BY <1>6, <2>3 DEF Despachar
  <1>7. ASSUME NEW h \in Hilos, PonerListo(h) PROVE Tipos'
    <2>1. hilo[h].pid \in Pids
      BY <1>7 DEF PonerListo
    <2>2. estado' \in [Pids -> Estados]
      BY <1>7, <2>1 DEF PonerListo, Estados
    <2>3. Append(listos, hilo[h].pid) \in Seq(Pids)
      BY <2>1, Colas
    <2>4. listos' \in Seq(Pids)
      BY <1>7, <2>3 DEF PonerListo
    <2>5. PICK e \in {"avisar", "trabado"} : hilo' = [hilo EXCEPT ![h].en = e]
      BY <1>7 DEF PonerListo, Avanzar
    <2>6. TiposHilos' /\ Manos'
      BY <1>7, <2>1, <2>5 DEF PonerListo, LugaresHilo
    <2> QED
      BY <1>7, <2>2, <2>4, <2>6 DEF PonerListo
  <1>8. ASSUME NEW h \in Hilos, AvisarListo(h) PROVE Tipos'
    BY <1>8 DEF AvisarListo, Quieto, LugaresHilo
  <1> QED
    BY <1>1, <1>2, <1>3, <1>4, <1>5, <1>6, <1>7, <1>8 DEF Creacion, Corto, Hilo

\* What the programs, the interfaces and the elimination thread do.
LEMMA TiposProgramaPaso ==
  ASSUME Tipos
  PROVE  ((\E p \in Pids : Programa(p)) \/ Eliminacion) => Tipos'
  <1> USE DEF Tipos, TiposColas, TiposSem, TiposHilos, TiposConsola, Manos, procesos, semaforos,
              grado, cuenta
  <1>1. ASSUME NEW p \in Pids, Iniciar(p) PROVE Tipos'
    <2>1. Append(nuevos, p) \in Seq(Pids) /\ Append(sistema, p) \in Seq(Pids)
      BY Colas
    <2>2. estado' \in [Pids -> Estados]
      BY <1>1 DEF Iniciar, Estados
    <2> QED
      BY <1>1, <2>1, <2>2 DEF Iniciar
  <1>2. ASSUME NEW p \in Pids, Desalojar(p) PROVE Tipos'
    BY <1>2 DEF Desalojar, DejaLaCpu, LugaresHilo
  <1>3. ASSUME NEW p \in Pids, Bloquear(p) PROVE Tipos'
    BY <1>3 DEF Bloquear, DejaLaCpu, Estados
  <1>4. ASSUME NEW p \in Pids, Terminar(p) PROVE Tipos'
    BY <1>4 DEF Terminar, DejaLaCpu, Estados
  <1>5. ASSUME NEW p \in Pids, Desbloquear(p) PROVE Tipos'
    BY <1>5 DEF Desbloquear, LugaresHilo
  <1>6. TomarSalida => Tipos'
    BY DEF TomarSalida, ElimSola
  <1>7. ElimQuitar => Tipos'
    <2>1. \A i \in DOMAIN sistema : RemoveAt(sistema, i) \in Seq(Pids)
      BY SinUno
    <2> QED
      BY <2>1 DEF ElimQuitar, QuitarDelSistema, ElimSola
  <1>8. ElimVerCupo => Tipos'
    BY DEF ElimVerCupo, ElimSola
  <1>9. ASSUME ElimDarCupo PROVE Tipos'
    <2>1. estado' \in [Pids -> Estados]
      BY <1>9 DEF ElimDarCupo, Estados
    <2>2. TiposSem'
      BY <1>9 DEF ElimDarCupo, DarCupo, ElimSola
    <2> QED
      BY <1>9, <2>1, <2>2 DEF ElimDarCupo, ElimSola
  <1> QED
    BY <1>1, <1>2, <1>3, <1>4, <1>5, <1>6, <1>7, <1>8, <1>9 DEF Programa, Eliminacion

\* FINALIZAR_PROCESO.
LEMMA TiposConsolaPaso ==
  ASSUME Tipos
  PROVE  (Consola \/ \E p \in Pids : Finalizar(p)) => Tipos'
  <1> USE DEF Tipos, TiposColas, TiposSem, TiposHilos, TiposConsola, Manos, procesos, semaforos,
              grado, cuenta, ConsolaSola
  <1>1. ASSUME NEW p \in Pids, Finalizar(p) PROVE Tipos'
    <2>1. Indice(p) \in DOMAIN sistema
      BY <1>1 DEF Finalizar, Indice, ToSet
    <2>2. Indice(p) \in Nat
      BY <2>1
    <2>3. TiposConsola'
      BY <1>1, <2>2 DEF Finalizar, ConsolaLibre, LugaresConsola, Estados
    <2> QED
      BY <1>1, <2>3 DEF Finalizar, ConsolaLibre
  <1>2. ASSUME LeerEstado PROVE Tipos'
    <2>1. UNCHANGED <<estado, nuevos, listos, bloqueados, sistema, hay_nuevo, hay_ready, cpu_libre,
                      grado, cuenta>> /\ ConsolaSola
      BY <1>2 DEF LeerEstado
    <2>2. consola.pid \in Pids /\ estado[consola.pid] \in Estados
      BY <1>2 DEF LeerEstado
    <2>3. PICK e \in {"esperarMuerte", "buscar"} :
            consola' = [consola EXCEPT !.caso = estado[consola.pid], !.en = e]
      BY <1>2 DEF LeerEstado
    <2>4. TiposConsola' /\ consola'.pid = consola.pid
      BY <2>2, <2>3 DEF LugaresConsola
    <2> QED
      BY <2>1, <2>2, <2>4
  <1>3. ASSUME BuscarNuevo PROVE Tipos'
    <2>1. nuevos' \in Seq(Pids)
      BY <1>3, NuevosSinUno DEF BuscarNuevo
    <2> QED
      BY <1>3, <2>1 DEF BuscarNuevo, LugaresConsola
  <1>4. ASSUME BuscarListo PROVE Tipos'
    <2>1. listos' \in Seq(Pids)
      BY <1>4, ListosSinUno DEF BuscarListo
    <2> QED
      BY <1>4, <2>1 DEF BuscarListo, LugaresConsola
  <1>5. BuscarBloqueado => Tipos'
    BY DEF BuscarBloqueado, LugaresConsola
  <1>6. ASSUME EsperarNuevo PROVE Tipos'
    <2>1. TiposSem'
      BY <1>6 DEF EsperarNuevo
    <2>2. TiposConsola' /\ Manos'
      BY <1>6 DEF EsperarNuevo, LugaresConsola
    <2> QED
      BY <1>6, <2>1, <2>2 DEF EsperarNuevo
  <1>7. ASSUME EsperarListo PROVE Tipos'
    <2>1. TiposSem'
      BY <1>7 DEF EsperarListo
    <2>2. TiposConsola' /\ Manos'
      BY <1>7 DEF EsperarListo, LugaresConsola
    <2> QED
      BY <1>7, <2>1, <2>2 DEF EsperarListo
  <1>8. EsperarMuerte => Tipos'
    BY DEF EsperarMuerte, LugaresConsola
  <1>9. ASSUME Quitar PROVE Tipos'
    <2>1. \A i \in DOMAIN sistema : RemoveAt(sistema, i) \in Seq(Pids)
      BY SinUno
    <2>2. sistema' \in Seq(Pids)
      BY <1>9, <2>1 DEF Quitar, QuitarDelSistema
    <2>3. estado' \in [Pids -> Estados]
      BY <1>9 DEF Quitar, Estados
    <2>4. TiposConsola' /\ Manos'
      BY <1>9 DEF Quitar, LugaresConsola, ConsolaLibre, Estados
    <2> QED
      BY <1>9, <2>2, <2>3, <2>4 DEF Quitar
  <1>10. VerCupoConsola => Tipos'
    BY DEF VerCupoConsola, VerCupo, LugaresConsola
  <1>11. ASSUME DarCupoConsola PROVE Tipos'
    <2>1. estado' \in [Pids -> Estados]
      BY <1>11 DEF DarCupoConsola, Estados
    <2>2. TiposConsola' /\ Manos'
      <3>1. CASE consola' = ConsolaLibre
        BY <1>11, <3>1 DEF DarCupoConsola, DarCupo, LugaresConsola, ConsolaLibre, Estados
      <3>2. CASE consola' = [consola EXCEPT !.en = "quitar"]
        BY <1>11, <3>2 DEF DarCupoConsola, DarCupo, LugaresConsola
      <3> QED
        BY <1>11, <3>1, <3>2 DEF DarCupoConsola
    <2> QED
      BY <1>11, <2>1, <2>2 DEF DarCupoConsola, DarCupo
  <1> QED
    BY <1>1, <1>2, <1>3, <1>4, <1>5, <1>6, <1>7, <1>8, <1>9, <1>10, <1>11 DEF Consola

\* MULTIPROGRAMACION.
LEMMA TiposGradoPaso ==
  ASSUME Tipos
  PROVE  Grado => Tipos'
  <1> USE GradoAssumption DEF Tipos, TiposColas, TiposSem, TiposHilos, Manos, procesos, semaforos,
              grado, SoloGrado
  <1>1. ASSUME NEW n \in Grados, SubirGrado(n) PROVE Tipos'
    BY <1>1 DEF SubirGrado, TiposConsola
  <1>2. ASSUME NEW n \in Grados, BajarGrado(n) PROVE Tipos'
    <2> DEFINE baja == grado_multiprogramacion - n
               esperas == Menor(grado_multi, baja)
    <2>1. n \in Nat /\ baja \in Nat
      BY <1>2 DEF BajarGrado
    <2>2. esperas \in Nat /\ baja - esperas \in Nat
      BY <2>1 DEF Menor
    <2>3. consola' = [ConsolaLibre EXCEPT !.en = "bajar", !.esperas = esperas,
                        !.resto = baja - esperas, !.indice = n]
      BY <1>2 DEF BajarGrado
    <2> HIDE DEF baja, esperas
    <2>4. consola' = [en |-> "bajar", pid |-> NULO, indice |-> n, caso |-> "NADA",
                      esperas |-> esperas, resto |-> baja - esperas]
      BY <2>3 DEF ConsolaLibre
    <2>5. TiposConsola'
      BY <2>1, <2>2, <2>4 DEF TiposConsola, LugaresConsola, Estados
    <2>6. Manos'
      BY <1>2, <2>4 DEF BajarGrado
    <2> QED
      BY <1>2, <2>5, <2>6 DEF BajarGrado
  <1>3. ASSUME EsperarCupo PROVE Tipos'
    <2>1. TiposSem'
      BY <1>3 DEF EsperarCupo
    <2>2. consola.esperas - 1 \in Nat
      BY <1>3 DEF EsperarCupo, TiposConsola
    <2>3. TiposConsola' /\ Manos'
      BY <1>3, <2>2 DEF EsperarCupo, TiposConsola
    <2> QED
      BY <1>3, <2>1, <2>3 DEF EsperarCupo
  <1>4. ASSUME AnotarResto PROVE Tipos'
    <2>1. TiposSem'
      BY <1>4 DEF AnotarResto, TiposConsola
    <2>2. TiposConsola' /\ Manos'
      BY <1>4 DEF AnotarResto, TiposConsola, ConsolaLibre, LugaresConsola, Estados
    <2> QED
      BY <1>4, <2>1, <2>2 DEF AnotarResto
  <1> QED
    BY <1>1, <1>2, <1>3, <1>4 DEF Grado

\* Every step keeps the types.
LEMMA PasoTipos == Tipos /\ [Next]_vars => Tipos'
  <1> SUFFICES ASSUME Tipos, [Next]_vars PROVE Tipos'
    OBVIOUS
  <1>1. CASE Next
    BY <1>1, TiposHilosPaso, TiposProgramaPaso, TiposConsolaPaso, TiposGradoPaso DEF Next
  <1>2. CASE UNCHANGED vars
    BY <1>2 DEF vars, procesos, semaforos, grado, Tipos, TiposColas, TiposSem, TiposHilos,
             TiposConsola, Manos
  <1> QED
    BY <1>1, <1>2

\* The queues hold processes, the counters are naturals, and a thread or the
\* console that is to act on a process holds one, in every reachable state.
THEOREM SiempreTipos == Spec => []Tipos
  <1>1. Init => Tipos
    BY InicioTipos
  <1>2. Tipos /\ [Next]_vars => Tipos'
    BY PasoTipos
  <1> QED
    BY <1>1, <1>2, PTL DEF Spec

-----------------------------------------------------------------------------
(* The semaphores.                                                         *)

LEMMA UnoMas ==
  ASSUME NEW h \in Hilos, h \notin Avisan, Avisan' = Avisan \cup {h}
  PROVE  Cardinality(Avisan') = Cardinality(Avisan) + 1
  BY AvisanFinito, FS_AddElement

LEMMA UnoMenos ==
  ASSUME NEW h \in Hilos, h \in Avisan, Avisan' = Avisan \ {h}
  PROVE  Cardinality(Avisan') = Cardinality(Avisan) - 1
  BY AvisanFinito, FS_RemoveElement

\* What SemReady speaks of, and what SemNuevo speaks of, stay as they are.
ReadyIgual ==
  /\ hay_ready' = hay_ready /\ listos' = listos
  /\ (corto' \in {"cpu", "sacar"}) <=> (corto \in {"cpu", "sacar"})
  /\ Avisan' = Avisan
  /\ (consola'.en = "esperarListo") <=> (consola.en = "esperarListo")
NuevoIgual ==
  /\ hay_nuevo' = hay_nuevo /\ nuevos' = nuevos
  /\ (hilo'["creacion"].en \in {"cupo", "sacar"}) <=> (hilo["creacion"].en \in {"cupo", "sacar"})
  /\ (consola'.en = "esperarNuevo") <=> (consola.en = "esperarNuevo")

LEMMA MarcoReady == SemReady /\ ReadyIgual => SemReady'
  BY DEF SemReady, ReadyIgual, Avisan, Uno

LEMMA MarcoNuevo == SemNuevo /\ NuevoIgual => SemNuevo'
  BY DEF SemNuevo, NuevoIgual, Uno

\* The commands and the elimination thread that do not touch the ready queue
\* nor the queue of new processes.
LEMMA OtrosPasos ==
  ASSUME Tipos
  PROVE  (Grado \/ Eliminacion \/ LeerEstado \/ BuscarBloqueado \/ EsperarMuerte \/ Quitar
          \/ VerCupoConsola \/ DarCupoConsola \/ (\E p \in Pids : Finalizar(p)))
         => ReadyIgual /\ NuevoIgual
  <1> USE DEF ReadyIgual, NuevoIgual, Avisan, procesos, semaforos, ConsolaSola, ConsolaLibre
  <1> USE DEF Tipos, TiposConsola
  <1>1. Grado => ReadyIgual /\ NuevoIgual
    <2>1. ASSUME NEW n \in Grados, SubirGrado(n) PROVE ReadyIgual /\ NuevoIgual
      BY <2>1 DEF SubirGrado, SoloGrado
    <2>2. ASSUME NEW n \in Grados, BajarGrado(n) PROVE ReadyIgual /\ NuevoIgual
      BY <2>2 DEF BajarGrado, SoloGrado
    <2>3. EsperarCupo => ReadyIgual /\ NuevoIgual
      BY DEF EsperarCupo, SoloGrado
    <2>4. ASSUME AnotarResto PROVE ReadyIgual /\ NuevoIgual
      <3>1. consola.en = "bajar" /\ consola'.en = "libre"
        BY <2>4 DEF AnotarResto
      <3> QED
        BY <2>4, <3>1 DEF AnotarResto, SoloGrado
    <2> QED
      BY <2>1, <2>2, <2>3, <2>4 DEF Grado
  <1>2. Eliminacion => ReadyIgual /\ NuevoIgual
    BY DEF Eliminacion, TomarSalida, ElimQuitar, ElimVerCupo, ElimDarCupo, ElimSola
  <1>3. LeerEstado => ReadyIgual /\ NuevoIgual
    BY DEF LeerEstado
  <1>4. BuscarBloqueado => ReadyIgual /\ NuevoIgual
    BY DEF BuscarBloqueado
  <1>5. EsperarMuerte => ReadyIgual /\ NuevoIgual
    BY DEF EsperarMuerte
  <1>6. ASSUME Quitar PROVE ReadyIgual /\ NuevoIgual
    <2>1. consola.en = "quitar" /\ consola'.en \in {"ver", "libre"}
      BY <1>6 DEF Quitar
    <2> QED
      BY <1>6, <2>1 DEF Quitar
  <1>7. VerCupoConsola => ReadyIgual /\ NuevoIgual
    BY DEF VerCupoConsola, VerCupo
  <1>8. ASSUME DarCupoConsola PROVE ReadyIgual /\ NuevoIgual
    <2>1. consola.en \in {"sumar", "restar"}
      BY <1>8 DEF DarCupoConsola, DarCupo
    <2>2. consola' = ConsolaLibre \/ consola' = [consola EXCEPT !.en = "quitar"]
      BY <1>8 DEF DarCupoConsola
    <2>3. consola'.en \in {"libre", "quitar"}
      <3>1. CASE consola' = ConsolaLibre
        BY <3>1
      <3>2. CASE consola' = [consola EXCEPT !.en = "quitar"]
        BY <3>2
      <3> QED
        BY <2>2, <3>1, <3>2
    <2> QED
      BY <1>8, <2>1, <2>3 DEF DarCupoConsola
  <1>9. ASSUME NEW p \in Pids, Finalizar(p) PROVE ReadyIgual /\ NuevoIgual
    BY <1>9 DEF Finalizar
  <1> QED
    BY <1>1, <1>2, <1>3, <1>4, <1>5, <1>6, <1>7, <1>8, <1>9

\* The threads and the programs: only four steps touch the ready queue or its
\* semaphore, and only three the queue of new processes.
LEMMA HilosPasos ==
  ASSUME Tipos
  PROVE  /\ (Creacion \/ TomarCpu \/ (\E p \in Pids : Programa(p))) => ReadyIgual
         /\ (TomarCupo \/ Corto) => NuevoIgual
         /\ (\E h \in Hilos : Hilo(h)) => NuevoIgual
         /\ \A p \in Pids : Desalojar(p) \/ Bloquear(p) \/ Terminar(p) \/ Desbloquear(p)
                            => NuevoIgual
  <1> USE DEF ReadyIgual, NuevoIgual, Avisan, procesos, semaforos, Tipos, TiposHilos, Quieto, Hilos
  <1>1. Creacion => ReadyIgual
    BY DEF Creacion, TomarNuevo, TomarCupo, SacarNuevo, Avanzar
  <1>2. TomarCpu => ReadyIgual
    BY DEF TomarCpu
  <1>3. ASSUME NEW p \in Pids, Iniciar(p) PROVE ReadyIgual
    BY <1>3 DEF Iniciar
  <1>4. ASSUME NEW p \in Pids, Desalojar(p) PROVE ReadyIgual /\ NuevoIgual
    BY <1>4 DEF Desalojar, DejaLaCpu
  <1>5. ASSUME NEW p \in Pids, Bloquear(p) \/ Terminar(p) PROVE ReadyIgual /\ NuevoIgual
    BY <1>5 DEF Bloquear, Terminar, DejaLaCpu
  <1>6. ASSUME NEW p \in Pids, Desbloquear(p) PROVE ReadyIgual /\ NuevoIgual
    BY <1>6 DEF Desbloquear
  <1>7. TomarCupo => NuevoIgual
    BY DEF TomarCupo, Avanzar
  <1>8. Corto => NuevoIgual
    BY DEF Corto, TomarListo, TomarCpu, Despachar
  <1>9. ASSUME NEW h \in Hilos, PonerListo(h) PROVE NuevoIgual
    BY <1>9 DEF PonerListo, Avanzar
  <1>10. ASSUME NEW h \in Hilos, AvisarListo(h) PROVE NuevoIgual
    BY <1>10 DEF AvisarListo
  <1> QED
    BY <1>1, <1>2, <1>3, <1>4, <1>5, <1>6, <1>7, <1>8, <1>9, <1>10 DEF Programa, Hilo

\* hay_proceso_a_ready: each push is followed by its post, each pop is preceded
\* by its wait, and FINALIZAR_PROCESO waits for the post of what it took out.
LEMMA PasoSemReady == Tipos /\ SemReady /\ [Next]_vars => SemReady'
  <1> SUFFICES ASSUME Tipos, SemReady, [Next]_vars PROVE SemReady'
    OBVIOUS
  <1> USE DEF Tipos, TiposColas, TiposSem, TiposHilos, TiposConsola
  <1>0. Cardinality(Avisan) \in Nat /\ Len(listos) \in Nat
    BY AvisanFinito, Colas
  <1>1. SemReady <=> hay_ready + Uno(corto \in {"cpu", "sacar"}) + Cardinality(Avisan)
                     = Len(listos) + Uno(consola.en = "esperarListo")
    BY DEF SemReady, Avisan
  <1>2. SemReady' <=> hay_ready' + Uno(corto' \in {"cpu", "sacar"}) + Cardinality(Avisan')
                      = Len(listos') + Uno(consola'.en = "esperarListo")
    BY DEF SemReady, Avisan, Uno
  <1>2a. /\ hay_ready + Uno(corto \in {"cpu", "sacar"}) + (Cardinality(Avisan) + 1)
            = (Len(listos) + 1) + Uno(consola.en = "esperarListo")
         /\ (hay_ready + 1) + Uno(corto \in {"cpu", "sacar"}) + (Cardinality(Avisan) - 1)
            = Len(listos) + Uno(consola.en = "esperarListo")
    <2> DEFINE u == Uno(corto \in {"cpu", "sacar"})
               v == Uno(consola.en = "esperarListo")
               c == Cardinality(Avisan)
               l == Len(listos)
    <2>1. u \in Nat /\ v \in Nat /\ c \in Nat /\ l \in Nat /\ hay_ready \in Nat
      BY <1>0 DEF Uno
    <2>2. hay_ready + u + c = l + v
      BY <1>1
    <2> HIDE DEF u, v, c, l
    <2>3. hay_ready + u + (c + 1) = (l + 1) + v /\ (hay_ready + 1) + u + (c - 1) = l + v
      BY <2>1, <2>2
    <2> QED
      BY <2>3 DEF u, v, c, l
  <1>3. ASSUME NEW h \in Hilos, PonerListo(h) PROVE SemReady'
    <2>1. h \notin Avisan
      BY <1>3 DEF PonerListo, Avisan
    <2>2. UNCHANGED <<hay_ready, corto, consola>>
      BY <1>3 DEF PonerListo, semaforos
    <2>3. CASE MutexListosTomado
      <3>1. Avisan' = Avisan /\ listos' = listos
        BY <1>3, <2>3 DEF PonerListo, Avanzar, Avisan
      <3> QED
        BY <1>1, <1>2, <2>2, <3>1
    <2>4. CASE ~MutexListosTomado
      <3>1. Avisan' = Avisan \cup {h}
        BY <1>3, <2>4 DEF PonerListo, Avanzar, Avisan
      <3>2. Cardinality(Avisan') = Cardinality(Avisan) + 1
        BY <2>1, <3>1, UnoMas
      <3>3. hilo[h].pid \in Pids
        BY <1>3 DEF PonerListo, Manos
      <3>4. Len(listos') = Len(listos) + 1
        BY <1>3, <2>4, <3>3, Colas DEF PonerListo
      <3> QED
        BY <1>2, <1>2a, <2>2, <3>2, <3>4
    <2> QED
      BY <2>3, <2>4
  <1>4. ASSUME NEW h \in Hilos, AvisarListo(h) PROVE SemReady'
    <2>1. h \in Avisan /\ Avisan' = Avisan \ {h}
      BY <1>4 DEF AvisarListo, Avisan, Quieto
    <2>2. Cardinality(Avisan') = Cardinality(Avisan) - 1
      BY <2>1, UnoMenos
    <2>3. hay_ready' = hay_ready + 1 /\ UNCHANGED <<listos, corto, consola>>
      BY <1>4 DEF AvisarListo, procesos
    <2> QED
      BY <1>2, <1>2a, <2>2, <2>3
  <1>5. ASSUME TomarListo PROVE SemReady'
    <2>1. Avisan' = Avisan /\ UNCHANGED <<listos, consola>>
      BY <1>5 DEF TomarListo, Avisan, procesos
    <2>2. hay_ready' = hay_ready - 1 /\ corto = "esperar" /\ corto' = "cpu"
      BY <1>5 DEF TomarListo
    <2> QED
      BY <1>0, <1>1, <1>2, <2>1, <2>2 DEF Uno
  <1>6. ASSUME Despachar PROVE SemReady'
    <2>1. Avisan' = Avisan /\ UNCHANGED <<hay_ready, consola>>
      BY <1>6 DEF Despachar, Avisan, semaforos
    <2>2. Len(listos') = Len(listos) - 1
      BY <1>6, Colas DEF Despachar
    <2>3. corto = "sacar" /\ corto' = "esperar"
      BY <1>6 DEF Despachar
    <2>4. Uno(corto \in {"cpu", "sacar"}) = 1 /\ Uno(corto \in {"cpu", "sacar"})' = 0
      BY <2>3 DEF Uno
    <2>5. Uno(consola.en = "esperarListo")' = Uno(consola.en = "esperarListo")
      BY <2>1
    <2> QED
      BY <1>0, <1>1, <1>2, <2>1, <2>2, <2>4, <2>5
  <1>7. ASSUME BuscarListo PROVE SemReady'
    <2>1. Avisan' = Avisan /\ UNCHANGED <<hay_ready, corto>>
      BY <1>7 DEF BuscarListo, ConsolaSola, Avisan
    <2>2. CASE consola.pid \in ToSet(listos)
      <3>1. Len(listos') = Len(listos) - 1
        BY <1>7, <2>2, ListosSinUno DEF BuscarListo
      <3>2. consola.en = "buscar" /\ consola'.en = "esperarListo"
        BY <1>7, <2>2 DEF BuscarListo
      <3> QED
        BY <1>0, <1>1, <1>2, <2>1, <3>1, <3>2 DEF Uno
    <2>3. CASE consola.pid \notin ToSet(listos)
      <3>1. UNCHANGED <<listos, consola>>
        BY <1>7, <2>3 DEF BuscarListo
      <3> QED
        BY <1>1, <1>2, <2>1, <3>1
    <2> QED
      BY <2>2, <2>3
  <1>8. ASSUME EsperarListo PROVE SemReady'
    <2>1. Avisan' = Avisan /\ UNCHANGED <<listos, corto>>
      BY <1>8 DEF EsperarListo, ConsolaSola, Avisan
    <2>2. hay_ready' = hay_ready - 1 /\ consola.en = "esperarListo" /\ consola'.en = "ver"
      BY <1>8 DEF EsperarListo
    <2> QED
      BY <1>0, <1>1, <1>2, <2>1, <2>2 DEF Uno
  <1>9. BuscarNuevo \/ EsperarNuevo => ReadyIgual
    BY DEF BuscarNuevo, EsperarNuevo, ConsolaSola, ReadyIgual, Avisan
  <1>10. UNCHANGED vars => ReadyIgual
    BY DEF vars, procesos, semaforos, ReadyIgual, Avisan
  <1> HIDE DEF Tipos, TiposColas, TiposSem, TiposHilos, TiposConsola
  <1> QED
    BY <1>3, <1>4, <1>5, <1>6, <1>7, <1>8, <1>9, <1>10, OtrosPasos, HilosPasos, MarcoReady
       DEF Next, Consola, Corto, Hilo

\* hay_proceso_nuevo, likewise.
LEMMA PasoSemNuevo == Tipos /\ SemNuevo /\ [Next]_vars => SemNuevo'
  <1> SUFFICES ASSUME Tipos, SemNuevo, [Next]_vars PROVE SemNuevo'
    OBVIOUS
  <1> USE DEF Tipos, TiposColas, TiposSem, TiposHilos, TiposConsola, SemNuevo
  <1>0. Len(nuevos) \in Nat
    BY Colas
  <1>1. ASSUME NEW p \in Pids, Iniciar(p) PROVE SemNuevo'
    <2>1. Len(nuevos') = Len(nuevos) + 1
      BY <1>1, Colas DEF Iniciar
    <2> QED
      BY <1>0, <1>1, <2>1 DEF Iniciar, Uno
  <1>2. ASSUME TomarNuevo PROVE SemNuevo'
    <2>1. hilo["creacion"].en = "esperar" /\ hilo'["creacion"].en = "cupo"
      BY <1>2 DEF TomarNuevo, Avanzar, Hilos
    <2> QED
      BY <1>0, <1>2, <2>1 DEF TomarNuevo, procesos, Uno
  <1>3. ASSUME SacarNuevo PROVE SemNuevo'
    <2>1. hilo["creacion"].en = "sacar" /\ hilo'["creacion"].en = "poner"
      BY <1>3 DEF SacarNuevo, Hilos
    <2>2. Len(nuevos') = Len(nuevos) - 1
      BY <1>3, Colas DEF SacarNuevo
    <2> QED
      BY <1>0, <1>3, <2>1, <2>2 DEF SacarNuevo, semaforos, Uno
  <1>4. ASSUME BuscarNuevo PROVE SemNuevo'
    <2>1. CASE consola.pid \in ToSet(nuevos)
      <3>1. Len(nuevos') = Len(nuevos) - 1
        BY <1>4, <2>1, NuevosSinUno DEF BuscarNuevo
      <3>2. consola.en = "buscar" /\ consola'.en = "esperarNuevo"
        BY <1>4, <2>1 DEF BuscarNuevo
      <3>3. UNCHANGED <<hay_nuevo, hilo>>
        BY <1>4 DEF BuscarNuevo, ConsolaSola
      <3>4. PICK b \in Nat : /\ b = Uno(hilo["creacion"].en \in {"cupo", "sacar"})
                            /\ b = Uno(hilo["creacion"].en \in {"cupo", "sacar"})'
        BY <3>3 DEF Uno
      <3>5. /\ Uno(consola.en = "esperarNuevo") = 0
            /\ Uno(consola.en = "esperarNuevo")' = 1
        BY <3>2 DEF Uno
      <3> HIDE DEF Tipos, TiposColas, TiposSem, TiposHilos, TiposConsola
      <3> QED
        BY <1>0, <3>1, <3>3, <3>4, <3>5
    <2>2. CASE consola.pid \notin ToSet(nuevos)
      <3>1. NuevoIgual
        BY <1>4, <2>2 DEF BuscarNuevo, ConsolaSola, NuevoIgual
      <3> QED
        BY <3>1, MarcoNuevo
    <2> QED
      BY <2>1, <2>2
  <1>5. ASSUME EsperarNuevo PROVE SemNuevo'
    <2>1. consola.en = "esperarNuevo" /\ consola'.en = "quitar"
      BY <1>5 DEF EsperarNuevo
    <2>2. hay_nuevo' = hay_nuevo - 1 /\ UNCHANGED <<nuevos, hilo>> /\ hay_nuevo \in Nat
      BY <1>5 DEF EsperarNuevo, ConsolaSola
    <2>3. PICK b \in Nat : /\ b = Uno(hilo["creacion"].en \in {"cupo", "sacar"})
                          /\ b = Uno(hilo["creacion"].en \in {"cupo", "sacar"})'
      BY <2>2 DEF Uno
    <2>4. Uno(consola.en = "esperarNuevo") = 1 /\ Uno(consola.en = "esperarNuevo")' = 0
      BY <2>1 DEF Uno
    <2> HIDE DEF Tipos, TiposColas, TiposSem, TiposHilos, TiposConsola
    <2> QED
      BY <1>0, <2>2, <2>3, <2>4
  <1>6. BuscarListo \/ EsperarListo => NuevoIgual
    BY DEF BuscarListo, EsperarListo, ConsolaSola, NuevoIgual
  <1>7. UNCHANGED vars => NuevoIgual
    BY DEF vars, procesos, semaforos, NuevoIgual
  <1> HIDE DEF Tipos, TiposColas, TiposSem, TiposHilos, TiposConsola, SemNuevo
  <1> QED
    BY <1>1, <1>2, <1>3, <1>4, <1>5, <1>6, <1>7, OtrosPasos, HilosPasos, MarcoNuevo
       DEF Next, Consola, Creacion, Programa

-----------------------------------------------------------------------------
(* The invariant.                                                          *)

\* hay_proceso_a_ready and hay_proceso_nuevo always agree with their queues,
\* also while FINALIZAR_PROCESO takes a process out of the middle of one.
THEOREM SemaforosDeLaConsola == Spec => []SemaforosExactos
  <1> DEFINE Inv == Tipos /\ SemReady /\ SemNuevo
  <1>1. Init => Inv
    <2> SUFFICES ASSUME Init PROVE SemReady /\ SemNuevo
      BY InicioTipos
    <2>1. Avisan = {}
      BY DEF Init, Avisan, Quieto
    <2>2. Cardinality(Avisan) = 0
      BY <2>1, FS_EmptySet
    <2>3. hilo["creacion"].en = "esperar" /\ consola.en = "libre" /\ corto = "esperar"
      BY DEF Init, Quieto, ConsolaLibre, Hilos
    <2>4. Len(nuevos) = 0 /\ Len(listos) = 0 /\ hay_nuevo = 0 /\ hay_ready = 0
      BY DEF Init
    <2>5. SemReady
      BY <2>2, <2>3, <2>4 DEF SemReady, Avisan, Uno
    <2>6. SemNuevo
      BY <2>3, <2>4 DEF SemNuevo, Uno
    <2> QED
      BY <2>5, <2>6
  <1>2. Inv /\ [Next]_vars => Inv'
    BY PasoTipos, PasoSemReady, PasoSemNuevo
  <1>3. Inv => SemaforosExactos
    BY DEF SemaforosExactos
  <1> QED
    BY <1>1, <1>2, <1>3, PTL DEF Spec

\* The scheduler and creacion_de_procesos find a process in the queue each time
\* they pop: no FINALIZAR_PROCESO leaves them a post without a process, or a
\* queue_pop of an empty queue.
ColaConProceso ==
  /\ Sano /\ corto \in {"cpu", "sacar"} /\ ~MutexListosTomado => listos # <<>>
  /\ Sano /\ hilo["creacion"].en \in {"cupo", "sacar"} /\ ~MutexNuevosTomado => nuevos # <<>>

\* No thread pops an empty queue: the console waits for one post per process
\* that its scan takes out.
THEOREM NuncaColaVacia == Spec => []ColaConProceso
  <1>1. Tipos /\ SemaforosExactos => ColaConProceso
    <2> SUFFICES ASSUME Tipos, SemaforosExactos, Sano PROVE ColaConProceso
      BY DEF ColaConProceso
    <2>1. Cardinality(Avisan) \in Nat /\ Len(listos) \in Nat /\ Len(nuevos) \in Nat
      BY AvisanFinito, Colas DEF Tipos, TiposColas
    <2>2. hay_ready \in Nat /\ hay_nuevo \in Nat
      BY DEF Tipos, TiposSem
    <2>3. ASSUME corto \in {"cpu", "sacar"}, ~MutexListosTomado PROVE Len(listos) > 0
      BY <2>1, <2>2, <2>3 DEF SemaforosExactos, SemReady, Avisan, Uno, MutexListosTomado
    <2>4. ASSUME hilo["creacion"].en \in {"cupo", "sacar"}, ~MutexNuevosTomado
          PROVE  Len(nuevos) > 0
      BY <2>1, <2>2, <2>4 DEF SemaforosExactos, SemNuevo, Uno, MutexNuevosTomado
    <2> QED
      BY <2>3, <2>4, Colas DEF ColaConProceso, Tipos, TiposColas
  <1> QED
    BY <1>1, SiempreTipos, SemaforosDeLaConsola, PTL

-----------------------------------------------------------------------------
(* Where each process is.  There are ten places; Cuenta(p) says how many    *)
(* times p is in each of them, and Unico that it is in one of them, once,   *)
(* while it lives.  The rest of the invariant is what keeps that so: the     *)
(* state that a process in each place has, the shape of the threads, that   *)
(* pids are new, and that the CPU is one.                                   *)

Posee(h, p) == hilo[h].pid = p /\ hilo[h].en # "avisar"
Corre(p) == EnCpu(p) /\ hilo["despacho"] # [en |-> "poner", pid |-> p]
Vivo(p) == estado[p] \notin {"NADA", "FIN"}

Sitios == {"nuevos", "listos", "salida", "bloqueados", "cpu", "creacion", "despacho", "interfaz",
           "eliminacion", "consola"}
Cuenta(p) ==
  [l \in Sitios |->
     CASE l = "nuevos" -> Cuantos(nuevos, {p})
       [] l = "listos" -> Cuantos(listos, {p})
       [] l = "salida" -> Cuantos(salida, {p})
       [] l = "bloqueados" -> Uno(p \in bloqueados)
       [] l = "cpu" -> Uno(Corre(p))
       [] l \in Hilos -> Uno(Posee(l, p))
       [] l = "eliminacion" -> Uno(elim.pid = p)
       [] l = "consola" -> Uno(Sacado(p))]

En(f, l) == f[l] = 1 /\ \A m \in Sitios \ {l} : f[m] = 0
Nada(f) == \A l \in Sitios : f[l] = 0

\* The state of a process in each place.
DeHilo(h, antes) == IF hilo[h].en = "poner" THEN antes ELSE "READY"
Debe ==
  [l \in Sitios |->
     CASE l = "nuevos" -> "NEW"
       [] l = "listos" -> "READY"
       [] l \in {"salida", "eliminacion"} -> "EXIT"
       [] l = "bloqueados" -> "BLOCKED"
       [] l = "cpu" -> "EXEC"
       [] l = "creacion" -> DeHilo("creacion", "NEW")
       [] l = "despacho" -> DeHilo("despacho", "EXEC")
       [] l = "interfaz" -> DeHilo("interfaz", "BLOCKED")
       [] l = "consola" -> consola.caso]

MasTipos ==
  /\ salida \in Seq(Pids) /\ bloqueados \subseteq Pids /\ cpu_libre \in Nat /\ hay_exit \in Nat
  /\ elim \in [en : {"esperar", "quitar", "ver", "sumar", "restar"}, pid : Pids \cup {NULO},
               indice : Int]
Unico ==
  \A p \in Pids :
    IF Vivo(p) THEN \E l \in Sitios : En(Cuenta(p), l) ELSE Nada(Cuenta(p))
EnEstado == \A p \in Pids, l \in Sitios : Cuenta(p)[l] > 0 => estado[p] = Debe[l]
EnSistema == \A p \in Pids : Cuantos(sistema, {p}) = Uno(Vivo(p) /\ ~QuitadoDelSistema(p))
EnOrden == \E n \in 0 .. MAX_PIDS : \A p \in Pids : estado[p] # "NADA" <=> p < n
FormaHilos ==
  \A h \in Hilos :
    /\ hilo[h].en \in {"esperar", "cupo", "sacar"} => hilo[h].pid = NULO
    /\ hilo[h].en \in {"cupo", "sacar"} => h = "creacion"
FormaElim == IF elim.en = "esperar" THEN elim.pid = NULO ELSE elim.pid \in Pids
FormaConsola ==
  /\ consola.en \in {"libre", "bajar"} => consola.pid = NULO
  /\ consola.en \in {"libre", "bajar", "estado"} => consola.caso = "NADA"
  /\ consola.en = "buscar" => consola.caso \in {"NEW", "READY", "BLOCKED"}
  /\ consola.en = "esperarNuevo" => consola.caso = "NEW"
  /\ consola.en = "esperarListo" => consola.caso = "READY"
  /\ consola.en = "esperarMuerte" => consola.caso = "EXEC"
  /\ consola.en \in {"ver", "sumar", "restar"} => consola.caso \in {"READY", "BLOCKED", "EXEC"}
  /\ consola.en = "quitar" => consola.caso \in {"NEW", "READY", "BLOCKED", "EXEC"}
Avisados ==
  \A h \in Hilos : hilo[h].en = "avisar" => estado[hilo[h].pid] \notin {"NADA", "NEW"}
Ocupada == \E p \in Pids : EnCpu(p)
Dejada == hilo["despacho"].en \in {"avisar", "trabado"}
Matado == consola.caso = "EXEC" /\ consola.en = "quitar"
CpuUnica ==
  /\ \A p, q \in Pids : EnCpu(p) /\ EnCpu(q) => p = q
  /\ cpu_libre + Uno(corto = "sacar") + Uno(Ocupada) + Uno(Dejada) + Uno(Matado) = 1
SalidaExacta == hay_exit = Len(salida)

Formas == FormaHilos /\ FormaElim /\ FormaConsola
Orden == /\ MasTipos /\ Formas /\ Unico /\ EnEstado /\ EnSistema /\ EnOrden /\ Avisados
         /\ CpuUnica /\ SalidaExacta

-----------------------------------------------------------------------------
(* A process that moves.                                                    *)

LEMMA Nulo == NULO \notin Pids
  BY DEF NULO, Pids

\* A process that is in a place lives, and is in that one once and in no other.
LEMMA UnoSolo ==
  ASSUME Unico, NEW p \in Pids, NEW l \in Sitios, Cuenta(p)[l] # 0
  PROVE  Vivo(p) /\ En(Cuenta(p), l)
  BY DEF Unico, En, Nada

\* From place a to place b.
LEMMA Mudanza ==
  ASSUME NEW f, NEW g \in [Sitios -> Nat], NEW a \in Sitios, NEW b \in Sitios, En(f, a),
         \A l \in Sitios : g[l] + Uno(l = a) = f[l] + Uno(l = b)
  PROVE  En(g, b)
  <1>1. \A l \in Sitios : g[l] \in Nat
    OBVIOUS
  <1>2. ASSUME NEW l \in Sitios PROVE g[l] = IF l = b THEN 1 ELSE 0
    <2>1. g[l] + Uno(l = a) = f[l] + Uno(l = b) /\ f[l] = (IF l = a THEN 1 ELSE 0)
      BY DEF En
    <2> QED
      BY <1>1, <2>1 DEF Uno
  <1> QED
    BY <1>2 DEF En

LEMMA Valores ==
  ASSUME NEW p \in Pids
  PROVE  /\ Cuenta(p)["nuevos"] = Cuantos(nuevos, {p})
         /\ Cuenta(p)["listos"] = Cuantos(listos, {p})
         /\ Cuenta(p)["salida"] = Cuantos(salida, {p})
         /\ Cuenta(p)["bloqueados"] = Uno(p \in bloqueados)
         /\ Cuenta(p)["cpu"] = Uno(Corre(p))
         /\ \A h \in Hilos : h \in Sitios /\ Cuenta(p)[h] = Uno(Posee(h, p))
         /\ Cuenta(p)["eliminacion"] = Uno(elim.pid = p)
         /\ Cuenta(p)["consola"] = Uno(Sacado(p))
         /\ Sitios = Hilos \cup {"nuevos", "listos", "salida", "bloqueados", "cpu", "eliminacion",
                                 "consola"}
  BY DEF Cuenta, Sitios, Hilos

LEMMA ValoresLuego ==
  ASSUME NEW p \in Pids
  PROVE  /\ Cuenta(p)'["nuevos"] = Cuantos(nuevos', {p})
         /\ Cuenta(p)'["listos"] = Cuantos(listos', {p})
         /\ Cuenta(p)'["salida"] = Cuantos(salida', {p})
         /\ Cuenta(p)'["bloqueados"] = Uno(p \in bloqueados')
         /\ Cuenta(p)'["cpu"] = Uno(Corre(p)')
         /\ \A h \in Hilos : Cuenta(p)'[h] = Uno(Posee(h, p)')
         /\ Cuenta(p)'["eliminacion"] = Uno(elim'.pid = p)
         /\ Cuenta(p)'["consola"] = Uno(Sacado(p)')
  BY DEF Cuenta, Sitios, Hilos, Uno

LEMMA ValorHilo ==
  ASSUME NEW p \in Pids, NEW h \in Hilos
  PROVE  Cuenta(p)[h] = Uno(Posee(h, p)) /\ Cuenta(p)'[h] = Uno(Posee(h, p)')
  <1>1. \A g \in Hilos : Cuenta(p)[g] = Uno(Posee(g, p))
    BY Valores
  <1>2. \A g \in Hilos : Cuenta(p)'[g] = Uno(Posee(g, p)')
    BY ValoresLuego
  <1> QED
    BY <1>1, <1>2

LEMMA Naturales ==
  ASSUME TiposColas, MasTipos, NEW p \in Pids
  PROVE  Cuenta(p) \in [Sitios -> Nat]
  <1>1. /\ Cuantos(nuevos, {p}) \in Nat /\ Cuantos(listos, {p}) \in Nat
        /\ Cuantos(salida, {p}) \in Nat
    BY PosicionesFinitas DEF TiposColas, MasTipos
  <1>2. \A l \in Sitios : Cuenta(p)[l] \in Nat
    BY <1>1, Valores DEF Uno, Sitios
  <1> QED
    BY <1>2 DEF Cuenta

LEMMA NaturalesLuego ==
  ASSUME TiposColas', MasTipos', NEW p \in Pids
  PROVE  Cuenta(p)' \in [Sitios -> Nat]
  <1>1. /\ Cuantos(nuevos', {p}) \in Nat /\ Cuantos(listos', {p}) \in Nat
        /\ Cuantos(salida', {p}) \in Nat
    BY PosicionesFinitas DEF TiposColas, MasTipos
  <1>2. /\ Uno(p \in bloqueados') \in Nat /\ Uno(Corre(p)') \in Nat
        /\ \A h \in Hilos : Uno(Posee(h, p)') \in Nat
        /\ Uno(elim'.pid = p) \in Nat /\ Uno(Sacado(p)') \in Nat
    BY DEF Uno
  <1>3. /\ Cuenta(p)'["nuevos"] \in Nat /\ Cuenta(p)'["listos"] \in Nat
        /\ Cuenta(p)'["salida"] \in Nat
    <2>1. /\ Cuenta(p)'["nuevos"] = Cuantos(nuevos', {p})
          /\ Cuenta(p)'["listos"] = Cuantos(listos', {p})
          /\ Cuenta(p)'["salida"] = Cuantos(salida', {p})
      BY ValoresLuego
    <2> QED
      BY <1>1, <2>1
  <1>4. /\ Cuenta(p)'["bloqueados"] \in Nat /\ Cuenta(p)'["cpu"] \in Nat
        /\ Cuenta(p)'["eliminacion"] \in Nat /\ Cuenta(p)'["consola"] \in Nat
    <2>1. /\ Cuenta(p)'["bloqueados"] = Uno(p \in bloqueados')
          /\ Cuenta(p)'["cpu"] = Uno(Corre(p)')
          /\ Cuenta(p)'["eliminacion"] = Uno(elim'.pid = p)
          /\ Cuenta(p)'["consola"] = Uno(Sacado(p)')
      BY ValoresLuego
    <2> QED
      BY <1>2, <2>1
  <1>5. \A h \in Hilos : Cuenta(p)'[h] \in Nat
    BY <1>2, ValorHilo
  <1>6. \A l \in Sitios : Cuenta(p)'[l] \in Nat
    BY <1>3, <1>4, <1>5 DEF Sitios, Hilos
  <1> QED
    BY <1>6 DEF Cuenta

\* What does not move.
LEMMA Marcos ==
  ASSUME NEW p \in Pids
  PROVE  /\ nuevos' = nuevos => Cuenta(p)'["nuevos"] = Cuenta(p)["nuevos"]
         /\ listos' = listos => Cuenta(p)'["listos"] = Cuenta(p)["listos"]
         /\ salida' = salida => Cuenta(p)'["salida"] = Cuenta(p)["salida"]
         /\ bloqueados' = bloqueados => Cuenta(p)'["bloqueados"] = Cuenta(p)["bloqueados"]
         /\ \A h \in Hilos : hilo'[h] = hilo[h] => Cuenta(p)'[h] = Cuenta(p)[h]
         /\ elim'.pid = elim.pid => Cuenta(p)'["eliminacion"] = Cuenta(p)["eliminacion"]
         /\ consola' = consola => Cuenta(p)'["consola"] = Cuenta(p)["consola"]
         /\ /\ consola' = consola /\ hilo'["despacho"] = hilo["despacho"]
            /\ (estado'[p] = "EXEC") = (estado[p] = "EXEC")
            => Cuenta(p)'["cpu"] = Cuenta(p)["cpu"]
  <1>1. ASSUME NEW h \in Hilos, hilo'[h] = hilo[h] PROVE Cuenta(p)'[h] = Cuenta(p)[h]
    <2>1. Posee(h, p)' = Posee(h, p)
      BY <1>1 DEF Posee
    <2>2. Cuenta(p)'[h] = Uno(Posee(h, p)')
      BY ValoresLuego
    <2>3. Cuenta(p)[h] = Uno(Posee(h, p))
      BY Valores
    <2> QED
      BY <2>1, <2>2, <2>3
  <1>2. ASSUME consola' = consola PROVE Cuenta(p)'["consola"] = Cuenta(p)["consola"]
    <2>1. Sacado(p)' = Sacado(p)
      BY <1>2 DEF Sacado
    <2>2. Cuenta(p)'["consola"] = Uno(Sacado(p)')
      BY ValoresLuego
    <2>3. Cuenta(p)["consola"] = Uno(Sacado(p))
      BY Valores
    <2> QED
      BY <2>1, <2>2, <2>3
  <1>3. ASSUME consola' = consola, hilo'["despacho"] = hilo["despacho"],
               (estado'[p] = "EXEC") = (estado[p] = "EXEC")
        PROVE  Cuenta(p)'["cpu"] = Cuenta(p)["cpu"]
    <2>1. Corre(p)' = Corre(p)
      BY <1>3 DEF Corre, EnCpu
    <2>2. Cuenta(p)'["cpu"] = Uno(Corre(p)')
      BY ValoresLuego
    <2>3. Cuenta(p)["cpu"] = Uno(Corre(p))
      BY Valores
    <2> QED
      BY <2>1, <2>2, <2>3
  <1>4. /\ Cuenta(p)["nuevos"] = Cuantos(nuevos, {p})
        /\ Cuenta(p)["listos"] = Cuantos(listos, {p})
        /\ Cuenta(p)["salida"] = Cuantos(salida, {p})
    BY Valores
  <1>4a. /\ Cuenta(p)'["nuevos"] = Cuantos(nuevos', {p})
         /\ Cuenta(p)'["listos"] = Cuantos(listos', {p})
         /\ Cuenta(p)'["salida"] = Cuantos(salida', {p})
    BY ValoresLuego
  <1>4b. /\ nuevos' = nuevos => Cuenta(p)'["nuevos"] = Cuenta(p)["nuevos"]
         /\ listos' = listos => Cuenta(p)'["listos"] = Cuenta(p)["listos"]
         /\ salida' = salida => Cuenta(p)'["salida"] = Cuenta(p)["salida"]
    BY <1>4, <1>4a
  <1>5. ASSUME bloqueados' = bloqueados PROVE Cuenta(p)'["bloqueados"] = Cuenta(p)["bloqueados"]
    <2>1. Cuenta(p)["bloqueados"] = Uno(p \in bloqueados)
      BY Valores
    <2>2. Cuenta(p)'["bloqueados"] = Uno(p \in bloqueados')
      BY ValoresLuego
    <2> QED
      BY <1>5, <2>1, <2>2
  <1>6. ASSUME elim'.pid = elim.pid PROVE Cuenta(p)'["eliminacion"] = Cuenta(p)["eliminacion"]
    <2>1. Cuenta(p)["eliminacion"] = Uno(elim.pid = p)
      BY Valores
    <2>2. Cuenta(p)'["eliminacion"] = Uno(elim'.pid = p)
      BY ValoresLuego
    <2> QED
      BY <1>6, <2>1, <2>2
  <1> QED
    BY <1>1, <1>2, <1>3, <1>4b, <1>5, <1>6

LEMMA Traslado ==
  ASSUME Unico, EnEstado, TiposColas', MasTipos', NEW q \in Pids, NEW a \in Sitios,
         NEW b \in Sitios \ {a},
         \A p \in Pids : \A l \in Sitios \ {a, b} : Cuenta(p)'[l] = Cuenta(p)[l],
         \A p \in Pids : /\ Cuenta(p)[a] = Cuenta(p)'[a] + (IF p = q THEN 1 ELSE 0)
                         /\ Cuenta(p)'[b] = Cuenta(p)[b] + (IF p = q THEN 1 ELSE 0),
         \A p \in Pids \ {q} : estado'[p] = estado[p],
         Vivo(q)', Debe'[b] = estado'[q],
         \A p \in Pids \ {q}, l \in Sitios : Cuenta(p)[l] # 0 => Debe'[l] = Debe[l]
  PROVE  Unico' /\ EnEstado'
  <1>1. \A p \in Pids : Cuenta(p)' \in [Sitios -> Nat]
    BY NaturalesLuego
  <1>2. En(Cuenta(q)', b)
    <2>1. Cuenta(q)'[a] \in Nat
      BY <1>1
    <2>2. Cuenta(q)[a] # 0
      BY <2>1 DEF Uno
    <2>3. En(Cuenta(q), a)
      BY <2>2, UnoSolo
    <2>4. \A l \in Sitios : Cuenta(q)'[l] + Uno(l = a) = Cuenta(q)[l] + Uno(l = b)
      <3>1. \A l \in Sitios : Cuenta(q)'[l] \in Nat
        BY <1>1
      <3> QED
        BY <2>3, <3>1 DEF Uno, En
    <2> QED
      BY <1>1, <2>3, <2>4, Mudanza
  <1>3. ASSUME NEW p \in Pids \ {q}, NEW l \in Sitios PROVE Cuenta(p)'[l] = Cuenta(p)[l]
    <2>1. Cuenta(p)'[l] \in Nat
      BY <1>1, <1>3
    <2>2. CASE l = a
      BY <1>3, <2>1, <2>2
    <2>3. CASE l = b
      <3>1. Cuenta(p)'[b] = Cuenta(p)[b] + 0
        BY <1>3, <2>1
      <3>2. Cuenta(p)[b] \in Nat
        BY <1>3 DEF Unico, En, Nada
      <3> QED
        BY <2>3, <3>1, <3>2
    <2> QED
      BY <1>3, <2>2, <2>3
  <1>4. Unico'
    <2> SUFFICES ASSUME NEW p \in Pids
                 PROVE  IF Vivo(p)' THEN \E l \in Sitios : En(Cuenta(p)', l) ELSE Nada(Cuenta(p)')
      BY DEF Unico
    <2>1. CASE p = q
      BY <1>2, <2>1
    <2>2. CASE p # q
      <3>1. (Vivo(p)' <=> Vivo(p)) /\ \A l \in Sitios : Cuenta(p)'[l] = Cuenta(p)[l]
        BY <1>3, <2>2 DEF Vivo
      <3>2. IF Vivo(p) THEN \E l \in Sitios : En(Cuenta(p), l) ELSE Nada(Cuenta(p))
        BY DEF Unico
      <3> QED
        BY <3>1, <3>2 DEF En, Nada
    <2> QED
      BY <2>1, <2>2
  <1>5. EnEstado'
    <2> SUFFICES ASSUME NEW p \in Pids, NEW l \in Sitios, Cuenta(p)'[l] > 0
                 PROVE  estado'[p] = Debe'[l]
      BY DEF EnEstado
    <2>1. CASE p = q
      <3>1. l = b
        BY <1>2, <2>1 DEF En
      <3> QED
        BY <2>1, <3>1
    <2>2. CASE p # q
      <3>1. Cuenta(p)[l] > 0
        BY <1>3, <2>2
      <3> QED
        BY <2>2, <3>1 DEF EnEstado
    <2> QED
      BY <2>1, <2>2
  <1> QED
    BY <1>4, <1>5

LEMMA Quietud ==
  ASSUME Unico, EnEstado,
         \A p \in Pids : \A l \in Sitios : Cuenta(p)'[l] = Cuenta(p)[l],
         \A p \in Pids : Vivo(p)' <=> Vivo(p),
         \A p \in Pids, l \in Sitios :
           Cuenta(p)[l] # 0 => \/ estado'[p] = estado[p] /\ Debe'[l] = Debe[l]
                               \/ estado'[p] = Debe'[l]
  PROVE  Unico' /\ EnEstado'
  <1>1. Unico'
    BY DEF Unico, En, Nada
  <1>2. EnEstado'
    <2> SUFFICES ASSUME NEW p \in Pids, NEW l \in Sitios, Cuenta(p)'[l] > 0
                 PROVE  estado'[p] = Debe'[l]
      BY DEF EnEstado
    <2>1. Cuenta(p)[l] > 0
      OBVIOUS
    <2> QED
      BY <2>1 DEF EnEstado
  <1> QED
    BY <1>1, <1>2

LEMMA Muerte ==
  ASSUME Unico, EnEstado, TiposColas', MasTipos', NEW q \in Pids, NEW a \in Sitios,
         Cuenta(q)[a] # 0,
         \A p \in Pids : \A l \in Sitios \ {a} : Cuenta(p)'[l] = Cuenta(p)[l],
         \A p \in Pids \ {q} : estado'[p] = estado[p] /\ Cuenta(p)'[a] = Cuenta(p)[a],
         Cuenta(q)'[a] = 0, ~Vivo(q)',
         \A p \in Pids \ {q}, l \in Sitios : Cuenta(p)[l] # 0 => Debe'[l] = Debe[l]
  PROVE  Unico' /\ EnEstado'
  <1>1. En(Cuenta(q), a)
    BY UnoSolo
  <1>2. Nada(Cuenta(q)')
    BY <1>1 DEF En, Nada
  <1>3. ASSUME NEW p \in Pids \ {q}, NEW l \in Sitios PROVE Cuenta(p)'[l] = Cuenta(p)[l]
    OBVIOUS
  <1>4. Unico'
    <2> SUFFICES ASSUME NEW p \in Pids
                 PROVE  IF Vivo(p)' THEN \E l \in Sitios : En(Cuenta(p)', l) ELSE Nada(Cuenta(p)')
      BY DEF Unico
    <2>1. CASE p = q
      BY <1>2, <2>1
    <2>2. CASE p # q
      <3>1. (Vivo(p)' <=> Vivo(p)) /\ \A l \in Sitios : Cuenta(p)'[l] = Cuenta(p)[l]
        BY <1>3, <2>2 DEF Vivo
      <3>2. IF Vivo(p) THEN \E l \in Sitios : En(Cuenta(p), l) ELSE Nada(Cuenta(p))
        BY DEF Unico
      <3> QED
        BY <3>1, <3>2 DEF En, Nada
    <2> QED
      BY <2>1, <2>2
  <1>5. EnEstado'
    <2> SUFFICES ASSUME NEW p \in Pids, NEW l \in Sitios, Cuenta(p)'[l] > 0
                 PROVE  estado'[p] = Debe'[l]
      BY DEF EnEstado
    <2>1. p # q
      BY <1>2 DEF Nada
    <2>2. Cuenta(p)[l] > 0
      BY <1>3, <2>1
    <2> QED
      BY <2>1, <2>2 DEF EnEstado
  <1> QED
    BY <1>4, <1>5

LEMMA Nacimiento ==
  ASSUME Unico, EnEstado, TiposColas', MasTipos', NEW q \in Pids, NEW b \in Sitios,
         ~Vivo(q), Vivo(q)',
         \A p \in Pids : \A l \in Sitios \ {b} : Cuenta(p)'[l] = Cuenta(p)[l],
         \A p \in Pids \ {q} : estado'[p] = estado[p] /\ Cuenta(p)'[b] = Cuenta(p)[b],
         Cuenta(q)'[b] = 1, Debe'[b] = estado'[q],
         \A p \in Pids \ {q}, l \in Sitios : Cuenta(p)[l] # 0 => Debe'[l] = Debe[l]
  PROVE  Unico' /\ EnEstado'
  <1>1. Nada(Cuenta(q))
    BY DEF Unico
  <1>2. En(Cuenta(q)', b)
    BY <1>1 DEF En, Nada
  <1>3. ASSUME NEW p \in Pids \ {q}, NEW l \in Sitios PROVE Cuenta(p)'[l] = Cuenta(p)[l]
    OBVIOUS
  <1>4. Unico'
    <2> SUFFICES ASSUME NEW p \in Pids
                 PROVE  IF Vivo(p)' THEN \E l \in Sitios : En(Cuenta(p)', l) ELSE Nada(Cuenta(p)')
      BY DEF Unico
    <2>1. CASE p = q
      BY <1>2, <2>1
    <2>2. CASE p # q
      <3>1. (Vivo(p)' <=> Vivo(p)) /\ \A l \in Sitios : Cuenta(p)'[l] = Cuenta(p)[l]
        BY <1>3, <2>2 DEF Vivo
      <3>2. IF Vivo(p) THEN \E l \in Sitios : En(Cuenta(p), l) ELSE Nada(Cuenta(p))
        BY DEF Unico
      <3> QED
        BY <3>1, <3>2 DEF En, Nada
    <2> QED
      BY <2>1, <2>2
  <1>5. EnEstado'
    <2> SUFFICES ASSUME NEW p \in Pids, NEW l \in Sitios, Cuenta(p)'[l] > 0
                 PROVE  estado'[p] = Debe'[l]
      BY DEF EnEstado
    <2>1. CASE p = q
      <3>1. l = b
        BY <1>2, <2>1 DEF En
      <3> QED
        BY <2>1, <3>1
    <2>2. CASE p # q
      <3>1. Cuenta(p)[l] > 0
        BY <1>3, <2>2
      <3> QED
        BY <2>2, <3>1 DEF EnEstado
    <2> QED
      BY <2>1, <2>2
  <1> QED
    BY <1>4, <1>5

LEMMA MarcoDebe ==
  /\ \A l \in Sitios \ (Hilos \cup {"consola"}) : Debe'[l] = Debe[l]
  /\ \A h \in Hilos : (hilo'[h].en = "poner") = (hilo[h].en = "poner") => Debe'[h] = Debe[h]
  /\ consola'.caso = consola.caso => Debe'["consola"] = Debe["consola"]
  BY DEF Debe, DeHilo, Hilos, Sitios

LEMMA ValorDebe ==
  /\ Debe'["nuevos"] = "NEW" /\ Debe'["listos"] = "READY" /\ Debe'["salida"] = "EXIT"
  /\ Debe'["eliminacion"] = "EXIT" /\ Debe'["bloqueados"] = "BLOCKED" /\ Debe'["cpu"] = "EXEC"
  /\ Debe'["consola"] = consola'.caso
  /\ hilo'["creacion"].en = "poner" => Debe'["creacion"] = "NEW"
  /\ hilo'["despacho"].en = "poner" => Debe'["despacho"] = "EXEC"
  /\ hilo'["interfaz"].en = "poner" => Debe'["interfaz"] = "BLOCKED"
  /\ \A h \in Hilos : hilo'[h].en # "poner" => Debe'[h] = "READY"
  BY DEF Debe, DeHilo, Hilos, Sitios

-----------------------------------------------------------------------------
(* What goes in and out of the queues.                                      *)

LEMMA Entra ==
  ASSUME NEW S, NEW s \in Seq(S), NEW e \in S, NEW p
  PROVE  Cuantos(Append(s, e), {p}) = Cuantos(s, {p}) + (IF p = e THEN 1 ELSE 0)
  <1>1. Cuantos(Append(s, e), {p}) = Cuantos(s, {p}) + (IF e \in {p} THEN 1 ELSE 0)
    BY CuantosAppend
  <1> QED
    BY <1>1

LEMMA EntraProceso ==
  ASSUME NEW s \in Seq(Pids), NEW e \in Pids, NEW p
  PROVE  Cuantos(Append(s, e), {p}) = Cuantos(s, {p}) + (IF p = e THEN 1 ELSE 0)
  <1>1. \A T : Cuantos(Append(s, e), T) = Cuantos(s, T) + (IF e \in T THEN 1 ELSE 0)
    BY CuantosAppend
  <1>2. e \in {p} <=> p = e
    OBVIOUS
  <1> QED
    BY <1>1, <1>2

LEMMA Sale ==
  ASSUME NEW S, NEW s \in Seq(S), s # <<>>, NEW p
  PROVE  Cuantos(s, {p}) = Cuantos(Tail(s), {p}) + (IF p = Head(s) THEN 1 ELSE 0)
  <1>1. Cuantos(s, {p}) = Cuantos(Tail(s), {p}) + (IF Head(s) \in {p} THEN 1 ELSE 0)
    BY CuantosTail
  <1> QED
    BY <1>1

LEMMA SaleDelMedio ==
  ASSUME NEW S, NEW s \in Seq(S), NEW i \in 1 .. Len(s), NEW p
  PROVE  Cuantos(s, {p}) = Cuantos(RemoveAt(s, i), {p}) + (IF p = s[i] THEN 1 ELSE 0)
  <1>1. RemoveAt(s, i) = Antes(s, i) \o Despues(s, i)
    BY DEF RemoveAt, Antes, Despues
  <1>2. Cuantos(s, {p}) = Cuantos(Antes(s, i) \o Despues(s, i), {p})
                          + (IF s[i] \in {p} THEN 1 ELSE 0)
    BY CuantosSinUno
  <1> QED
    BY <1>1, <1>2

LEMMA SaleProceso ==
  ASSUME NEW s \in Seq(Pids), NEW i \in 1 .. Len(s), NEW p
  PROVE  Cuantos(s, {p}) = Cuantos(RemoveAt(s, i), {p}) + (IF p = s[i] THEN 1 ELSE 0)
  <1>1. RemoveAt(s, i) = Antes(s, i) \o Despues(s, i)
    BY DEF RemoveAt, Antes, Despues
  <1>2. \A T : Cuantos(s, T) = Cuantos(Antes(s, i) \o Despues(s, i), T)
                              + (IF s[i] \in T THEN 1 ELSE 0)
    BY CuantosSinUno
  <1>3. s[i] \in {p} <=> p = s[i]
    OBVIOUS
  <1> QED
    BY <1>1, <1>2, <1>3

LEMMA SaleDeNuevos ==
  ASSUME nuevos \in Seq(Pids), NEW q \in ToSet(nuevos), NEW p
  PROVE  Cuantos(nuevos, {p}) = Cuantos(NuevosSin(q), {p}) + (IF p = q THEN 1 ELSE 0)
  <1> DEFINE k == Posicion(q, nuevos)
  <1>1. k \in 1 .. Len(nuevos) /\ nuevos[k] = q
    BY EstaEn
  <1>2. NuevosSin(q) = Despues(nuevos, k) \o Antes(nuevos, k)
    BY DEF NuevosSin, Antes, Despues
  <1> HIDE DEF k
  <1>4. Cuantos(nuevos, {p}) = Cuantos(Despues(nuevos, k) \o Antes(nuevos, k), {p})
                               + (IF nuevos[k] \in {p} THEN 1 ELSE 0)
    BY <1>1, CuantosSinUno
  <1> QED
    BY <1>1, <1>2, <1>4

LEMMA UltimoAlFrente ==
  ASSUME NEW S, NEW s \in Seq(S), Len(s) > 0, NEW p
  PROVE  Cuantos(<<Last(s)>> \o Front(s), {p}) = Cuantos(s, {p})
  <1> DEFINE n == Len(s)
             x == s[n]
             a == Antes(s, n)
             b == Despues(s, n)
  <1>3. Last(s) = x /\ Front(s) = a
    BY DEF Last, Front, Antes
  <1>1. n \in 1 .. Len(s) /\ n \in Nat /\ n = Len(s)
    OBVIOUS
  <1> HIDE DEF n
  <1>2. a \in Seq(S) /\ b \in Seq(S) /\ Len(b) = 0 /\ x \in S
    <2>1. Len(b) = Len(s) - n
      BY <1>1, Partes
    <2>2. a \in Seq(S) /\ b \in Seq(S) /\ x \in S
      BY <1>1, Partes
    <2> QED
      BY <1>1, <2>1, <2>2
  <1>4. Cuantos(s, {p}) = Cuantos(b \o a, {p}) + (IF x \in {p} THEN 1 ELSE 0)
    <2>1. \A T : Cuantos(s, T) = Cuantos(Despues(s, n) \o Antes(s, n), T)
                                + (IF s[n] \in T THEN 1 ELSE 0)
      BY <1>1, CuantosSinUno
    <2> QED
      BY <2>1
  <1> HIDE DEF n, x, a, b
  <1>5. b = <<>>
    BY <1>2
  <1>6. b \o a = a
    BY <1>2, <1>5
  <1> DEFINE u == <<x>>
             v == <<>>
  <1>7. u \in Seq(S) /\ v \in Seq(S) /\ u = Append(v, x)
    BY <1>2
  <1>8. Cuantos(v, {p}) = 0
    BY CuantosVacia
  <1>9. Cuantos(a, {p}) \in Nat
    BY <1>2, PosicionesFinitas
  <1>10. Last(s) = x /\ Front(s) = a /\ <<Last(s)>> = u
    BY <1>3
  <1> HIDE DEF u, v
  <1>11. Cuantos(u \o a, {p}) = Cuantos(u, {p}) + Cuantos(a, {p})
    <2>1. PICK T : T = {p}
      OBVIOUS
    <2>2. Cuantos(u \o a, T) = Cuantos(u, T) + Cuantos(a, T)
      BY <1>2, <1>7, CuantosConcat
    <2> QED
      BY <2>1, <2>2
  <1>12. Cuantos(u, {p}) = 0 + (IF x \in {p} THEN 1 ELSE 0)
    BY <1>2, <1>7, <1>8, CuantosAppend
  <1> QED
    BY <1>4, <1>6, <1>9, <1>10, <1>11, <1>12

LEMMA SaleDeListos ==
  ASSUME listos \in Seq(Pids), NEW q \in ToSet(listos), NEW p
  PROVE  Cuantos(listos, {p}) = Cuantos(ListosSin(q), {p}) + (IF p = q THEN 1 ELSE 0)
  <1> DEFINE i == Posicion(q, listos)
  <1>1. i \in 1 .. Len(listos) /\ listos[i] = q
    BY EstaEn
  <1>2. ListosSin(q) = IF Last(listos) = q THEN RemoveAt(listos, i)
                       ELSE <<Last(RemoveAt(listos, i))>> \o Front(RemoveAt(listos, i))
    BY DEF ListosSin
  <1> HIDE DEF i
  <1>3. Cuantos(listos, {p}) = Cuantos(RemoveAt(listos, i), {p}) + (IF p = q THEN 1 ELSE 0)
    BY <1>1, SaleProceso
  <1>4. RemoveAt(listos, i) \in Seq(Pids) /\ Len(RemoveAt(listos, i)) = Len(listos) - 1
    BY <1>1, SinUno
  <1>5. CASE Last(listos) = q
    BY <1>2, <1>3, <1>5
  <1>6. CASE Last(listos) # q
    <2>1. Len(RemoveAt(listos, i)) > 0
      BY <1>1, <1>4, <1>6 DEF Last
    <2> DEFINE otros == RemoveAt(listos, i)
    <2>2. otros \in Seq(Pids) /\ Len(otros) > 0 /\ ListosSin(q) = <<Last(otros)>> \o Front(otros)
      BY <1>2, <1>4, <1>6, <2>1
    <2>3. Cuantos(listos, {p}) = Cuantos(otros, {p}) + (IF p = q THEN 1 ELSE 0)
      BY <1>3
    <2> HIDE DEF otros
    <2>4. Cuantos(<<Last(otros)>> \o Front(otros), {p}) = Cuantos(otros, {p})
      BY <2>2, UltimoAlFrente
    <2> QED
      BY <2>2, <2>3, <2>4
  <1> QED
    BY <1>5, <1>6

\* A process in a sequence is counted in it.
LEMMA EstaSiCuenta ==
  ASSUME NEW S, NEW s \in Seq(S), NEW p
  PROVE  /\ Cuantos(s, {p}) \in Nat
         /\ Cuantos(s, {p}) # 0 <=> p \in ToSet(s)
  <1>1. Cuantos(s, {p}) \in Nat
    BY PosicionesFinitas
  <1>2. Cuantos(s, {p}) > 0 <=> \E k \in DOMAIN s : s[k] \in {p}
    BY CuantosPositivo
  <1>3. (\E k \in DOMAIN s : s[k] \in {p}) <=> p \in ToSet(s)
    BY DEF ToSet
  <1> QED
    BY <1>1, <1>2, <1>3

-----------------------------------------------------------------------------
(* Steps after which every process is where it was.                         *)

LEMMA SoloHilo ==
  ASSUME Unico, EnEstado, NEW h \in Hilos, hilo[h].en # "poner", hilo'[h].en # "poner",
         UNCHANGED <<estado, nuevos, listos, salida, bloqueados, elim, consola>>,
         \A g \in Hilos \ {h} : hilo'[g] = hilo[g],
         \A p \in Pids : Posee(h, p)' = Posee(h, p)
  PROVE  Unico' /\ EnEstado'
  <1>1. ASSUME NEW p \in Pids, NEW l \in Sitios PROVE Cuenta(p)'[l] = Cuenta(p)[l]
    <2>1. Cuenta(p)'["cpu"] = Cuenta(p)["cpu"]
      <3>1. Corre(p)' = Corre(p)
        BY DEF Corre, EnCpu, Hilos
      <3>2. Cuenta(p)["cpu"] = Uno(Corre(p))
        BY Valores
      <3>3. Cuenta(p)'["cpu"] = Uno(Corre(p)')
        BY ValoresLuego
      <3> QED
        BY <3>1, <3>2, <3>3
    <2>2. Cuenta(p)'[h] = Cuenta(p)[h]
      <3>1. Cuenta(p)[h] = Uno(Posee(h, p))
        BY ValorHilo
      <3>2. Cuenta(p)'[h] = Uno(Posee(h, p)')
        BY ValorHilo
      <3> QED
        BY <3>1, <3>2
    <2>3. \A g \in Hilos \ {h} : Cuenta(p)'[g] = Cuenta(p)[g]
      BY Marcos
    <2>4. /\ Cuenta(p)'["nuevos"] = Cuenta(p)["nuevos"]
          /\ Cuenta(p)'["listos"] = Cuenta(p)["listos"]
          /\ Cuenta(p)'["salida"] = Cuenta(p)["salida"]
          /\ Cuenta(p)'["bloqueados"] = Cuenta(p)["bloqueados"]
          /\ Cuenta(p)'["eliminacion"] = Cuenta(p)["eliminacion"]
          /\ Cuenta(p)'["consola"] = Cuenta(p)["consola"]
      BY Marcos
    <2> QED
      BY <2>1, <2>2, <2>3, <2>4 DEF Sitios, Hilos
  <1>2. \A l \in Sitios : Debe'[l] = Debe[l]
    <2>1. \A g \in Hilos : Debe'[g] = Debe[g]
      BY MarcoDebe
    <2>2. Debe'["consola"] = Debe["consola"]
      BY MarcoDebe
    <2> QED
      BY <2>1, <2>2, MarcoDebe
  <1>3. \A p \in Pids : Vivo(p)' <=> Vivo(p)
    BY DEF Vivo
  <1> QED
    BY <1>1, <1>2, <1>3, Quietud

LEMMA SoloConsola ==
  ASSUME Unico, EnEstado, UNCHANGED <<estado, nuevos, listos, salida, bloqueados, hilo>>,
         elim'.pid = elim.pid,
         \A p \in Pids : /\ Sacado(p)' = Sacado(p) /\ EnCpu(p)' = EnCpu(p)
                         /\ Sacado(p) => consola'.caso = consola.caso
  PROVE  Unico' /\ EnEstado'
  <1>1. ASSUME NEW p \in Pids, NEW l \in Sitios PROVE Cuenta(p)'[l] = Cuenta(p)[l]
    <2>1. Cuenta(p)'["cpu"] = Cuenta(p)["cpu"]
      <3>1. Corre(p)' = Corre(p)
        BY DEF Corre
      <3>2. Cuenta(p)["cpu"] = Uno(Corre(p))
        BY Valores
      <3>3. Cuenta(p)'["cpu"] = Uno(Corre(p)')
        BY ValoresLuego
      <3> QED
        BY <3>1, <3>2, <3>3
    <2>2. Cuenta(p)'["consola"] = Cuenta(p)["consola"]
      <3>1. Cuenta(p)["consola"] = Uno(Sacado(p))
        BY Valores
      <3>2. Cuenta(p)'["consola"] = Uno(Sacado(p)')
        BY ValoresLuego
      <3> QED
        BY <3>1, <3>2
    <2>3. \A g \in Hilos : Cuenta(p)'[g] = Cuenta(p)[g]
      BY Marcos
    <2>4. /\ Cuenta(p)'["nuevos"] = Cuenta(p)["nuevos"]
          /\ Cuenta(p)'["listos"] = Cuenta(p)["listos"]
          /\ Cuenta(p)'["salida"] = Cuenta(p)["salida"]
          /\ Cuenta(p)'["bloqueados"] = Cuenta(p)["bloqueados"]
          /\ Cuenta(p)'["eliminacion"] = Cuenta(p)["eliminacion"]
      BY Marcos
    <2> QED
      BY <2>1, <2>2, <2>3, <2>4 DEF Sitios, Hilos
  <1>2. ASSUME NEW p \in Pids, NEW l \in Sitios, Cuenta(p)[l] # 0 PROVE Debe'[l] = Debe[l]
    <2>1. \A g \in Hilos : Debe'[g] = Debe[g]
      BY MarcoDebe
    <2>2. l = "consola" => Debe'[l] = Debe[l]
      <3>1. ASSUME l = "consola" PROVE consola'.caso = consola.caso
        <4>1. Cuenta(p)["consola"] = Uno(Sacado(p))
          BY Valores
        <4> QED
          BY <1>2, <3>1, <4>1 DEF Uno
      <3> QED
        BY <3>1, MarcoDebe
    <2> QED
      BY <2>1, <2>2, MarcoDebe
  <1>3. \A p \in Pids : Vivo(p)' <=> Vivo(p)
    BY DEF Vivo
  <1> QED
    BY <1>1, <1>2, <1>3, Quietud

LEMMA HilosQuietos ==
  ASSUME Tipos, Orden, TomarNuevo \/ TomarCupo \/ \E h \in Hilos : AvisarListo(h)
  PROVE  Unico' /\ EnEstado'
  <1>0. hilo \in [Hilos -> [en : LugaresHilo, pid : Pids \cup {NULO}]] /\ NULO \notin Pids
        /\ "creacion" \in Hilos /\ Unico /\ EnEstado /\ FormaHilos
    BY Nulo DEF Tipos, TiposHilos, Hilos, Orden, Formas
  <1>1. ASSUME TomarNuevo \/ TomarCupo PROVE Unico' /\ EnEstado'
    <2>1. /\ UNCHANGED <<estado, nuevos, listos, salida, bloqueados, elim, consola>>
          /\ hilo["creacion"].en \in {"esperar", "cupo"}
      BY <1>1 DEF TomarNuevo, TomarCupo, procesos
    <2>2. PICK e \in {"cupo", "sacar"} : hilo' = [hilo EXCEPT !["creacion"].en = e]
      BY <1>1 DEF TomarNuevo, TomarCupo, Avanzar
    <2>3. hilo["creacion"].pid = NULO
      BY <1>0, <2>1 DEF FormaHilos
    <2>4. hilo'["creacion"].pid = NULO /\ hilo'["creacion"].en = e
      BY <1>0, <2>2, <2>3
    <2>5. \A g \in Hilos \ {"creacion"} : hilo'[g] = hilo[g]
      BY <1>0, <2>2
    <2>6. ASSUME NEW p \in Pids PROVE Posee("creacion", p)' = Posee("creacion", p)
      BY <1>0, <2>3, <2>4 DEF Posee
    <2> QED
      BY <1>0, <2>1, <2>2, <2>4, <2>5, <2>6, SoloHilo
  <1>2. ASSUME NEW h \in Hilos, AvisarListo(h) PROVE Unico' /\ EnEstado'
    <2>1. /\ UNCHANGED <<estado, nuevos, listos, salida, bloqueados, elim, consola>>
          /\ hilo[h].en = "avisar" /\ hilo' = [hilo EXCEPT ![h] = Quieto]
      BY <1>2 DEF AvisarListo, procesos
    <2>2. hilo'[h].en = "esperar" /\ hilo'[h].pid = NULO
      BY <1>0, <2>1 DEF Quieto
    <2>3. \A g \in Hilos \ {h} : hilo'[g] = hilo[g]
      BY <1>0, <2>1
    <2>4. ASSUME NEW p \in Pids PROVE Posee(h, p)' = Posee(h, p)
      BY <1>0, <2>1, <2>2 DEF Posee
    <2> QED
      BY <1>0, <2>1, <2>2, <2>3, <2>4, SoloHilo
  <1> QED
    BY <1>1, <1>2

\* MULTIPROGRAMACION names no process.
LEMMA LugarGrado ==
  ASSUME TiposConsola, FormaConsola, Grado
  PROVE  /\ consola.en \in {"libre", "bajar"} /\ consola'.en \in {"libre", "bajar"}
         /\ consola.caso = "NADA" /\ consola'.caso = "NADA"
         /\ consola.pid = NULO /\ consola'.pid = NULO
  <1>0. consola \in [en : LugaresConsola, pid : Pids \cup {NULO}, indice : Nat, caso : Estados,
                      esperas : Nat, resto : Nat]
    BY DEF TiposConsola
  <1>1. ASSUME EsperarCupo
        PROVE  /\ consola.en = "bajar" /\ consola'.en = "bajar"
               /\ consola'.caso = consola.caso /\ consola'.pid = consola.pid
    BY <1>0, <1>1 DEF EsperarCupo
  <1>2. ASSUME AnotarResto
        PROVE  /\ consola.en = "bajar" /\ consola'.en = "libre"
               /\ consola'.caso = "NADA" /\ consola'.pid = NULO
    BY <1>2 DEF AnotarResto, ConsolaLibre
  <1>3. ASSUME NEW n \in Grados, SubirGrado(n) PROVE consola.en = "libre" /\ consola' = consola
    BY <1>3 DEF SubirGrado
  <1>4. ASSUME NEW n \in Grados, BajarGrado(n)
        PROVE  /\ consola.en = "libre" /\ consola'.en = "bajar"
               /\ consola'.caso = "NADA" /\ consola'.pid = NULO
    BY <1>4 DEF BajarGrado, ConsolaLibre
  <1> QED
    BY <1>1, <1>2, <1>3, <1>4 DEF Grado, FormaConsola

LEMMA ConsolaQuieta ==
  ASSUME Tipos, Orden,
         \/ TomarListo \/ TomarCpu \/ ElimQuitar \/ ElimVerCupo \/ LeerEstado \/ EsperarNuevo
         \/ EsperarListo \/ VerCupoConsola \/ Grado \/ UNCHANGED vars
         \/ Quitar /\ consola.caso = "EXEC"
         \/ DarCupoConsola /\ consola.caso # "EXEC"
         \/ \E p \in Pids : Finalizar(p)
  PROVE  Unico' /\ EnEstado'
  <1>0. TiposConsola /\ FormaConsola /\ Unico /\ EnEstado /\ NULO \notin Pids /\ MasTipos
    BY Nulo DEF Tipos, Orden, Formas
  <1>1. CASE TomarListo \/ TomarCpu \/ ElimQuitar \/ ElimVerCupo \/ UNCHANGED vars
    <2>1. /\ UNCHANGED <<estado, nuevos, listos, salida, bloqueados, hilo, consola>>
          /\ elim'.pid = elim.pid
      BY <1>0, <1>1 DEF TomarListo, TomarCpu, ElimQuitar, ElimVerCupo, ElimSola, procesos, vars,
                        MasTipos
    <2>2. \A p \in Pids : Sacado(p)' = Sacado(p) /\ EnCpu(p)' = EnCpu(p)
      BY <2>1 DEF Sacado, EnCpu
    <2> QED
      BY <1>0, <2>1, <2>2, SoloConsola
  <1>2. CASE LeerEstado
    <2>1. /\ UNCHANGED <<estado, nuevos, listos, salida, bloqueados, hilo, elim>>
          /\ consola.en = "estado"
      BY <1>2 DEF LeerEstado, ConsolaSola
    <2>2. /\ consola'.pid = consola.pid /\ consola'.en \in {"esperarMuerte", "buscar"}
          /\ consola'.caso = "EXEC" => consola'.en = "esperarMuerte"
      BY <1>0, <1>2 DEF LeerEstado, TiposConsola
    <2>3. \A p \in Pids : ~Sacado(p) /\ ~Sacado(p)'
      BY <2>1, <2>2 DEF Sacado
    <2>4. consola.caso # "EXEC"
      BY <1>0, <2>1 DEF FormaConsola
    <2>5. \A p \in Pids : EnCpu(p)' = EnCpu(p)
      BY <2>1, <2>2, <2>4 DEF EnCpu
    <2>6. \A p \in Pids : Sacado(p)' = Sacado(p)
      BY <2>3 DEF Sacado
    <2> QED
      BY <1>0, <2>1, <2>3, <2>5, <2>6, SoloConsola
  <1>3. CASE \/ EsperarNuevo \/ EsperarListo \/ VerCupoConsola
             \/ Quitar /\ consola.caso = "EXEC"
             \/ DarCupoConsola /\ consola.caso # "EXEC"
    <2>1. /\ UNCHANGED <<estado, nuevos, listos, salida, bloqueados, hilo, elim>>
          /\ consola.en \in {"esperarNuevo", "esperarListo", "ver", "quitar", "sumar", "restar"}
          /\ \E e \in {"quitar", "ver", "sumar", "restar"} : consola' = [consola EXCEPT !.en = e]
      BY <1>3 DEF EsperarNuevo, EsperarListo, VerCupoConsola, VerCupo, Quitar, DarCupoConsola,
                  DarCupo, ConsolaSola
    <2>2. /\ consola'.pid = consola.pid /\ consola'.caso = consola.caso
          /\ consola'.en \in {"quitar", "ver", "sumar", "restar"}
      BY <1>0, <2>1 DEF TiposConsola
    <2>3. ASSUME NEW p \in Pids
          PROVE  /\ Sacado(p)' = Sacado(p) /\ EnCpu(p)' = EnCpu(p)
                 /\ Sacado(p) => consola'.caso = consola.caso
      BY <2>1, <2>2 DEF Sacado, EnCpu
    <2> QED
      BY <1>0, <2>1, <2>3, SoloConsola
  <1>4. ASSUME NEW q \in Pids, Finalizar(q) PROVE Unico' /\ EnEstado'
    <2>1. /\ UNCHANGED <<estado, nuevos, listos, salida, bloqueados, hilo, elim>>
          /\ consola.en = "libre" /\ consola'.en = "estado" /\ consola'.caso = "NADA"
      BY <1>4 DEF Finalizar, ConsolaSola, ConsolaLibre
    <2>2. consola.caso = "NADA"
      BY <1>0, <2>1 DEF FormaConsola
    <2>3. ASSUME NEW p \in Pids
          PROVE  /\ Sacado(p)' = Sacado(p) /\ EnCpu(p)' = EnCpu(p)
                 /\ Sacado(p) => consola'.caso = consola.caso
      BY <2>1, <2>2 DEF Sacado, EnCpu
    <2> QED
      BY <1>0, <2>1, <2>3, SoloConsola
  <1>5. CASE Grado
    <2>1. UNCHANGED <<estado, nuevos, listos, salida, bloqueados, hilo, elim>>
      BY <1>5 DEF Grado, EsperarCupo, AnotarResto, SubirGrado, BajarGrado, SoloGrado, procesos
    <2>2. consola.en \in {"libre", "bajar"} /\ consola'.en \in {"libre", "bajar"}
          /\ consola'.caso = "NADA"
      BY <1>0, <1>5, LugarGrado
    <2>3. consola.caso = "NADA"
      BY <1>0, <2>2 DEF FormaConsola
    <2>4. ASSUME NEW p \in Pids
          PROVE  /\ Sacado(p)' = Sacado(p) /\ EnCpu(p)' = EnCpu(p)
                 /\ Sacado(p) => consola'.caso = consola.caso
      BY <2>1, <2>2, <2>3 DEF Sacado, EnCpu
    <2> QED
      BY <1>0, <2>1, <2>4, SoloConsola
  <1> QED
    BY <1>1, <1>2, <1>3, <1>4, <1>5

-----------------------------------------------------------------------------
(* Steps that take a process from one place to another.                     *)

LEMMA Presencia ==
  ASSUME NEW p \in Pids
  PROVE  /\ Cuenta(p)["bloqueados"] = IF p \in bloqueados THEN 1 ELSE 0
         /\ Cuenta(p)["cpu"] = IF Corre(p) THEN 1 ELSE 0
         /\ \A h \in Hilos : Cuenta(p)[h] = IF Posee(h, p) THEN 1 ELSE 0
         /\ Cuenta(p)["eliminacion"] = IF elim.pid = p THEN 1 ELSE 0
         /\ Cuenta(p)["consola"] = IF Sacado(p) THEN 1 ELSE 0
  BY DEF Cuenta, Sitios, Hilos, Uno

LEMMA PresenciaLuego ==
  ASSUME NEW p \in Pids
  PROVE  /\ Cuenta(p)'["bloqueados"] = IF p \in bloqueados' THEN 1 ELSE 0
         /\ Cuenta(p)'["cpu"] = IF Corre(p)' THEN 1 ELSE 0
         /\ \A h \in Hilos : Cuenta(p)'[h] = IF Posee(h, p)' THEN 1 ELSE 0
         /\ Cuenta(p)'["eliminacion"] = IF elim'.pid = p THEN 1 ELSE 0
         /\ Cuenta(p)'["consola"] = IF Sacado(p)' THEN 1 ELSE 0
  BY DEF Cuenta, Sitios, Hilos, Uno

LEMMA Donde ==
  ASSUME TiposColas, MasTipos, NEW p \in Pids
  PROVE  /\ p \in ToSet(nuevos) => Cuenta(p)["nuevos"] # 0
         /\ p \in ToSet(listos) => Cuenta(p)["listos"] # 0
         /\ p \in ToSet(salida) => Cuenta(p)["salida"] # 0
         /\ p \in bloqueados => Cuenta(p)["bloqueados"] # 0
         /\ Corre(p) => Cuenta(p)["cpu"] # 0
         /\ \A h \in Hilos : Posee(h, p) => Cuenta(p)[h] # 0
         /\ elim.pid = p => Cuenta(p)["eliminacion"] # 0
         /\ Sacado(p) => Cuenta(p)["consola"] # 0
  <1>1. p \in ToSet(nuevos) => Cuenta(p)["nuevos"] # 0
    <2>1. Cuenta(p)["nuevos"] = Cuantos(nuevos, {p})
      BY Valores
    <2> QED
      BY <2>1, EstaSiCuenta DEF TiposColas
  <1>2. p \in ToSet(listos) => Cuenta(p)["listos"] # 0
    <2>1. Cuenta(p)["listos"] = Cuantos(listos, {p})
      BY Valores
    <2> QED
      BY <2>1, EstaSiCuenta DEF TiposColas
  <1>3. p \in ToSet(salida) => Cuenta(p)["salida"] # 0
    <2>1. Cuenta(p)["salida"] = Cuantos(salida, {p})
      BY Valores
    <2> QED
      BY <2>1, EstaSiCuenta DEF MasTipos
  <1>4. p \in bloqueados => Cuenta(p)["bloqueados"] # 0
    BY Presencia
  <1>5. Corre(p) => Cuenta(p)["cpu"] # 0
    BY Presencia
  <1>6. \A h \in Hilos : Posee(h, p) => Cuenta(p)[h] # 0
    BY Presencia
  <1>7. elim.pid = p => Cuenta(p)["eliminacion"] # 0
    BY Presencia
  <1>8. Sacado(p) => Cuenta(p)["consola"] # 0
    BY Presencia
  <1> QED
    BY <1>1, <1>2, <1>3, <1>4, <1>5, <1>6, <1>7, <1>8

LEMMA UnSitio ==
  ASSUME Unico, NEW p \in Pids, NEW l \in Sitios, NEW m \in Sitios, Cuenta(p)[l] # 0,
         Cuenta(p)[m] # 0
  PROVE  l = m
  BY UnoSolo DEF En

LEMMA PrimeroEsta ==
  ASSUME NEW S, NEW s \in Seq(S), s # <<>>
  PROVE  Head(s) \in S /\ Head(s) \in ToSet(s) /\ 1 \in DOMAIN s
  BY DEF ToSet

LEMMA Resto ==
  ASSUME NEW p \in Pids, NEW M \in SUBSET Sitios,
         "nuevos" \in M => nuevos' = nuevos,
         "listos" \in M => listos' = listos,
         "salida" \in M => salida' = salida,
         "bloqueados" \in M => (p \in bloqueados' <=> p \in bloqueados),
         "cpu" \in M => (Corre(p)' <=> Corre(p)),
         \A h \in Hilos : h \in M => (Posee(h, p)' <=> Posee(h, p)),
         "eliminacion" \in M => (elim'.pid = p <=> elim.pid = p),
         "consola" \in M => (Sacado(p)' <=> Sacado(p))
  PROVE  \A l \in M : Cuenta(p)'[l] = Cuenta(p)[l]
  <1>1. "nuevos" \in M => Cuenta(p)'["nuevos"] = Cuenta(p)["nuevos"]
    BY Marcos
  <1>2. "listos" \in M => Cuenta(p)'["listos"] = Cuenta(p)["listos"]
    BY Marcos
  <1>3. "salida" \in M => Cuenta(p)'["salida"] = Cuenta(p)["salida"]
    BY Marcos
  <1>4. "bloqueados" \in M => Cuenta(p)'["bloqueados"] = Cuenta(p)["bloqueados"]
    BY Presencia, PresenciaLuego
  <1>5. "cpu" \in M => Cuenta(p)'["cpu"] = Cuenta(p)["cpu"]
    BY Presencia, PresenciaLuego
  <1>6. \A h \in Hilos : h \in M => Cuenta(p)'[h] = Cuenta(p)[h]
    BY Presencia, PresenciaLuego
  <1>7. "eliminacion" \in M => Cuenta(p)'["eliminacion"] = Cuenta(p)["eliminacion"]
    BY Presencia, PresenciaLuego
  <1>8. "consola" \in M => Cuenta(p)'["consola"] = Cuenta(p)["consola"]
    BY Presencia, PresenciaLuego
  <1>9. Sitios = Hilos \cup {"nuevos", "listos", "salida", "bloqueados", "cpu", "eliminacion",
                             "consola"}
    BY DEF Sitios, Hilos
  <1> QED
    BY <1>1, <1>2, <1>3, <1>4, <1>5, <1>6, <1>7, <1>8, <1>9

\* cola_procesos_new to the thread that creates.
LEMMA SaleDeNew ==
  ASSUME Tipos, Orden, TiposColas', MasTipos', SacarNuevo
  PROVE  Unico' /\ EnEstado'
  <1>0. /\ TiposColas /\ MasTipos /\ Unico /\ EnEstado /\ FormaHilos /\ NULO \notin Pids
        /\ hilo \in [Hilos -> [en : LugaresHilo, pid : Pids \cup {NULO}]]
        /\ "creacion" \in Hilos /\ "despacho" \in Hilos \ {"creacion"}
    BY Nulo DEF Tipos, TiposHilos, Orden, Formas, Hilos
  <1>1. /\ nuevos \in Seq(Pids) /\ nuevos # <<>> /\ nuevos' = Tail(nuevos)
        /\ UNCHANGED <<estado, listos, salida, bloqueados, elim, consola>>
        /\ hilo["creacion"].en = "sacar"
    BY <1>0 DEF SacarNuevo, TiposColas
  <1>2. PICK q \in Pids : q = Head(nuevos) /\ q \in ToSet(nuevos)
    BY <1>1, PrimeroEsta
  <1>2a. hilo' = [hilo EXCEPT !["creacion"] = [en |-> "poner", pid |-> q]]
    BY <1>2 DEF SacarNuevo
  <1>3. Cuenta(q)["nuevos"] # 0 /\ estado[q] = "NEW"
    <2>1. Cuenta(q)["nuevos"] # 0
      BY <1>0, <1>2, Donde
    <2>2. En(Cuenta(q), "nuevos")
      BY <1>0, <1>2, <2>1, UnoSolo DEF Sitios
    <2>3. Cuenta(q)["nuevos"] > 0
      BY <2>2 DEF En
    <2>4. Debe["nuevos"] = "NEW"
      BY DEF Debe, Sitios
    <2> QED
      BY <1>0, <1>2, <2>1, <2>3, <2>4 DEF EnEstado, Sitios
  <1>4. \A p \in Pids : Cuantos(nuevos, {p}) = Cuantos(nuevos', {p}) + (IF p = q THEN 1 ELSE 0)
    BY <1>1, <1>2, Sale
  <1>5. /\ hilo'["creacion"].en = "poner" /\ hilo'["creacion"].pid = q
        /\ hilo["creacion"].pid = NULO
        /\ \A h \in Hilos \ {"creacion"} : hilo'[h] = hilo[h]
    BY <1>0, <1>1, <1>2a DEF FormaHilos
  <1>6. ASSUME NEW p \in Pids
        PROVE  /\ Corre(p)' <=> Corre(p)
               /\ \A h \in Hilos \ {"creacion"} : Posee(h, p)' <=> Posee(h, p)
               /\ Sacado(p)' <=> Sacado(p)
               /\ ~Posee("creacion", p) /\ (Posee("creacion", p)' <=> p = q)
    BY <1>0, <1>1, <1>5 DEF Corre, EnCpu, Posee, Sacado
  <1>7. ASSUME NEW p \in Pids
        PROVE  \A l \in Sitios \ {"nuevos", "creacion"} : Cuenta(p)'[l] = Cuenta(p)[l]
    BY <1>1, <1>6, Resto
  <1>8. ASSUME NEW p \in Pids
        PROVE  Cuenta(p)["nuevos"] = Cuenta(p)'["nuevos"] + (IF p = q THEN 1 ELSE 0)
    <2>1. Cuenta(p)["nuevos"] = Cuantos(nuevos, {p})
      BY Valores
    <2>2. Cuenta(p)'["nuevos"] = Cuantos(nuevos', {p})
      BY ValoresLuego
    <2> QED
      BY <1>4, <2>1, <2>2
  <1>9. ASSUME NEW p \in Pids
        PROVE  /\ Cuenta(p)["creacion"] = 0
               /\ Cuenta(p)'["creacion"] = Cuenta(p)["creacion"] + (IF p = q THEN 1 ELSE 0)
    BY <1>0, <1>6, Presencia, PresenciaLuego
  <1>10. Vivo(q)' /\ Debe'["creacion"] = estado'[q]
    BY <1>1, <1>3, <1>5, ValorDebe DEF Vivo
  <1>11. ASSUME NEW p \in Pids \ {q}, NEW l \in Sitios, Cuenta(p)[l] # 0 PROVE Debe'[l] = Debe[l]
    <2>1. l # "creacion"
      BY <1>9, <1>11
    <2>2. \A h \in Hilos \ {"creacion"} : Debe'[h] = Debe[h]
      BY <1>5, MarcoDebe
    <2>3. Debe'["consola"] = Debe["consola"]
      BY <1>1, MarcoDebe
    <2> QED
      BY <2>1, <2>2, <2>3, MarcoDebe
  <1>12. "nuevos" \in Sitios /\ "creacion" \in Sitios \ {"nuevos"}
    BY DEF Sitios
  <1>13. \A p \in Pids \ {q} : estado'[p] = estado[p]
    BY <1>1
  <1> QED
    BY <1>0, <1>2, <1>7, <1>8, <1>9, <1>10, <1>11, <1>12, <1>13, Traslado

LEMMA DeSitio ==
  ASSUME Unico, EnEstado, NEW p \in Pids, NEW l \in Sitios, Cuenta(p)[l] # 0
  PROVE  /\ Vivo(p) /\ estado[p] = Debe[l]
         /\ \A m \in Sitios \ {l} : Cuenta(p)[m] = 0
  <1>1. Vivo(p) /\ En(Cuenta(p), l)
    BY UnoSolo
  <1>2. Cuenta(p)[l] > 0
    BY <1>1 DEF En
  <1> QED
    BY <1>1, <1>2 DEF En, EnEstado

LEMMA ValorDebeHoy ==
  /\ Debe["nuevos"] = "NEW" /\ Debe["listos"] = "READY" /\ Debe["salida"] = "EXIT"
  /\ Debe["eliminacion"] = "EXIT" /\ Debe["bloqueados"] = "BLOCKED" /\ Debe["cpu"] = "EXEC"
  /\ Debe["consola"] = consola.caso
  BY DEF Debe, DeHilo, Hilos, Sitios

\* A process that is in a place other than the CPU is not in it, and so on.
LEMMA NoEsta ==
  ASSUME NEW p \in Pids
  PROVE  /\ Cuenta(p)["cpu"] = 0 => ~Corre(p)
         /\ Cuenta(p)["bloqueados"] = 0 => p \notin bloqueados
         /\ \A h \in Hilos : Cuenta(p)[h] = 0 => ~Posee(h, p)
         /\ Cuenta(p)["eliminacion"] = 0 => elim.pid # p
         /\ Cuenta(p)["consola"] = 0 => ~Sacado(p)
  BY Presencia

\* Every thread keeps what it must be in when the others push.
LEMMA DebeResto ==
  ASSUME NEW h \in Hilos, \A g \in Hilos \ {h} : hilo'[g] = hilo[g],
         consola'.caso = consola.caso, NEW l \in Sitios \ {h}
  PROVE  Debe'[l] = Debe[l]
  <1>1. \A g \in Hilos \ {h} : Debe'[g] = Debe[g]
    BY MarcoDebe
  <1>2. Debe'["consola"] = Debe["consola"]
    BY MarcoDebe
  <1> QED
    BY <1>1, <1>2, MarcoDebe

\* A thread to cola_procesos_ready, or to the copy of its mutex.
LEMMA LlegaAListos ==
  ASSUME Tipos, Orden, TiposColas', MasTipos', NEW h \in Hilos, PonerListo(h)
  PROVE  Unico' /\ EnEstado'
  <1>0. /\ TiposColas /\ MasTipos /\ Unico /\ EnEstado /\ NULO \notin Pids /\ h \in Sitios
        /\ hilo \in [Hilos -> [en : LugaresHilo, pid : Pids \cup {NULO}]]
        /\ estado \in [Pids -> Estados] /\ listos \in Seq(Pids)
        /\ h # "listos" /\ "listos" \in Sitios /\ "cpu" \in Sitios \ {h} /\ "despacho" \in Hilos
    BY Nulo DEF Tipos, TiposHilos, TiposColas, Orden, Hilos, Sitios
  <1>1. /\ hilo[h].en = "poner"
        /\ UNCHANGED <<nuevos, salida, bloqueados, elim, consola>>
    BY DEF PonerListo
  <1>2. PICK q \in Pids : q = hilo[h].pid
    BY <1>1 DEF Tipos, Manos
  <1>3. estado' = [estado EXCEPT ![q] = "READY"]
    BY <1>2 DEF PonerListo
  <1>4. Posee(h, q)
    BY <1>1, <1>2 DEF Posee
  <1>5. Cuenta(q)[h] # 0
    BY <1>0, <1>4, Donde
  <1>6. Vivo(q) /\ \A m \in Sitios \ {h} : Cuenta(q)[m] = 0
    BY <1>0, <1>5, DeSitio
  <1>7. ~Corre(q)
    BY <1>0, <1>6, NoEsta
  <1>8. PICK e \in {"avisar", "trabado"} :
          /\ hilo' = [hilo EXCEPT ![h].en = e]
          /\ e = "trabado" => listos' = listos
          /\ e = "avisar" => listos' = Append(listos, q)
    BY <1>2 DEF PonerListo, Avanzar
  <1>9. /\ hilo'[h].en = e /\ hilo'[h].pid = q
        /\ \A g \in Hilos \ {h} : hilo'[g] = hilo[g]
    BY <1>0, <1>2, <1>8
  <1>10. /\ estado'[q] = "READY" /\ \A p \in Pids \ {q} : estado'[p] = estado[p]
    BY <1>0, <1>3
  <1>11. Vivo(q)' /\ Debe'[h] = "READY" /\ Debe'["listos"] = "READY"
    <2>1. \A g \in Hilos : hilo'[g].en # "poner" => Debe'[g] = "READY"
      BY ValorDebe
    <2>2. Debe'["listos"] = "READY"
      BY ValorDebe
    <2> QED
      BY <1>8, <1>9, <1>10, <2>1, <2>2 DEF Vivo
  <1>12. ASSUME NEW p \in Pids
         PROVE  /\ Corre(p)' <=> Corre(p)
                /\ \A g \in Hilos \ {h} : Posee(g, p)' <=> Posee(g, p)
                /\ Sacado(p)' <=> Sacado(p)
                /\ Posee(h, p) <=> p = q
                /\ Posee(h, p)' <=> p = q /\ e = "trabado"
    <2>1. Corre(p)' <=> Corre(p)
      <3>1. CASE p = q
        BY <1>7, <1>10, <3>1 DEF Corre, EnCpu
      <3>2. CASE p # q
        <4>1. hilo'["despacho"] # [en |-> "poner", pid |-> p]
                <=> hilo["despacho"] # [en |-> "poner", pid |-> p]
          BY <1>0, <1>2, <1>8, <1>9, <3>2
        <4> QED
          BY <1>1, <1>10, <3>2, <4>1 DEF Corre, EnCpu
      <3> QED
        BY <3>1, <3>2
    <2>2. \A g \in Hilos \ {h} : Posee(g, p)' <=> Posee(g, p)
      BY <1>9 DEF Posee
    <2>3. Sacado(p)' <=> Sacado(p)
      BY <1>1 DEF Sacado
    <2>4. Posee(h, p) <=> p = q
      BY <1>1, <1>2 DEF Posee
    <2>5. Posee(h, p)' <=> p = q /\ e = "trabado"
      BY <1>8, <1>9 DEF Posee
    <2> QED
      BY <2>1, <2>2, <2>3, <2>4, <2>5
  <1>13. ASSUME NEW p \in Pids PROVE Cuenta(p)[h] = IF p = q THEN 1 ELSE 0
    BY <1>12, Presencia
  <1>14. ASSUME NEW p \in Pids \ {q}, NEW l \in Sitios, Cuenta(p)[l] # 0 PROVE Debe'[l] = Debe[l]
    <2>1. l # h
      BY <1>13, <1>14
    <2> QED
      BY <1>1, <1>9, <2>1, DebeResto
  <1>15. CASE e = "avisar"
    <2>1. ASSUME NEW p \in Pids
          PROVE  \A l \in Sitios \ {h, "listos"} : Cuenta(p)'[l] = Cuenta(p)[l]
      BY <1>1, <1>12, Resto
    <2>2. ASSUME NEW p \in Pids
          PROVE  Cuenta(p)'["listos"] = Cuenta(p)["listos"] + (IF p = q THEN 1 ELSE 0)
      <3>1. Cuenta(p)["listos"] = Cuantos(listos, {p})
        BY Valores
      <3>2. Cuenta(p)'["listos"] = Cuantos(listos', {p})
        BY ValoresLuego
      <3>3. Cuantos(Append(listos, q), {p}) = Cuantos(listos, {p}) + (IF p = q THEN 1 ELSE 0)
        <4>1. listos \in Seq(Pids)
          BY <1>0
        <4> QED
          BY <4>1, EntraProceso
      <3> QED
        BY <1>8, <1>15, <3>1, <3>2, <3>3
    <2>3. ASSUME NEW p \in Pids
          PROVE  Cuenta(p)[h] = Cuenta(p)'[h] + (IF p = q THEN 1 ELSE 0)
      <3>1. Cuenta(p)'[h] = 0
        BY <1>12, <1>15, PresenciaLuego
      <3> QED
        BY <1>13, <3>1
    <2>4. h \in Sitios /\ "listos" \in Sitios \ {h} /\ Debe'["listos"] = estado'[q]
      BY <1>0, <1>10, <1>11
    <2>5. \A p \in Pids : \A l \in Sitios \ {h, "listos"} : Cuenta(p)'[l] = Cuenta(p)[l]
      BY <2>1
    <2>6. \A p \in Pids : /\ Cuenta(p)[h] = Cuenta(p)'[h] + (IF p = q THEN 1 ELSE 0)
                          /\ Cuenta(p)'["listos"]
                               = Cuenta(p)["listos"] + (IF p = q THEN 1 ELSE 0)
      BY <2>2, <2>3
    <2>7. \A p \in Pids \ {q}, l \in Sitios : Cuenta(p)[l] # 0 => Debe'[l] = Debe[l]
      BY <1>14
    <2>8. Vivo(q)' /\ \A p \in Pids \ {q} : estado'[p] = estado[p]
      BY <1>0, <1>10, <1>11
    <2> QED
      BY <1>0, <2>4, <2>5, <2>6, <2>7, <2>8, Traslado
  <1>16. CASE e = "trabado"
    <2>1. ASSUME NEW p \in Pids
          PROVE  \A l \in Sitios : Cuenta(p)'[l] = Cuenta(p)[l]
      <3>1. \A g \in Hilos : Posee(g, p)' <=> Posee(g, p)
        BY <1>12, <1>16
      <3> QED
        BY <1>1, <1>8, <1>12, <1>16, <3>1, Resto
    <2>2. \A p \in Pids : Vivo(p)' <=> Vivo(p)
      <3>1. ASSUME NEW p \in Pids \ {q} PROVE Vivo(p)' <=> Vivo(p)
        BY <1>10 DEF Vivo
      <3> QED
        BY <1>6, <1>11, <3>1
    <2>3. ASSUME NEW p \in Pids, NEW l \in Sitios, Cuenta(p)[l] # 0
          PROVE  \/ estado'[p] = estado[p] /\ Debe'[l] = Debe[l]
                 \/ estado'[p] = Debe'[l]
      <3>1. CASE p = q
        <4>1. l = h
          BY <1>6, <2>3, <3>1
        <4> QED
          BY <1>10, <1>11, <3>1, <4>1
      <3>2. CASE p # q
        BY <1>10, <1>14, <2>3, <3>2
      <3> QED
        BY <3>1, <3>2
    <2> QED
      BY <1>0, <2>1, <2>2, <2>3, Quietud
  <1> QED
    BY <1>15, <1>16

\* cola_procesos_ready to the CPU.
LEMMA EntraALaCpu ==
  ASSUME Tipos, Orden, TiposColas', MasTipos', Despachar
  PROVE  Unico' /\ EnEstado'
  <1>0. /\ TiposColas /\ MasTipos /\ Unico /\ EnEstado /\ FormaConsola
        /\ estado \in [Pids -> Estados] /\ listos \in Seq(Pids)
        /\ consola.en \in LugaresConsola
        /\ "listos" \in Sitios /\ "cpu" \in Sitios \ {"listos"} /\ "despacho" \in Hilos
        /\ Hilos \subseteq Sitios \ {"listos"} /\ "consola" \in Sitios \ {"listos"}
    BY DEF Tipos, TiposColas, TiposConsola, Orden, Formas, Hilos, Sitios
  <1>1. /\ listos # <<>> /\ listos' = Tail(listos)
        /\ UNCHANGED <<nuevos, salida, bloqueados, elim, consola, hilo>>
    BY DEF Despachar
  <1>2. PICK q \in Pids : q = Head(listos) /\ q \in ToSet(listos)
    BY <1>0, <1>1, PrimeroEsta
  <1>3. estado'[q] = "EXEC" /\ \A p \in Pids \ {q} : estado'[p] = estado[p]
    BY <1>0, <1>2 DEF Despachar
  <1>4. Cuenta(q)["listos"] # 0
    BY <1>0, <1>2, Donde
  <1>5. Vivo(q) /\ \A m \in Sitios \ {"listos"} : Cuenta(q)[m] = 0
    BY <1>0, <1>4, DeSitio
  <1>6. ~Corre(q) /\ ~Sacado(q) /\ ~Posee("despacho", q)
    BY <1>0, <1>5, NoEsta
  <1>7. Corre(q)'
    <2>1. hilo["despacho"] # [en |-> "poner", pid |-> q]
      BY <1>6 DEF Posee
    <2>2. ~(consola.pid = q /\ consola.caso = "EXEC" /\ consola.en # "esperarMuerte")
      BY <1>0, <1>6 DEF Sacado, FormaConsola, LugaresConsola
    <2> QED
      BY <1>1, <1>3, <2>1, <2>2 DEF Corre, EnCpu
  <1>8. ASSUME NEW p \in Pids \ {q} PROVE Corre(p)' <=> Corre(p)
    BY <1>1, <1>3 DEF Corre, EnCpu
  <1>9. ASSUME NEW p \in Pids
        PROVE  (\A h \in Hilos : Posee(h, p)' <=> Posee(h, p)) /\ (Sacado(p)' <=> Sacado(p))
    BY <1>1 DEF Posee, Sacado
  <1>10. ASSUME NEW p \in Pids
         PROVE  \A l \in Sitios \ {"listos", "cpu"} : Cuenta(p)'[l] = Cuenta(p)[l]
    BY <1>1, <1>9, Resto
  <1>11. ASSUME NEW p \in Pids
         PROVE  Cuenta(p)["listos"] = Cuenta(p)'["listos"] + (IF p = q THEN 1 ELSE 0)
    <2>1. Cuenta(p)["listos"] = Cuantos(listos, {p})
      BY Valores
    <2>2. Cuenta(p)'["listos"] = Cuantos(listos', {p})
      BY ValoresLuego
    <2>3. Cuantos(listos, {p}) = Cuantos(listos', {p}) + (IF p = q THEN 1 ELSE 0)
      BY <1>0, <1>1, <1>2, Sale
    <2> QED
      BY <2>1, <2>2, <2>3
  <1>12. ASSUME NEW p \in Pids
         PROVE  Cuenta(p)'["cpu"] = Cuenta(p)["cpu"] + (IF p = q THEN 1 ELSE 0)
    <2>1. Cuenta(p)["cpu"] = IF Corre(p) THEN 1 ELSE 0
      BY Presencia
    <2>2. Cuenta(p)'["cpu"] = IF Corre(p)' THEN 1 ELSE 0
      BY PresenciaLuego
    <2> QED
      BY <1>6, <1>7, <1>8, <2>1, <2>2
  <1>13. Vivo(q)' /\ Debe'["cpu"] = estado'[q]
    BY <1>3, ValorDebe DEF Vivo
  <1>14. \A l \in Sitios : Debe'[l] = Debe[l]
    <2>1. \A h \in Hilos : Debe'[h] = Debe[h]
      BY <1>1, MarcoDebe
    <2>2. Debe'["consola"] = Debe["consola"]
      BY <1>1, MarcoDebe
    <2> QED
      BY <2>1, <2>2, MarcoDebe
  <1> QED
    BY <1>0, <1>3, <1>10, <1>11, <1>12, <1>13, <1>14, Traslado

\* The CPU to the thread that reads what the CPU sends.
LEMMA SaleDesalojado ==
  ASSUME Tipos, Orden, TiposColas', MasTipos', NEW q \in Pids, Desalojar(q)
  PROVE  Unico' /\ EnEstado'
  <1>0. /\ TiposColas /\ MasTipos /\ Unico /\ EnEstado /\ NULO \notin Pids
        /\ hilo \in [Hilos -> [en : LugaresHilo, pid : Pids \cup {NULO}]]
        /\ "cpu" \in Sitios /\ "despacho" \in Sitios \ {"cpu"} /\ "despacho" \in Hilos
    BY Nulo DEF Tipos, TiposHilos, Orden, Hilos, Sitios
  <1>1. /\ UNCHANGED <<estado, nuevos, listos, salida, bloqueados, elim, consola>>
        /\ hilo["despacho"] = [en |-> "esperar", pid |-> NULO] /\ EnCpu(q)
        /\ hilo' = [hilo EXCEPT !["despacho"] = [en |-> "poner", pid |-> q]]
    BY DEF Desalojar, DejaLaCpu, Quieto
  <1>2. /\ hilo'["despacho"] = [en |-> "poner", pid |-> q]
        /\ \A h \in Hilos \ {"despacho"} : hilo'[h] = hilo[h]
    BY <1>0, <1>1
  <1>3. Corre(q) /\ ~Corre(q)'
    BY <1>1, <1>2 DEF Corre
  <1>4. ASSUME NEW p \in Pids \ {q} PROVE Corre(p)' <=> Corre(p)
    BY <1>1, <1>2 DEF Corre, EnCpu
  <1>5. ASSUME NEW p \in Pids
        PROVE  /\ \A h \in Hilos \ {"despacho"} : Posee(h, p)' <=> Posee(h, p)
               /\ Sacado(p)' <=> Sacado(p)
               /\ ~Posee("despacho", p) /\ (Posee("despacho", p)' <=> p = q)
    BY <1>0, <1>1, <1>2 DEF Posee, Sacado
  <1>6. ASSUME NEW p \in Pids
        PROVE  \A l \in Sitios \ {"cpu", "despacho"} : Cuenta(p)'[l] = Cuenta(p)[l]
    BY <1>1, <1>5, Resto
  <1>7. ASSUME NEW p \in Pids
        PROVE  Cuenta(p)["cpu"] = Cuenta(p)'["cpu"] + (IF p = q THEN 1 ELSE 0)
    <2>1. Cuenta(p)["cpu"] = IF Corre(p) THEN 1 ELSE 0
      BY Presencia
    <2>2. Cuenta(p)'["cpu"] = IF Corre(p)' THEN 1 ELSE 0
      BY PresenciaLuego
    <2> QED
      BY <1>3, <1>4, <2>1, <2>2
  <1>8. ASSUME NEW p \in Pids
        PROVE  /\ Cuenta(p)["despacho"] = 0
               /\ Cuenta(p)'["despacho"] = Cuenta(p)["despacho"] + (IF p = q THEN 1 ELSE 0)
    BY <1>0, <1>5, Presencia, PresenciaLuego
  <1>9. Vivo(q)' /\ Debe'["despacho"] = estado'[q]
    BY <1>1, <1>2, ValorDebe DEF Vivo, EnCpu
  <1>10. ASSUME NEW p \in Pids \ {q}, NEW l \in Sitios, Cuenta(p)[l] # 0 PROVE Debe'[l] = Debe[l]
    <2>1. l # "despacho"
      BY <1>8, <1>10
    <2> QED
      BY <1>0, <1>1, <1>2, <2>1, DebeResto
  <1>11. \A p \in Pids \ {q} : estado'[p] = estado[p]
    BY <1>1
  <1> QED
    BY <1>0, <1>6, <1>7, <1>8, <1>9, <1>10, <1>11, Traslado

\* The CPU to lista_procesos_blocked.
LEMMA SaleBloqueado ==
  ASSUME Tipos, Orden, TiposColas', MasTipos', NEW q \in Pids, Bloquear(q)
  PROVE  Unico' /\ EnEstado'
  <1>0. /\ TiposColas /\ MasTipos /\ Unico /\ EnEstado /\ NULO \notin Pids
        /\ estado \in [Pids -> Estados]
        /\ "cpu" \in Sitios /\ "bloqueados" \in Sitios \ {"cpu"}
    BY Nulo DEF Tipos, TiposColas, Orden, Sitios
  <1>1. /\ UNCHANGED <<nuevos, listos, salida, elim, consola, hilo>>
        /\ hilo["despacho"] = [en |-> "esperar", pid |-> NULO] /\ EnCpu(q)
        /\ bloqueados' = bloqueados \cup {q}
        /\ estado' = [estado EXCEPT ![q] = "BLOCKED"]
    BY DEF Bloquear, DejaLaCpu, Quieto
  <1>2. estado'[q] = "BLOCKED" /\ \A p \in Pids \ {q} : estado'[p] = estado[p]
    BY <1>0, <1>1
  <1>3. Corre(q) /\ ~Corre(q)'
    BY <1>1, <1>2 DEF Corre, EnCpu
  <1>4. ASSUME NEW p \in Pids \ {q} PROVE Corre(p)' <=> Corre(p)
    BY <1>1, <1>2 DEF Corre, EnCpu
  <1>5. ASSUME NEW p \in Pids
        PROVE  (\A h \in Hilos : Posee(h, p)' <=> Posee(h, p)) /\ (Sacado(p)' <=> Sacado(p))
    BY <1>1 DEF Posee, Sacado
  <1>6. ASSUME NEW p \in Pids
        PROVE  \A l \in Sitios \ {"cpu", "bloqueados"} : Cuenta(p)'[l] = Cuenta(p)[l]
    BY <1>1, <1>5, Resto
  <1>7. ASSUME NEW p \in Pids
        PROVE  Cuenta(p)["cpu"] = Cuenta(p)'["cpu"] + (IF p = q THEN 1 ELSE 0)
    <2>1. Cuenta(p)["cpu"] = IF Corre(p) THEN 1 ELSE 0
      BY Presencia
    <2>2. Cuenta(p)'["cpu"] = IF Corre(p)' THEN 1 ELSE 0
      BY PresenciaLuego
    <2> QED
      BY <1>3, <1>4, <2>1, <2>2
  <1>8. q \notin bloqueados
    <2>1. Cuenta(q)["cpu"] # 0
      BY <1>0, <1>3, Donde
    <2>2. Cuenta(q)["bloqueados"] = 0
      BY <1>0, <2>1, DeSitio
    <2> QED
      BY <2>2, NoEsta
  <1>9. ASSUME NEW p \in Pids
        PROVE  Cuenta(p)'["bloqueados"] = Cuenta(p)["bloqueados"] + (IF p = q THEN 1 ELSE 0)
    <2>1. Cuenta(p)["bloqueados"] = IF p \in bloqueados THEN 1 ELSE 0
      BY Presencia
    <2>2. Cuenta(p)'["bloqueados"] = IF p \in bloqueados' THEN 1 ELSE 0
      BY PresenciaLuego
    <2> QED
      BY <1>1, <1>8, <2>1, <2>2
  <1>10. Vivo(q)' /\ Debe'["bloqueados"] = estado'[q]
    BY <1>2, ValorDebe DEF Vivo
  <1>11. \A l \in Sitios : Debe'[l] = Debe[l]
    <2>1. \A h \in Hilos : Debe'[h] = Debe[h]
      BY <1>1, MarcoDebe
    <2>2. Debe'["consola"] = Debe["consola"]
      BY <1>1, MarcoDebe
    <2> QED
      BY <2>1, <2>2, MarcoDebe
  <1> QED
    BY <1>0, <1>2, <1>6, <1>7, <1>9, <1>10, <1>11, Traslado

\* The CPU to cola_procesos_exit.
LEMMA SaleTerminado ==
  ASSUME Tipos, Orden, TiposColas', MasTipos', NEW q \in Pids, Terminar(q)
  PROVE  Unico' /\ EnEstado'
  <1>0. /\ TiposColas /\ MasTipos /\ Unico /\ EnEstado /\ NULO \notin Pids
        /\ estado \in [Pids -> Estados] /\ salida \in Seq(Pids)
        /\ "cpu" \in Sitios /\ "salida" \in Sitios \ {"cpu"}
    BY Nulo DEF Tipos, TiposColas, MasTipos, Orden, Sitios
  <1>1. /\ UNCHANGED <<nuevos, listos, bloqueados, elim, consola, hilo>>
        /\ hilo["despacho"] = [en |-> "esperar", pid |-> NULO] /\ EnCpu(q)
        /\ salida' = Append(salida, q)
        /\ estado' = [estado EXCEPT ![q] = "EXIT"]
    BY DEF Terminar, DejaLaCpu, Quieto
  <1>2. estado'[q] = "EXIT" /\ \A p \in Pids \ {q} : estado'[p] = estado[p]
    BY <1>0, <1>1
  <1>3. Corre(q) /\ ~Corre(q)'
    BY <1>1, <1>2 DEF Corre, EnCpu
  <1>4. ASSUME NEW p \in Pids \ {q} PROVE Corre(p)' <=> Corre(p)
    BY <1>1, <1>2 DEF Corre, EnCpu
  <1>5. ASSUME NEW p \in Pids
        PROVE  (\A h \in Hilos : Posee(h, p)' <=> Posee(h, p)) /\ (Sacado(p)' <=> Sacado(p))
    BY <1>1 DEF Posee, Sacado
  <1>6. ASSUME NEW p \in Pids
        PROVE  \A l \in Sitios \ {"cpu", "salida"} : Cuenta(p)'[l] = Cuenta(p)[l]
    BY <1>1, <1>5, Resto
  <1>7. ASSUME NEW p \in Pids
        PROVE  Cuenta(p)["cpu"] = Cuenta(p)'["cpu"] + (IF p = q THEN 1 ELSE 0)
    <2>1. Cuenta(p)["cpu"] = IF Corre(p) THEN 1 ELSE 0
      BY Presencia
    <2>2. Cuenta(p)'["cpu"] = IF Corre(p)' THEN 1 ELSE 0
      BY PresenciaLuego
    <2> QED
      BY <1>3, <1>4, <2>1, <2>2
  <1>8. ASSUME NEW p \in Pids
        PROVE  Cuenta(p)'["salida"] = Cuenta(p)["salida"] + (IF p = q THEN 1 ELSE 0)
    <2>1. Cuenta(p)["salida"] = Cuantos(salida, {p})
      BY Valores
    <2>2. Cuenta(p)'["salida"] = Cuantos(salida', {p})
      BY ValoresLuego
    <2>3. salida \in Seq(Pids)
      BY <1>0
    <2>4. Cuantos(Append(salida, q), {p}) = Cuantos(salida, {p}) + (IF p = q THEN 1 ELSE 0)
      BY <2>3, EntraProceso
    <2> QED
      BY <1>1, <2>1, <2>2, <2>4
  <1>9. Vivo(q)' /\ Debe'["salida"] = estado'[q]
    BY <1>2, ValorDebe DEF Vivo
  <1>10. \A l \in Sitios : Debe'[l] = Debe[l]
    <2>1. \A h \in Hilos : Debe'[h] = Debe[h]
      BY <1>1, MarcoDebe
    <2>2. Debe'["consola"] = Debe["consola"]
      BY <1>1, MarcoDebe
    <2> QED
      BY <2>1, <2>2, MarcoDebe
  <1> QED
    BY <1>0, <1>2, <1>6, <1>7, <1>8, <1>9, <1>10, Traslado

\* lista_procesos_blocked to the thread of an interface.
LEMMA SaleDeBloqueados ==
  ASSUME Tipos, Orden, TiposColas', MasTipos', NEW q \in Pids, Desbloquear(q)
  PROVE  Unico' /\ EnEstado'
  <1>0. /\ TiposColas /\ MasTipos /\ Unico /\ EnEstado /\ NULO \notin Pids
        /\ hilo \in [Hilos -> [en : LugaresHilo, pid : Pids \cup {NULO}]]
        /\ "bloqueados" \in Sitios /\ "interfaz" \in Sitios \ {"bloqueados"}
        /\ "interfaz" \in Hilos /\ "despacho" \in Hilos \ {"interfaz"}
    BY Nulo DEF Tipos, TiposHilos, Orden, Hilos, Sitios
  <1>1. /\ UNCHANGED <<estado, nuevos, listos, salida, elim, consola>>
        /\ hilo["interfaz"] = [en |-> "esperar", pid |-> NULO]
        /\ q \in bloqueados /\ bloqueados' = bloqueados \ {q}
        /\ hilo' = [hilo EXCEPT !["interfaz"] = [en |-> "poner", pid |-> q]]
    BY DEF Desbloquear, Quieto
  <1>2. /\ hilo'["interfaz"] = [en |-> "poner", pid |-> q]
        /\ \A h \in Hilos \ {"interfaz"} : hilo'[h] = hilo[h]
    BY <1>0, <1>1
  <1>3. ASSUME NEW p \in Pids
        PROVE  /\ Corre(p)' <=> Corre(p)
               /\ \A h \in Hilos \ {"interfaz"} : Posee(h, p)' <=> Posee(h, p)
               /\ Sacado(p)' <=> Sacado(p)
               /\ ~Posee("interfaz", p) /\ (Posee("interfaz", p)' <=> p = q)
    BY <1>0, <1>1, <1>2 DEF Posee, Sacado, Corre, EnCpu
  <1>4. ASSUME NEW p \in Pids
        PROVE  \A l \in Sitios \ {"bloqueados", "interfaz"} : Cuenta(p)'[l] = Cuenta(p)[l]
    BY <1>1, <1>3, Resto
  <1>5. ASSUME NEW p \in Pids
        PROVE  Cuenta(p)["bloqueados"] = Cuenta(p)'["bloqueados"] + (IF p = q THEN 1 ELSE 0)
    <2>1. Cuenta(p)["bloqueados"] = IF p \in bloqueados THEN 1 ELSE 0
      BY Presencia
    <2>2. Cuenta(p)'["bloqueados"] = IF p \in bloqueados' THEN 1 ELSE 0
      BY PresenciaLuego
    <2> QED
      BY <1>1, <2>1, <2>2
  <1>6. ASSUME NEW p \in Pids
        PROVE  /\ Cuenta(p)["interfaz"] = 0
               /\ Cuenta(p)'["interfaz"] = Cuenta(p)["interfaz"] + (IF p = q THEN 1 ELSE 0)
    BY <1>0, <1>3, Presencia, PresenciaLuego
  <1>7. Vivo(q)' /\ Debe'["interfaz"] = estado'[q]
    <2>1. Cuenta(q)["bloqueados"] # 0
      BY <1>0, <1>1, Donde
    <2>2. Vivo(q) /\ estado[q] = Debe["bloqueados"]
      BY <1>0, <2>1, DeSitio
    <2>3. estado[q] = "BLOCKED"
      BY <2>2, ValorDebeHoy
    <2> QED
      BY <1>1, <1>2, <2>3, ValorDebe DEF Vivo
  <1>8. ASSUME NEW p \in Pids \ {q}, NEW l \in Sitios, Cuenta(p)[l] # 0 PROVE Debe'[l] = Debe[l]
    <2>1. l # "interfaz"
      BY <1>6, <1>8
    <2> QED
      BY <1>0, <1>1, <1>2, <2>1, DebeResto
  <1>9. \A p \in Pids \ {q} : estado'[p] = estado[p]
    BY <1>1
  <1> QED
    BY <1>0, <1>4, <1>5, <1>6, <1>7, <1>8, <1>9, Traslado

\* cola_procesos_exit to eliminacion_de_procesos.
LEMMA SaleDeExit ==
  ASSUME Tipos, Orden, TiposColas', MasTipos', TomarSalida
  PROVE  Unico' /\ EnEstado'
  <1>0. /\ TiposColas /\ MasTipos /\ Unico /\ EnEstado /\ NULO \notin Pids /\ FormaElim
        /\ salida \in Seq(Pids) /\ SalidaExacta /\ hay_exit \in Nat
        /\ "salida" \in Sitios /\ "eliminacion" \in Sitios \ {"salida"}
    BY Nulo DEF Tipos, MasTipos, Orden, Formas, Sitios
  <1>1. /\ UNCHANGED <<estado, nuevos, listos, bloqueados, consola, hilo>>
        /\ elim.en = "esperar" /\ salida' = Tail(salida) /\ elim'.pid = Head(salida)
        /\ hay_exit > 0
    BY DEF TomarSalida, ElimSola
  <1>2. salida # <<>>
    BY <1>0, <1>1 DEF SalidaExacta
  <1>3. PICK q \in Pids : q = Head(salida) /\ q \in ToSet(salida)
    BY <1>0, <1>2, PrimeroEsta
  <1>4. elim.pid = NULO /\ elim'.pid = q
    BY <1>0, <1>1, <1>3 DEF FormaElim
  <1>5. ASSUME NEW p \in Pids
        PROVE  /\ Corre(p)' <=> Corre(p)
               /\ \A h \in Hilos : Posee(h, p)' <=> Posee(h, p)
               /\ Sacado(p)' <=> Sacado(p)
    BY <1>1 DEF Posee, Sacado, Corre, EnCpu
  <1>6. ASSUME NEW p \in Pids
        PROVE  \A l \in Sitios \ {"salida", "eliminacion"} : Cuenta(p)'[l] = Cuenta(p)[l]
    BY <1>1, <1>5, Resto
  <1>7. ASSUME NEW p \in Pids
        PROVE  Cuenta(p)["salida"] = Cuenta(p)'["salida"] + (IF p = q THEN 1 ELSE 0)
    <2>1. Cuenta(p)["salida"] = Cuantos(salida, {p})
      BY Valores
    <2>2. Cuenta(p)'["salida"] = Cuantos(salida', {p})
      BY ValoresLuego
    <2>3. Cuantos(salida, {p}) = Cuantos(salida', {p}) + (IF p = q THEN 1 ELSE 0)
      BY <1>0, <1>1, <1>2, <1>3, Sale
    <2> QED
      BY <2>1, <2>2, <2>3
  <1>8. ASSUME NEW p \in Pids
        PROVE  Cuenta(p)'["eliminacion"] = Cuenta(p)["eliminacion"] + (IF p = q THEN 1 ELSE 0)
    <2>1. Cuenta(p)["eliminacion"] = IF elim.pid = p THEN 1 ELSE 0
      BY Presencia
    <2>2. Cuenta(p)'["eliminacion"] = IF elim'.pid = p THEN 1 ELSE 0
      BY PresenciaLuego
    <2> QED
      BY <1>0, <1>4, <2>1, <2>2
  <1>9. Vivo(q)' /\ Debe'["eliminacion"] = estado'[q]
    <2>1. Cuenta(q)["salida"] # 0
      BY <1>0, <1>3, Donde
    <2>2. Vivo(q) /\ estado[q] = Debe["salida"]
      BY <1>0, <2>1, DeSitio
    <2>3. estado[q] = "EXIT"
      BY <2>2, ValorDebeHoy
    <2> QED
      BY <1>1, <2>3, ValorDebe DEF Vivo
  <1>10. \A l \in Sitios : Debe'[l] = Debe[l]
    <2>1. \A h \in Hilos : Debe'[h] = Debe[h]
      BY <1>1, MarcoDebe
    <2>2. Debe'["consola"] = Debe["consola"]
      BY <1>1, MarcoDebe
    <2> QED
      BY <2>1, <2>2, MarcoDebe
  <1>11. \A p \in Pids \ {q} : estado'[p] = estado[p]
    BY <1>1
  <1> QED
    BY <1>0, <1>6, <1>7, <1>8, <1>9, <1>10, <1>11, Traslado

\* The elimination thread destroys the PCB.
LEMMA MuereEliminado ==
  ASSUME Tipos, Orden, TiposColas', MasTipos', ElimDarCupo
  PROVE  Unico' /\ EnEstado'
  <1>0. /\ TiposColas /\ MasTipos /\ Unico /\ EnEstado /\ NULO \notin Pids /\ FormaElim
        /\ estado \in [Pids -> Estados]
        /\ "eliminacion" \in Sitios
    BY Nulo DEF Tipos, TiposColas, Orden, Formas, Sitios
  <1>1. /\ UNCHANGED <<nuevos, listos, salida, bloqueados, consola, hilo>>
        /\ elim.en \in {"sumar", "restar"} /\ elim'.pid = NULO
        /\ estado' = [estado EXCEPT ![elim.pid] = "FIN"]
    BY DEF ElimDarCupo, DarCupo, ElimSola, ElimLibre
  <1>2. PICK q \in Pids : q = elim.pid
    BY <1>0, <1>1 DEF FormaElim
  <1>3. estado'[q] = "FIN" /\ \A p \in Pids \ {q} : estado'[p] = estado[p]
    BY <1>0, <1>1, <1>2
  <1>4. Cuenta(q)["eliminacion"] # 0
    BY <1>0, <1>2, Donde
  <1>5. estado[q] = "EXIT"
    <2>1. estado[q] = Debe["eliminacion"]
      BY <1>0, <1>4, DeSitio
    <2> QED
      BY <2>1, ValorDebeHoy
  <1>6. ASSUME NEW p \in Pids
        PROVE  /\ Corre(p)' <=> Corre(p)
               /\ \A h \in Hilos : Posee(h, p)' <=> Posee(h, p)
               /\ Sacado(p)' <=> Sacado(p)
    BY <1>1, <1>3, <1>5 DEF Posee, Sacado, Corre, EnCpu
  <1>7. ASSUME NEW p \in Pids
        PROVE  \A l \in Sitios \ {"eliminacion"} : Cuenta(p)'[l] = Cuenta(p)[l]
    BY <1>1, <1>6, Resto
  <1>8. ASSUME NEW p \in Pids
        PROVE  Cuenta(p)["eliminacion"] = (IF p = q THEN 1 ELSE 0) /\ Cuenta(p)'["eliminacion"] = 0
    <2>1. Cuenta(p)["eliminacion"] = IF elim.pid = p THEN 1 ELSE 0
      BY Presencia
    <2>2. Cuenta(p)'["eliminacion"] = IF elim'.pid = p THEN 1 ELSE 0
      BY PresenciaLuego
    <2> QED
      BY <1>0, <1>1, <1>2, <2>1, <2>2
  <1>9. ASSUME NEW p \in Pids \ {q}
        PROVE  estado'[p] = estado[p] /\ Cuenta(p)'["eliminacion"] = Cuenta(p)["eliminacion"]
    BY <1>3, <1>8
  <1>10. ~Vivo(q)' /\ Cuenta(q)'["eliminacion"] = 0
    BY <1>3, <1>8 DEF Vivo
  <1>11. \A l \in Sitios : Debe'[l] = Debe[l]
    <2>1. \A h \in Hilos : Debe'[h] = Debe[h]
      BY <1>1, MarcoDebe
    <2>2. Debe'["consola"] = Debe["consola"]
      BY <1>1, MarcoDebe
    <2> QED
      BY <2>1, <2>2, MarcoDebe
  <1> QED
    BY <1>0, <1>4, <1>7, <1>9, <1>10, <1>11, Muerte

\* A queue to the console, which found the process in it.
LEMMA SaleBuscado ==
  ASSUME Tipos, Orden, TiposColas', MasTipos', Sano', BuscarNuevo \/ BuscarListo \/ BuscarBloqueado
  PROVE  Unico' /\ EnEstado'
  <1>0. /\ TiposColas /\ MasTipos /\ Unico /\ EnEstado /\ TiposConsola
        /\ nuevos \in Seq(Pids) /\ listos \in Seq(Pids)
        /\ "consola" \in Sitios /\ {"nuevos", "listos", "bloqueados"} \subseteq Sitios \ {"consola"}
    BY DEF Tipos, TiposColas, Orden, Sitios
  <1> DEFINE a == IF consola.caso = "NEW" THEN "nuevos"
                  ELSE IF consola.caso = "READY" THEN "listos" ELSE "bloqueados"
  <1>1. /\ UNCHANGED <<estado, salida, elim, hilo>>
        /\ consola.en = "buscar" /\ consola.caso \in {"NEW", "READY", "BLOCKED"}
    BY DEF BuscarNuevo, BuscarListo, BuscarBloqueado, ConsolaSola
  <1>2. PICK q \in Pids : q = consola.pid
    BY <1>1 DEF Tipos, Manos
  <1>3. PICK e \in {"esperarNuevo", "esperarListo", "ver"} : consola' = [consola EXCEPT !.en = e]
    BY DEF BuscarNuevo, BuscarListo, BuscarBloqueado, Sano
  <1>4. consola'.en = e /\ consola'.pid = q /\ consola'.caso = consola.caso
    BY <1>0, <1>2, <1>3 DEF TiposConsola
  <1>5. /\ consola.caso = "NEW" => /\ q \in ToSet(nuevos) /\ nuevos' = NuevosSin(q)
                                   /\ UNCHANGED <<listos, bloqueados>>
        /\ consola.caso = "READY" => /\ q \in ToSet(listos) /\ listos' = ListosSin(q)
                                     /\ UNCHANGED <<nuevos, bloqueados>>
        /\ consola.caso = "BLOCKED" => /\ q \in bloqueados /\ bloqueados' = bloqueados \ {q}
                                       /\ UNCHANGED <<nuevos, listos>>
    BY <1>2 DEF BuscarNuevo, BuscarListo, BuscarBloqueado, Sano
  <1>6. ASSUME NEW p \in Pids
        PROVE  /\ Corre(p)' <=> Corre(p)
               /\ \A h \in Hilos : Posee(h, p)' <=> Posee(h, p)
               /\ ~Sacado(p) /\ (Sacado(p)' <=> p = q)
    BY <1>1, <1>4 DEF Posee, Sacado, Corre, EnCpu
  <1>7. PICK b \in Sitios : b = a
    BY <1>0
  <1>8. /\ b = "nuevos" => consola.caso = "NEW"
        /\ b = "listos" => consola.caso = "READY"
        /\ b = "bloqueados" => consola.caso = "BLOCKED"
        /\ b \in {"nuevos", "listos", "bloqueados"}
    BY <1>1, <1>7
  <1> HIDE DEF a
  <1>9. ASSUME NEW p \in Pids
        PROVE  \A l \in Sitios \ {b, "consola"} : Cuenta(p)'[l] = Cuenta(p)[l]
    <2> DEFINE M == Sitios \ {b, "consola"}
    <2>1. /\ "nuevos" \in M => nuevos' = nuevos
          /\ "listos" \in M => listos' = listos
          /\ "bloqueados" \in M => bloqueados' = bloqueados
          /\ M \in SUBSET Sitios /\ "consola" \notin M
      BY <1>5, <1>8
    <2> HIDE DEF M
    <2>2. \A l \in M : Cuenta(p)'[l] = Cuenta(p)[l]
      BY <1>1, <1>6, <2>1, Resto
    <2> QED
      BY <2>2 DEF M
  <1>10. ASSUME NEW p \in Pids
         PROVE  Cuenta(p)[b] = Cuenta(p)'[b] + (IF p = q THEN 1 ELSE 0)
    <2>1. CASE b = "nuevos"
      <3>1. Cuenta(p)["nuevos"] = Cuantos(nuevos, {p})
        BY Valores
      <3>2. Cuenta(p)'["nuevos"] = Cuantos(nuevos', {p})
        BY ValoresLuego
      <3>3. Cuantos(nuevos, {p}) = Cuantos(NuevosSin(q), {p}) + (IF p = q THEN 1 ELSE 0)
        BY <1>0, <1>5, <1>8, <2>1, SaleDeNuevos
      <3> QED
        BY <1>5, <1>8, <2>1, <3>1, <3>2, <3>3
    <2>2. CASE b = "listos"
      <3>1. Cuenta(p)["listos"] = Cuantos(listos, {p})
        BY Valores
      <3>2. Cuenta(p)'["listos"] = Cuantos(listos', {p})
        BY ValoresLuego
      <3>3. Cuantos(listos, {p}) = Cuantos(ListosSin(q), {p}) + (IF p = q THEN 1 ELSE 0)
        BY <1>0, <1>5, <1>8, <2>2, SaleDeListos
      <3> QED
        BY <1>5, <1>8, <2>2, <3>1, <3>2, <3>3
    <2>3. CASE b = "bloqueados"
      <3>1. Cuenta(p)["bloqueados"] = IF p \in bloqueados THEN 1 ELSE 0
        BY Presencia
      <3>2. Cuenta(p)'["bloqueados"] = IF p \in bloqueados' THEN 1 ELSE 0
        BY PresenciaLuego
      <3> QED
        BY <1>5, <1>8, <2>3, <3>1, <3>2
    <2> QED
      BY <1>8, <2>1, <2>2, <2>3
  <1>11. ASSUME NEW p \in Pids
         PROVE  Cuenta(p)'["consola"] = Cuenta(p)["consola"] + (IF p = q THEN 1 ELSE 0)
    <2>1. Cuenta(p)["consola"] = IF Sacado(p) THEN 1 ELSE 0
      BY Presencia
    <2>2. Cuenta(p)'["consola"] = IF Sacado(p)' THEN 1 ELSE 0
      BY PresenciaLuego
    <2> QED
      BY <1>6, <2>1, <2>2
  <1>12. Vivo(q)' /\ Debe'["consola"] = estado'[q]
    <2>1. Cuenta(q)[b] # 0
      <3>1. q \in ToSet(nuevos) => Cuenta(q)["nuevos"] # 0
        BY <1>0, Donde
      <3>2. q \in ToSet(listos) => Cuenta(q)["listos"] # 0
        BY <1>0, Donde
      <3>3. q \in bloqueados => Cuenta(q)["bloqueados"] # 0
        BY <1>0, Donde
      <3> QED
        BY <1>5, <1>8, <3>1, <3>2, <3>3
    <2>2. Vivo(q) /\ estado[q] = Debe[b]
      BY <1>0, <2>1, DeSitio
    <2>3. Debe[b] = consola.caso
      BY <1>8, ValorDebeHoy
    <2>4. Debe'["consola"] = consola'.caso
      BY ValorDebe
    <2> QED
      BY <1>1, <1>4, <2>2, <2>3, <2>4 DEF Vivo
  <1>13. \A l \in Sitios : Debe'[l] = Debe[l]
    <2>1. \A h \in Hilos : Debe'[h] = Debe[h]
      BY <1>1, MarcoDebe
    <2>2. Debe'["consola"] = Debe["consola"]
      BY <1>4, MarcoDebe
    <2> QED
      BY <2>1, <2>2, MarcoDebe
  <1>14. b \in Sitios /\ "consola" \in Sitios \ {b} /\ \A p \in Pids \ {q} : estado'[p] = estado[p]
    BY <1>0, <1>1, <1>8
  <1> QED
    BY <1>0, <1>9, <1>10, <1>11, <1>12, <1>13, <1>14, Traslado

\* The CPU to the console, which asked for it to be killed.
LEMMA SaleMuerto ==
  ASSUME Tipos, Orden, TiposColas', MasTipos', EsperarMuerte
  PROVE  Unico' /\ EnEstado'
  <1>0. /\ TiposColas /\ MasTipos /\ Unico /\ EnEstado /\ TiposConsola /\ FormaConsola
        /\ "cpu" \in Sitios /\ "consola" \in Sitios \ {"cpu"}
    BY DEF Tipos, TiposColas, Orden, Formas, Sitios
  <1>1. /\ UNCHANGED <<estado, nuevos, listos, bloqueados, salida, elim, hilo>>
        /\ consola.en = "esperarMuerte" /\ hilo["despacho"] = [en |-> "esperar", pid |-> NULO]
        /\ consola' = [consola EXCEPT !.en = "quitar"]
    BY DEF EsperarMuerte, ConsolaSola, Quieto
  <1>2. PICK q \in Pids : q = consola.pid
    BY <1>1 DEF Tipos, Manos
  <1>3. /\ consola'.en = "quitar" /\ consola'.pid = q /\ consola'.caso = "EXEC"
        /\ consola.caso = "EXEC" /\ estado[q] = "EXEC"
    BY <1>0, <1>1, <1>2 DEF TiposConsola, FormaConsola, EsperarMuerte
  <1>4. Corre(q) /\ ~Corre(q)'
    BY <1>1, <1>3 DEF Corre, EnCpu
  <1>5. ASSUME NEW p \in Pids \ {q} PROVE Corre(p)' <=> Corre(p)
    BY <1>1, <1>2, <1>3 DEF Corre, EnCpu
  <1>6. ASSUME NEW p \in Pids
        PROVE  /\ \A h \in Hilos : Posee(h, p)' <=> Posee(h, p)
               /\ ~Sacado(p) /\ (Sacado(p)' <=> p = q)
    BY <1>1, <1>3 DEF Posee, Sacado
  <1>7. ASSUME NEW p \in Pids
        PROVE  \A l \in Sitios \ {"cpu", "consola"} : Cuenta(p)'[l] = Cuenta(p)[l]
    BY <1>1, <1>6, Resto
  <1>8. ASSUME NEW p \in Pids
        PROVE  Cuenta(p)["cpu"] = Cuenta(p)'["cpu"] + (IF p = q THEN 1 ELSE 0)
    <2>1. Cuenta(p)["cpu"] = IF Corre(p) THEN 1 ELSE 0
      BY Presencia
    <2>2. Cuenta(p)'["cpu"] = IF Corre(p)' THEN 1 ELSE 0
      BY PresenciaLuego
    <2> QED
      BY <1>4, <1>5, <2>1, <2>2
  <1>9. ASSUME NEW p \in Pids
        PROVE  /\ Cuenta(p)["consola"] = 0
               /\ Cuenta(p)'["consola"] = Cuenta(p)["consola"] + (IF p = q THEN 1 ELSE 0)
    <2>1. Cuenta(p)["consola"] = IF Sacado(p) THEN 1 ELSE 0
      BY Presencia
    <2>2. Cuenta(p)'["consola"] = IF Sacado(p)' THEN 1 ELSE 0
      BY PresenciaLuego
    <2> QED
      BY <1>6, <2>1, <2>2
  <1>10. Vivo(q)' /\ Debe'["consola"] = estado'[q]
    BY <1>1, <1>3, ValorDebe DEF Vivo
  <1>11. \A l \in Sitios : Debe'[l] = Debe[l]
    <2>1. \A h \in Hilos : Debe'[h] = Debe[h]
      BY <1>1, MarcoDebe
    <2>2. Debe'["consola"] = Debe["consola"]
      BY <1>3, MarcoDebe
    <2> QED
      BY <2>1, <2>2, MarcoDebe
  <1>12. \A p \in Pids \ {q} : estado'[p] = estado[p]
    BY <1>1
  <1> QED
    BY <1>0, <1>7, <1>8, <1>9, <1>10, <1>11, <1>12, Traslado

\* FINALIZAR_PROCESO destroys the PCB.
LEMMA MuereFinalizado ==
  ASSUME Tipos, Orden, TiposColas', MasTipos',
         \/ Quitar /\ consola.caso # "EXEC"
         \/ DarCupoConsola /\ consola.caso = "EXEC"
  PROVE  Unico' /\ EnEstado'
  <1>0. /\ TiposColas /\ MasTipos /\ Unico /\ EnEstado /\ NULO \notin Pids /\ FormaConsola
        /\ estado \in [Pids -> Estados]
        /\ "consola" \in Sitios /\ "cpu" \in Sitios \ {"consola"}
    BY Nulo DEF Tipos, TiposColas, Orden, Formas, Sitios
  <1>1. /\ UNCHANGED <<nuevos, listos, salida, bloqueados, elim, hilo>>
        /\ consola.en \in {"quitar", "sumar", "restar"}
        /\ consola'.pid = NULO /\ consola'.en = "libre" /\ consola'.caso = "NADA"
        /\ estado' = [estado EXCEPT ![consola.pid] = "FIN"]
    BY DEF Quitar, DarCupoConsola, DarCupo, ConsolaSola, ConsolaLibre
  <1>2. PICK q \in Pids : q = consola.pid
    BY <1>1 DEF Tipos, Manos
  <1>3. estado'[q] = "FIN" /\ \A p \in Pids \ {q} : estado'[p] = estado[p]
    BY <1>0, <1>1, <1>2
  <1>4. ASSUME NEW p \in Pids PROVE (Sacado(p) <=> p = q) /\ ~Sacado(p)'
    BY <1>0, <1>1, <1>2 DEF Sacado
  <1>5. Cuenta(q)["consola"] # 0
    BY <1>0, <1>4, Donde
  <1>6. ~Corre(q) /\ ~Corre(q)'
    <2>1. Cuenta(q)["cpu"] = 0
      BY <1>0, <1>5, DeSitio
    <2>2. ~Corre(q)
      BY <2>1, NoEsta
    <2>3. ~Corre(q)'
      BY <1>3 DEF Corre, EnCpu
    <2> QED
      BY <2>2, <2>3
  <1>7. ASSUME NEW p \in Pids
        PROVE  (Corre(p)' <=> Corre(p)) /\ \A h \in Hilos : Posee(h, p)' <=> Posee(h, p)
    <2>1. p # q => (Corre(p)' <=> Corre(p))
      BY <1>0, <1>1, <1>2, <1>3 DEF Corre, EnCpu
    <2>2. \A h \in Hilos : Posee(h, p)' <=> Posee(h, p)
      BY <1>1 DEF Posee
    <2> QED
      BY <1>6, <2>1, <2>2
  <1>8. ASSUME NEW p \in Pids
        PROVE  \A l \in Sitios \ {"consola"} : Cuenta(p)'[l] = Cuenta(p)[l]
    BY <1>1, <1>7, Resto
  <1>9. ASSUME NEW p \in Pids
        PROVE  Cuenta(p)["consola"] = (IF p = q THEN 1 ELSE 0) /\ Cuenta(p)'["consola"] = 0
    <2>1. Cuenta(p)["consola"] = IF Sacado(p) THEN 1 ELSE 0
      BY Presencia
    <2>2. Cuenta(p)'["consola"] = IF Sacado(p)' THEN 1 ELSE 0
      BY PresenciaLuego
    <2> QED
      BY <1>4, <2>1, <2>2
  <1>10. ASSUME NEW p \in Pids \ {q}
         PROVE  estado'[p] = estado[p] /\ Cuenta(p)'["consola"] = Cuenta(p)["consola"]
    BY <1>3, <1>9
  <1>11. ~Vivo(q)' /\ Cuenta(q)'["consola"] = 0
    BY <1>3, <1>9 DEF Vivo
  <1>12. ASSUME NEW p \in Pids \ {q}, NEW l \in Sitios, Cuenta(p)[l] # 0 PROVE Debe'[l] = Debe[l]
    <2>1. \A h \in Hilos : Debe'[h] = Debe[h]
      BY <1>1, MarcoDebe
    <2>2. l # "consola"
      BY <1>9, <1>12
    <2> QED
      BY <2>1, <2>2, MarcoDebe
  <1> QED
    BY <1>0, <1>5, <1>8, <1>10, <1>11, <1>12, Muerte

\* A new process.  Pids are given out in order, so it is none of those there were.
LEMMA PidNuevo ==
  ASSUME EnOrden, MAX_PIDS \in Nat
  PROVE  /\ \A p \in Pids : p = contador_pid => estado[p] = "NADA"
         /\ \A p \in Pids : estado[p] # "NADA" <=> p < contador_pid
         /\ contador_pid \in 0 .. MAX_PIDS
  <1>1. PICK n \in 0 .. MAX_PIDS : \A p \in Pids : estado[p] # "NADA" <=> p < n
    BY DEF EnOrden
  <1>2. {p \in Pids : estado[p] # "NADA"} = 0 .. n - 1
    BY <1>1 DEF Pids
  <1>3. n \in Nat /\ n <= MAX_PIDS
    OBVIOUS
  <1>4. Cardinality(0 .. n - 1) = n
    <2>1. 0 \in Int /\ n - 1 \in Int
      BY <1>3
    <2> DEFINE b == n - 1
    <2>2. b \in Int /\ n = b + 1
      BY <1>3
    <2> HIDE DEF b
    <2>3. Cardinality(0 .. b) = IF 0 > b THEN 0 ELSE b - 0 + 1
      BY <2>2, FS_Interval
    <2> QED
      BY <1>3, <2>2, <2>3 DEF b
  <1>5. contador_pid = n
    BY <1>2, <1>4 DEF contador_pid
  <1> QED
    BY <1>1, <1>3, <1>5 DEF Pids

LEMMA Nace ==
  ASSUME Tipos, Orden, TiposColas', MasTipos', NEW q \in Pids, Iniciar(q)
  PROVE  Unico' /\ EnEstado'
  <1>0. /\ TiposColas /\ MasTipos /\ Unico /\ EnEstado /\ EnOrden /\ MAX_PIDS \in Nat
        /\ estado \in [Pids -> Estados] /\ nuevos \in Seq(Pids) /\ "nuevos" \in Sitios
    BY CotasAssumption DEF Tipos, TiposColas, Orden, Sitios
  <1>1. /\ UNCHANGED <<listos, salida, bloqueados, elim, hilo, consola>>
        /\ nuevos' = Append(nuevos, q) /\ q = contador_pid
        /\ estado' = [estado EXCEPT ![q] = "NEW"]
    BY DEF Iniciar
  <1>2. estado[q] = "NADA" /\ estado'[q] = "NEW" /\ \A p \in Pids \ {q} : estado'[p] = estado[p]
    BY <1>0, <1>1, PidNuevo
  <1>3. ~Vivo(q) /\ Vivo(q)'
    BY <1>2 DEF Vivo
  <1>4. ASSUME NEW p \in Pids
        PROVE  /\ Corre(p)' <=> Corre(p)
               /\ \A h \in Hilos : Posee(h, p)' <=> Posee(h, p)
               /\ Sacado(p)' <=> Sacado(p)
    BY <1>1, <1>2 DEF Posee, Sacado, Corre, EnCpu
  <1>5. ASSUME NEW p \in Pids
        PROVE  \A l \in Sitios \ {"nuevos"} : Cuenta(p)'[l] = Cuenta(p)[l]
    BY <1>1, <1>4, Resto
  <1>6. ASSUME NEW p \in Pids
        PROVE  Cuenta(p)'["nuevos"] = Cuenta(p)["nuevos"] + (IF p = q THEN 1 ELSE 0)
    <2>1. Cuenta(p)["nuevos"] = Cuantos(nuevos, {p})
      BY Valores
    <2>2. Cuenta(p)'["nuevos"] = Cuantos(nuevos', {p})
      BY ValoresLuego
    <2>3. nuevos \in Seq(Pids)
      BY <1>0
    <2>4. Cuantos(Append(nuevos, q), {p}) = Cuantos(nuevos, {p}) + (IF p = q THEN 1 ELSE 0)
      BY <2>3, EntraProceso
    <2> QED
      BY <1>1, <2>1, <2>2, <2>4
  <1>7. ASSUME NEW p \in Pids PROVE Cuenta(p)["nuevos"] \in Nat
    <2>1. Cuenta(p) \in [Sitios -> Nat]
      BY <1>0, Naturales
    <2> QED
      BY <1>0, <2>1
  <1>8. Cuenta(q)'["nuevos"] = 1
    <2>1. Cuenta(q)["nuevos"] = 0
      BY <1>0, <1>3 DEF Unico, Nada
    <2> QED
      BY <1>6, <2>1
  <1>9. ASSUME NEW p \in Pids \ {q}
        PROVE  estado'[p] = estado[p] /\ Cuenta(p)'["nuevos"] = Cuenta(p)["nuevos"]
    BY <1>2, <1>6, <1>7
  <1>10. Debe'["nuevos"] = estado'[q]
    BY <1>2, ValorDebe
  <1>11. \A l \in Sitios : Debe'[l] = Debe[l]
    <2>1. \A h \in Hilos : Debe'[h] = Debe[h]
      BY <1>1, MarcoDebe
    <2>2. Debe'["consola"] = Debe["consola"]
      BY <1>1, MarcoDebe
    <2> QED
      BY <2>1, <2>2, MarcoDebe
  <1> QED
    BY <1>0, <1>3, <1>5, <1>8, <1>9, <1>10, <1>11, Nacimiento

-----------------------------------------------------------------------------
(* What keeps the places apart: types, forms of the threads, and counters.  *)

\* The steps that change cola_procesos_exit.
LEMMA SalidaQuieta ==
  [Next]_vars => UNCHANGED <<salida, hay_exit>> \/ TomarSalida \/ \E p \in Pids : Terminar(p)
  <1> USE DEF procesos, semaforos
  <1>1. Creacion \/ Corto => UNCHANGED <<salida, hay_exit>>
    BY DEF Creacion, Corto, TomarNuevo, TomarCupo, SacarNuevo, TomarListo, TomarCpu, Despachar
  <1>2. \A h \in Hilos : Hilo(h) => UNCHANGED <<salida, hay_exit>>
    BY DEF Hilo, PonerListo, AvisarListo
  <1>3. ElimQuitar \/ ElimVerCupo \/ ElimDarCupo => UNCHANGED <<salida, hay_exit>>
    BY DEF ElimQuitar, ElimVerCupo, ElimDarCupo
  <1>4. Consola \/ (\E p \in Pids : Finalizar(p)) => UNCHANGED <<salida, hay_exit>>
    BY DEF Consola, Finalizar, LeerEstado, BuscarNuevo, BuscarListo, BuscarBloqueado, EsperarNuevo,
           EsperarListo, EsperarMuerte, Quitar, VerCupoConsola, DarCupoConsola, ConsolaSola
  <1>5. Grado => UNCHANGED <<salida, hay_exit>>
    BY DEF Grado, EsperarCupo, AnotarResto, SubirGrado, BajarGrado, SoloGrado
  <1>6. \A p \in Pids : Iniciar(p) \/ Desalojar(p) \/ Bloquear(p) \/ Desbloquear(p)
                        => UNCHANGED <<salida, hay_exit>>
    BY DEF Iniciar, Desalojar, Bloquear, DejaLaCpu, Desbloquear
  <1>7. UNCHANGED vars => UNCHANGED <<salida, hay_exit>>
    BY DEF vars
  <1> QED
    BY <1>1, <1>2, <1>3, <1>4, <1>5, <1>6, <1>7 DEF Next, Eliminacion, Programa

LEMMA SalidaPaso ==
  ASSUME Tipos, Orden, [Next]_vars
  PROVE  SalidaExacta' /\ salida' \in Seq(Pids) /\ hay_exit' \in Nat
  <1>0. SalidaExacta /\ salida \in Seq(Pids) /\ hay_exit \in Nat
    BY DEF Orden, MasTipos
  <1>1. CASE UNCHANGED <<salida, hay_exit>>
    BY <1>0, <1>1 DEF SalidaExacta
  <1>2. CASE TomarSalida
    <2>1. hay_exit > 0 /\ hay_exit' = hay_exit - 1 /\ salida' = Tail(salida)
      BY <1>2 DEF TomarSalida
    <2>2. salida # <<>>
      BY <1>0, <2>1 DEF SalidaExacta
    <2>3. Tail(salida) \in Seq(Pids) /\ Len(Tail(salida)) = Len(salida) - 1
      BY <1>0, <2>2, Colas
    <2> QED
      BY <1>0, <2>1, <2>3 DEF SalidaExacta
  <1>3. ASSUME NEW p \in Pids, Terminar(p)
        PROVE  SalidaExacta' /\ salida' \in Seq(Pids) /\ hay_exit' \in Nat
    <2>1. hay_exit' = hay_exit + 1 /\ salida' = Append(salida, p)
      BY <1>3 DEF Terminar
    <2>2. Append(salida, p) \in Seq(Pids) /\ Len(Append(salida, p)) = Len(salida) + 1
      BY <1>0, Colas
    <2> QED
      BY <1>0, <2>1, <2>2 DEF SalidaExacta
  <1> QED
    BY <1>1, <1>2, <1>3, SalidaQuieta

\* A process that lives and has not been removed has an index.
LEMMA TieneIndice ==
  ASSUME TiposColas, EnSistema, NEW p \in Pids, Vivo(p), ~QuitadoDelSistema(p)
  PROVE  Indice(p) \in DOMAIN sistema /\ sistema[Indice(p)] = p
  <1>1. Cuantos(sistema, {p}) = 1
    BY DEF EnSistema, Uno
  <1>2. p \in ToSet(sistema)
    BY <1>1, EstaSiCuenta DEF TiposColas
  <1> QED
    BY <1>2 DEF ToSet, Indice

\* What is in cola_procesos_exit is in procesos_en_sistema.
LEMMA ExitEnSistema ==
  ASSUME Tipos, Orden, elim.en = "esperar", hay_exit > 0
  PROVE  /\ salida # <<>> /\ Head(salida) \in Pids
         /\ Vivo(Head(salida)) /\ ~QuitadoDelSistema(Head(salida))
  <1>0. /\ TiposColas /\ MasTipos /\ Unico /\ EnEstado /\ NULO \notin Pids /\ FormaElim
        /\ salida \in Seq(Pids) /\ SalidaExacta /\ hay_exit \in Nat
        /\ {"salida", "eliminacion", "consola"} \subseteq Sitios
    BY Nulo DEF Tipos, MasTipos, Orden, Formas, Sitios
  <1>1. salida # <<>>
    BY <1>0 DEF SalidaExacta
  <1>2. PICK q \in Pids : q = Head(salida) /\ q \in ToSet(salida)
    BY <1>0, <1>1, PrimeroEsta
  <1>3. Cuenta(q)["salida"] # 0
    BY <1>0, <1>2, Donde
  <1>4. Vivo(q) /\ Cuenta(q)["consola"] = 0
    BY <1>0, <1>3, DeSitio
  <1>5. ~Sacado(q) /\ elim.pid # q
    BY <1>0, <1>2, <1>4, NoEsta DEF FormaElim
  <1> QED
    BY <1>1, <1>2, <1>4, <1>5 DEF QuitadoDelSistema, Sacado

LEMMA MasTiposPaso ==
  ASSUME Tipos, Orden, [Next]_vars
  PROVE  MasTipos'
  <1>0. /\ bloqueados \subseteq Pids /\ cpu_libre \in Nat
        /\ elim \in [en : {"esperar", "quitar", "ver", "sumar", "restar"}, pid : Pids \cup {NULO},
                     indice : Int]
    BY DEF Orden, MasTipos
  <1> DEFINE B == bloqueados' \subseteq Pids
             C == cpu_libre' \in Nat
             D == elim' \in [en : {"esperar", "quitar", "ver", "sumar", "restar"},
                             pid : Pids \cup {NULO}, indice : Int]
  <1> USE DEF procesos, semaforos
  <1>1. ASSUME Creacion \/ Corto PROVE B /\ C /\ D
    <2>1. UNCHANGED <<bloqueados, elim>>
      BY <1>1 DEF Creacion, Corto, TomarNuevo, TomarCupo, SacarNuevo, TomarListo, TomarCpu,
                  Despachar
    <2>2. cpu_libre' = cpu_libre \/ (cpu_libre > 0 /\ cpu_libre' = cpu_libre - 1)
      BY <1>1 DEF Creacion, Corto, TomarNuevo, TomarCupo, SacarNuevo, TomarListo, TomarCpu,
                  Despachar
    <2> QED
      BY <1>0, <2>1, <2>2
  <1>2. ASSUME NEW h \in Hilos, Hilo(h) PROVE B /\ C /\ D
    <2>1. UNCHANGED <<bloqueados, elim>> /\ cpu_libre' \in {cpu_libre, cpu_libre + 1}
      BY <1>2 DEF Hilo, PonerListo, AvisarListo
    <2> QED
      BY <1>0, <2>1
  <1>3. ASSUME Consola \/ \E p \in Pids : Finalizar(p) PROVE B /\ C /\ D
    <2>1. /\ bloqueados' \subseteq bloqueados /\ elim' = elim
          /\ cpu_libre' \in {cpu_libre, cpu_libre + 1}
      BY <1>3 DEF Consola, Finalizar, LeerEstado, BuscarNuevo, BuscarListo, BuscarBloqueado,
                  EsperarNuevo, EsperarListo, EsperarMuerte, Quitar, VerCupoConsola,
                  DarCupoConsola, ConsolaSola, CpuAlQuitar
    <2> QED
      BY <1>0, <2>1
  <1>4. ASSUME Grado \/ UNCHANGED vars PROVE B /\ C /\ D
    <2>1. UNCHANGED <<bloqueados, elim, cpu_libre>>
      BY <1>4 DEF Grado, EsperarCupo, AnotarResto, SubirGrado, BajarGrado, SoloGrado, vars
    <2> QED
      BY <1>0, <2>1
  <1>5. ASSUME NEW p \in Pids, Programa(p) PROVE B /\ C /\ D
    <2>1. /\ bloqueados' \subseteq bloqueados \cup {p} /\ elim' = elim
          /\ cpu_libre' \in {cpu_libre, cpu_libre + 1}
      BY <1>5 DEF Programa, Iniciar, Desalojar, Bloquear, Terminar, DejaLaCpu, Desbloquear
    <2> QED
      BY <1>0, <2>1
  <1>6. ASSUME ElimQuitar \/ ElimVerCupo \/ ElimDarCupo PROVE B /\ C /\ D
    <2>1. UNCHANGED <<bloqueados, cpu_libre>>
      BY <1>6 DEF ElimQuitar, ElimVerCupo, ElimDarCupo, ElimSola
    <2>2. D
      BY <1>0, <1>6 DEF ElimQuitar, ElimVerCupo, ElimDarCupo, VerCupo, ElimLibre
    <2> QED
      BY <1>0, <2>1, <2>2
  <1>7. ASSUME TomarSalida PROVE B /\ C /\ D
    <2>1. UNCHANGED <<bloqueados, cpu_libre>>
      BY <1>7 DEF TomarSalida, ElimSola
    <2>2. elim' = [en |-> "quitar", pid |-> Head(salida), indice |-> Indice(Head(salida))]
          /\ elim.en = "esperar" /\ hay_exit > 0
      BY <1>7 DEF TomarSalida
    <2>3. Head(salida) \in Pids /\ Vivo(Head(salida)) /\ ~QuitadoDelSistema(Head(salida))
      BY <2>2, ExitEnSistema
    <2>4. TiposColas /\ EnSistema /\ sistema \in Seq(Pids)
      BY DEF Tipos, TiposColas, Orden
    <2>5. Indice(Head(salida)) \in DOMAIN sistema
      BY <2>3, <2>4, TieneIndice
    <2>6. Indice(Head(salida)) \in Int
      BY <2>4, <2>5
    <2> QED
      BY <1>0, <2>1, <2>2, <2>3, <2>6
  <1>8. B /\ C /\ D
    BY <1>1, <1>2, <1>3, <1>4, <1>5, <1>6, <1>7 DEF Next, Eliminacion
  <1> QED
    BY <1>8, SalidaPaso DEF MasTipos

LEMMA FormaHilosPaso ==
  ASSUME Tipos, FormaHilos, [Next]_vars
  PROVE  FormaHilos'
  <1> USE DEF procesos, semaforos
  <1>0. /\ hilo \in [Hilos -> [en : LugaresHilo, pid : Pids \cup {NULO}]] /\ "creacion" \in Hilos
        /\ \A h \in Hilos : /\ hilo[h].en \in {"esperar", "cupo", "sacar"} => hilo[h].pid = NULO
                            /\ hilo[h].en \in {"cupo", "sacar"} => h = "creacion"
    BY DEF Tipos, TiposHilos, FormaHilos, Hilos
  <1>1. ASSUME TomarNuevo \/ TomarCupo PROVE FormaHilos'
    <2>1. PICK e \in {"cupo", "sacar"} : hilo' = [hilo EXCEPT !["creacion"].en = e]
      BY <1>1 DEF TomarNuevo, TomarCupo, Avanzar
    <2>2. hilo["creacion"].en \in {"esperar", "cupo"}
      BY <1>1 DEF TomarNuevo, TomarCupo
    <2> QED
      BY <1>0, <2>1, <2>2 DEF FormaHilos
  <1>2. ASSUME SacarNuevo PROVE FormaHilos'
    <2>1. hilo' = [hilo EXCEPT !["creacion"] = [en |-> "poner", pid |-> Head(nuevos)]]
      BY <1>2 DEF SacarNuevo
    <2> QED
      BY <1>0, <2>1 DEF FormaHilos
  <1>3. ASSUME NEW h \in Hilos, Hilo(h) PROVE FormaHilos'
    <2>1. CASE PonerListo(h)
      <3>1. PICK e \in {"avisar", "trabado"} : hilo' = [hilo EXCEPT ![h].en = e]
        BY <2>1 DEF PonerListo, Avanzar
      <3> QED
        BY <1>0, <3>1 DEF FormaHilos
    <2>2. CASE AvisarListo(h)
      <3>1. hilo' = [hilo EXCEPT ![h] = Quieto]
        BY <2>2 DEF AvisarListo
      <3> QED
        BY <1>0, <3>1 DEF FormaHilos, Quieto
    <2> QED
      BY <1>3, <2>1, <2>2 DEF Hilo
  <1>4. ASSUME NEW p \in Pids, Desalojar(p) \/ Desbloquear(p) PROVE FormaHilos'
    <2>1. PICK h \in {"despacho", "interfaz"} : hilo' = [hilo EXCEPT ![h] = [en |-> "poner", pid |-> p]]
      BY <1>4 DEF Desalojar, Desbloquear
    <2> QED
      BY <1>0, <2>1 DEF FormaHilos
  <1>5. Corto \/ Eliminacion \/ Consola \/ Grado \/ UNCHANGED vars => hilo' = hilo
    BY DEF Corto, TomarListo, TomarCpu, Despachar, Eliminacion, TomarSalida, ElimQuitar,
           ElimVerCupo, ElimDarCupo, ElimSola, Consola, LeerEstado, BuscarNuevo,
           BuscarListo, BuscarBloqueado, EsperarNuevo, EsperarListo, EsperarMuerte, Quitar,
           VerCupoConsola, DarCupoConsola, ConsolaSola, Grado, EsperarCupo, AnotarResto,
           SubirGrado, BajarGrado, SoloGrado, vars
  <1>6. \A p \in Pids : Iniciar(p) \/ Bloquear(p) \/ Terminar(p) \/ Finalizar(p) => hilo' = hilo
    BY DEF Iniciar, Bloquear, Terminar, DejaLaCpu, Finalizar, ConsolaSola
  <1>7. ASSUME hilo' = hilo PROVE FormaHilos'
    BY <1>7 DEF FormaHilos
  <1> QED
    BY <1>1, <1>2, <1>3, <1>4, <1>5, <1>6, <1>7 DEF Next, Creacion, Programa

LEMMA FormaElimPaso ==
  ASSUME Tipos, Orden, [Next]_vars
  PROVE  FormaElim'
  <1> USE DEF procesos, semaforos
  <1>0. /\ FormaElim
        /\ elim \in [en : {"esperar", "quitar", "ver", "sumar", "restar"}, pid : Pids \cup {NULO},
                     indice : Int]
    BY DEF Orden, Formas, MasTipos
  <1>1. ASSUME elim' = elim PROVE FormaElim'
    BY <1>0, <1>1 DEF FormaElim
  <1>2. ASSUME TomarSalida PROVE FormaElim'
    <2>1. elim.en = "esperar" /\ hay_exit > 0 /\ elim'.en = "quitar" /\ elim'.pid = Head(salida)
      BY <1>2 DEF TomarSalida
    <2>2. Head(salida) \in Pids
      BY <2>1, ExitEnSistema
    <2> QED
      BY <2>1, <2>2 DEF FormaElim
  <1>3. ASSUME ElimQuitar \/ ElimVerCupo PROVE FormaElim'
    <2>1. PICK e \in {"ver", "sumar", "restar"} : elim' = [elim EXCEPT !.en = e]
      BY <1>3 DEF ElimQuitar, ElimVerCupo, VerCupo
    <2>2. elim.en # "esperar"
      BY <1>3 DEF ElimQuitar, ElimVerCupo
    <2> QED
      BY <1>0, <2>1, <2>2 DEF FormaElim
  <1>4. ASSUME ElimDarCupo PROVE FormaElim'
    BY <1>4 DEF ElimDarCupo, ElimLibre, FormaElim
  <1>5. Creacion \/ Corto \/ Consola \/ Grado \/ UNCHANGED vars => elim' = elim
    BY DEF Creacion, TomarNuevo, TomarCupo, SacarNuevo, Corto, TomarListo, TomarCpu, Despachar,
           Consola, LeerEstado, BuscarNuevo, BuscarListo, BuscarBloqueado, EsperarNuevo,
           EsperarListo, EsperarMuerte, Quitar, VerCupoConsola, DarCupoConsola, ConsolaSola, Grado,
           EsperarCupo, AnotarResto, SubirGrado, BajarGrado, SoloGrado, vars
  <1>6. \A p \in Pids : Programa(p) \/ Finalizar(p) => elim' = elim
    BY DEF Programa, Iniciar, Desalojar, Bloquear, Terminar, DejaLaCpu, Desbloquear, Finalizar,
           ConsolaSola
  <1>7. \A h \in Hilos : Hilo(h) => elim' = elim
    BY DEF Hilo, PonerListo, AvisarListo
  <1> QED
    BY <1>1, <1>2, <1>3, <1>4, <1>5, <1>6, <1>7 DEF Next, Eliminacion

LEMMA FormaConsolaPaso ==
  ASSUME Tipos, Orden, [Next]_vars, Sano'
  PROVE  FormaConsola'
  <1> USE DEF procesos, semaforos
  <1>0. /\ FormaConsola /\ TiposConsola /\ TiposColas /\ EnSistema
        /\ consola \in [en : LugaresConsola, pid : Pids \cup {NULO}, indice : Nat, caso : Estados,
                        esperas : Nat, resto : Nat]
    BY DEF Orden, Formas, Tipos, TiposConsola
  <1>1. ASSUME consola' = consola PROVE FormaConsola'
    BY <1>0, <1>1 DEF FormaConsola
  <1>2. ASSUME NEW p \in Pids, Finalizar(p) PROVE FormaConsola'
    BY <1>2 DEF Finalizar, ConsolaLibre, FormaConsola
  <1>3. ASSUME LeerEstado PROVE FormaConsola'
    <2>1. PICK q \in Pids : q = consola.pid
      BY <1>3 DEF LeerEstado, Tipos, Manos
    <2>2. consola'.caso = estado[q] /\ consola'.en = IF estado[q] = "EXEC" THEN "esperarMuerte" ELSE "buscar"
      BY <1>0, <1>3, <2>1 DEF LeerEstado
    <2>3. ~Corrido(q, consola.indice) /\ estado[q] \notin {"EXIT", "FIN"}
      BY <1>3, <2>1 DEF LeerEstado, Sano
    <2>4. q \in ToSet(sistema)
      BY <2>3 DEF Corrido, ToSet
    <2>5. Cuantos(sistema, {q}) # 0
      BY <1>0, <2>4, EstaSiCuenta DEF TiposColas
    <2>6. Vivo(q)
      BY <1>0, <2>5 DEF EnSistema, Uno
    <2>7. estado[q] \in {"NEW", "READY", "BLOCKED", "EXEC"}
      BY <1>0, <2>3, <2>6 DEF Vivo, TiposColas, Estados
    <2> QED
      BY <2>2, <2>7 DEF FormaConsola
  <1>4. ASSUME BuscarNuevo \/ BuscarListo \/ BuscarBloqueado PROVE FormaConsola'
    <2>1. PICK e \in {"esperarNuevo", "esperarListo", "ver"} :
            /\ consola' = [consola EXCEPT !.en = e]
            /\ \/ consola.caso = "NEW" /\ e = "esperarNuevo"
               \/ consola.caso = "READY" /\ e = "esperarListo"
               \/ consola.caso = "BLOCKED" /\ e = "ver"
      BY <1>4 DEF BuscarNuevo, BuscarListo, BuscarBloqueado, Sano
    <2>2. consola'.en = e /\ consola'.caso = consola.caso
      BY <1>0, <2>1
    <2> QED
      BY <2>1, <2>2 DEF FormaConsola
  <1>5. ASSUME EsperarNuevo \/ EsperarListo \/ EsperarMuerte PROVE FormaConsola'
    <2>1. PICK e \in {"quitar", "ver"} :
            /\ consola' = [consola EXCEPT !.en = e]
            /\ \/ consola.en = "esperarNuevo" /\ e = "quitar"
               \/ consola.en = "esperarListo" /\ e = "ver"
               \/ consola.en = "esperarMuerte" /\ e = "quitar"
      BY <1>5 DEF EsperarNuevo, EsperarListo, EsperarMuerte
    <2>2. consola'.en = e /\ consola'.caso = consola.caso
      BY <1>0, <2>1
    <2> QED
      BY <1>0, <2>1, <2>2 DEF FormaConsola
  <1>6. ASSUME Quitar \/ VerCupoConsola \/ DarCupoConsola PROVE FormaConsola'
    <2>1. CASE consola' = ConsolaLibre
      BY <2>1 DEF ConsolaLibre, FormaConsola
    <2>2. CASE consola' # ConsolaLibre
      <3>1. PICK e \in {"ver", "sumar", "restar", "quitar"} :
              /\ consola' = [consola EXCEPT !.en = e]
              /\ \/ consola.en = "quitar" /\ consola.caso = "EXEC" /\ e = "ver"
                 \/ consola.en = "ver" /\ e \in {"sumar", "restar"}
                 \/ consola.en \in {"sumar", "restar"} /\ e = "quitar"
        BY <1>6, <2>2 DEF Quitar, VerCupoConsola, VerCupo, DarCupoConsola, DarCupo
      <3>2. consola'.en = e /\ consola'.caso = consola.caso
        BY <1>0, <3>1
      <3> QED
        BY <1>0, <3>1, <3>2 DEF FormaConsola
    <2> QED
      BY <2>1, <2>2
  <1>7. ASSUME EsperarCupo PROVE FormaConsola'
    BY <1>0, <1>7 DEF EsperarCupo, FormaConsola
  <1>8. ASSUME AnotarResto PROVE FormaConsola'
    BY <1>8 DEF AnotarResto, ConsolaLibre, FormaConsola
  <1>9. ASSUME NEW n \in Grados, BajarGrado(n) PROVE FormaConsola'
    BY <1>9 DEF BajarGrado, ConsolaLibre, FormaConsola
  <1>10. ASSUME Creacion \/ Corto \/ Eliminacion \/ UNCHANGED vars PROVE consola' = consola
    BY <1>10 DEF Creacion, TomarNuevo, TomarCupo, SacarNuevo, Corto, TomarListo, TomarCpu,
                 Despachar, Eliminacion, TomarSalida, ElimQuitar, ElimVerCupo, ElimDarCupo,
                 ElimSola, vars
  <1>11. ASSUME NEW p \in Pids, Programa(p) PROVE consola' = consola
    BY <1>11 DEF Programa, Iniciar, Desalojar, Bloquear, Terminar, DejaLaCpu, Desbloquear
  <1>12. ASSUME NEW h \in Hilos, Hilo(h) PROVE consola' = consola
    BY <1>12 DEF Hilo, PonerListo, AvisarListo
  <1>13. ASSUME NEW n \in Grados, SubirGrado(n) PROVE consola' = consola
    BY <1>13 DEF SubirGrado
  <1>14. Consola => FormaConsola'
    BY <1>3, <1>4, <1>5, <1>6 DEF Consola
  <1>15. Grado => FormaConsola'
    BY <1>1, <1>7, <1>8, <1>9, <1>13 DEF Grado
  <1> QED
    BY <1>1, <1>2, <1>10, <1>11, <1>12, <1>14, <1>15 DEF Next

\* A step changes the state of one process at most, of one that it creates or
\* of one that lives, and nothing becomes NEW again.
LEMMA Cambia ==
  ASSUME Tipos, Orden, [Next]_vars
  PROVE  \/ estado' = estado
         \/ \E q \in Pids :
              /\ \A p \in Pids \ {q} : estado'[p] = estado[p]
              /\ Iniciar(q) \/ (Vivo(q) /\ estado'[q] \notin {"NADA", "NEW"})
  <1> USE DEF procesos, semaforos
  <1>0. /\ TiposColas /\ MasTipos /\ Unico /\ EnEstado /\ NULO \notin Pids /\ FormaElim
        /\ estado \in [Pids -> Estados] /\ listos \in Seq(Pids)
        /\ Hilos \cup {"listos", "cpu", "eliminacion", "consola"} \subseteq Sitios
    BY Nulo DEF Tipos, TiposColas, Orden, Formas, Hilos, Sitios
  <1> DEFINE Goal == \E q \in Pids :
                       /\ \A p \in Pids \ {q} : estado'[p] = estado[p]
                       /\ Iniciar(q) \/ (Vivo(q) /\ estado'[q] \notin {"NADA", "NEW"})
  <1>1. ASSUME NEW q \in Pids, NEW e \in Estados \ {"NADA", "NEW"},
               estado' = [estado EXCEPT ![q] = e], Vivo(q) \/ Iniciar(q)
        PROVE  Goal
    BY <1>0, <1>1
  <1>2. ASSUME NEW p \in Pids, Iniciar(p) PROVE Goal
    <2>1. \A q \in Pids \ {p} : estado'[q] = estado[q]
      BY <1>0, <1>2 DEF Iniciar
    <2> QED
      BY <1>2, <2>1
  <1>3. {"READY", "EXEC", "BLOCKED", "EXIT", "FIN"} \subseteq Estados \ {"NADA", "NEW"}
    BY DEF Estados
  <1> HIDE DEF Goal
  <1>4. ASSUME NEW h \in Hilos, PonerListo(h) PROVE Goal
    <2>1. PICK q \in Pids : q = hilo[h].pid
      BY <1>4 DEF PonerListo, Tipos, Manos
    <2>2. Posee(h, q) /\ estado' = [estado EXCEPT ![q] = "READY"]
      BY <1>4, <2>1 DEF Posee, PonerListo
    <2>3. Cuenta(q)[h] # 0 /\ h \in Sitios
      BY <1>0, <2>2, Donde
    <2>4. Vivo(q)
      BY <1>0, <2>3, DeSitio
    <2> QED
      BY <1>1, <1>3, <2>2, <2>4
  <1>5. ASSUME Despachar PROVE Goal
    <2>1. listos # <<>>
      BY <1>5 DEF Despachar
    <2>2. PICK q \in Pids : q = Head(listos) /\ q \in ToSet(listos)
      BY <1>0, <2>1, PrimeroEsta
    <2>3. estado' = [estado EXCEPT ![q] = "EXEC"]
      BY <1>5, <2>2 DEF Despachar
    <2>4. Cuenta(q)["listos"] # 0
      BY <1>0, <2>2, Donde
    <2>5. Vivo(q)
      BY <1>0, <2>4, DeSitio
    <2> QED
      BY <1>1, <1>3, <2>3, <2>5
  <1>6. ASSUME NEW q \in Pids, Bloquear(q) \/ Terminar(q) PROVE Goal
    <2>1. estado[q] = "EXEC"
      BY <1>6 DEF Bloquear, Terminar, DejaLaCpu, EnCpu
    <2>2. PICK e \in {"BLOCKED", "EXIT"} : estado' = [estado EXCEPT ![q] = e]
      BY <1>6 DEF Bloquear, Terminar
    <2>3. Vivo(q) /\ e \in Estados \ {"NADA", "NEW"}
      BY <1>3, <2>1 DEF Vivo
    <2> QED
      BY <1>1, <2>2, <2>3
  <1>7. ASSUME ElimDarCupo PROVE Goal
    <2>1. elim.en # "esperar" /\ estado' = [estado EXCEPT ![elim.pid] = "FIN"]
      BY <1>7 DEF ElimDarCupo, DarCupo
    <2>2. PICK q \in Pids : q = elim.pid
      BY <1>0, <2>1 DEF FormaElim
    <2>3. Cuenta(q)["eliminacion"] # 0
      BY <1>0, <2>2, Donde
    <2>4. Vivo(q)
      BY <1>0, <2>3, DeSitio
    <2> QED
      BY <1>1, <1>3, <2>1, <2>2, <2>4
  <1>8. ASSUME Quitar \/ DarCupoConsola PROVE Goal \/ estado' = estado
    <2>1. consola.en \in {"quitar", "sumar", "restar"}
      BY <1>8 DEF Quitar, DarCupoConsola, DarCupo
    <2>2. PICK q \in Pids : q = consola.pid
      BY <2>1 DEF Tipos, Manos
    <2>3. estado' = estado \/ estado' = [estado EXCEPT ![q] = "FIN"]
      BY <1>8, <2>2 DEF Quitar, DarCupoConsola
    <2>4. Sacado(q)
      BY <2>1, <2>2 DEF Sacado
    <2>5. Cuenta(q)["consola"] # 0
      BY <1>0, <2>4, Donde
    <2>6. Vivo(q)
      BY <1>0, <2>5, DeSitio
    <2> QED
      BY <1>1, <1>3, <2>3, <2>6
  <1>9. ASSUME \/ TomarNuevo \/ TomarCupo \/ SacarNuevo \/ TomarListo \/ TomarCpu \/ TomarSalida
               \/ ElimQuitar \/ ElimVerCupo \/ Grado \/ UNCHANGED vars
        PROVE  estado' = estado
    BY <1>9 DEF TomarNuevo, TomarCupo, SacarNuevo, TomarListo, TomarCpu, TomarSalida, ElimQuitar,
                ElimVerCupo, ElimSola, Grado, EsperarCupo, AnotarResto, SubirGrado, BajarGrado,
                SoloGrado, vars
  <1>10. ASSUME \/ LeerEstado \/ BuscarNuevo \/ BuscarListo \/ BuscarBloqueado \/ EsperarNuevo
                \/ EsperarListo \/ EsperarMuerte \/ VerCupoConsola
         PROVE  estado' = estado
    BY <1>10 DEF LeerEstado, BuscarNuevo, BuscarListo, BuscarBloqueado, EsperarNuevo, EsperarListo,
                 EsperarMuerte, VerCupoConsola
  <1>11. ASSUME NEW p \in Pids, Desalojar(p) \/ Desbloquear(p) \/ Finalizar(p)
         PROVE  estado' = estado
    BY <1>11 DEF Desalojar, Desbloquear, Finalizar
  <1>12. ASSUME NEW h \in Hilos, AvisarListo(h) PROVE estado' = estado
    BY <1>12 DEF AvisarListo
  <1>13. Creacion \/ Corto \/ Eliminacion \/ Consola \/ Grado \/ UNCHANGED vars
           => Goal \/ estado' = estado
    BY <1>5, <1>7, <1>8, <1>9, <1>10 DEF Creacion, Corto, Eliminacion, Consola
  <1>14. ASSUME NEW h \in Hilos, Hilo(h) PROVE Goal \/ estado' = estado
    BY <1>4, <1>12, <1>14 DEF Hilo
  <1>15. ASSUME NEW p \in Pids, Programa(p) \/ Finalizar(p) PROVE Goal \/ estado' = estado
    BY <1>2, <1>6, <1>11, <1>15 DEF Programa
  <1>16. Goal \/ estado' = estado
    BY <1>13, <1>14, <1>15 DEF Next
  <1> QED
    BY <1>16 DEF Goal

LEMMA EnOrdenPaso ==
  ASSUME Tipos, Orden, [Next]_vars
  PROVE  EnOrden'
  <1>0. EnOrden /\ MAX_PIDS \in Nat /\ estado \in [Pids -> Estados]
    BY CotasAssumption DEF Orden, Tipos, TiposColas
  <1>1. PICK n \in 0 .. MAX_PIDS : \A p \in Pids : estado[p] # "NADA" <=> p < n
    BY <1>0 DEF EnOrden
  <1>2. CASE estado' = estado
    BY <1>0, <1>2 DEF EnOrden
  <1>3. ASSUME NEW q \in Pids, \A p \in Pids \ {q} : estado'[p] = estado[p], Iniciar(q)
        PROVE  EnOrden'
    <2>1. q = contador_pid /\ estado'[q] = "NEW"
      BY <1>0, <1>3 DEF Iniciar
    <2>2. \A p \in Pids : estado[p] # "NADA" <=> p < q
      BY <1>0, <2>1, PidNuevo
    <2>3. q + 1 \in 0 .. MAX_PIDS
      BY <1>0 DEF Pids
    <2>4. \A p \in Pids : estado'[p] # "NADA" <=> p < q + 1
      BY <1>3, <2>1, <2>2 DEF Pids
    <2> QED
      BY <2>3, <2>4 DEF EnOrden
  <1>4. ASSUME NEW q \in Pids, \A p \in Pids \ {q} : estado'[p] = estado[p], Vivo(q),
               estado'[q] \notin {"NADA", "NEW"}
        PROVE  EnOrden'
    <2>1. \A p \in Pids : estado'[p] # "NADA" <=> p < n
      BY <1>1, <1>4 DEF Vivo
    <2> QED
      BY <1>1, <2>1 DEF EnOrden
  <1> QED
    BY <1>2, <1>3, <1>4, Cambia

\* What was READY once is never NEW.
LEMMA NoRejuvenece ==
  ASSUME Tipos, Orden, [Next]_vars, NEW p \in Pids, estado[p] \notin {"NADA", "NEW"}
  PROVE  estado'[p] \notin {"NADA", "NEW"}
  <1>0. EnOrden /\ MAX_PIDS \in Nat
    BY CotasAssumption DEF Orden
  <1>1. ASSUME NEW q \in Pids, Iniciar(q) PROVE estado[q] = "NADA"
    <2>1. q = contador_pid
      BY <1>1 DEF Iniciar
    <2> QED
      BY <1>0, <2>1, PidNuevo
  <1> QED
    BY <1>1, Cambia

LEMMA AvisadosPaso ==
  ASSUME Tipos, Orden, [Next]_vars
  PROVE  Avisados'
  <1> USE DEF procesos, semaforos
  <1>0. /\ hilo \in [Hilos -> [en : LugaresHilo, pid : Pids \cup {NULO}]] /\ Avisados
        /\ \A h \in Hilos : hilo[h].en \in {"poner", "avisar", "trabado"} => hilo[h].pid \in Pids
        /\ estado \in [Pids -> Estados] /\ "creacion" \in Hilos
    BY DEF Tipos, TiposHilos, TiposColas, Manos, Orden, Hilos
  <1> SUFFICES ASSUME NEW g \in Hilos, hilo'[g].en = "avisar"
               PROVE  estado'[hilo'[g].pid] \notin {"NADA", "NEW"}
    BY DEF Avisados
  <1>1. CASE hilo'[g] = hilo[g]
    <2>1. hilo[g].pid \in Pids /\ estado[hilo[g].pid] \notin {"NADA", "NEW"}
      BY <1>0, <1>1 DEF Avisados
    <2>2. PICK p \in Pids : p = hilo[g].pid
      BY <2>1
    <2>3. estado'[p] \notin {"NADA", "NEW"}
      BY <2>1, <2>2, NoRejuvenece
    <2> QED
      BY <1>1, <2>2, <2>3
  <1>2. CASE PonerListo(g)
    <2>1. PICK p \in Pids : p = hilo[g].pid
      BY <1>0, <1>2 DEF PonerListo
    <2>2. PICK e \in {"avisar", "trabado"} : hilo' = [hilo EXCEPT ![g].en = e]
      BY <1>2 DEF PonerListo, Avanzar
    <2>3. hilo'[g].pid = p /\ estado' = [estado EXCEPT ![p] = "READY"]
      BY <1>0, <1>2, <2>1, <2>2 DEF PonerListo
    <2> QED
      BY <1>0, <2>3
  <1>3. hilo'[g] = hilo[g] \/ PonerListo(g)
    <2>1. ASSUME TomarNuevo \/ TomarCupo PROVE hilo'[g] = hilo[g]
      <3>1. PICK e \in {"cupo", "sacar"} : hilo' = [hilo EXCEPT !["creacion"].en = e]
        BY <2>1 DEF TomarNuevo, TomarCupo, Avanzar
      <3> QED
        BY <1>0, <3>1
    <2>2. ASSUME SacarNuevo PROVE hilo'[g] = hilo[g]
      <3>1. hilo' = [hilo EXCEPT !["creacion"] = [en |-> "poner", pid |-> Head(nuevos)]]
        BY <2>2 DEF SacarNuevo
      <3> QED
        BY <1>0, <3>1
    <2>3. ASSUME NEW h \in Hilos, Hilo(h) PROVE hilo'[g] = hilo[g] \/ PonerListo(g)
      <3>1. CASE PonerListo(h)
        <4>1. PICK e \in {"avisar", "trabado"} : hilo' = [hilo EXCEPT ![h].en = e]
          BY <3>1 DEF PonerListo, Avanzar
        <4> QED
          BY <1>0, <3>1, <4>1
      <3>2. CASE AvisarListo(h)
        <4>1. hilo' = [hilo EXCEPT ![h] = Quieto]
          BY <3>2 DEF AvisarListo
        <4> QED
          BY <1>0, <4>1 DEF Quieto
      <3> QED
        BY <2>3, <3>1, <3>2 DEF Hilo
    <2>4. ASSUME NEW p \in Pids, Desalojar(p) \/ Desbloquear(p) PROVE hilo'[g] = hilo[g]
      <3>1. PICK h \in {"despacho", "interfaz"} : hilo' = [hilo EXCEPT ![h] = [en |-> "poner", pid |-> p]]
        BY <2>4 DEF Desalojar, Desbloquear
      <3> QED
        BY <1>0, <3>1
    <2>5. Corto \/ Eliminacion \/ Consola \/ Grado \/ UNCHANGED vars => hilo' = hilo
      BY DEF Corto, TomarListo, TomarCpu, Despachar, Eliminacion, TomarSalida, ElimQuitar,
             ElimVerCupo, ElimDarCupo, ElimSola, Consola, LeerEstado, BuscarNuevo,
             BuscarListo, BuscarBloqueado, EsperarNuevo, EsperarListo, EsperarMuerte, Quitar,
             VerCupoConsola, DarCupoConsola, ConsolaSola, Grado, EsperarCupo, AnotarResto,
             SubirGrado, BajarGrado, SoloGrado, vars
    <2>6. \A p \in Pids : Iniciar(p) \/ Bloquear(p) \/ Terminar(p) \/ Finalizar(p) => hilo' = hilo
      BY DEF Iniciar, Bloquear, Terminar, DejaLaCpu, Finalizar, ConsolaSola
    <2> QED
      BY <2>1, <2>2, <2>3, <2>4, <2>5, <2>6 DEF Next, Creacion, Programa
  <1> QED
    BY <1>1, <1>2, <1>3

\* procesos_en_sistema when nothing is added or removed, and when one is.
LEMMA SistemaIgual ==
  ASSUME EnSistema, sistema' = sistema,
         \A p \in Pids : (Vivo(p)' /\ ~QuitadoDelSistema(p)') <=> (Vivo(p) /\ ~QuitadoDelSistema(p))
  PROVE  EnSistema'
  BY DEF EnSistema, Uno

LEMMA SistemaSin ==
  ASSUME TiposColas, EnSistema, NEW q \in Pids, NEW i \in DOMAIN sistema, sistema[i] = q,
         sistema' = RemoveAt(sistema, i), ~(Vivo(q)' /\ ~QuitadoDelSistema(q)'),
         \A p \in Pids \ {q} :
           (Vivo(p)' /\ ~QuitadoDelSistema(p)') <=> (Vivo(p) /\ ~QuitadoDelSistema(p))
  PROVE  EnSistema'
  <1>0. sistema \in Seq(Pids) /\ i \in 1 .. Len(sistema)
    BY DEF TiposColas
  <1>1. sistema' \in Seq(Pids)
    BY <1>0, SinUno
  <1> SUFFICES ASSUME NEW p \in Pids
               PROVE  Cuantos(sistema', {p}) = IF Vivo(p)' /\ ~QuitadoDelSistema(p)' THEN 1 ELSE 0
    BY DEF EnSistema, Uno
  <1>2. Cuantos(sistema, {p}) = Cuantos(sistema', {p}) + (IF p = q THEN 1 ELSE 0)
    BY <1>0, SaleProceso
  <1>3. Cuantos(sistema, {p}) = IF Vivo(p) /\ ~QuitadoDelSistema(p) THEN 1 ELSE 0
    BY DEF EnSistema, Uno
  <1>4. Cuantos(sistema', {p}) \in Nat
    BY <1>1, PosicionesFinitas
  <1>5. CASE p = q
    BY <1>2, <1>3, <1>4, <1>5
  <1>6. CASE p # q
    BY <1>2, <1>3, <1>4, <1>6
  <1> QED
    BY <1>5, <1>6

LEMMA VivosIgual ==
  ASSUME Tipos, Orden, [Next]_vars, sistema' = sistema,
         \A p \in Pids : estado'[p] = "FIN" => estado[p] = "FIN"
  PROVE  \A p \in Pids : Vivo(p)' <=> Vivo(p)
  <1>1. ASSUME NEW q \in Pids, Iniciar(q) PROVE FALSE
    <2>1. sistema \in Seq(Pids)
      BY DEF Tipos, TiposColas
    <2>2. Len(Append(sistema, q)) = Len(sistema) + 1 /\ Len(sistema) \in Nat
      BY <2>1
    <2>3. sistema' = Append(sistema, q)
      BY <1>1 DEF Iniciar
    <2> QED
      BY <2>2, <2>3
  <1> QED
    BY <1>1, Cambia DEF Vivo

LEMMA EnSistemaPaso ==
  ASSUME Tipos, Orden, [Next]_vars, Sano'
  PROVE  EnSistema'
  <1> USE DEF procesos, semaforos
  <1>0. /\ TiposColas /\ MasTipos /\ Unico /\ EnEstado /\ NULO \notin Pids /\ FormaElim /\ EnSistema
        /\ FormaConsola
        /\ consola \in [en : LugaresConsola, pid : Pids \cup {NULO}, indice : Nat, caso : Estados,
                        esperas : Nat, resto : Nat]
        /\ estado \in [Pids -> Estados] /\ sistema \in Seq(Pids)
        /\ elim \in [en : {"esperar", "quitar", "ver", "sumar", "restar"}, pid : Pids \cup {NULO},
                     indice : Int]
        /\ {"eliminacion", "consola"} \subseteq Sitios
    BY Nulo DEF Tipos, TiposColas, TiposConsola, MasTipos, Orden, Formas, Sitios
  <1>1. ASSUME NEW q \in Pids, Iniciar(q) PROVE EnSistema'
    <2>1. /\ sistema' = Append(sistema, q) /\ UNCHANGED <<elim, consola>> /\ q = contador_pid
          /\ estado' = [estado EXCEPT ![q] = "NEW"]
      BY <1>1 DEF Iniciar
    <2>2. EnOrden /\ MAX_PIDS \in Nat
      BY CotasAssumption DEF Orden
    <2>3. ~Vivo(q)
      BY <2>1, <2>2, PidNuevo DEF Vivo
    <2>4. elim.pid # q /\ ~Sacado(q)
      <3>1. Nada(Cuenta(q))
        BY <1>0, <2>3 DEF Unico
      <3>2. Cuenta(q)["eliminacion"] = 0 /\ Cuenta(q)["consola"] = 0
        BY <1>0, <3>1 DEF Nada
      <3> QED
        BY <3>2, NoEsta
    <2>5. Vivo(q)' /\ ~QuitadoDelSistema(q)'
      BY <1>0, <2>1, <2>4 DEF Vivo, QuitadoDelSistema, Sacado
    <2>6. ASSUME NEW p \in Pids \ {q}
          PROVE  (Vivo(p)' /\ ~QuitadoDelSistema(p)') <=> (Vivo(p) /\ ~QuitadoDelSistema(p))
      BY <1>0, <2>1 DEF Vivo, QuitadoDelSistema
    <2> SUFFICES ASSUME NEW p \in Pids
                 PROVE  Cuantos(sistema', {p}) = IF Vivo(p)' /\ ~QuitadoDelSistema(p)' THEN 1 ELSE 0
      BY DEF EnSistema, Uno
    <2>7. Cuantos(sistema, {p}) = IF Vivo(p) /\ ~QuitadoDelSistema(p) THEN 1 ELSE 0
      BY <1>0 DEF EnSistema, Uno
    <2>8. Cuantos(sistema', {p}) = Cuantos(sistema, {p}) + (IF p = q THEN 1 ELSE 0)
      <3>1. sistema \in Seq(Pids)
        BY <1>0
      <3>2. Cuantos(Append(sistema, q), {p}) = Cuantos(sistema, {p}) + (IF p = q THEN 1 ELSE 0)
        BY <3>1, EntraProceso
      <3> QED
        BY <2>1, <3>2
    <2>9. CASE p = q
      BY <2>3, <2>5, <2>7, <2>8, <2>9
    <2>10. CASE p # q
      BY <2>6, <2>7, <2>8, <2>10
    <2> QED
      BY <2>9, <2>10
  <1>2. ASSUME ElimQuitar PROVE EnSistema'
    <2>1. PICK q \in Pids : q = elim.pid
      BY <1>0, <1>2 DEF ElimQuitar, FormaElim
    <2>2. elim.indice \in DOMAIN sistema /\ sistema[elim.indice] = q
      BY <1>2, <2>1 DEF ElimQuitar, Sano, Corrido
    <2>3. sistema' = RemoveAt(sistema, elim.indice)
      BY <1>2, <2>2 DEF ElimQuitar, QuitarDelSistema
    <2>4. /\ UNCHANGED <<estado, consola>> /\ elim'.pid = q /\ elim'.en = "ver"
          /\ elim.en = "quitar"
      BY <1>0, <1>2, <2>1 DEF ElimQuitar, ElimSola
    <2>5. QuitadoDelSistema(q)'
      BY <2>4 DEF QuitadoDelSistema
    <2>6. ASSUME NEW p \in Pids \ {q}
          PROVE  (Vivo(p)' /\ ~QuitadoDelSistema(p)') <=> (Vivo(p) /\ ~QuitadoDelSistema(p))
      BY <2>1, <2>4 DEF Vivo, QuitadoDelSistema
    <2> QED
      BY <1>0, <2>2, <2>3, <2>5, <2>6, SistemaSin
  <1>3. ASSUME Quitar PROVE EnSistema'
    <2>1. PICK q \in Pids : q = consola.pid
      BY <1>3 DEF Quitar, Tipos, Manos
    <2>2. consola.indice \in DOMAIN sistema /\ sistema[consola.indice] = q
      BY <1>3, <2>1 DEF Quitar, Sano, Corrido
    <2>3. sistema' = RemoveAt(sistema, consola.indice)
      BY <1>3, <2>2 DEF Quitar, QuitarDelSistema
    <2>4. elim' = elim /\ consola.en = "quitar"
      BY <1>3 DEF Quitar, ConsolaSola
    <2>5. \/ /\ estado' = estado /\ consola.caso = "EXEC"
             /\ consola'.en = "ver" /\ consola'.pid = q /\ consola'.caso = "EXEC"
          \/ /\ estado' = [estado EXCEPT ![q] = "FIN"]
             /\ consola'.pid = NULO
      BY <1>0, <1>3, <2>1 DEF Quitar, ConsolaLibre
    <2>6. ~(Vivo(q)' /\ ~QuitadoDelSistema(q)')
      BY <1>0, <2>5 DEF QuitadoDelSistema, Vivo
    <2>7. ASSUME NEW p \in Pids \ {q}
          PROVE  (Vivo(p)' /\ ~QuitadoDelSistema(p)') <=> (Vivo(p) /\ ~QuitadoDelSistema(p))
      BY <1>0, <2>1, <2>4, <2>5 DEF Vivo, QuitadoDelSistema
    <2> QED
      BY <1>0, <2>2, <2>3, <2>6, <2>7, SistemaSin
  <1>4. ASSUME ElimDarCupo PROVE EnSistema'
    <2>1. /\ elim.en \in {"sumar", "restar"} /\ elim'.pid = NULO /\ UNCHANGED <<consola, sistema>>
          /\ estado' = [estado EXCEPT ![elim.pid] = "FIN"]
      BY <1>4 DEF ElimDarCupo, DarCupo, ElimSola, ElimLibre
    <2>2. PICK q \in Pids : q = elim.pid
      BY <1>0, <2>1 DEF FormaElim
    <2>3. QuitadoDelSistema(q) /\ ~Vivo(q)'
      BY <1>0, <2>1, <2>2 DEF QuitadoDelSistema, Vivo
    <2>4. ASSUME NEW p \in Pids \ {q}
          PROVE  (Vivo(p)' /\ ~QuitadoDelSistema(p)') <=> (Vivo(p) /\ ~QuitadoDelSistema(p))
      BY <1>0, <2>1, <2>2 DEF Vivo, QuitadoDelSistema
    <2>5. ASSUME NEW p \in Pids
          PROVE  (Vivo(p)' /\ ~QuitadoDelSistema(p)') <=> (Vivo(p) /\ ~QuitadoDelSistema(p))
      BY <2>3, <2>4
    <2> QED
      BY <1>0, <2>1, <2>5, SistemaIgual
  <1>5. ASSUME DarCupoConsola, consola.caso = "EXEC" PROVE EnSistema'
    <2>1. /\ consola.en \in {"sumar", "restar"} /\ consola'.pid = NULO /\ UNCHANGED <<elim, sistema>>
          /\ estado' = [estado EXCEPT ![consola.pid] = "FIN"]
      BY <1>5 DEF DarCupoConsola, DarCupo, ConsolaSola, ConsolaLibre
    <2>2. PICK q \in Pids : q = consola.pid
      BY <2>1 DEF Tipos, Manos
    <2>3. QuitadoDelSistema(q) /\ ~Vivo(q)'
      BY <1>0, <1>5, <2>1, <2>2 DEF QuitadoDelSistema, Vivo
    <2>4. ASSUME NEW p \in Pids \ {q}
          PROVE  (Vivo(p)' /\ ~QuitadoDelSistema(p)') <=> (Vivo(p) /\ ~QuitadoDelSistema(p))
      BY <1>0, <2>1, <2>2 DEF Vivo, QuitadoDelSistema
    <2>5. ASSUME NEW p \in Pids
          PROVE  (Vivo(p)' /\ ~QuitadoDelSistema(p)') <=> (Vivo(p) /\ ~QuitadoDelSistema(p))
      BY <2>3, <2>4
    <2> QED
      BY <1>0, <2>1, <2>5, SistemaIgual
  <1> DEFINE Fines == \A p \in Pids : estado'[p] = "FIN" => estado[p] = "FIN"
             Quitados == \A p \in Pids : QuitadoDelSistema(p)' <=> QuitadoDelSistema(p)
  <1>6. ASSUME sistema' = sistema, Fines, Quitados PROVE EnSistema'
    <2>1. \A p \in Pids : Vivo(p)' <=> Vivo(p)
      BY <1>6, VivosIgual
    <2>2. ASSUME NEW p \in Pids
          PROVE  (Vivo(p)' /\ ~QuitadoDelSistema(p)') <=> (Vivo(p) /\ ~QuitadoDelSistema(p))
      BY <1>6, <2>1
    <2> QED
      BY <1>0, <1>6, <2>2, SistemaIgual
  <1>7. ASSUME Creacion \/ Corto \/ UNCHANGED vars PROVE EnSistema'
    <2>1. UNCHANGED <<sistema, elim, consola>>
      BY <1>7 DEF Creacion, TomarNuevo, TomarCupo, SacarNuevo, Corto, TomarListo, TomarCpu,
                  Despachar, vars
    <2>2. Fines
      BY <1>0, <1>7 DEF Creacion, TomarNuevo, TomarCupo, SacarNuevo, Corto, TomarListo, TomarCpu,
                  Despachar, vars
    <2>3. Quitados
      BY <2>1 DEF QuitadoDelSistema
    <2> QED
      BY <1>6, <2>1, <2>2, <2>3
  <1>8. ASSUME NEW h \in Hilos, Hilo(h) PROVE EnSistema'
    <2>1. UNCHANGED <<sistema, elim, consola>>
      BY <1>8 DEF Hilo, PonerListo, AvisarListo
    <2>2. Fines
      BY <1>0, <1>8 DEF Hilo, PonerListo, AvisarListo
    <2>3. Quitados
      BY <2>1 DEF QuitadoDelSistema
    <2> QED
      BY <1>6, <2>1, <2>2, <2>3
  <1>9. ASSUME NEW p \in Pids, Desalojar(p) \/ Bloquear(p) \/ Terminar(p) \/ Desbloquear(p)
        PROVE  EnSistema'
    <2>1. UNCHANGED <<sistema, elim, consola>>
      BY <1>9 DEF Desalojar, Bloquear, Terminar, DejaLaCpu, Desbloquear
    <2>2. Fines
      BY <1>0, <1>9 DEF Desalojar, Bloquear, Terminar, Desbloquear
    <2>3. Quitados
      BY <2>1 DEF QuitadoDelSistema
    <2> QED
      BY <1>6, <2>1, <2>2, <2>3
  <1>10. ASSUME Grado PROVE EnSistema'
    <2>1. UNCHANGED <<estado, sistema, elim>>
      BY <1>10 DEF Grado, EsperarCupo, AnotarResto, SubirGrado, BajarGrado, SoloGrado
    <2>2. consola.en \in {"libre", "bajar"} /\ consola'.en \in {"libre", "bajar"}
      BY <1>0, <1>10, LugarGrado DEF TiposConsola
    <2>3. Fines
      BY <2>1
    <2>4. Quitados
      BY <2>1, <2>2 DEF QuitadoDelSistema
    <2> QED
      BY <1>6, <2>1, <2>3, <2>4
  <1>11. ASSUME TomarSalida \/ ElimVerCupo PROVE EnSistema'
    <2>1. UNCHANGED <<estado, sistema, consola>>
      BY <1>11 DEF TomarSalida, ElimVerCupo, ElimSola
    <2>2. \/ elim.en = "esperar" /\ elim'.en = "quitar"
          \/ elim.en = "ver" /\ elim'.en \in {"sumar", "restar"} /\ elim'.pid = elim.pid
      BY <1>0, <1>11 DEF TomarSalida, ElimVerCupo, VerCupo
    <2>3. Fines
      BY <2>1
    <2>4. Quitados
      BY <2>1, <2>2 DEF QuitadoDelSistema
    <2> QED
      BY <1>6, <2>1, <2>3, <2>4
  <1>12. ASSUME \/ LeerEstado \/ BuscarNuevo \/ BuscarListo \/ BuscarBloqueado \/ EsperarNuevo
                \/ EsperarListo \/ EsperarMuerte \/ VerCupoConsola
                \/ DarCupoConsola /\ consola.caso # "EXEC"
         PROVE  EnSistema'
    <2>1. UNCHANGED <<estado, sistema, elim>>
      BY <1>12 DEF LeerEstado, BuscarNuevo, BuscarListo, BuscarBloqueado, EsperarNuevo, EsperarListo,
                   EsperarMuerte, VerCupoConsola, DarCupoConsola, ConsolaSola
    <2>2. \/ consola' = consola
          \/ consola.en = "ver" /\ consola'.en \in {"sumar", "restar"} /\ consola'.pid = consola.pid
             /\ consola'.caso = consola.caso
          \/ consola.en \notin {"ver", "sumar", "restar"} /\ consola'.en \notin {"ver", "sumar", "restar"}
          \/ consola.caso # "EXEC" /\ consola'.caso # "EXEC"
      <3>1. ASSUME LeerEstado \/ EsperarMuerte
            PROVE  consola.en \notin {"ver", "sumar", "restar"} /\ consola'.en \notin {"ver", "sumar", "restar"}
        BY <1>0, <3>1 DEF LeerEstado, EsperarMuerte
      <3>2. ASSUME BuscarNuevo \/ BuscarListo \/ BuscarBloqueado
            PROVE  consola.caso # "EXEC" /\ consola'.caso # "EXEC"
        BY <1>0, <3>2 DEF BuscarNuevo, BuscarListo, BuscarBloqueado
      <3>3. ASSUME EsperarNuevo \/ EsperarListo
            PROVE  consola.caso # "EXEC" /\ consola'.caso # "EXEC"
        BY <1>0, <3>3 DEF EsperarNuevo, EsperarListo, FormaConsola
      <3>4. ASSUME VerCupoConsola
            PROVE  consola.en = "ver" /\ consola'.en \in {"sumar", "restar"}
                   /\ consola'.pid = consola.pid /\ consola'.caso = consola.caso
        BY <1>0, <3>4 DEF VerCupoConsola, VerCupo
      <3>5. ASSUME DarCupoConsola, consola.caso # "EXEC"
            PROVE  consola.caso # "EXEC" /\ consola'.caso # "EXEC"
        BY <1>0, <3>5 DEF DarCupoConsola
      <3> QED
        BY <1>12, <3>1, <3>2, <3>3, <3>4, <3>5
    <2>3. Fines
      BY <2>1
    <2>4. Quitados
      BY <2>1, <2>2 DEF QuitadoDelSistema
    <2> QED
      BY <1>6, <2>1, <2>3, <2>4
  <1>13. ASSUME NEW p \in Pids, Finalizar(p) PROVE EnSistema'
    <2>1. UNCHANGED <<estado, sistema, elim>> /\ consola.en = "libre" /\ consola'.en = "estado"
      BY <1>13 DEF Finalizar, ConsolaSola, ConsolaLibre
    <2>2. Fines
      BY <2>1
    <2>3. Quitados
      BY <2>1 DEF QuitadoDelSistema
    <2> QED
      BY <1>6, <2>1, <2>2, <2>3
  <1>14. Consola => EnSistema'
    BY <1>3, <1>5, <1>12 DEF Consola
  <1>15. Eliminacion => EnSistema'
    BY <1>2, <1>4, <1>11 DEF Eliminacion
  <1>16. \A p \in Pids : Programa(p) \/ Finalizar(p) => EnSistema'
    BY <1>1, <1>9, <1>13 DEF Programa
  <1> QED
    BY <1>7, <1>8, <1>10, <1>14, <1>15, <1>16 DEF Next

\* Who has the CPU, or will: the semaphore, the scheduler past it, a process, and
\* the two that give the semaphore back.
LEMMA CpuIgual ==
  ASSUME CpuUnica, \A p \in Pids : EnCpu(p)' <=> EnCpu(p), cpu_libre' = cpu_libre,
         corto' = "sacar" <=> corto = "sacar", Dejada' <=> Dejada, Matado' <=> Matado
  PROVE  CpuUnica'
  <1>1. Ocupada' <=> Ocupada
    BY DEF Ocupada
  <1>2. \A p, q \in Pids : EnCpu(p)' /\ EnCpu(q)' => p = q
    BY DEF CpuUnica
  <1>3. cpu_libre + (IF corto = "sacar" THEN 1 ELSE 0) + (IF Ocupada THEN 1 ELSE 0)
          + (IF Dejada THEN 1 ELSE 0) + (IF Matado THEN 1 ELSE 0) = 1
    BY DEF CpuUnica, Uno
  <1>4. cpu_libre' + (IF corto' = "sacar" THEN 1 ELSE 0) + (IF Ocupada' THEN 1 ELSE 0)
          + (IF Dejada' THEN 1 ELSE 0) + (IF Matado' THEN 1 ELSE 0) = 1
    BY <1>1, <1>3
  <1> QED
    BY <1>2, <1>4 DEF CpuUnica, Uno

\* The same, for the threads that touch neither a process in the CPU nor cpu_libre.
LEMMA CpuQuieta ==
  ASSUME Tipos, Orden,
         \/ TomarNuevo \/ TomarCupo \/ SacarNuevo \/ TomarListo \/ Eliminacion \/ Grado
         \/ UNCHANGED vars
         \/ \E p \in Pids : Iniciar(p) \/ Desalojar(p) \/ Desbloquear(p) \/ Finalizar(p)
  PROVE  CpuUnica'
  <1> USE DEF procesos, semaforos
  <1>0. /\ hilo \in [Hilos -> [en : LugaresHilo, pid : Pids \cup {NULO}]]
        /\ "despacho" \in Hilos /\ CpuUnica /\ estado \in [Pids -> Estados]
        /\ TiposColas /\ MasTipos /\ Unico /\ EnEstado /\ FormaElim /\ TiposConsola /\ FormaConsola
        /\ NULO \notin Pids /\ "eliminacion" \in Sitios
    BY Nulo DEF Tipos, TiposHilos, TiposColas, Orden, Hilos, Formas, Sitios
  <1>1. ASSUME TomarNuevo \/ TomarCupo \/ SacarNuevo \/ TomarListo \/ UNCHANGED vars
        PROVE  CpuUnica'
    <2>1. /\ UNCHANGED <<estado, consola, cpu_libre>> /\ hilo'["despacho"] = hilo["despacho"]
      BY <1>0, <1>1 DEF TomarNuevo, TomarCupo, SacarNuevo, TomarListo, Avanzar, vars
    <2>2. corto' = "sacar" <=> corto = "sacar"
      BY <1>1 DEF TomarNuevo, TomarCupo, SacarNuevo, TomarListo, vars
    <2>3. (\A p \in Pids : EnCpu(p)' <=> EnCpu(p)) /\ (Dejada' <=> Dejada) /\ (Matado' <=> Matado)
      BY <2>1 DEF EnCpu, Dejada, Matado
    <2> QED
      BY <1>0, <2>1, <2>2, <2>3, CpuIgual
  <1>2. ASSUME Eliminacion PROVE CpuUnica'
    <2>1. /\ UNCHANGED <<consola, cpu_libre, corto, hilo>>
      BY <1>2 DEF Eliminacion, TomarSalida, ElimQuitar, ElimVerCupo, ElimDarCupo, ElimSola
    <2>2. estado' = estado \/ ElimDarCupo
      BY <1>2 DEF Eliminacion, TomarSalida, ElimQuitar, ElimVerCupo
    <2>3. ASSUME NEW p \in Pids PROVE estado'[p] = "EXEC" <=> estado[p] = "EXEC"
      <3>1. CASE estado' = estado
        BY <3>1
      <3>2. CASE ElimDarCupo
        <4>1. elim.en # "esperar" /\ estado' = [estado EXCEPT ![elim.pid] = "FIN"]
          BY <3>2 DEF ElimDarCupo, DarCupo
        <4>2. PICK q \in Pids : q = elim.pid
          BY <1>0, <4>1 DEF FormaElim
        <4>3. Cuenta(q)["eliminacion"] # 0
          BY <1>0, <4>2, Donde
        <4>4. estado[q] = Debe["eliminacion"]
          BY <1>0, <4>3, DeSitio
        <4>5. estado[q] = "EXIT"
          BY <4>4, ValorDebeHoy
        <4> QED
          BY <1>0, <4>1, <4>2, <4>5
      <3> QED
        BY <2>2, <3>1, <3>2
    <2>4. (\A p \in Pids : EnCpu(p)' <=> EnCpu(p)) /\ (Dejada' <=> Dejada) /\ (Matado' <=> Matado)
      BY <2>1, <2>3 DEF EnCpu, Dejada, Matado
    <2> QED
      BY <1>0, <2>1, <2>4, CpuIgual
  <1>3. ASSUME Grado PROVE CpuUnica'
    <2>1. UNCHANGED <<estado, cpu_libre, corto, hilo>>
      BY <1>3 DEF Grado, EsperarCupo, AnotarResto, SubirGrado, BajarGrado, SoloGrado
    <2>2. consola.caso = "NADA" /\ consola'.caso = "NADA"
      BY <1>0, <1>3, LugarGrado
    <2>3. (\A p \in Pids : EnCpu(p)' <=> EnCpu(p)) /\ (Dejada' <=> Dejada) /\ (Matado' <=> Matado)
      BY <2>1, <2>2 DEF EnCpu, Dejada, Matado
    <2> QED
      BY <1>0, <2>1, <2>3, CpuIgual
  <1>4. ASSUME NEW q \in Pids, Iniciar(q) PROVE CpuUnica'
    <2>1. /\ UNCHANGED <<consola, cpu_libre, corto, hilo>> /\ q = contador_pid
          /\ estado' = [estado EXCEPT ![q] = "NEW"]
      BY <1>4 DEF Iniciar
    <2>2. EnOrden /\ MAX_PIDS \in Nat
      BY CotasAssumption DEF Orden
    <2>3. estado[q] = "NADA"
      BY <2>1, <2>2, PidNuevo
    <2>4. (\A p \in Pids : EnCpu(p)' <=> EnCpu(p)) /\ (Dejada' <=> Dejada) /\ (Matado' <=> Matado)
      BY <1>0, <2>1, <2>3 DEF EnCpu, Dejada, Matado
    <2> QED
      BY <1>0, <2>1, <2>4, CpuIgual
  <1>5. ASSUME NEW q \in Pids, Desalojar(q) \/ Desbloquear(q) PROVE CpuUnica'
    <2>1. /\ UNCHANGED <<estado, consola, cpu_libre, corto>>
      BY <1>5 DEF Desalojar, DejaLaCpu, Desbloquear
    <2>2. \/ hilo'["despacho"] = hilo["despacho"]
          \/ hilo["despacho"].en = "esperar" /\ hilo'["despacho"].en = "poner"
      BY <1>0, <1>5 DEF Desalojar, DejaLaCpu, Desbloquear, Quieto
    <2>3. (\A p \in Pids : EnCpu(p)' <=> EnCpu(p)) /\ (Dejada' <=> Dejada) /\ (Matado' <=> Matado)
      BY <2>1, <2>2 DEF EnCpu, Dejada, Matado
    <2> QED
      BY <1>0, <2>1, <2>3, CpuIgual
  <1>6. ASSUME NEW q \in Pids, Finalizar(q) PROVE CpuUnica'
    <2>1. /\ UNCHANGED <<estado, cpu_libre, corto, hilo>>
          /\ consola.en = "libre" /\ consola'.caso = "NADA"
      BY <1>6 DEF Finalizar, ConsolaSola, ConsolaLibre
    <2>2. consola.caso = "NADA"
      BY <1>0, <2>1 DEF FormaConsola
    <2>3. (\A p \in Pids : EnCpu(p)' <=> EnCpu(p)) /\ (Dejada' <=> Dejada) /\ (Matado' <=> Matado)
      BY <2>1, <2>2 DEF EnCpu, Dejada, Matado
    <2> QED
      BY <1>0, <2>1, <2>3, CpuIgual
  <1> QED
    BY <1>1, <1>2, <1>3, <1>4, <1>5, <1>6

\* The console.
LEMMA CpuConsola ==
  ASSUME Tipos, Orden, Consola
  PROVE  CpuUnica'
  <1> USE DEF procesos, semaforos
  <1>0. /\ CpuUnica /\ estado \in [Pids -> Estados] /\ cpu_libre \in Nat
        /\ TiposColas /\ MasTipos /\ Unico /\ EnEstado /\ FormaConsola
        /\ consola \in [en : LugaresConsola, pid : Pids \cup {NULO}, indice : Nat, caso : Estados,
                        esperas : Nat, resto : Nat]
        /\ NULO \notin Pids /\ "consola" \in Sitios
    BY Nulo DEF Tipos, TiposConsola, TiposColas, Orden, MasTipos, Formas, Sitios
  <1>s. cpu_libre + (IF corto = "sacar" THEN 1 ELSE 0) + (IF Ocupada THEN 1 ELSE 0)
          + (IF Dejada THEN 1 ELSE 0) + (IF Matado THEN 1 ELSE 0) = 1
    BY <1>0 DEF CpuUnica, Uno
  <1>1. ASSUME \/ LeerEstado \/ BuscarNuevo \/ BuscarListo \/ BuscarBloqueado \/ EsperarNuevo
               \/ EsperarListo \/ VerCupoConsola \/ DarCupoConsola
        PROVE  CpuUnica'
    <2>1. UNCHANGED <<cpu_libre, corto, hilo>>
      BY <1>1 DEF LeerEstado, BuscarNuevo, BuscarListo, BuscarBloqueado, EsperarNuevo, EsperarListo,
                  VerCupoConsola, DarCupoConsola, ConsolaSola
    <2>2. ASSUME NEW p \in Pids PROVE (EnCpu(p)' <=> EnCpu(p)) /\ ~Matado /\ ~Matado'
      <3>1. ASSUME LeerEstado PROVE (EnCpu(p)' <=> EnCpu(p)) /\ ~Matado /\ ~Matado'
        <4>1. /\ estado' = estado /\ consola.en = "estado"
              /\ \/ consola'.en = "esperarMuerte"
                 \/ consola'.en = "buscar" /\ consola'.caso # "EXEC"
          BY <1>0, <3>1 DEF LeerEstado
        <4>2. consola.caso = "NADA"
          BY <1>0, <4>1 DEF FormaConsola
        <4> QED
          BY <4>1, <4>2 DEF EnCpu, Matado
      <3>2. ASSUME BuscarNuevo \/ BuscarListo \/ BuscarBloqueado \/ EsperarNuevo \/ EsperarListo
            PROVE  (EnCpu(p)' <=> EnCpu(p)) /\ ~Matado /\ ~Matado'
        <4>1. /\ estado' = estado /\ consola.caso # "EXEC"
          BY <1>0, <3>2 DEF BuscarNuevo, BuscarListo, BuscarBloqueado, EsperarNuevo, EsperarListo,
                            FormaConsola
        <4>2. consola'.caso = consola.caso
          BY <1>0, <3>2 DEF BuscarNuevo, BuscarListo, BuscarBloqueado, EsperarNuevo, EsperarListo
        <4> QED
          BY <4>1, <4>2 DEF EnCpu, Matado
      <3>3. ASSUME VerCupoConsola PROVE (EnCpu(p)' <=> EnCpu(p)) /\ ~Matado /\ ~Matado'
        <4>1. /\ estado' = estado /\ consola.en = "ver" /\ consola'.en \in {"sumar", "restar"}
              /\ consola'.caso = consola.caso /\ consola'.pid = consola.pid
          BY <1>0, <3>3 DEF VerCupoConsola, VerCupo
        <4> QED
          BY <4>1 DEF EnCpu, Matado
      <3>4. ASSUME DarCupoConsola PROVE (EnCpu(p)' <=> EnCpu(p)) /\ ~Matado /\ ~Matado'
        <4>1. consola.en \in {"sumar", "restar"} /\ consola.pid \in Pids
          BY <3>4 DEF DarCupoConsola, DarCupo, Tipos, Manos
        <4>2. \/ /\ consola.caso = "EXEC" /\ consola'.caso = "NADA"
                 /\ estado' = [estado EXCEPT ![consola.pid] = "FIN"]
              \/ /\ consola.caso # "EXEC" /\ consola'.caso # "EXEC" /\ estado' = estado
          BY <1>0, <3>4 DEF DarCupoConsola, ConsolaLibre
        <4> QED
          BY <1>0, <4>1, <4>2 DEF EnCpu, Matado
      <3> QED
        BY <1>1, <3>1, <3>2, <3>3, <3>4
    <2>3. Pids # {}
      BY <1>1 DEF Tipos, Manos, LeerEstado, BuscarNuevo, BuscarListo, BuscarBloqueado, EsperarNuevo,
                  EsperarListo, VerCupoConsola, DarCupoConsola, DarCupo
    <2>4. (\A p \in Pids : EnCpu(p)' <=> EnCpu(p)) /\ (Dejada' <=> Dejada) /\ (Matado' <=> Matado)
      BY <2>1, <2>2, <2>3 DEF Dejada
    <2> QED
      BY <1>0, <2>1, <2>4, CpuIgual
  <1>2. ASSUME EsperarMuerte PROVE CpuUnica'
    <2>1. /\ UNCHANGED <<cpu_libre, corto, hilo, estado>>
          /\ consola.en = "esperarMuerte" /\ consola'.en = "quitar"
          /\ consola'.pid = consola.pid /\ consola'.caso = consola.caso
      BY <1>0, <1>2 DEF EsperarMuerte, ConsolaSola
    <2>2. PICK q \in Pids : q = consola.pid
      BY <2>1 DEF Tipos, Manos
    <2>3. consola.caso = "EXEC" /\ estado[q] = "EXEC"
      BY <1>0, <1>2, <2>1, <2>2 DEF FormaConsola, EsperarMuerte
    <2>4. EnCpu(q) /\ ~EnCpu(q)'
      BY <2>1, <2>2, <2>3 DEF EnCpu
    <2>5. \A p \in Pids : EnCpu(p) => p = q
      BY <1>0, <2>4 DEF CpuUnica
    <2>6. ASSUME NEW p \in Pids PROVE ~EnCpu(p)'
      <3>1. EnCpu(p)' => EnCpu(p)
        BY <2>1 DEF EnCpu
      <3> QED
        BY <2>4, <2>5, <3>1
    <2>7. Ocupada /\ ~Ocupada'
      BY <2>4, <2>6 DEF Ocupada
    <2>8. ~Matado /\ Matado' /\ (Dejada' <=> Dejada)
      BY <2>1, <2>3 DEF Matado, Dejada
    <2>9. cpu_libre' + (IF corto' = "sacar" THEN 1 ELSE 0) + (IF Ocupada' THEN 1 ELSE 0)
            + (IF Dejada' THEN 1 ELSE 0) + (IF Matado' THEN 1 ELSE 0) = 1
      BY <1>0, <1>s, <2>1, <2>7, <2>8
    <2> QED
      BY <2>6, <2>9 DEF CpuUnica, Uno
  <1>3. ASSUME Quitar PROVE CpuUnica'
    <2>1. UNCHANGED <<corto, hilo>> /\ consola.en = "quitar"
      BY <1>3 DEF Quitar, ConsolaSola
    <2>2. PICK q \in Pids : q = consola.pid
      BY <2>1 DEF Tipos, Manos
    <2>3. \/ /\ consola.caso = "EXEC" /\ estado' = estado /\ cpu_libre' = cpu_libre + 1
             /\ consola'.en = "ver" /\ consola'.pid = consola.pid /\ consola'.caso = "EXEC"
          \/ /\ consola.caso # "EXEC" /\ estado' = [estado EXCEPT ![q] = "FIN"]
             /\ consola'.caso = "NADA" /\ cpu_libre' = cpu_libre
      BY <1>0, <1>3, <2>2 DEF Quitar, ConsolaLibre, CpuAlQuitar
    <2>4. estado[q] = consola.caso
      <3>1. Sacado(q)
        BY <2>1, <2>2 DEF Sacado
      <3>2. Cuenta(q)["consola"] # 0
        BY <1>0, <3>1, Donde
      <3>3. estado[q] = Debe["consola"]
        BY <1>0, <3>2, DeSitio
      <3> QED
        BY <3>3, ValorDebeHoy
    <2>5. \A p \in Pids : EnCpu(p)' <=> EnCpu(p)
      BY <1>0, <2>1, <2>2, <2>3, <2>4 DEF EnCpu
    <2>6. (Ocupada' <=> Ocupada) /\ (Dejada' <=> Dejada) /\ ~Matado'
      BY <2>1, <2>3, <2>5 DEF Ocupada, Dejada, Matado
    <2>7. Matado => cpu_libre' = cpu_libre + 1
      BY <2>3 DEF Matado
    <2>8. ~Matado => cpu_libre' = cpu_libre
      BY <2>1, <2>3 DEF Matado
    <2>9. cpu_libre' + (IF corto' = "sacar" THEN 1 ELSE 0) + (IF Ocupada' THEN 1 ELSE 0)
            + (IF Dejada' THEN 1 ELSE 0) + (IF Matado' THEN 1 ELSE 0) = 1
      BY <1>0, <1>s, <2>1, <2>6, <2>7, <2>8
    <2>10. \A p, r \in Pids : EnCpu(p)' /\ EnCpu(r)' => p = r
      BY <1>0, <2>5 DEF CpuUnica
    <2> QED
      BY <2>9, <2>10 DEF CpuUnica, Uno
  <1> QED
    BY <1>1, <1>2, <1>3 DEF Consola

\* The threads and the scheduler.
LEMMA CpuHilos ==
  ASSUME Tipos, Orden,
         \/ TomarCpu \/ Despachar \/ \E h \in Hilos : Hilo(h)
         \/ \E p \in Pids : Bloquear(p) \/ Terminar(p)
  PROVE  CpuUnica'
  <1> USE DEF procesos, semaforos
  <1>0. /\ CpuUnica /\ estado \in [Pids -> Estados] /\ cpu_libre \in Nat
        /\ TiposColas /\ MasTipos /\ Unico /\ EnEstado /\ FormaConsola /\ listos \in Seq(Pids)
        /\ consola.en \in LugaresConsola
        /\ hilo \in [Hilos -> [en : LugaresHilo, pid : Pids \cup {NULO}]]
        /\ NULO \notin Pids /\ {"consola", "listos"} \cup Hilos \subseteq Sitios
        /\ "consola" \in Sitios \ {"listos"} /\ "consola" \in Sitios \ {"despacho"}
        /\ "despacho" \in Hilos
    BY Nulo DEF Tipos, TiposConsola, TiposColas, TiposHilos, Orden, MasTipos, Formas, Sitios, Hilos
  <1>s. cpu_libre + (IF corto = "sacar" THEN 1 ELSE 0) + (IF Ocupada THEN 1 ELSE 0)
          + (IF Dejada THEN 1 ELSE 0) + (IF Matado THEN 1 ELSE 0) = 1
    BY <1>0 DEF CpuUnica, Uno
  <1>1. ASSUME TomarCpu PROVE CpuUnica'
    <2>1. /\ UNCHANGED <<estado, consola, hilo>> /\ cpu_libre' = cpu_libre - 1
          /\ corto = "cpu" /\ corto' = "sacar"
      BY <1>1 DEF TomarCpu
    <2>2. \A p \in Pids : EnCpu(p)' <=> EnCpu(p)
      BY <2>1 DEF EnCpu
    <2>3. (Ocupada' <=> Ocupada) /\ (Dejada' <=> Dejada) /\ (Matado' <=> Matado)
      BY <2>1, <2>2 DEF Ocupada, Dejada, Matado
    <2>4. cpu_libre' + (IF corto' = "sacar" THEN 1 ELSE 0) + (IF Ocupada' THEN 1 ELSE 0)
            + (IF Dejada' THEN 1 ELSE 0) + (IF Matado' THEN 1 ELSE 0) = 1
      BY <1>0, <1>s, <2>1, <2>3
    <2>5. \A p, r \in Pids : EnCpu(p)' /\ EnCpu(r)' => p = r
      BY <1>0, <2>2 DEF CpuUnica
    <2> QED
      BY <2>4, <2>5 DEF CpuUnica, Uno
  <1>2. ASSUME Despachar PROVE CpuUnica'
    <2>1. /\ UNCHANGED <<consola, hilo, cpu_libre>> /\ corto = "sacar" /\ corto' = "esperar"
          /\ listos # <<>>
      BY <1>2 DEF Despachar
    <2>2. PICK q \in Pids : q = Head(listos) /\ q \in ToSet(listos)
      BY <1>0, <2>1, PrimeroEsta
    <2>3. estado'[q] = "EXEC" /\ \A p \in Pids \ {q} : estado'[p] = estado[p]
      BY <1>0, <1>2, <2>2 DEF Despachar
    <2>4. Cuenta(q)["listos"] # 0
      BY <1>0, <2>2, Donde
    <2>5. Cuenta(q)["consola"] = 0
      BY <1>0, <2>4, DeSitio
    <2>6. ~Sacado(q)
      BY <2>5, NoEsta
    <2>7. ~(consola.pid = q /\ consola.caso = "EXEC" /\ consola.en # "esperarMuerte")
      BY <1>0, <2>6 DEF Sacado, FormaConsola, LugaresConsola
    <2>8. EnCpu(q)'
      BY <2>1, <2>3, <2>7 DEF EnCpu
    <2>9. ~Ocupada
      BY <1>0, <1>s, <2>1
    <2>10. ASSUME NEW p \in Pids, EnCpu(p)' PROVE p = q
      <3>1. p # q => EnCpu(p)
        BY <2>1, <2>3, <2>10 DEF EnCpu
      <3> QED
        BY <2>9, <3>1 DEF Ocupada
    <2>11. Ocupada' /\ (Dejada' <=> Dejada) /\ (Matado' <=> Matado)
      BY <2>1, <2>8 DEF Ocupada, Dejada, Matado
    <2>12. cpu_libre' + (IF corto' = "sacar" THEN 1 ELSE 0) + (IF Ocupada' THEN 1 ELSE 0)
             + (IF Dejada' THEN 1 ELSE 0) + (IF Matado' THEN 1 ELSE 0) = 1
      BY <1>0, <1>s, <2>1, <2>9, <2>11
    <2>13. \A p, r \in Pids : EnCpu(p)' /\ EnCpu(r)' => p = r
      BY <2>10
    <2> QED
      BY <2>12, <2>13 DEF CpuUnica, Uno
  <1>3. ASSUME NEW q \in Pids, Bloquear(q) \/ Terminar(q) PROVE CpuUnica'
    <2>1. /\ UNCHANGED <<consola, hilo, corto>> /\ cpu_libre' = cpu_libre + 1 /\ EnCpu(q)
          /\ estado'[q] # "EXEC" /\ \A p \in Pids \ {q} : estado'[p] = estado[p]
      BY <1>0, <1>3 DEF Bloquear, Terminar, DejaLaCpu
    <2>2. ASSUME NEW p \in Pids PROVE ~EnCpu(p)'
      <3>1. ~EnCpu(q)'
        BY <2>1 DEF EnCpu
      <3>2. ASSUME p # q PROVE ~EnCpu(p)'
        <4>1. ~EnCpu(p)
          BY <1>0, <2>1, <3>2 DEF CpuUnica
        <4> QED
          BY <2>1, <3>2, <4>1 DEF EnCpu
      <3> QED
        BY <3>1, <3>2
    <2>3. Ocupada /\ ~Ocupada' /\ (Dejada' <=> Dejada) /\ (Matado' <=> Matado)
      BY <2>1, <2>2 DEF Ocupada, Dejada, Matado
    <2>4. cpu_libre' + (IF corto' = "sacar" THEN 1 ELSE 0) + (IF Ocupada' THEN 1 ELSE 0)
            + (IF Dejada' THEN 1 ELSE 0) + (IF Matado' THEN 1 ELSE 0) = 1
      BY <1>0, <1>s, <2>1, <2>3
    <2> QED
      BY <2>2, <2>4 DEF CpuUnica, Uno
  <1>4. ASSUME NEW h \in Hilos, AvisarListo(h) PROVE CpuUnica'
    <2>1. /\ UNCHANGED <<estado, consola, corto>> /\ hilo[h].en = "avisar"
          /\ cpu_libre' = IF h = "despacho" THEN cpu_libre + 1 ELSE cpu_libre
          /\ hilo' = [hilo EXCEPT ![h] = Quieto]
      BY <1>4 DEF AvisarListo
    <2>2. /\ h = "despacho" => Dejada /\ ~Dejada'
          /\ h # "despacho" => (Dejada' <=> Dejada)
      BY <1>0, <2>1 DEF Dejada, Quieto
    <2>3. \A p \in Pids : EnCpu(p)' <=> EnCpu(p)
      BY <2>1 DEF EnCpu
    <2>4. (Ocupada' <=> Ocupada) /\ (Matado' <=> Matado)
      BY <2>1, <2>3 DEF Ocupada, Matado
    <2>5. cpu_libre' + (IF corto' = "sacar" THEN 1 ELSE 0) + (IF Ocupada' THEN 1 ELSE 0)
            + (IF Dejada' THEN 1 ELSE 0) + (IF Matado' THEN 1 ELSE 0) = 1
      BY <1>0, <1>s, <2>1, <2>2, <2>4
    <2>6. \A p, r \in Pids : EnCpu(p)' /\ EnCpu(r)' => p = r
      BY <1>0, <2>3 DEF CpuUnica
    <2> QED
      BY <2>5, <2>6 DEF CpuUnica, Uno
  <1>5. ASSUME NEW h \in Hilos, PonerListo(h) PROVE CpuUnica'
    <2>1. UNCHANGED <<consola, corto, cpu_libre>> /\ hilo[h].en = "poner"
      BY <1>5 DEF PonerListo
    <2>2. PICK q \in Pids : q = hilo[h].pid
      BY <2>1 DEF Tipos, Manos
    <2>3. estado'[q] = "READY" /\ \A p \in Pids \ {q} : estado'[p] = estado[p]
      BY <1>0, <1>5, <2>2 DEF PonerListo
    <2>4. PICK e \in {"avisar", "trabado"} : hilo' = [hilo EXCEPT ![h].en = e]
      BY <1>5 DEF PonerListo, Avanzar
    <2>5. Posee(h, q) /\ h \in Sitios
      BY <1>0, <2>1, <2>2 DEF Posee
    <2>6. Cuenta(q)[h] # 0
      BY <1>0, <2>5, Donde
    <2>7. estado[q] = Debe[h] /\ \A m \in Sitios \ {h} : Cuenta(q)[m] = 0
      BY <1>0, <2>5, <2>6, DeSitio
    <2>8. CASE h = "despacho"
      <3>1. estado[q] = "EXEC"
        BY <2>1, <2>7, <2>8 DEF Debe, DeHilo, Sitios, Hilos
      <3>2. ~Sacado(q)
        <4>1. Cuenta(q)["consola"] = 0
          BY <1>0, <2>7, <2>8
        <4> QED
          BY <4>1, NoEsta
      <3>3. ~(consola.pid = q /\ consola.caso = "EXEC" /\ consola.en # "esperarMuerte")
        BY <1>0, <3>2 DEF Sacado, FormaConsola, LugaresConsola
      <3>4. EnCpu(q)
        BY <3>1, <3>3 DEF EnCpu
      <3>5. ASSUME NEW p \in Pids PROVE ~EnCpu(p)'
        <4>1. ~EnCpu(q)'
          BY <2>3 DEF EnCpu
        <4>2. ASSUME p # q PROVE ~EnCpu(p)'
          <5>1. ~EnCpu(p)
            BY <1>0, <3>4, <4>2 DEF CpuUnica
          <5> QED
            BY <2>1, <2>3, <4>2, <5>1 DEF EnCpu
        <4> QED
          BY <4>1, <4>2
      <3>6. ~Dejada /\ Dejada'
        BY <1>0, <2>1, <2>4, <2>8 DEF Dejada
      <3>7. Ocupada /\ ~Ocupada' /\ (Matado' <=> Matado)
        BY <2>1, <3>4, <3>5 DEF Ocupada, Matado
      <3>8. cpu_libre' + (IF corto' = "sacar" THEN 1 ELSE 0) + (IF Ocupada' THEN 1 ELSE 0)
              + (IF Dejada' THEN 1 ELSE 0) + (IF Matado' THEN 1 ELSE 0) = 1
        BY <1>0, <1>s, <2>1, <3>6, <3>7
      <3> QED
        BY <3>5, <3>8 DEF CpuUnica, Uno
    <2>9. CASE h # "despacho"
      <3>1. estado[q] # "EXEC"
        BY <2>1, <2>7, <2>9 DEF Debe, DeHilo, Sitios, Hilos
      <3>2. \A p \in Pids : EnCpu(p)' <=> EnCpu(p)
        BY <2>1, <2>3, <3>1 DEF EnCpu
      <3>3. (Dejada' <=> Dejada) /\ (Matado' <=> Matado)
        BY <1>0, <2>1, <2>4, <2>9 DEF Dejada, Matado
      <3> QED
        BY <1>0, <2>1, <3>2, <3>3, CpuIgual
    <2> QED
      BY <2>8, <2>9
  <1> QED
    BY <1>1, <1>2, <1>3, <1>4, <1>5 DEF Hilo

-----------------------------------------------------------------------------
(* The invariant: while no mistake was made, each process is in its place.  *)

LEMMA InicioOrden == Init => Orden
  <1> SUFFICES ASSUME Init PROVE Orden
    OBVIOUS
  <1>0. /\ \A p \in Pids : estado[p] = "NADA"
        /\ nuevos = <<>> /\ listos = <<>> /\ salida = <<>> /\ bloqueados = {} /\ sistema = <<>>
        /\ hay_exit = 0 /\ cpu_libre = 1 /\ corto = "esperar"
        /\ hilo = [h \in Hilos |-> Quieto] /\ elim = ElimLibre /\ consola = ConsolaLibre
        /\ NULO \notin Pids /\ MAX_PIDS \in Nat /\ "despacho" \in Hilos
    BY Nulo, CotasAssumption DEF Init, Hilos
  <1>1. MasTipos
    <2>1. salida \in Seq(Pids)
      BY <1>0, Vacia
    <2> QED
      BY <1>0, <2>1 DEF MasTipos, ElimLibre
  <1>2. Formas
    BY <1>0 DEF Formas, FormaHilos, FormaElim, FormaConsola, Quieto, ElimLibre, ConsolaLibre
  <1>3. ASSUME NEW p \in Pids PROVE Nada(Cuenta(p)) /\ ~Vivo(p) /\ ~EnCpu(p)
    <2>1. ~Vivo(p) /\ ~EnCpu(p)
      BY <1>0 DEF Vivo, EnCpu
    <2>2. Cuantos(<<>>, {p}) = 0
      BY CuantosVacia
    <2>3. Cuenta(p)["nuevos"] = 0 /\ Cuenta(p)["listos"] = 0 /\ Cuenta(p)["salida"] = 0
      BY <1>0, <2>2, Valores
    <2>4. /\ ~Corre(p) /\ ~Sacado(p) /\ elim.pid # p /\ p \notin bloqueados
          /\ \A h \in Hilos : ~Posee(h, p)
      BY <1>0, <2>1 DEF Corre, Sacado, Posee, Quieto, ElimLibre, ConsolaLibre
    <2>5. Cuenta(p)["bloqueados"] = 0 /\ Cuenta(p)["cpu"] = 0
      BY <2>4, Presencia
    <2>6. Cuenta(p)["eliminacion"] = 0 /\ Cuenta(p)["consola"] = 0
      BY <2>4, Presencia
    <2>7. \A h \in Hilos : Cuenta(p)[h] = 0
      BY <2>4, Presencia
    <2>8. Nada(Cuenta(p))
      BY <2>3, <2>5, <2>6, <2>7 DEF Nada, Sitios, Hilos
    <2> QED
      BY <2>1, <2>8
  <1>4. Unico
    BY <1>3 DEF Unico
  <1>5. EnEstado
    BY <1>3 DEF EnEstado, Nada
  <1>6. EnSistema
    <2>1. \A p \in Pids : Cuantos(sistema, {p}) = 0
      BY <1>0, CuantosVacia
    <2> QED
      BY <1>3, <2>1 DEF EnSistema, Uno
  <1>7. EnOrden
    <2>1. 0 \in 0 .. MAX_PIDS /\ \A p \in Pids : ~(p < 0)
      BY <1>0 DEF Pids
    <2> QED
      BY <1>0, <2>1 DEF EnOrden
  <1>8. Avisados
    BY <1>0 DEF Avisados, Quieto
  <1>9. CpuUnica
    <2>1. ~Ocupada /\ ~Dejada /\ ~Matado
      BY <1>0, <1>3 DEF Ocupada, Dejada, Matado, Quieto, ConsolaLibre
    <2> QED
      BY <1>0, <1>3, <2>1 DEF CpuUnica, Uno
  <1>10. SalidaExacta
    BY <1>0 DEF SalidaExacta
  <1> QED
    BY <1>1, <1>2, <1>4, <1>5, <1>6, <1>7, <1>8, <1>9, <1>10 DEF Orden

LEMMA UnicoPaso ==
  ASSUME Tipos, Orden, [Next]_vars, Sano', TiposColas', MasTipos'
  PROVE  Unico' /\ EnEstado'
  <1>1. Creacion => Unico' /\ EnEstado'
    BY HilosQuietos, SaleDeNew DEF Creacion
  <1>2. Corto => Unico' /\ EnEstado'
    BY ConsolaQuieta, EntraALaCpu DEF Corto
  <1>3. Eliminacion => Unico' /\ EnEstado'
    BY ConsolaQuieta, SaleDeExit, MuereEliminado DEF Eliminacion
  <1>4. Consola => Unico' /\ EnEstado'
    BY ConsolaQuieta, SaleBuscado, SaleMuerto, MuereFinalizado DEF Consola
  <1>5. Grado \/ UNCHANGED vars => Unico' /\ EnEstado'
    BY ConsolaQuieta
  <1>6. \A h \in Hilos : Hilo(h) => Unico' /\ EnEstado'
    BY HilosQuietos, LlegaAListos DEF Hilo
  <1>7. \A p \in Pids : Programa(p) => Unico' /\ EnEstado'
    BY Nace, SaleDesalojado, SaleBloqueado, SaleTerminado, SaleDeBloqueados DEF Programa
  <1>8. \A p \in Pids : Finalizar(p) => Unico' /\ EnEstado'
    BY ConsolaQuieta
  <1> QED
    BY <1>1, <1>2, <1>3, <1>4, <1>5, <1>6, <1>7, <1>8 DEF Next

LEMMA CpuPaso ==
  ASSUME Tipos, Orden, [Next]_vars
  PROVE  CpuUnica'
  <1>1. Creacion \/ Corto => CpuUnica'
    BY CpuQuieta, CpuHilos DEF Creacion, Corto
  <1>2. Eliminacion \/ Grado \/ UNCHANGED vars => CpuUnica'
    BY CpuQuieta
  <1>3. Consola => CpuUnica'
    BY CpuConsola
  <1>4. (\E h \in Hilos : Hilo(h)) => CpuUnica'
    BY CpuHilos
  <1>5. \A p \in Pids : Iniciar(p) \/ Desalojar(p) \/ Desbloquear(p) \/ Finalizar(p) => CpuUnica'
    BY CpuQuieta
  <1>6. \A p \in Pids : Bloquear(p) \/ Terminar(p) => CpuUnica'
    BY CpuHilos
  <1> QED
    BY <1>1, <1>2, <1>3, <1>4, <1>5, <1>6 DEF Next, Programa

LEMMA OrdenPaso ==
  ASSUME Tipos, Orden, [Next]_vars, Sano'
  PROVE  Orden'
  <1>1. TiposColas'
    BY PasoTipos DEF Tipos
  <1>2. MasTipos'
    BY MasTiposPaso
  <1>3. Unico' /\ EnEstado'
    BY <1>1, <1>2, UnicoPaso
  <1>4. FormaHilos'
    BY FormaHilosPaso DEF Orden, Formas
  <1>5. FormaElim'
    BY FormaElimPaso
  <1>6. FormaConsola'
    BY FormaConsolaPaso
  <1>7. EnSistema'
    BY EnSistemaPaso
  <1>8. EnOrden'
    BY EnOrdenPaso
  <1>9. Avisados'
    BY AvisadosPaso
  <1>10. CpuUnica'
    BY CpuPaso
  <1>11. SalidaExacta'
    BY SalidaPaso
  <1> QED
    BY <1>2, <1>3, <1>4, <1>5, <1>6, <1>7, <1>8, <1>9, <1>10, <1>11 DEF Orden, Formas

\* While the program is sane, every process is in its place.
THEOREM SiempreOrden == Spec => [](Sano => Orden)
  <1> DEFINE Inv == Tipos /\ (Sano => Orden)
  <1>1. Init => Inv
    BY InicioTipos, InicioOrden
  <1>2. Inv /\ [Next]_vars => Inv'
    <2> SUFFICES ASSUME Inv, [Next]_vars, Sano' PROVE Orden'
      BY PasoTipos
    <2>1. Sano
      BY DEF Next, vars, Sano
    <2> QED
      BY <2>1, OrdenPaso
  <1> QED
    BY <1>1, <1>2, PTL DEF Spec

-----------------------------------------------------------------------------
(* EnUnLugar counts with Cardinality what Cuenta counts one place at a time. *)

LEMMA HilosQueTienen ==
  ASSUME Unico, NEW p \in Pids, TiposColas, MasTipos
  PROVE  Cardinality({h \in Hilos : hilo[h].pid = p /\ hilo[h].en # "avisar"})
         = IF \E h \in Hilos : Posee(h, p) THEN 1 ELSE 0
  <1> DEFINE H == {h \in Hilos : hilo[h].pid = p /\ hilo[h].en # "avisar"}
  <1>1. CASE \E h \in Hilos : Posee(h, p)
    <2>1. PICK g \in Hilos : Posee(g, p)
      BY <1>1
    <2>2. Hilos \subseteq Sitios
      BY DEF Hilos, Sitios
    <2>3. ASSUME NEW h \in Hilos, Posee(h, p) PROVE h = g
      <3>1. Cuenta(p)[h] # 0 /\ Cuenta(p)[g] # 0
        BY <2>1, <2>3, Donde
      <3> QED
        BY <2>2, <3>1, UnSitio
    <2>4. H = {g}
      BY <2>1, <2>3 DEF Posee
    <2> HIDE DEF H
    <2>5. Cardinality(H) = 1
      BY <2>4, FS_Singleton
    <2> QED
      BY <1>1, <2>5 DEF H
  <1>2. CASE ~\E h \in Hilos : Posee(h, p)
    <2>1. H = {}
      BY <1>2 DEF Posee
    <2> HIDE DEF H
    <2>2. Cardinality(H) = 0
      BY <2>1, FS_EmptySet
    <2> QED
      BY <1>2, <2>2 DEF H
  <1> QED
    BY <1>1, <1>2

LEMMA LugaresEs ==
  ASSUME Unico, NEW p \in Pids, TiposColas, MasTipos
  PROVE  Lugares(p) = IF Vivo(p) THEN 1 ELSE 0
  <1> DEFINE nu == Cuenta(p)["nuevos"]
             li == Cuenta(p)["listos"]
             sa == Cuenta(p)["salida"]
             bl == Cuenta(p)["bloqueados"]
             cp == Cuenta(p)["cpu"]
             hi == IF \E h \in Hilos : Posee(h, p) THEN 1 ELSE 0
             el == Cuenta(p)["eliminacion"]
             co == Cuenta(p)["consola"]
  <1>1. Cardinality({i \in DOMAIN nuevos : nuevos[i] = p}) = nu
    <2>1. {i \in DOMAIN nuevos : nuevos[i] = p} = Posiciones(nuevos, {p})
      BY DEF Posiciones
    <2> QED
      BY <2>1, Valores DEF Cuantos
  <1>2. Cardinality({i \in DOMAIN listos : listos[i] = p}) = li
    <2>1. {i \in DOMAIN listos : listos[i] = p} = Posiciones(listos, {p})
      BY DEF Posiciones
    <2> QED
      BY <2>1, Valores DEF Cuantos
  <1>3. Cardinality({i \in DOMAIN salida : salida[i] = p}) = sa
    <2>1. {i \in DOMAIN salida : salida[i] = p} = Posiciones(salida, {p})
      BY DEF Posiciones
    <2>2. sa = Cuantos(salida, {p})
      BY Valores
    <2> HIDE DEF sa
    <2> QED
      BY <2>1, <2>2 DEF Cuantos
  <1>4. Uno(p \in bloqueados) = bl
    BY Valores
  <1>5. Uno(EnCpu(p) /\ hilo["despacho"] # [en |-> "poner", pid |-> p]) = cp
    <2>1. cp = Uno(Corre(p))
      BY Valores
    <2> QED
      BY <2>1 DEF Corre
  <1>6. Cardinality({h \in Hilos : hilo[h].pid = p /\ hilo[h].en # "avisar"}) = hi
    BY HilosQueTienen
  <1>7. Uno(elim.pid = p) = el
    BY Valores
  <1>8. Uno(Sacado(p)) = co
    BY Valores
  <1>9. Lugares(p) = nu + li + sa + bl + cp + hi + el + co
    BY <1>1, <1>2, <1>3, <1>4, <1>5, <1>6, <1>7, <1>8 DEF Lugares
  <1>10. Hilos \subseteq Sitios /\ Sitios = Hilos \cup {"nuevos", "listos", "salida", "bloqueados",
                                                     "cpu", "eliminacion", "consola"}
    BY DEF Hilos, Sitios
  <1>11. \A h \in Hilos : Posee(h, p) <=> Cuenta(p)[h] # 0
    BY Presencia
  <1>12. CASE ~Vivo(p)
    <2>1. Nada(Cuenta(p))
      BY <1>12 DEF Unico
    <2>2. nu = 0 /\ li = 0 /\ sa = 0 /\ bl = 0 /\ cp = 0 /\ el = 0 /\ co = 0
      BY <1>10, <2>1 DEF Nada
    <2>3. hi = 0
      BY <1>10, <1>11, <2>1 DEF Nada
    <2> HIDE DEF nu, li, sa, bl, cp, hi, el, co
    <2> QED
      BY <1>9, <1>12, <2>2, <2>3
  <1>13. CASE Vivo(p)
    <2>1. PICK l \in Sitios : En(Cuenta(p), l)
      BY <1>13 DEF Unico
    <2>2. /\ nu = IF l = "nuevos" THEN 1 ELSE 0
          /\ li = IF l = "listos" THEN 1 ELSE 0
          /\ sa = IF l = "salida" THEN 1 ELSE 0
          /\ bl = IF l = "bloqueados" THEN 1 ELSE 0
          /\ cp = IF l = "cpu" THEN 1 ELSE 0
          /\ el = IF l = "eliminacion" THEN 1 ELSE 0
          /\ co = IF l = "consola" THEN 1 ELSE 0
      BY <1>10, <2>1 DEF En
    <2>3. hi = IF l \in Hilos THEN 1 ELSE 0
      BY <1>10, <1>11, <2>1 DEF En
    <2> HIDE DEF nu, li, sa, bl, cp, hi, el, co
    <2>4. nu + li + sa + bl + cp + hi + el + co = 1
      BY <1>10, <2>2, <2>3 DEF Hilos
    <2> QED
      BY <1>9, <1>13, <2>4
  <1> QED
    BY <1>12, <1>13

LEMMA CpuCuenta ==
  ASSUME CpuUnica, cpu_libre \in Nat
  PROVE  cpu_libre + Cardinality({p \in Pids : EnCpu(p)}) <= 1
  <1> DEFINE S == {p \in Pids : EnCpu(p)}
  <1>1. cpu_libre + (IF corto = "sacar" THEN 1 ELSE 0) + (IF Ocupada THEN 1 ELSE 0)
          + (IF Dejada THEN 1 ELSE 0) + (IF Matado THEN 1 ELSE 0) = 1
    BY DEF CpuUnica, Uno
  <1>2. Cardinality(S) = IF Ocupada THEN 1 ELSE 0
    <2>1. CASE Ocupada
      <3>1. PICK q \in Pids : EnCpu(q)
        BY <2>1 DEF Ocupada
      <3>2. S = {q}
        BY <3>1 DEF CpuUnica
      <3> HIDE DEF S
      <3> QED
        BY <2>1, <3>2, FS_Singleton
    <2>2. CASE ~Ocupada
      <3>1. S = {}
        BY <2>2 DEF Ocupada
      <3> HIDE DEF S
      <3> QED
        BY <2>2, <3>1, FS_EmptySet
    <2> QED
      BY <2>1, <2>2
  <1> HIDE DEF S
  <1>3. cpu_libre + Cardinality(S) <= 1
    BY <1>1, <1>2
  <1> QED
    BY <1>3 DEF S

\* No process is ever in two of the places between which the console, the
\* scheduler, the elimination thread and the interfaces pass it, and none is
\* lost; procesos_en_sistema has each one once until it is removed; and the CPU
\* is given to one process at most.
THEOREM NadieSePierde == Spec => []EnUnLugar
  <1>1. Tipos /\ (Sano => Orden) => EnUnLugar
    <2> SUFFICES ASSUME Tipos, Orden PROVE EnUnLugar
      BY DEF EnUnLugar
    <2>0. TiposColas /\ MasTipos /\ Unico /\ EnSistema /\ CpuUnica /\ cpu_libre \in Nat
      BY DEF Tipos, Orden, MasTipos
    <2>1. cpu_libre + Cardinality({p \in Pids : EnCpu(p)}) <= 1
      BY <2>0, CpuCuenta
    <2>2. ASSUME NEW p \in Pids
          PROVE  /\ Lugares(p) = Uno(estado[p] \notin {"NADA", "FIN"})
                 /\ Cardinality({i \in DOMAIN sistema : sistema[i] = p})
                    = Uno(estado[p] \notin {"NADA", "FIN"} /\ ~QuitadoDelSistema(p))
      <3>1. Lugares(p) = Uno(estado[p] \notin {"NADA", "FIN"})
        BY <2>0, LugaresEs DEF Vivo, Uno
      <3>2. {i \in DOMAIN sistema : sistema[i] = p} = Posiciones(sistema, {p})
        BY DEF Posiciones
      <3>3. Cuantos(sistema, {p}) = Uno(Vivo(p) /\ ~QuitadoDelSistema(p))
        BY <2>0 DEF EnSistema
      <3>4. Cardinality({i \in DOMAIN sistema : sistema[i] = p})
              = Uno(estado[p] \notin {"NADA", "FIN"} /\ ~QuitadoDelSistema(p))
        BY <3>2, <3>3 DEF Cuantos, Vivo
      <3> QED
        BY <3>1, <3>4
    <2> QED
      BY <2>1, <2>2 DEF EnUnLugar
  <1> QED
    BY <1>1, SiempreTipos, SiempreOrden, PTL

-----------------------------------------------------------------------------
(* The degree of multiprogramming.  A slot is taken by SacarNuevo and given *)
(* back by ElimDarCupo and DarCupoConsola; every other step keeps Cupos.    *)

Cupos == {p \in Pids : ConCupo(p)}
TomaCupo == IF hilo["creacion"].en = "sacar" THEN 1 ELSE 0
Balance ==
  ~pisado =>
    grado_multi + Cardinality(Cupos) + TomaCupo + EsperasHechas
    = grado_multiprogramacion + flag_grado_multi
GradoBien == flag_grado_multi \in Nat /\ pisado \in BOOLEAN /\ Balance

LEMMA CuposFinitos ==
  /\ IsFiniteSet(Cupos) /\ Cardinality(Cupos) \in Nat
  /\ \A q \in Pids : /\ IsFiniteSet(Cupos \ {q})
                     /\ q \in Cupos => Cardinality(Cupos \ {q}) = Cardinality(Cupos) - 1
                     /\ q \notin Cupos => Cardinality(Cupos \cup {q}) = Cardinality(Cupos) + 1
  <1>1. IsFiniteSet(Pids)
    BY CotasAssumption, FS_Interval DEF Pids
  <1>2. Cupos \subseteq Pids
    BY DEF Cupos
  <1>3. IsFiniteSet(Cupos)
    BY <1>1, <1>2, FS_Subset
  <1>4. Cardinality(Cupos) \in Nat
    BY <1>3, FS_CardinalityType
  <1>5. ASSUME NEW q \in Pids
        PROVE  /\ IsFiniteSet(Cupos \ {q})
               /\ q \in Cupos => Cardinality(Cupos \ {q}) = Cardinality(Cupos) - 1
    BY <1>3, FS_RemoveElement
  <1>6. ASSUME NEW q \in Pids, q \notin Cupos
        PROVE  Cardinality(Cupos \cup {q}) = Cardinality(Cupos) + 1
    BY <1>3, <1>6, FS_AddElement
  <1> QED
    BY <1>3, <1>4, <1>5, <1>6

\* Where a process is says its state, and where it is not.
LEMMA Situado ==
  ASSUME Tipos, Orden, NEW p \in Pids
  PROVE  /\ p \in ToSet(nuevos) => estado[p] = "NEW" /\ ~Sacado(p)
         /\ p \in ToSet(listos) => estado[p] = "READY"
         /\ p \in bloqueados => estado[p] = "BLOCKED"
         /\ elim.pid = p => estado[p] = "EXIT" /\ ~Sacado(p)
         /\ Sacado(p) => estado[p] = consola.caso /\ \A h \in Hilos : ~Posee(h, p)
         /\ \A h \in Hilos : Posee(h, p) => estado[p] = Debe[h]
  <1>0. /\ TiposColas /\ MasTipos /\ Unico /\ EnEstado
        /\ {"nuevos", "listos", "bloqueados", "eliminacion", "consola"} \subseteq Sitios \ Hilos
        /\ Hilos \subseteq Sitios
    BY DEF Tipos, Orden, Sitios, Hilos
  <1>1. ASSUME p \in ToSet(nuevos) PROVE estado[p] = "NEW" /\ ~Sacado(p)
    <2>1. Cuenta(p)["nuevos"] # 0
      BY <1>0, <1>1, Donde
    <2>2. estado[p] = Debe["nuevos"] /\ Cuenta(p)["consola"] = 0
      BY <1>0, <2>1, DeSitio
    <2> QED
      BY <2>2, ValorDebeHoy, NoEsta
  <1>2. ASSUME p \in ToSet(listos) PROVE estado[p] = "READY"
    <2>1. Cuenta(p)["listos"] # 0
      BY <1>0, <1>2, Donde
    <2>2. estado[p] = Debe["listos"]
      BY <1>0, <2>1, DeSitio
    <2> QED
      BY <2>2, ValorDebeHoy
  <1>3. ASSUME p \in bloqueados PROVE estado[p] = "BLOCKED"
    <2>1. Cuenta(p)["bloqueados"] # 0
      BY <1>0, <1>3, Donde
    <2>2. estado[p] = Debe["bloqueados"]
      BY <1>0, <2>1, DeSitio
    <2> QED
      BY <2>2, ValorDebeHoy
  <1>4. ASSUME elim.pid = p PROVE estado[p] = "EXIT" /\ ~Sacado(p)
    <2>1. Cuenta(p)["eliminacion"] # 0
      BY <1>0, <1>4, Donde
    <2>2. estado[p] = Debe["eliminacion"] /\ Cuenta(p)["consola"] = 0
      BY <1>0, <2>1, DeSitio
    <2> QED
      BY <2>2, ValorDebeHoy, NoEsta
  <1>5. ASSUME Sacado(p) PROVE estado[p] = consola.caso /\ \A h \in Hilos : ~Posee(h, p)
    <2>1. Cuenta(p)["consola"] # 0
      BY <1>0, <1>5, Donde
    <2>2. estado[p] = Debe["consola"] /\ \A h \in Hilos : Cuenta(p)[h] = 0
      BY <1>0, <2>1, DeSitio
    <2> QED
      BY <2>2, ValorDebeHoy, NoEsta
  <1>6. ASSUME NEW h \in Hilos, Posee(h, p) PROVE estado[p] = Debe[h]
    <2>1. Cuenta(p)[h] # 0
      BY <1>0, <1>6, Donde
    <2> QED
      BY <1>0, <2>1, DeSitio
  <1> QED
    BY <1>1, <1>2, <1>3, <1>4, <1>5, <1>6

\* A NEW process has a slot from when it leaves cola_procesos_new.
LEMMA NuevoConCupo ==
  ASSUME Tipos, Orden, NEW p \in Pids, hilo["creacion"].pid = p, estado[p] \in {"NADA", "NEW"}
  PROVE  hilo["creacion"].en = "poner" /\ estado[p] = "NEW" /\ ~Sacado(p)
  <1>0. /\ hilo \in [Hilos -> [en : LugaresHilo, pid : Pids \cup {NULO}]] /\ NULO \notin Pids
        /\ "creacion" \in Hilos /\ Avisados /\ FormaHilos
    BY Nulo DEF Tipos, TiposHilos, Orden, Formas, Hilos
  <1>1. hilo["creacion"].en \in {"poner", "trabado"}
    BY <1>0 DEF FormaHilos, Avisados, LugaresHilo
  <1>2. Posee("creacion", p)
    BY <1>1 DEF Posee
  <1>3. estado[p] = Debe["creacion"]
    BY <1>0, <1>2, Situado
  <1>4. Debe["creacion"] = DeHilo("creacion", "NEW")
    BY DEF Debe, Sitios, Hilos
  <1>5. ~Sacado(p)
    BY <1>0, <1>2, Situado
  <1> QED
    BY <1>1, <1>3, <1>4, <1>5 DEF DeHilo

\* A slot does not change hands when the process keeps its state, or gets
\* another one that has a slot, and the console has not given it back.
LEMMA MismosCupos ==
  ASSUME \A p \in Pids : /\ CupoDevuelto(p)' <=> CupoDevuelto(p)
                         /\ \/ estado'[p] = estado[p] /\ hilo'["creacion"].pid = hilo["creacion"].pid
                            \/ /\ estado[p] \in {"READY", "EXEC", "BLOCKED", "EXIT"}
                               /\ estado'[p] \in {"READY", "EXEC", "BLOCKED", "EXIT"}
                            \/ /\ estado[p] = "NEW" /\ hilo["creacion"].pid = p
                               /\ estado'[p] = "READY"
                            \/ /\ estado[p] \notin {"READY", "EXEC", "BLOCKED", "EXIT"}
                               /\ estado'[p] \notin {"READY", "EXEC", "BLOCKED", "EXIT"}
                               /\ estado[p] = "NEW" => hilo["creacion"].pid # p
                               /\ estado'[p] = "NEW" => hilo'["creacion"].pid # p
  PROVE  Cupos' = Cupos
  <1>1. ASSUME NEW p \in Pids PROVE ConCupo(p)' <=> ConCupo(p)
    BY DEF ConCupo
  <1> QED
    BY <1>1 DEF Cupos

LEMMA CuposHilos ==
  ASSUME Tipos, Orden,
         \/ TomarNuevo \/ TomarCupo \/ Corto \/ TomarSalida \/ ElimQuitar \/ ElimVerCupo
         \/ \E h \in Hilos : Hilo(h)
         \/ \E p \in Pids : Programa(p)
  PROVE  Cupos' = Cupos
  <1> USE DEF procesos, semaforos
  <1>0. /\ hilo \in [Hilos -> [en : LugaresHilo, pid : Pids \cup {NULO}]] /\ NULO \notin Pids
        /\ "creacion" \in Hilos /\ Avisados /\ estado \in [Pids -> Estados]
        /\ \A h \in Hilos : hilo[h].en \in {"poner", "avisar", "trabado"} => hilo[h].pid \in Pids
        /\ listos \in Seq(Pids) /\ EnOrden /\ MAX_PIDS \in Nat
    BY CotasAssumption, Nulo DEF Tipos, TiposHilos, TiposColas, Manos, Orden, Hilos
  <1>1. ASSUME consola' = consola
        PROVE  \A p \in Pids : CupoDevuelto(p)' <=> CupoDevuelto(p)
    BY <1>1 DEF CupoDevuelto
  <1>2. CASE \/ TomarNuevo \/ TomarCupo \/ TomarListo \/ TomarCpu \/ TomarSalida \/ ElimQuitar
             \/ ElimVerCupo
    <2>1. consola' = consola /\ estado' = estado
      BY <1>2 DEF TomarNuevo, TomarCupo, TomarListo, TomarCpu, TomarSalida, ElimQuitar, ElimVerCupo,
                  ElimSola
    <2>2. hilo'["creacion"].pid = hilo["creacion"].pid
      BY <1>0, <1>2 DEF TomarNuevo, TomarCupo, Avanzar, TomarListo, TomarCpu, TomarSalida,
                        ElimQuitar, ElimVerCupo, ElimSola
    <2> QED
      BY <1>1, <2>1, <2>2, MismosCupos
  <1>3. CASE Despachar
    <2>1. Head(listos) \in Pids /\ Head(listos) \in ToSet(listos)
      BY <1>0, <1>3, PrimeroEsta DEF Despachar
    <2>2. PICK q \in Pids : q = Head(listos) /\ estado[q] = "READY"
      BY <2>1, Situado
    <2>3. consola' = consola /\ hilo' = hilo /\ estado' = [estado EXCEPT ![q] = "EXEC"]
      BY <1>3, <2>2 DEF Despachar
    <2>4. estado'[q] = "EXEC" /\ \A p \in Pids \ {q} : estado'[p] = estado[p]
      BY <1>0, <2>3
    <2> QED
      BY <1>1, <2>2, <2>3, <2>4, MismosCupos
  <1>4. ASSUME NEW h \in Hilos, PonerListo(h) PROVE Cupos' = Cupos
    <2>1. PICK q \in Pids : q = hilo[h].pid
      BY <1>0, <1>4 DEF PonerListo
    <2>2. Posee(h, q) /\ hilo[h].en = "poner"
      BY <1>4, <2>1 DEF PonerListo, Posee
    <2>3. estado[q] = Debe[h]
      BY <2>2, Situado
    <2>4. estado[q] = IF h = "creacion" THEN "NEW" ELSE IF h = "despacho" THEN "EXEC" ELSE "BLOCKED"
      BY <2>2, <2>3 DEF Debe, DeHilo, Hilos, Sitios
    <2>5. PICK e \in {"avisar", "trabado"} : hilo' = [hilo EXCEPT ![h].en = e]
      BY <1>4 DEF PonerListo, Avanzar
    <2>6. consola' = consola /\ estado' = [estado EXCEPT ![q] = "READY"]
      BY <1>4, <2>1 DEF PonerListo
    <2>7. estado'[q] = "READY" /\ \A p \in Pids \ {q} : estado'[p] = estado[p]
      BY <1>0, <2>6
    <2>8. hilo'["creacion"].pid = hilo["creacion"].pid
      BY <1>0, <2>5
    <2> QED
      BY <1>1, <2>1, <2>4, <2>6, <2>7, <2>8, MismosCupos
  <1>5. ASSUME NEW h \in Hilos, AvisarListo(h) PROVE Cupos' = Cupos
    <2>1. consola' = consola /\ estado' = estado /\ hilo' = [hilo EXCEPT ![h] = Quieto]
      BY <1>5 DEF AvisarListo
    <2>2. CASE h # "creacion"
      BY <1>0, <1>1, <2>1, <2>2, MismosCupos
    <2>3. CASE h = "creacion"
      <3>1. PICK q \in Pids : q = hilo["creacion"].pid
        BY <1>0, <1>5, <2>3 DEF AvisarListo
      <3>2. estado[q] \notin {"NADA", "NEW"}
        BY <1>0, <1>5, <2>3, <3>1 DEF AvisarListo, Avisados
      <3>3. hilo'["creacion"].pid = NULO
        BY <1>0, <2>1, <2>3 DEF Quieto
      <3>4. ASSUME NEW p \in Pids, p # q
            PROVE  hilo["creacion"].pid # p /\ hilo'["creacion"].pid # p
        BY <1>0, <3>1, <3>3, <3>4
      <3> QED
        BY <1>0, <1>1, <2>1, <3>2, <3>4, MismosCupos DEF Estados
    <2> QED
      BY <2>2, <2>3
  <1>6. ASSUME NEW q \in Pids, Iniciar(q) PROVE Cupos' = Cupos
    <2>1. /\ consola' = consola /\ hilo' = hilo /\ q = contador_pid
          /\ estado' = [estado EXCEPT ![q] = "NEW"]
      BY <1>6 DEF Iniciar
    <2>2. estado[q] = "NADA" /\ estado'[q] = "NEW" /\ \A p \in Pids \ {q} : estado'[p] = estado[p]
      BY <1>0, <2>1, PidNuevo
    <2>3. hilo["creacion"].pid # q
      BY <2>2, NuevoConCupo
    <2> QED
      BY <1>1, <2>1, <2>2, <2>3, MismosCupos
  <1>7. ASSUME NEW q \in Pids, Desalojar(q) PROVE Cupos' = Cupos
    <2>1. /\ consola' = consola /\ estado' = estado
          /\ hilo' = [hilo EXCEPT !["despacho"] = [en |-> "poner", pid |-> q]]
      BY <1>7 DEF Desalojar, DejaLaCpu
    <2>2. hilo'["creacion"] = hilo["creacion"]
      BY <1>0, <2>1
    <2> QED
      BY <1>1, <2>1, <2>2, MismosCupos
  <1>8. ASSUME NEW q \in Pids, NEW e \in {"BLOCKED", "EXIT"}, DejaLaCpu(q), hilo' = hilo,
               estado' = [estado EXCEPT ![q] = e]
        PROVE  Cupos' = Cupos
    <2>1. consola' = consola /\ estado[q] = "EXEC"
      BY <1>8 DEF DejaLaCpu, EnCpu
    <2>2. estado'[q] = e /\ \A p \in Pids \ {q} : estado'[p] = estado[p]
      BY <1>0, <1>8
    <2> QED
      BY <1>1, <1>8, <2>1, <2>2, MismosCupos
  <1>9. ASSUME NEW q \in Pids, Bloquear(q) \/ Terminar(q) PROVE Cupos' = Cupos
    BY <1>8, <1>9 DEF Bloquear, Terminar
  <1>10. ASSUME NEW q \in Pids, Desbloquear(q) PROVE Cupos' = Cupos
    <2>1. /\ consola' = consola /\ estado' = estado
          /\ hilo' = [hilo EXCEPT !["interfaz"] = [en |-> "poner", pid |-> q]]
      BY <1>10 DEF Desbloquear
    <2>2. hilo'["creacion"] = hilo["creacion"]
      BY <1>0, <2>1
    <2> QED
      BY <1>1, <2>1, <2>2, MismosCupos
  <1> QED
    BY <1>2, <1>3, <1>4, <1>5, <1>6, <1>7, <1>9, <1>10 DEF Corto, Hilo, Programa

\* FINALIZAR_PROCESO up to where it gives the slot back, and MULTIPROGRAMACION.
LEMMA CuposConsola ==
  ASSUME Tipos, Orden, Sano',
         \/ LeerEstado \/ BuscarNuevo \/ BuscarListo \/ BuscarBloqueado \/ EsperarNuevo
         \/ EsperarListo \/ EsperarMuerte \/ Quitar \/ VerCupoConsola \/ Grado
         \/ \E p \in Pids : Finalizar(p)
  PROVE  Cupos' = Cupos
  <1> USE DEF procesos, semaforos
  <1>0. /\ TiposConsola /\ FormaConsola /\ NULO \notin Pids
        /\ consola \in [en : LugaresConsola, pid : Pids \cup {NULO}, indice : Nat, caso : Estados,
                        esperas : Nat, resto : Nat]
        /\ estado \in [Pids -> Estados]
    BY Nulo DEF Tipos, TiposConsola, TiposColas, Orden, Formas
  <1>1. ASSUME estado' = estado, hilo' = hilo,
               \A p \in Pids : CupoDevuelto(p)' <=> CupoDevuelto(p)
        PROVE  Cupos' = Cupos
    BY <1>1, MismosCupos
  <1>2. CASE Grado
    <2>1. consola.en # "quitar" /\ consola'.en # "quitar"
      BY <1>0, <1>2, LugarGrado
    <2>2. estado' = estado /\ hilo' = hilo
      BY <1>2 DEF Grado, EsperarCupo, AnotarResto, SubirGrado, BajarGrado, SoloGrado
    <2> QED
      BY <1>1, <2>1, <2>2 DEF CupoDevuelto
  <1>3. CASE \/ LeerEstado \/ EsperarListo \/ VerCupoConsola \/ \E p \in Pids : Finalizar(p)
    <2>1. consola.en # "quitar" /\ consola'.en # "quitar"
      BY <1>0, <1>3 DEF LeerEstado, EsperarListo, VerCupoConsola, VerCupo, Finalizar, ConsolaLibre
    <2>2. estado' = estado /\ hilo' = hilo
      BY <1>3 DEF LeerEstado, EsperarListo, VerCupoConsola, Finalizar, ConsolaSola
    <2> QED
      BY <1>1, <2>1, <2>2 DEF CupoDevuelto
  <1>4. CASE BuscarNuevo \/ BuscarListo \/ BuscarBloqueado
    <2>1. consola.en # "quitar" /\ consola'.en # "quitar"
      BY <1>0, <1>4 DEF BuscarNuevo, BuscarListo, BuscarBloqueado
    <2>2. estado' = estado /\ hilo' = hilo
      BY <1>4 DEF BuscarNuevo, BuscarListo, BuscarBloqueado, ConsolaSola
    <2> QED
      BY <1>1, <2>1, <2>2 DEF CupoDevuelto
  <1>5. CASE EsperarNuevo \/ EsperarMuerte
    <2>1. /\ consola.en # "quitar" /\ consola'.caso = consola.caso
          /\ consola.caso \notin {"READY", "BLOCKED"}
      BY <1>0, <1>5 DEF EsperarNuevo, EsperarMuerte, FormaConsola
    <2>2. estado' = estado /\ hilo' = hilo
      BY <1>5 DEF EsperarNuevo, EsperarMuerte, ConsolaSola
    <2> QED
      BY <1>1, <2>1, <2>2 DEF CupoDevuelto
  <1>6. CASE Quitar /\ consola.caso = "EXEC"
    <2>1. consola.caso = "EXEC" /\ consola'.en = "ver"
      BY <1>0, <1>6 DEF Quitar
    <2>2. estado' = estado /\ hilo' = hilo
      BY <1>6 DEF Quitar, ConsolaSola
    <2> QED
      BY <1>1, <2>1, <2>2 DEF CupoDevuelto
  <1>7. CASE Quitar /\ consola.caso # "EXEC"
    <2>1. PICK q \in Pids : q = consola.pid
      BY <1>7 DEF Quitar, Tipos, Manos
    <2>2. /\ consola.en = "quitar" /\ consola' = ConsolaLibre /\ hilo' = hilo
          /\ estado' = [estado EXCEPT ![q] = "FIN"]
      BY <1>7, <2>1 DEF Quitar, ConsolaSola
    <2>3. estado'[q] = "FIN" /\ \A p \in Pids \ {q} : estado'[p] = estado[p]
      BY <1>0, <2>2
    <2>4. Sacado(q) /\ consola.caso \in {"NEW", "READY", "BLOCKED"}
      BY <1>0, <1>7, <2>1, <2>2 DEF Sacado, FormaConsola
    <2>5. ~ConCupo(q)
      <3>1. estado[q] = consola.caso
        BY <2>4, Situado
      <3>2. estado[q] = "NEW" => hilo["creacion"].pid # q
        BY <2>4, NuevoConCupo
      <3> QED
        BY <2>1, <2>2, <2>4, <3>1, <3>2 DEF ConCupo, CupoDevuelto
    <2>6. ~ConCupo(q)'
      BY <2>3 DEF ConCupo
    <2>7. ASSUME NEW p \in Pids \ {q} PROVE ConCupo(p)' <=> ConCupo(p)
      BY <1>0, <2>1, <2>2, <2>3, <2>7 DEF ConCupo, CupoDevuelto, ConsolaLibre
    <2>8. \A p \in Pids : ConCupo(p)' <=> ConCupo(p)
      BY <2>5, <2>6, <2>7
    <2> QED
      BY <2>8 DEF Cupos
  <1> QED
    BY <1>2, <1>3, <1>4, <1>5, <1>6, <1>7

LEMMA CuposSacarNuevo ==
  ASSUME Tipos, Orden, SacarNuevo
  PROVE  Cardinality(Cupos') = Cardinality(Cupos) + 1
  <1>0. /\ hilo \in [Hilos -> [en : LugaresHilo, pid : Pids \cup {NULO}]] /\ NULO \notin Pids
        /\ "creacion" \in Hilos /\ FormaHilos /\ nuevos \in Seq(Pids)
    BY Nulo DEF Tipos, TiposHilos, TiposColas, Orden, Formas, Hilos
  <1>1. Head(nuevos) \in Pids /\ Head(nuevos) \in ToSet(nuevos)
    BY <1>0, PrimeroEsta DEF SacarNuevo
  <1>2. PICK q \in Pids : q = Head(nuevos) /\ estado[q] = "NEW" /\ ~Sacado(q)
    BY <1>1, Situado
  <1>3. estado' = estado /\ consola' = consola
    BY DEF SacarNuevo
  <1>4. hilo["creacion"].pid = NULO /\ hilo'["creacion"].pid = q
    BY <1>0, <1>2 DEF SacarNuevo, FormaHilos
  <1>5. ~CupoDevuelto(q)
    BY <1>2 DEF CupoDevuelto, Sacado
  <1>6. ~ConCupo(q) /\ ConCupo(q)'
    BY <1>0, <1>2, <1>3, <1>4, <1>5 DEF ConCupo, CupoDevuelto
  <1>7. ASSUME NEW p \in Pids \ {q} PROVE ConCupo(p)' <=> ConCupo(p)
    BY <1>0, <1>3, <1>4, <1>7 DEF ConCupo, CupoDevuelto
  <1>8. q \notin Cupos /\ Cupos' = Cupos \cup {q}
    BY <1>6, <1>7 DEF Cupos
  <1> QED
    BY <1>8, CuposFinitos

LEMMA CuposElimDarCupo ==
  ASSUME Tipos, Orden, ElimDarCupo
  PROVE  Cardinality(Cupos') = Cardinality(Cupos) - 1
  <1>0. FormaElim /\ estado \in [Pids -> Estados]
    BY DEF Tipos, TiposColas, Orden, Formas
  <1>1. PICK q \in Pids : q = elim.pid
    BY <1>0 DEF ElimDarCupo, DarCupo, FormaElim
  <1>2. /\ consola' = consola /\ hilo' = hilo
        /\ estado' = [estado EXCEPT ![q] = "FIN"]
    BY <1>1 DEF ElimDarCupo, ElimSola
  <1>3. estado'[q] = "FIN" /\ \A p \in Pids \ {q} : estado'[p] = estado[p]
    BY <1>0, <1>2
  <1>4. estado[q] = "EXIT" /\ ~Sacado(q)
    BY <1>1, Situado
  <1>5. ConCupo(q) /\ ~ConCupo(q)'
    BY <1>3, <1>4 DEF ConCupo, CupoDevuelto, Sacado
  <1>6. ASSUME NEW p \in Pids \ {q} PROVE ConCupo(p)' <=> ConCupo(p)
    BY <1>2, <1>3, <1>6 DEF ConCupo, CupoDevuelto
  <1>7. q \in Cupos /\ Cupos' = Cupos \ {q}
    BY <1>5, <1>6 DEF Cupos
  <1> QED
    BY <1>7, CuposFinitos

LEMMA CuposDarCupoConsola ==
  ASSUME Tipos, Orden, DarCupoConsola
  PROVE  Cardinality(Cupos') = Cardinality(Cupos) - 1
  <1>0. /\ FormaConsola /\ NULO \notin Pids /\ estado \in [Pids -> Estados]
        /\ consola \in [en : LugaresConsola, pid : Pids \cup {NULO}, indice : Nat, caso : Estados,
                        esperas : Nat, resto : Nat]
    BY Nulo DEF Tipos, TiposConsola, TiposColas, Orden, Formas
  <1>1. consola.en \in {"sumar", "restar"} /\ hilo' = hilo
    BY DEF DarCupoConsola, DarCupo, ConsolaSola
  <1>2. PICK q \in Pids : q = consola.pid
    BY <1>1 DEF Tipos, Manos
  <1>3. Sacado(q) /\ consola.caso \in {"READY", "BLOCKED", "EXEC"}
    BY <1>0, <1>1, <1>2 DEF Sacado, FormaConsola
  <1>4. estado[q] = consola.caso
    BY <1>3, Situado
  <1>5. ConCupo(q)
    BY <1>1, <1>3, <1>4 DEF ConCupo, CupoDevuelto
  <1>6. CASE consola.caso = "EXEC"
    <2>1. estado' = [estado EXCEPT ![q] = "FIN"] /\ consola'.pid = NULO
      BY <1>2, <1>6 DEF DarCupoConsola, ConsolaLibre
    <2>2. estado'[q] = "FIN" /\ \A p \in Pids \ {q} : estado'[p] = estado[p]
      BY <1>0, <2>1
    <2>3. ~ConCupo(q)'
      BY <2>2 DEF ConCupo
    <2>4. ASSUME NEW p \in Pids \ {q} PROVE ConCupo(p)' <=> ConCupo(p)
      BY <1>0, <1>1, <1>2, <2>1, <2>2, <2>4 DEF ConCupo, CupoDevuelto
    <2>5. q \in Cupos /\ Cupos' = Cupos \ {q}
      BY <1>5, <2>3, <2>4 DEF Cupos
    <2> QED
      BY <2>5, CuposFinitos
  <1>7. CASE consola.caso # "EXEC"
    <2>1. estado' = estado /\ consola' = [consola EXCEPT !.en = "quitar"]
      BY <1>7 DEF DarCupoConsola
    <2>2. consola'.en = "quitar" /\ consola'.pid = q /\ consola'.caso \in {"READY", "BLOCKED"}
      BY <1>0, <1>2, <1>3, <1>7, <2>1
    <2>3. ~ConCupo(q)'
      BY <2>2 DEF ConCupo, CupoDevuelto
    <2>4. ASSUME NEW p \in Pids \ {q} PROVE ConCupo(p)' <=> ConCupo(p)
      BY <1>1, <1>2, <2>1, <2>2, <2>4 DEF ConCupo, CupoDevuelto
    <2>5. q \in Cupos /\ Cupos' = Cupos \ {q}
      BY <1>5, <2>3, <2>4 DEF Cupos
    <2> QED
      BY <2>5, CuposFinitos
  <1> QED
    BY <1>6, <1>7

\* The waits that a MULTIPROGRAMACION under way has done do not change while
\* the other commands and the other threads go on.
LEMMA EsperasIguales ==
  ASSUME Tipos, Orden, [Next]_vars, ~Grado
  PROVE  /\ EsperasHechas' = EsperasHechas
         /\ UNCHANGED <<grado_multiprogramacion, pisado>>
  <1> USE DEF procesos, semaforos, grado, cuenta
  <1>0. /\ consola \in [en : LugaresConsola, pid : Pids \cup {NULO}, indice : Nat, caso : Estados,
                        esperas : Nat, resto : Nat]
    BY DEF Tipos, TiposConsola
  <1>1. ASSUME consola' = consola, UNCHANGED <<grado_multiprogramacion, pisado>>
        PROVE  /\ EsperasHechas' = EsperasHechas
               /\ UNCHANGED <<grado_multiprogramacion, pisado>>
    BY <1>1 DEF EsperasHechas
  <1>2. CASE Creacion \/ Corto \/ Eliminacion \/ UNCHANGED vars
    <2>1. consola' = consola /\ UNCHANGED <<grado_multiprogramacion, pisado>>
      BY <1>2 DEF Creacion, TomarNuevo, TomarCupo, SacarNuevo, Corto, TomarListo, TomarCpu,
                  Despachar, Eliminacion, TomarSalida, ElimQuitar, ElimVerCupo, ElimDarCupo,
                  DarCupo, ElimSola, vars
    <2> QED
      BY <1>1, <2>1
  <1>3. ASSUME NEW h \in Hilos, Hilo(h)
        PROVE  consola' = consola /\ UNCHANGED <<grado_multiprogramacion, pisado>>
    BY <1>3 DEF Hilo, PonerListo, AvisarListo
  <1>4. ASSUME NEW p \in Pids, Programa(p)
        PROVE  consola' = consola /\ UNCHANGED <<grado_multiprogramacion, pisado>>
    BY <1>4 DEF Programa, Iniciar, Desalojar, Bloquear, Terminar, DejaLaCpu, Desbloquear
  <1>5. CASE Consola \/ \E p \in Pids : Finalizar(p)
    <2>1. consola.en # "bajar" /\ consola'.en # "bajar"
      <3>1. ASSUME LeerEstado \/ BuscarNuevo \/ BuscarListo \/ BuscarBloqueado
            PROVE  consola.en # "bajar" /\ consola'.en # "bajar"
        BY <1>0, <3>1 DEF LeerEstado, BuscarNuevo, BuscarListo, BuscarBloqueado
      <3>2. ASSUME EsperarNuevo \/ EsperarListo \/ EsperarMuerte
            PROVE  consola.en # "bajar" /\ consola'.en # "bajar"
        BY <1>0, <3>2 DEF EsperarNuevo, EsperarListo, EsperarMuerte
      <3>3. ASSUME Quitar \/ VerCupoConsola \/ DarCupoConsola
            PROVE  consola.en # "bajar" /\ consola'.en # "bajar"
        BY <1>0, <3>3 DEF Quitar, VerCupoConsola, VerCupo, DarCupoConsola, DarCupo, ConsolaLibre
      <3>4. ASSUME NEW p \in Pids, Finalizar(p)
            PROVE  consola.en # "bajar" /\ consola'.en # "bajar"
        BY <3>4 DEF Finalizar, ConsolaLibre
      <3> QED
        BY <1>5, <3>1, <3>2, <3>3, <3>4 DEF Consola
    <2>2. UNCHANGED <<grado_multiprogramacion, pisado>>
      BY <1>5 DEF Consola, LeerEstado, BuscarNuevo, BuscarListo, BuscarBloqueado,
                  EsperarNuevo, EsperarListo, EsperarMuerte, Quitar, VerCupoConsola,
                  DarCupoConsola, DarCupo, Finalizar
    <2> QED
      BY <2>1, <2>2 DEF EsperasHechas
  <1> QED
    BY <1>1, <1>2, <1>3, <1>4, <1>5 DEF Next

\* Only TomarCupo and SacarNuevo start and end what TomaCupo counts, and only
\* MULTIPROGRAMACION, TomarCupo and DarCupo write the semaphore and the debt.
LEMMA TomaIgual ==
  ASSUME Tipos, [Next]_vars, ~TomarCupo, ~SacarNuevo
  PROVE  TomaCupo' = TomaCupo
  <1> USE DEF procesos, semaforos
  <1>0. /\ hilo \in [Hilos -> [en : LugaresHilo, pid : Pids \cup {NULO}]]
        /\ "creacion" \in Hilos
    BY DEF Tipos, TiposHilos, Hilos
  <1>1. ASSUME hilo'["creacion"] = hilo["creacion"] PROVE TomaCupo' = TomaCupo
    BY <1>1 DEF TomaCupo
  <1>2. CASE TomarNuevo
    <2>1. hilo' = [hilo EXCEPT !["creacion"].en = "cupo"] /\ hilo["creacion"].en = "esperar"
      BY <1>2 DEF TomarNuevo, Avanzar
    <2>2. hilo'["creacion"].en = "cupo"
      BY <1>0, <2>1
    <2> QED
      BY <2>1, <2>2 DEF TomaCupo
  <1>3. ASSUME NEW h \in Hilos, Hilo(h) PROVE TomaCupo' = TomaCupo
    <2>1. /\ hilo[h].en \in {"poner", "avisar"} /\ hilo'[h].en \in {"avisar", "trabado", "esperar"}
          /\ h # "creacion" => hilo'["creacion"] = hilo["creacion"]
      <3>1. CASE PonerListo(h)
        <4>1. PICK e \in {"avisar", "trabado"} : hilo' = [hilo EXCEPT ![h].en = e]
          BY <3>1 DEF PonerListo, Avanzar
        <4> QED
          BY <1>0, <3>1, <4>1 DEF PonerListo
      <3>2. CASE AvisarListo(h)
        BY <1>0, <3>2 DEF AvisarListo, Quieto
      <3> QED
        BY <1>3, <3>1, <3>2 DEF Hilo
    <2>2. CASE h # "creacion"
      BY <1>1, <2>1, <2>2
    <2>3. CASE h = "creacion"
      BY <2>1, <2>3 DEF TomaCupo
    <2> QED
      BY <2>2, <2>3
  <1>4. ASSUME NEW p \in Pids, Programa(p) \/ Finalizar(p) PROVE TomaCupo' = TomaCupo
    <2>1. hilo'["creacion"] = hilo["creacion"]
      BY <1>0, <1>4 DEF Programa, Iniciar, Desalojar, Bloquear, Terminar, DejaLaCpu, Desbloquear,
                        Finalizar, ConsolaSola
    <2> QED
      BY <1>1, <2>1
  <1>5. CASE Corto \/ Eliminacion \/ Consola \/ Grado \/ UNCHANGED vars
    <2>1. hilo' = hilo
      BY <1>5 DEF Corto, TomarListo, TomarCpu, Despachar, Eliminacion, TomarSalida, ElimQuitar,
             ElimVerCupo, ElimDarCupo, ElimSola, Consola, LeerEstado, BuscarNuevo,
             BuscarListo, BuscarBloqueado, EsperarNuevo, EsperarListo, EsperarMuerte, Quitar,
             VerCupoConsola, DarCupoConsola, ConsolaSola, Grado, EsperarCupo, AnotarResto,
             SubirGrado, BajarGrado, SoloGrado, vars
    <2> QED
      BY <1>1, <2>1
  <1> QED
    BY <1>2, <1>3, <1>4, <1>5 DEF Next, Creacion

LEMMA CuposLibresIguales ==
  ASSUME [Next]_vars, ~TomarCupo, ~ElimDarCupo, ~DarCupoConsola, ~Grado
  PROVE  UNCHANGED <<grado_multi, flag_grado_multi>>
  <1> USE DEF grado
  <1>1. Creacion \/ Corto \/ UNCHANGED vars => UNCHANGED <<grado_multi, flag_grado_multi>>
    BY DEF Creacion, TomarNuevo, SacarNuevo, Corto, TomarListo, TomarCpu, Despachar, vars
  <1>2. Eliminacion \/ Consola => UNCHANGED <<grado_multi, flag_grado_multi>>
    BY DEF Eliminacion, TomarSalida, ElimQuitar, ElimVerCupo, Consola, LeerEstado, BuscarNuevo,
           BuscarListo, BuscarBloqueado, EsperarNuevo, EsperarListo, EsperarMuerte, Quitar,
           VerCupoConsola
  <1>3. \A h \in Hilos : Hilo(h) => UNCHANGED <<grado_multi, flag_grado_multi>>
    BY DEF Hilo, PonerListo, AvisarListo
  <1>4. \A p \in Pids : Programa(p) \/ Finalizar(p) => UNCHANGED <<grado_multi, flag_grado_multi>>
    BY DEF Programa, Iniciar, Desalojar, Bloquear, Terminar, DejaLaCpu, Desbloquear, Finalizar
  <1> QED
    BY <1>1, <1>2, <1>3, <1>4 DEF Next

LEMMA GradoPaso ==
  ASSUME Tipos, Orden, GradoBien, Grado, Sano'
  PROVE  GradoBien'
  <1> DEFINE C == Cardinality(Cupos)
             hechas == EsperasHechas
  <1>0. /\ consola \in [en : LugaresConsola, pid : Pids \cup {NULO}, indice : Nat, caso : Estados,
                        esperas : Nat, resto : Nat]
        /\ grado_multi \in Nat /\ grado_multiprogramacion \in Nat /\ C \in Nat
        /\ flag_grado_multi \in Nat /\ pisado \in BOOLEAN /\ TomaCupo \in {0, 1}
    BY CuposFinitos DEF Tipos, TiposConsola, TiposSem, GradoBien, TomaCupo
  <1>1. Cardinality(Cupos') = C
    BY CuposConsola
  <1>2. TomaCupo' = TomaCupo
    BY DEF Grado, EsperarCupo, AnotarResto, SubirGrado, BajarGrado, SoloGrado, TomaCupo
  <1>3. ~pisado => grado_multi + C + TomaCupo + hechas = grado_multiprogramacion + flag_grado_multi
    BY DEF GradoBien, Balance
  <1> HIDE DEF C
  <1> SUFFICES /\ flag_grado_multi' \in Nat /\ pisado' \in BOOLEAN
               /\ ~pisado' => grado_multi' + C + TomaCupo + EsperasHechas'
                              = grado_multiprogramacion' + flag_grado_multi'
    BY <1>1, <1>2 DEF GradoBien, Balance
  <1>4. CASE EsperarCupo
    <2>1. /\ consola.en = "bajar" /\ consola'.en = "bajar"
          /\ consola'.esperas = consola.esperas - 1 /\ consola'.resto = consola.resto
          /\ consola'.indice = consola.indice
          /\ grado_multi' = grado_multi - 1 /\ UNCHANGED <<grado_multiprogramacion, flag_grado_multi, pisado>>
      BY <1>0, <1>4 DEF EsperarCupo
    <2>2. hechas = grado_multiprogramacion - consola.indice - consola.resto - consola.esperas
      BY <2>1 DEF EsperasHechas
    <2>3. EsperasHechas' = grado_multiprogramacion - consola.indice - consola.resto - (consola.esperas - 1)
      BY <2>1 DEF EsperasHechas
    <2> HIDE DEF hechas
    <2>4. consola.indice \in Nat /\ consola.resto \in Nat /\ consola.esperas \in Nat
      BY <1>0
    <2>5. EsperasHechas' = hechas + 1 /\ hechas \in Int
      BY <1>0, <2>2, <2>3, <2>4
    <2> QED
      BY <1>0, <1>3, <2>1, <2>5
  <1>5. CASE AnotarResto
    <2>1. /\ consola.en = "bajar" /\ consola.esperas = 0 /\ consola'.en = "libre"
          /\ flag_grado_multi' = IF consola.resto > 0 THEN consola.resto ELSE flag_grado_multi
          /\ pisado' = (pisado \/ (consola.resto > 0 /\ flag_grado_multi > 0))
          /\ grado_multiprogramacion' = consola.indice /\ grado_multi' = grado_multi
      BY <1>5 DEF AnotarResto, ConsolaLibre
    <2>2. hechas = grado_multiprogramacion - consola.indice - consola.resto - 0
      BY <2>1 DEF EsperasHechas
    <2>3. EsperasHechas' = 0
      BY <2>1 DEF EsperasHechas
    <2> HIDE DEF hechas
    <2>4. consola.indice \in Nat /\ consola.resto \in Nat
      BY <1>0
    <2>5. flag_grado_multi' \in Nat /\ pisado' \in BOOLEAN
      BY <1>0, <2>1, <2>4
    <2>6. ASSUME ~pisado' PROVE ~pisado /\ (consola.resto = 0 \/ flag_grado_multi = 0)
      <3>1. ~pisado /\ ~(consola.resto > 0 /\ flag_grado_multi > 0)
        BY <2>1, <2>6, Zenon
      <3> QED
        BY <1>0, <2>4, <3>1
    <2>7. ASSUME ~pisado'
          PROVE  flag_grado_multi' = consola.resto + flag_grado_multi
      BY <1>0, <2>1, <2>4, <2>6, <2>7
    <2> QED
      BY <1>0, <1>3, <2>1, <2>2, <2>3, <2>4, <2>5, <2>6, <2>7
  <1>6. ASSUME NEW n \in Grados, SubirGrado(n)
        PROVE  /\ flag_grado_multi' \in Nat /\ pisado' \in BOOLEAN
               /\ ~pisado' => grado_multi' + C + TomaCupo + EsperasHechas'
                              = grado_multiprogramacion' + flag_grado_multi'
    <2>1. /\ consola.en = "libre" /\ consola' = consola
          /\ grado_multi' = grado_multi + n - grado_multiprogramacion
          /\ grado_multiprogramacion' = n /\ UNCHANGED <<flag_grado_multi, pisado>>
      BY <1>6 DEF SubirGrado
    <2>2. hechas = 0 /\ EsperasHechas' = 0
      BY <2>1 DEF EsperasHechas
    <2>3. n \in Nat
      BY GradoAssumption
    <2> HIDE DEF hechas
    <2> QED
      BY <1>0, <1>3, <2>1, <2>2, <2>3
  <1>7. ASSUME NEW n \in Grados, BajarGrado(n)
        PROVE  /\ flag_grado_multi' \in Nat /\ pisado' \in BOOLEAN
               /\ ~pisado' => grado_multi' + C + TomaCupo + EsperasHechas'
                              = grado_multiprogramacion' + flag_grado_multi'
    <2> DEFINE baja == grado_multiprogramacion - n
               m == Menor(grado_multi, baja)
    <2>1. /\ consola.en = "libre" /\ consola'.en = "bajar" /\ consola'.esperas = m
          /\ consola'.resto = baja - m /\ consola'.indice = n
          /\ UNCHANGED <<grado_multi, grado_multiprogramacion, flag_grado_multi, pisado>>
      BY <1>7 DEF BajarGrado, ConsolaLibre, grado
    <2>2. hechas = 0 /\ EsperasHechas' = grado_multiprogramacion - n - (baja - m) - m
      BY <2>1 DEF EsperasHechas
    <2>3. n \in Nat /\ m \in Int
      BY <1>0, GradoAssumption DEF Menor
    <2> HIDE DEF hechas, m
    <2>4. EsperasHechas' = 0
      BY <1>0, <2>2, <2>3
    <2> QED
      BY <1>0, <1>3, <2>1, <2>2, <2>4
  <1> QED
    BY <1>4, <1>5, <1>6, <1>7 DEF Grado

LEMMA GradoBienPaso ==
  ASSUME Tipos, Orden, GradoBien, [Next]_vars, Sano'
  PROVE  GradoBien'
  <1> DEFINE C == Cardinality(Cupos)
             hechas == EsperasHechas
  <1>0. /\ grado_multi \in Nat /\ grado_multiprogramacion \in Nat /\ C \in Nat
        /\ flag_grado_multi \in Nat /\ pisado \in BOOLEAN /\ TomaCupo \in {0, 1}
    BY CuposFinitos DEF Tipos, TiposSem, GradoBien, TomaCupo
  <1>1. hechas \in Int
    BY <1>0 DEF EsperasHechas, Tipos, TiposConsola
  <1>2. CASE Grado
    BY <1>2, GradoPaso
  <1>3. ASSUME ~Grado
        PROVE  EsperasHechas' = hechas /\ UNCHANGED <<grado_multiprogramacion, pisado>>
    BY <1>3, EsperasIguales
  <1>4. ~pisado => grado_multi + C + TomaCupo + hechas = grado_multiprogramacion + flag_grado_multi
    BY DEF GradoBien, Balance
  <1>5. ASSUME ~Grado, flag_grado_multi' \in Nat,
               grado_multi' + Cardinality(Cupos') + TomaCupo' - flag_grado_multi'
               = grado_multi + C + TomaCupo - flag_grado_multi,
               Cardinality(Cupos') \in Int, grado_multi' \in Int, TomaCupo' \in Int
        PROVE  GradoBien'
    <2>1. EsperasHechas' = hechas /\ UNCHANGED <<grado_multiprogramacion, pisado>>
      BY <1>3, <1>5
    <2> HIDE DEF C, hechas
    <2>2. ~pisado' => grado_multi' + Cardinality(Cupos') + TomaCupo' + EsperasHechas'
                      = grado_multiprogramacion' + flag_grado_multi'
      BY <1>0, <1>1, <1>4, <1>5, <2>1
    <2> QED
      BY <1>0, <1>5, <2>1, <2>2 DEF GradoBien, Balance
  <1>7. CASE TomarCupo /\ ~Grado
    <2>1. Cupos' = Cupos
      BY <1>7, CuposHilos
    <2>2. /\ grado_multi' = grado_multi - 1 /\ flag_grado_multi' = flag_grado_multi
          /\ hilo["creacion"].en = "cupo" /\ hilo' = [hilo EXCEPT !["creacion"].en = "sacar"]
      BY <1>7 DEF TomarCupo, Avanzar
    <2>3. hilo'["creacion"].en = "sacar"
      BY <2>2 DEF Tipos, TiposHilos, Hilos
    <2>4. TomaCupo = 0 /\ TomaCupo' = 1
      BY <2>2, <2>3 DEF TomaCupo
    <2> HIDE DEF C
    <2>5. Cardinality(Cupos') = C
      BY <2>1 DEF C
    <2> QED
      BY <1>0, <1>5, <1>7, <2>2, <2>4, <2>5
  <1>8. CASE SacarNuevo /\ ~Grado
    <2>1. Cardinality(Cupos') = C + 1
      BY <1>8, CuposSacarNuevo
    <2>2. /\ grado_multi' = grado_multi /\ flag_grado_multi' = flag_grado_multi
          /\ hilo["creacion"].en = "sacar"
          /\ hilo' = [hilo EXCEPT !["creacion"] = [en |-> "poner", pid |-> Head(nuevos)]]
      BY <1>8 DEF SacarNuevo, grado
    <2>3. hilo'["creacion"].en = "poner"
      BY <2>2 DEF Tipos, TiposHilos, Hilos
    <2>4. TomaCupo = 1 /\ TomaCupo' = 0
      BY <2>2, <2>3 DEF TomaCupo
    <2> HIDE DEF C
    <2> QED
      BY <1>0, <1>5, <1>8, <2>1, <2>2, <2>4
  <1>9. ASSUME ElimDarCupo \/ DarCupoConsola, ~Grado PROVE GradoBien'
    <2>1. Cardinality(Cupos') = C - 1
      BY <1>9, CuposElimDarCupo, CuposDarCupoConsola
    <2>2. PICK e \in {"sumar", "restar"} : DarCupo(e)
      BY <1>9 DEF ElimDarCupo, DarCupoConsola, DarCupo
    <2>3. TomaCupo' = TomaCupo
      BY <1>9 DEF ElimDarCupo, ElimSola, DarCupoConsola, ConsolaSola, TomaCupo
    <2>4. \/ grado_multi' = grado_multi + 1 /\ flag_grado_multi' = flag_grado_multi
          \/ /\ grado_multi' = grado_multi /\ flag_grado_multi' = flag_grado_multi - 1
             /\ flag_grado_multi # 0
      BY <2>2 DEF DarCupo, Sano
    <2> HIDE DEF C
    <2> QED
      BY <1>0, <1>5, <1>9, <2>1, <2>3, <2>4
  <1>10. ASSUME ~TomarCupo, ~SacarNuevo, ~ElimDarCupo, ~DarCupoConsola, ~Grado PROVE GradoBien'
    <2>1. Cupos' = Cupos
      <3>1. CASE UNCHANGED vars
        BY <3>1, MismosCupos DEF vars, procesos, CupoDevuelto
      <3>2. CASE Next
        BY <1>10, <3>2, CuposHilos, CuposConsola DEF Next, Creacion, Eliminacion, Consola
      <3> QED
        BY <3>1, <3>2
    <2>2. UNCHANGED <<grado_multi, flag_grado_multi>> /\ TomaCupo' = TomaCupo
      BY <1>10, CuposLibresIguales, TomaIgual
    <2> HIDE DEF C
    <2>3. Cardinality(Cupos') = C
      BY <2>1 DEF C
    <2> QED
      BY <1>0, <1>5, <1>10, <2>2, <2>3
  <1> QED
    BY <1>2, <1>7, <1>8, <1>9, <1>10

\* No slot of the degree of multiprogramming is lost and none is made, whatever
\* the interleaving of MULTIPROGRAMACION and FINALIZAR_PROCESO with the threads
\* that take and give slots back.
THEOREM NingunCupoSePierde == Spec => []CupoExacto
  <1> DEFINE Inv == Tipos /\ (Sano => Orden /\ GradoBien)
  <1>1. Init => Inv
    <2> SUFFICES ASSUME Init PROVE GradoBien
      BY InicioTipos, InicioOrden
    <2>1. \A p \in Pids : ~ConCupo(p)
      BY DEF Init, ConCupo
    <2>2. Cupos = {}
      BY <2>1 DEF Cupos
    <2>3. Cardinality(Cupos) = 0
      BY <2>2, FS_EmptySet
    <2>4. TomaCupo = 0 /\ EsperasHechas = 0
      BY DEF Init, TomaCupo, EsperasHechas, Hilos, Quieto, ConsolaLibre
    <2>5. pisado = FALSE
      BY DEF Init
    <2>6. pisado \in BOOLEAN
      BY <2>5, Zenon
    <2>7. /\ flag_grado_multi \in Nat
          /\ grado_multi + Cardinality(Cupos) + TomaCupo + EsperasHechas
             = grado_multiprogramacion + flag_grado_multi
      BY <2>3, <2>4, GradoAssumption DEF Init
    <2> QED
      BY <2>6, <2>7 DEF GradoBien, Balance
  <1>2. Inv /\ [Next]_vars => Inv'
    <2> SUFFICES ASSUME Inv, [Next]_vars, Sano' PROVE Orden' /\ GradoBien'
      BY PasoTipos
    <2>1. Sano
      BY DEF Next, vars, Sano
    <2> QED
      BY <2>1, OrdenPaso, GradoBienPaso
  <1>3. Inv => CupoExacto
    <2> SUFFICES ASSUME GradoBien PROVE /\ flag_grado_multi >= 0
                                        /\ ~pisado => grado_multi + Cardinality({p \in Pids : ConCupo(p)})
                                             + Uno(hilo["creacion"].en = "sacar") + EsperasHechas
                                             = grado_multiprogramacion + flag_grado_multi
      BY DEF CupoExacto
    <2>1. flag_grado_multi >= 0
      BY DEF GradoBien
    <2>2. TomaCupo = Uno(hilo["creacion"].en = "sacar")
      BY DEF TomaCupo, Uno
    <2> QED
      BY <2>1, <2>2 DEF GradoBien, Balance, Cupos
  <1> QED
    BY <1>1, <1>2, <1>3, PTL DEF Spec

=============================================================================
