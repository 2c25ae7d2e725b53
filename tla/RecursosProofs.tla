--------------------------- MODULE RecursosProofs ---------------------------
(***************************************************************************)
(* Proofs about Recursos, for any processes, resources and instances.      *)
(* Each process is in one place (UnLugar), so the two threads that change  *)
(* the counters never work for the same process: that is why an instance   *)
(* that is added to a counter always leaves an account (Conservacion).     *)
(* Mutual exclusion is a debt that is covered: what the counter of a       *)
(* resource is below zero is no more than the processes that wait for it.  *)
(***************************************************************************)
EXTENDS Recursos, Conteo

D == hilo["despacho"]
E == hilo["eliminacion"]

\* Where a thread has an instance of its process to give back, and where it
\* holds a process that it woke.
Trabaja == {"sumar"} \cup Sumando
Llevando == {"buscar", "sacar", "agregar"}

\* What each thread holds.
Actores ==
  /\ D.en # "liberar"
  /\ D.en # "libre" => D.pid \in Pids /\ D.pid = ejecutando /\ D.recurso \in Recursos
  /\ D.en = "leer" => asignadas[D.pid][D.recurso] < MAX_RETENIDAS
  /\ D.en \in Trabaja => asignadas[D.pid][D.recurso] > 0
  /\ E.en \notin {"leer", "encolar", "bloquear"}
  /\ E.en = "libre" <=> E.pid = NULO
  /\ E.en \in Trabaja => E.recurso \in Recursos /\ asignadas[E.pid][E.recurso] > 0
  /\ \A h \in Hilos : hilo[h].en \in Llevando <=> hilo[h].despertado \in Pids

PorEntrar == D.en = "bloquear"
EnCola(p) == \E r \in Recursos : p \in Elementos(cola[r])
EnExec(p) == p = ejecutando /\ ~PorEntrar

\* Each process is in one place.  The list of blocked processes is not one:
\* a stale index may take out the wrong process.
Suma(p) ==
  Veces(colaReady, p) + Veces(colaExit, p) + Bit(EnExec(p)) + Bit(p \in enIo)
  + Bit(EnCola(p)) + Bit(D.despertado = p) + Bit(E.despertado = p) + Bit(E.pid = p)
  + Bit(p \in terminados)

UnLugar == \A p \in Pids : Suma(p) = Bit(p \in creados)

\* It waits in one queue, once.
UnaEspera ==
  \A p \in Pids, r \in Recursos :
    p \in Elementos(cola[r]) =>
      Veces(cola[r], p) = 1 /\ \A s \in Recursos \ {r} : p \notin Elementos(cola[s])

Leyendo(r) == D.en = "leer" /\ D.recurso = r

\* What the counter of r is below zero, no more than those that wait for r,
\* when no program exits with r.
Deuda(r) ==
  /\ instancias[r] + Bit(Leyendo(r)) + EnEspera(r) >= 0
  /\ D.en = "despertar" /\ D.recurso = r => instancias[r] >= 0
  /\ E.recurso # r
  /\ \A p \in Pids : p \in Elementos(colaExit) \/ p = E.pid => asignadas[p][r] = 0
DeudaCubierta == \A r \in Recursos \ SalenCon : Deuda(r)

\* While no stale index has been used, lista_procesos_blocked has those that
\* wait and nobody else; the process that joined a queue and is not in the
\* list yet still waits, or is being woken.
EnBloqueo(p) == PorEntrar /\ p = ejecutando
Debe(p) == p \in enIo \/ ((EnCola(p) \/ Despertando(p)) /\ ~EnBloqueo(p))
BloqueadosAlDia ==
  ~listaRota => \A p \in Pids : /\ Veces(bloqueados, p) = Bit(Debe(p))
                                /\ EnBloqueo(p) => EnCola(p) \/ Despertando(p)

Tipos == TypeOK /\ Actores
IndInv == Tipos /\ UnLugar /\ UnaEspera

-----------------------------------------------------------------------------
(* Lists of processes.                                                     *)

LEMMA Aparece ==
  ASSUME NEW s \in Seq(Pids), NEW p
  PROVE  /\ Veces(s, p) \in Nat
         /\ Veces(s, p) > 0 <=> p \in Elementos(s)
  <1>1. Veces(s, p) = Cuantos(s, {p})
    BY DEF Veces, Cuantos, Posiciones
  <1>2. Cuantos(s, {p}) \in Nat
    BY PosicionesFinitas
  <1>3. Cuantos(s, {p}) > 0 <=> \E k \in DOMAIN s : s[k] \in {p}
    BY CuantosPositivo
  <1> QED
    BY <1>1, <1>2, <1>3 DEF Elementos

LEMMA Entra ==
  ASSUME NEW s \in Seq(Pids), NEW e \in Pids, NEW p
  PROVE  Veces(Append(s, e), p) = Veces(s, p) + Bit(e = p)
  <1>1. Veces(s, p) = Cuantos(s, {p}) /\ Veces(Append(s, e), p) = Cuantos(Append(s, e), {p})
    BY DEF Veces, Cuantos, Posiciones
  <1>2. Cuantos(Append(s, e), {p}) = Cuantos(s, {p}) + (IF e \in {p} THEN 1 ELSE 0)
    BY CuantosAppend
  <1> QED
    BY <1>1, <1>2 DEF Bit

LEMMA Sale ==
  ASSUME NEW s \in Seq(Pids), s # <<>>, NEW p
  PROVE  Veces(s, p) = Veces(Tail(s), p) + Bit(Head(s) = p)
  <1>1. Veces(s, p) = Cuantos(s, {p}) /\ Veces(Tail(s), p) = Cuantos(Tail(s), {p})
    BY DEF Veces, Cuantos, Posiciones
  <1>2. Cuantos(s, {p}) = Cuantos(Tail(s), {p}) + (IF Head(s) \in {p} THEN 1 ELSE 0)
    BY CuantosTail
  <1> QED
    BY <1>1, <1>2 DEF Bit

LEMMA PrimeroEsta ==
  ASSUME NEW s \in Seq(Pids), NEW e \in Elementos(s)
  PROVE  Primero(s, e) \in DOMAIN s /\ s[Primero(s, e)] = e
  <1>1. \E k \in DOMAIN s : s[k] = e
    BY DEF Elementos
  <1>2. \E k \in DOMAIN s : s[k] = e /\ \A j \in DOMAIN s : s[j] = e => k <= j
    BY <1>1, PrimeraPosicion
  <1> QED
    BY <1>2 DEF Primero

LEMMA SinUno ==
  ASSUME NEW s \in Seq(Pids), NEW i \in DOMAIN s, NEW p
  PROVE  /\ RemoveAt(s, i) \in Seq(Pids)
         /\ Veces(s, p) = Veces(RemoveAt(s, i), p) + Bit(s[i] = p)
  <1>1. i \in 1 .. Len(s)
    OBVIOUS
  <1>2. RemoveAt(s, i) = Antes(s, i) \o Despues(s, i)
    BY DEF RemoveAt, Antes, Despues
  <1>3. /\ Cuantos(s, {p}) = Cuantos(RemoveAt(s, i), {p}) + (IF s[i] \in {p} THEN 1 ELSE 0)
        /\ RemoveAt(s, i) \in Seq(Pids)
    BY <1>1, <1>2, CuantosSinUno
  <1>4. /\ Veces(s, p) = Cuantos(s, {p})
        /\ Veces(RemoveAt(s, i), p) = Cuantos(RemoveAt(s, i), {p})
    BY DEF Veces, Cuantos, Posiciones
  <1> QED
    BY <1>3, <1>4 DEF Bit

LEMMA SacaNada ==
  ASSUME NEW s, NEW e, e \notin Elementos(s)
  PROVE  Sacar(s, e) = s
  BY DEF Sacar

LEMMA SacaUno ==
  ASSUME NEW s \in Seq(Pids), NEW e, NEW p
  PROVE  /\ Sacar(s, e) \in Seq(Pids)
         /\ e \notin Elementos(s) => Sacar(s, e) = s
         /\ e \in Elementos(s) => Veces(s, p) = Veces(Sacar(s, e), p) + Bit(e = p)
  <1>1. CASE e \notin Elementos(s)
    BY <1>1 DEF Sacar
  <1>2. CASE e \in Elementos(s)
    BY <1>2, PrimeroEsta, SinUno DEF Sacar
  <1> QED
    BY <1>1, <1>2

LEMMA Cola ==
  ASSUME NEW s \in Seq(Pids)
  PROVE  /\ \A e \in Pids : Append(s, e) \in Seq(Pids) /\ Len(Append(s, e)) = Len(s) + 1
         /\ s # <<>> => Head(s) \in Pids /\ Tail(s) \in Seq(Pids) /\ Len(s) = Len(Tail(s)) + 1
         /\ Len(s) \in Nat
  OBVIOUS

-----------------------------------------------------------------------------
(* What a step does to the threads.                                        *)

Lugares == Sumando \cup {"libre", "leer", "encolar", "bloquear", "sumar", "liberar"}
Fichas == [en : Lugares, pid : Pids \cup {NULO}, recurso : Recursos \cup {NULO},
           despertado : Pids \cup {NULO}, indice : Nat]

\* What buscar_index_pid_bloqueado answers.
IndiceDe(h) ==
  IF hilo[h].despertado \in Elementos(bloqueados)
  THEN Primero(bloqueados, hilo[h].despertado) ELSE 0

\* Thread h becomes x, the other one stays.
Pasa(h, x) == hilo' = [hilo EXCEPT ![h] = x]

LEMMA UnHilo ==
  ASSUME TypeOK, NEW h \in Hilos, NEW x \in Fichas, Pasa(h, x)
  PROVE  /\ hilo' \in [Hilos -> Fichas]
         /\ hilo'[h] = x
         /\ \A g \in Hilos \ {h} : hilo'[g] = hilo[g]
  BY DEF Pasa, TypeOK, Fichas, Lugares

(* The places of thread h after each step of sumar_instancia_a_recurso.    *)
LEMMA PasosDeSumar ==
  ASSUME TypeOK, Actores, NEW h \in Hilos
  PROVE  /\ Sumar(h) => Pasa(h, [hilo[h] EXCEPT !.en = "revisar"])
         /\ Revisar(h) => \/ /\ instancias[hilo[h].recurso] >= 0
                             /\ Pasa(h, [hilo[h] EXCEPT !.en = "despertar"])
                          \/ Pasa(h, [hilo[h] EXCEPT !.en = "devolver"])
         /\ Despertar(h) =>
              \/ /\ cola[hilo[h].recurso] # <<>>
                 /\ Pasa(h, [hilo[h] EXCEPT !.en = "buscar",
                                            !.despertado = Head(cola[hilo[h].recurso])])
                 /\ cola' = [cola EXCEPT ![hilo[h].recurso] = Tail(@)]
              \/ /\ Pasa(h, [hilo[h] EXCEPT !.en = "devolver"])
                 /\ UNCHANGED cola
         /\ BuscarIndice(h) =>
              /\ IndiceDe(h) \in Nat
              /\ Pasa(h, [hilo[h] EXCEPT !.en = "sacar", !.indice = IndiceDe(h)])
         /\ SacarDeBloqueados(h) => Pasa(h, [hilo[h] EXCEPT !.en = "agregar"])
         /\ AgregarAReady(h) =>
              Pasa(h, [hilo[h] EXCEPT !.en = "devolver", !.despertado = NULO, !.indice = 0])
         /\ Devolver(h) =>
              Pasa(h, IF h = "despacho" THEN Libre
                      ELSE [hilo[h] EXCEPT !.en = "liberar", !.recurso = NULO])
  <1>0. hilo \in [Hilos -> Fichas]
    BY DEF TypeOK, Fichas, Lugares
  <1>1. Sumar(h) => Pasa(h, [hilo[h] EXCEPT !.en = "revisar"])
    BY <1>0 DEF Sumar, Ir, Pasa, Fichas
  <1>2. Revisar(h) => \/ /\ instancias[hilo[h].recurso] >= 0
                         /\ Pasa(h, [hilo[h] EXCEPT !.en = "despertar"])
                      \/ Pasa(h, [hilo[h] EXCEPT !.en = "devolver"])
    BY <1>0 DEF Revisar, Ir, Pasa, Fichas
  <1>3. Despertar(h) =>
              \/ /\ cola[hilo[h].recurso] # <<>>
                 /\ Pasa(h, [hilo[h] EXCEPT !.en = "buscar",
                                            !.despertado = Head(cola[hilo[h].recurso])])
                 /\ cola' = [cola EXCEPT ![hilo[h].recurso] = Tail(@)]
              \/ /\ Pasa(h, [hilo[h] EXCEPT !.en = "devolver"])
                 /\ UNCHANGED cola
    BY <1>0 DEF Despertar, Ir, Pasa, Fichas
  <1>4. BuscarIndice(h) =>
              /\ IndiceDe(h) \in Nat
              /\ Pasa(h, [hilo[h] EXCEPT !.en = "sacar", !.indice = IndiceDe(h)])
    <2>1. IndiceDe(h) \in Nat
      <3>1. bloqueados \in Seq(Pids)
        BY DEF TypeOK
      <3>2. hilo[h].despertado \in Elementos(bloqueados)
              => Primero(bloqueados, hilo[h].despertado) \in DOMAIN bloqueados
        BY <3>1, PrimeroEsta
      <3>3. DOMAIN bloqueados \subseteq Nat
        BY <3>1
      <3> QED
        BY <3>2, <3>3 DEF IndiceDe
    <2>2. BuscarIndice(h) =>
            hilo' = [hilo EXCEPT ![h].en = "sacar", ![h].indice = IndiceDe(h)]
      BY DEF BuscarIndice, IndiceDe
    <2>3. BuscarIndice(h) => Pasa(h, [hilo[h] EXCEPT !.en = "sacar", !.indice = IndiceDe(h)])
      BY <1>0, <2>2 DEF Pasa, Fichas
    <2> QED
      BY <2>1, <2>3
  <1>5. SacarDeBloqueados(h) => Pasa(h, [hilo[h] EXCEPT !.en = "agregar"])
    BY <1>0 DEF SacarDeBloqueados, Ir, Pasa, Fichas
  <1>6. AgregarAReady(h) =>
              Pasa(h, [hilo[h] EXCEPT !.en = "devolver", !.despertado = NULO, !.indice = 0])
    BY <1>0 DEF AgregarAReady, Pasa, Fichas
  <1>7. Devolver(h) =>
              Pasa(h, IF h = "despacho" THEN Libre
                      ELSE [hilo[h] EXCEPT !.en = "liberar", !.recurso = NULO])
    BY <1>0 DEF Devolver, Pasa, Fichas
  <1> QED
    BY <1>1, <1>2, <1>3, <1>4, <1>5, <1>6, <1>7

(* The same for the steps of one thread only.                              *)
LEMMA PasosPropios ==
  ASSUME TypeOK, NEW r \in Recursos
  PROVE  /\ Restar(r) => Pasa("despacho", [Libre EXCEPT !.en = "leer", !.pid = ejecutando,
                                                        !.recurso = r])
         /\ Signal(r) => Pasa("despacho", [Libre EXCEPT !.en = "sumar", !.pid = ejecutando,
                                                        !.recurso = r])
         /\ LeerInstancias => \/ /\ instancias[D.recurso] < 0
                                 /\ Pasa("despacho", [D EXCEPT !.en = "encolar"])
                              \/ /\ ~(instancias[D.recurso] < 0)
                                 /\ Pasa("despacho", Libre)
         /\ Encolar => Pasa("despacho", [D EXCEPT !.en = "bloquear"])
         /\ Bloquear => Pasa("despacho", Libre)
         /\ TomarExit => Pasa("eliminacion", [Libre EXCEPT !.en = "liberar",
                                                           !.pid = Head(colaExit)])
         /\ Liberar(r) => \/ /\ instancias[r] < Instancias[r]
                             /\ Pasa("eliminacion", [E EXCEPT !.recurso = r, !.en = "sumar"])
                          \/ /\ ~(instancias[r] < Instancias[r])
                             /\ Pasa("eliminacion", [E EXCEPT !.recurso = r, !.en = "devolver"])
         /\ Terminar => Pasa("eliminacion", Libre)
  <1>0. hilo \in [Hilos -> Fichas] /\ "despacho" \in Hilos /\ "eliminacion" \in Hilos
    BY DEF TypeOK, Fichas, Lugares, Hilos
  <1>1. Restar(r) => Pasa("despacho", [Libre EXCEPT !.en = "leer", !.pid = ejecutando,
                                                    !.recurso = r])
    BY DEF Restar, Pasa
  <1>2. Signal(r) => Pasa("despacho", [Libre EXCEPT !.en = "sumar", !.pid = ejecutando,
                                                    !.recurso = r])
    BY DEF Signal, Pasa
  <1>3. LeerInstancias => \/ /\ instancias[D.recurso] < 0
                             /\ Pasa("despacho", [D EXCEPT !.en = "encolar"])
                          \/ /\ ~(instancias[D.recurso] < 0)
                             /\ Pasa("despacho", Libre)
    BY DEF LeerInstancias, DebeEsperar, Pasa, D
  <1>4. Encolar => Pasa("despacho", [D EXCEPT !.en = "bloquear"])
    BY <1>0 DEF Encolar, Ir, Pasa, D, Fichas
  <1>5. Bloquear => Pasa("despacho", Libre)
    BY DEF Bloquear, Pasa
  <1>6. TomarExit => Pasa("eliminacion", [Libre EXCEPT !.en = "liberar", !.pid = Head(colaExit)])
    BY DEF TomarExit, Pasa
  <1>7. Liberar(r) => \/ /\ instancias[r] < Instancias[r]
                         /\ Pasa("eliminacion", [E EXCEPT !.recurso = r, !.en = "sumar"])
                      \/ /\ ~(instancias[r] < Instancias[r])
                         /\ Pasa("eliminacion", [E EXCEPT !.recurso = r, !.en = "devolver"])
    BY <1>0 DEF Liberar, Pasa, E, Fichas
  <1>8. Terminar => Pasa("eliminacion", Libre)
    BY DEF Terminar, Pasa
  <1> QED
    BY <1>1, <1>2, <1>3, <1>4, <1>5, <1>6, <1>7, <1>8

\* The steps of the process outside this code, which leave both threads alone.
Fuera ==
  \/ \E p \in Pids : Crear(p) \/ TerminarIo(p)
  \/ Despachar \/ Desalojar \/ Salir \/ PedirIo

LEMMA FueraNoPasa == Fuera => UNCHANGED <<hilo, instancias, asignadas, cola>>
  BY DEF Fuera, Crear, TerminarIo, Despachar, Desalojar, Salir, PedirIo

-----------------------------------------------------------------------------
(* Types.                                                                  *)

LEMMA InicioTipos == Init => Tipos
  <1> SUFFICES ASSUME Init PROVE Tipos
    OBVIOUS
  <1>1. hilo = [h \in Hilos |-> Libre] /\ "despacho" \in Hilos /\ "eliminacion" \in Hilos
    BY DEF Init, Hilos
  <1>2. instancias \in [Recursos -> Int]
    BY InstanciasAssumption DEF Init
  <1>3. asignadas \in [Pids -> [Recursos -> 0..MAX_RETENIDAS]]
    BY RetenidasAssumption DEF Init
  <1>4. /\ cola \in [Recursos -> Seq(Pids)] /\ bloqueados \in Seq(Pids)
        /\ colaReady \in Seq(Pids) /\ colaExit \in Seq(Pids)
    <2>1. <<>> \in Seq(Pids)
      OBVIOUS
    <2> QED
      BY <2>1 DEF Init
  <1>5. hilo \in [Hilos -> Fichas]
    BY <1>1 DEF Libre, Fichas, Lugares
  <1>6. TypeOK
    BY <1>2, <1>3, <1>4, <1>5 DEF Init, TypeOK, Fichas, Lugares
  <1>7. Actores
    BY <1>1, NuloAssumption DEF Actores, D, E, Libre, Trabaja, Sumando, Llevando
  <1> QED
    BY <1>6, <1>7 DEF Tipos

(* Which steps change the counters, the accounts and the queues.           *)
LEMMA MarcoCuentas ==
  ASSUME [Next]_vars
  PROVE  /\ \/ UNCHANGED instancias
            \/ \E r \in Recursos : Restar(r)
            \/ \E h \in Hilos : Sumar(h)
         /\ \/ UNCHANGED asignadas
            \/ LeerInstancias
            \/ \E h \in Hilos : Devolver(h)
         /\ \/ UNCHANGED cola
            \/ Encolar
            \/ \E r \in Recursos : Liberar(r)
            \/ \E h \in Hilos : Despertar(h)
  <1> DEFINE I == UNCHANGED instancias
             A == UNCHANGED asignadas
             C == UNCHANGED cola
             IR == \E r \in Recursos : Restar(r)
             IH == \E h \in Hilos : Sumar(h)
             AH == \E h \in Hilos : Devolver(h)
             CR == \E r \in Recursos : Liberar(r)
             CH == \E h \in Hilos : Despertar(h)
  <1>1. UNCHANGED vars => I /\ A /\ C
    BY DEF vars
  <1>2. Fuera => I /\ A /\ C
    BY FueraNoPasa
  <1>3. (\E r \in Recursos : Restar(r)) => IR /\ A /\ C
    BY DEF Restar
  <1>4. (\E r \in Recursos : Signal(r)) => I /\ A /\ C
    BY DEF Signal
  <1>5. (\E r \in Recursos : Liberar(r)) => I /\ A /\ CR
    BY DEF Liberar
  <1>6. LeerInstancias => I /\ C
    BY DEF LeerInstancias
  <1>7. Encolar => I /\ A
    BY DEF Encolar
  <1>8. Bloquear \/ TomarExit \/ Terminar => I /\ A /\ C
    BY DEF Bloquear, TomarExit, Terminar
  <1>9. ASSUME NEW h \in Hilos
        PROVE  /\ Sumar(h) => IH /\ A /\ C
               /\ Revisar(h) \/ BuscarIndice(h) \/ SacarDeBloqueados(h) \/ AgregarAReady(h)
                  => I /\ A /\ C
               /\ Despertar(h) => I /\ A /\ CH
               /\ Devolver(h) => I /\ AH /\ C
    <2>1. Sumar(h) => IH /\ A /\ C
      BY DEF Sumar
    <2>2. Revisar(h) \/ BuscarIndice(h) \/ SacarDeBloqueados(h) \/ AgregarAReady(h)
             => I /\ A /\ C
      BY DEF Revisar, BuscarIndice, SacarDeBloqueados, AgregarAReady
    <2>3. Despertar(h) => I /\ A /\ CH
      BY DEF Despertar
    <2>4. Devolver(h) => I /\ AH /\ C
      BY DEF Devolver
    <2> QED
      BY <2>1, <2>2, <2>3, <2>4
  <1> HIDE DEF I, A, C, IR, IH, AH, CR, CH
  <1>10. /\ I \/ IR \/ IH
         /\ A \/ LeerInstancias \/ AH
         /\ C \/ Encolar \/ CR \/ CH
    BY <1>1, <1>2, <1>3, <1>4, <1>5, <1>6, <1>7, <1>8, <1>9 DEF Next, Fuera, SumarInstancia
  <1> QED
    BY <1>10 DEF I, A, C, IR, IH, AH, CR, CH

(* The two threads never work for the same process.                        *)
LEMMA Distintos ==
  ASSUME Tipos, UnLugar, D.en \notin {"libre", "bloquear"}
  PROVE  D.pid # E.pid
  <1>1. D.pid \in Pids /\ D.pid = ejecutando /\ ~PorEntrar
    BY DEF Tipos, Actores, PorEntrar
  <1> DEFINE p == D.pid
  <1>2. /\ Veces(colaReady, p) \in Nat /\ Veces(colaExit, p) \in Nat
    BY Aparece DEF Tipos, TypeOK
  <1>3. Bit(EnExec(p)) = 1
    BY <1>1 DEF EnExec, Bit
  <1>4. /\ Bit(p \in enIo) \in 0 .. 1 /\ Bit(EnCola(p)) \in 0 .. 1 /\ Bit(p \in creados) \in 0 .. 1
        /\ Bit(D.despertado = p) \in 0 .. 1 /\ Bit(E.despertado = p) \in 0 .. 1
        /\ Bit(p \in terminados) \in 0 .. 1 /\ Bit(E.pid = p) \in 0 .. 1
    BY DEF Bit
  <1> HIDE DEF p
  <1>5. Bit(E.pid = p) = 0
    BY <1>1, <1>2, <1>3, <1>4 DEF UnLugar, Suma, p
  <1> QED
    BY <1>5 DEF Bit, p

LEMMA PasoCuentas ==
  ASSUME Tipos, [Next]_vars
  PROVE  /\ instancias' \in [Recursos -> Int]
         /\ asignadas' \in [Pids -> [Recursos -> 0..MAX_RETENIDAS]]
         /\ cola' \in [Recursos -> Seq(Pids)]
  <1>0. /\ instancias \in [Recursos -> Int]
        /\ asignadas \in [Pids -> [Recursos -> 0..MAX_RETENIDAS]]
        /\ cola \in [Recursos -> Seq(Pids)]
        /\ Hilos = {"despacho", "eliminacion"}
    BY DEF Tipos, TypeOK, Hilos
  <1>a. \A h \in Hilos : hilo[h].en \in Trabaja =>
          /\ hilo[h].pid \in Pids /\ hilo[h].recurso \in Recursos
          /\ asignadas[hilo[h].pid][hilo[h].recurso] > 0
    <2>1. D.en \in Trabaja =>
            D.pid \in Pids /\ D.recurso \in Recursos /\ asignadas[D.pid][D.recurso] > 0
      BY DEF Tipos, Actores, Trabaja, Sumando
    <2>2. E.en \in Trabaja =>
            E.pid \in Pids /\ E.recurso \in Recursos /\ asignadas[E.pid][E.recurso] > 0
      BY DEF Tipos, TypeOK, Actores, Trabaja, Sumando, E, Hilos
    <2> QED
      BY <1>0, <2>1, <2>2 DEF D, E
  <1>1. instancias' \in [Recursos -> Int]
    <2>1. CASE UNCHANGED instancias
      BY <1>0, <2>1
    <2>2. ASSUME NEW r \in Recursos, Restar(r) PROVE instancias' \in [Recursos -> Int]
      BY <1>0, <2>2 DEF Restar
    <2>3. ASSUME NEW h \in Hilos, Sumar(h) PROVE instancias' \in [Recursos -> Int]
      <3>1. hilo[h].recurso \in Recursos
        BY <1>a, <2>3 DEF Sumar, Trabaja
      <3>2. instancias' = [instancias EXCEPT ![hilo[h].recurso] = @ + 1]
        BY <2>3 DEF Sumar
      <3> QED
        BY <1>0, <3>1, <3>2
    <2> QED
      BY <2>1, <2>2, <2>3, MarcoCuentas
  <1>2. asignadas' \in [Pids -> [Recursos -> 0..MAX_RETENIDAS]]
    <2>1. CASE UNCHANGED asignadas
      BY <1>0, <2>1
    <2>2. CASE LeerInstancias
      <3>1. /\ D.pid \in Pids /\ D.recurso \in Recursos
            /\ asignadas[D.pid][D.recurso] < MAX_RETENIDAS
        BY <2>2 DEF Tipos, Actores, LeerInstancias, D
      <3>2. asignadas' = [asignadas EXCEPT ![D.pid][D.recurso] = @ + 1]
        BY <2>2 DEF LeerInstancias, D
      <3>3. asignadas[D.pid][D.recurso] + 1 \in 0..MAX_RETENIDAS
        BY <1>0, <3>1, RetenidasAssumption
      <3> QED
        BY <1>0, <3>1, <3>2, <3>3
    <2>3. ASSUME NEW h \in Hilos, Devolver(h)
          PROVE  asignadas' \in [Pids -> [Recursos -> 0..MAX_RETENIDAS]]
      <3>1. /\ hilo[h].pid \in Pids /\ hilo[h].recurso \in Recursos
            /\ asignadas[hilo[h].pid][hilo[h].recurso] > 0
        BY <1>a, <2>3 DEF Devolver, Trabaja, Sumando
      <3>2. asignadas' = [asignadas EXCEPT ![hilo[h].pid][hilo[h].recurso] = @ - 1]
        BY <2>3 DEF Devolver
      <3>3. asignadas[hilo[h].pid][hilo[h].recurso] - 1 \in 0..MAX_RETENIDAS
        <4>1. PICK n \in 0..MAX_RETENIDAS : n = asignadas[hilo[h].pid][hilo[h].recurso]
          BY <1>0, <3>1
        <4>2. n > 0 => n - 1 \in 0..MAX_RETENIDAS
          BY RetenidasAssumption
        <4> QED
          BY <3>1, <4>1, <4>2
      <3> QED
        BY <1>0, <3>1, <3>2, <3>3
    <2> QED
      BY <2>1, <2>2, <2>3, MarcoCuentas
  <1>3. cola' \in [Recursos -> Seq(Pids)]
    <2>0. ASSUME NEW r, NEW q \in Seq(Pids), cola' = [cola EXCEPT ![r] = q]
          PROVE  cola' \in [Recursos -> Seq(Pids)]
      BY <1>0, <2>0
    <2>1. CASE UNCHANGED cola
      BY <1>0, <2>1
    <2>2. CASE Encolar
      <3>1. D.pid \in Pids /\ D.recurso \in Recursos
        BY <2>2 DEF Tipos, Actores, Encolar, D
      <3>2. Append(cola[D.recurso], D.pid) \in Seq(Pids)
        BY <1>0, <3>1, Cola
      <3>3. cola' = [cola EXCEPT ![D.recurso] = Append(cola[D.recurso], D.pid)]
        BY <2>2 DEF Encolar, D
      <3> QED
        BY <2>0, <3>2, <3>3
    <2>3. ASSUME NEW r \in Recursos, Liberar(r) PROVE cola' \in [Recursos -> Seq(Pids)]
      <3>1. cola' = [cola EXCEPT ![r] = Sacar(cola[r], E.pid)]
        BY <2>3 DEF Liberar, E
      <3>2. Sacar(cola[r], E.pid) \in Seq(Pids)
        BY <1>0, SacaUno
      <3> QED
        BY <2>0, <3>1, <3>2
    <2>4. ASSUME NEW h \in Hilos, Despertar(h) PROVE cola' \in [Recursos -> Seq(Pids)]
      <3>1. hilo[h].recurso \in Recursos
        BY <1>a, <2>4 DEF Despertar, Trabaja, Sumando
      <3>2. CASE cola[hilo[h].recurso] # <<>>
                 /\ cola' = [cola EXCEPT ![hilo[h].recurso] = Tail(cola[hilo[h].recurso])]
        <4>1. Tail(cola[hilo[h].recurso]) \in Seq(Pids)
          BY <1>0, <3>1, <3>2, Cola
        <4> QED
          BY <2>0, <3>2, <4>1
      <3> QED
        BY <1>0, <2>4, <3>2 DEF Despertar
    <2> QED
      BY <2>1, <2>2, <2>3, <2>4, MarcoCuentas
  <1> QED
    BY <1>1, <1>2, <1>3

(* A thread that moves keeps what Actores says of it, and the other thread
   too, unless the step changes the account it relies on.                  *)
LEMMA PasaDespacho ==
  ASSUME Tipos, NEW x \in Fichas, Pasa("despacho", x),
         x.en # "liberar",
         x.en # "libre" => x.pid \in Pids /\ x.pid = ejecutando' /\ x.recurso \in Recursos,
         x.en = "leer" => asignadas'[x.pid][x.recurso] < MAX_RETENIDAS,
         x.en \in Trabaja => asignadas'[x.pid][x.recurso] > 0,
         x.en \in Llevando <=> x.despertado \in Pids,
         E.en \in Trabaja => asignadas'[E.pid][E.recurso] > 0
  PROVE  hilo' \in [Hilos -> Fichas] /\ Actores'
  <1>1. "despacho" \in Hilos /\ "eliminacion" \in Hilos /\ Hilos = {"despacho", "eliminacion"}
    BY DEF Hilos
  <1>2. /\ hilo' \in [Hilos -> Fichas]
        /\ hilo'["despacho"] = x /\ hilo'["eliminacion"] = hilo["eliminacion"]
    BY <1>1, UnHilo DEF Tipos
  <1>3. D' = x /\ E' = E
    BY <1>2 DEF D, E
  <1>4. /\ E.en \notin {"leer", "encolar", "bloquear"}
        /\ E.en = "libre" <=> E.pid = NULO
        /\ E.en \in Trabaja => E.recurso \in Recursos
        /\ E.en \in Llevando <=> E.despertado \in Pids
    BY <1>1 DEF Tipos, Actores, E
  <1>5. \A h \in Hilos : hilo'[h].en \in Llevando <=> hilo'[h].despertado \in Pids
    BY <1>1, <1>2, <1>4 DEF E
  <1> QED
    BY <1>2, <1>3, <1>4, <1>5 DEF Actores, Trabaja, Llevando

LEMMA PasaEliminacion ==
  ASSUME Tipos, NEW x \in Fichas, Pasa("eliminacion", x),
         x.en \notin {"leer", "encolar", "bloquear"},
         x.en = "libre" <=> x.pid = NULO,
         x.en \in Trabaja => x.recurso \in Recursos /\ asignadas'[x.pid][x.recurso] > 0,
         x.en \in Llevando <=> x.despertado \in Pids,
         ejecutando' = ejecutando,
         D.en = "leer" => asignadas'[D.pid][D.recurso] < MAX_RETENIDAS,
         D.en \in Trabaja => asignadas'[D.pid][D.recurso] > 0
  PROVE  hilo' \in [Hilos -> Fichas] /\ Actores'
  <1>1. "despacho" \in Hilos /\ "eliminacion" \in Hilos /\ Hilos = {"despacho", "eliminacion"}
    BY DEF Hilos
  <1>2. /\ hilo' \in [Hilos -> Fichas]
        /\ hilo'["eliminacion"] = x /\ hilo'["despacho"] = hilo["despacho"]
    BY <1>1, UnHilo DEF Tipos
  <1>3. D' = D /\ E' = x
    BY <1>2 DEF D, E
  <1>4. /\ D.en # "liberar"
        /\ D.en # "libre" => D.pid \in Pids /\ D.pid = ejecutando /\ D.recurso \in Recursos
        /\ D.en \in Llevando <=> D.despertado \in Pids
    BY <1>1 DEF Tipos, Actores, D
  <1>5. \A h \in Hilos : hilo'[h].en \in Llevando <=> hilo'[h].despertado \in Pids
    BY <1>1, <1>2, <1>4 DEF D
  <1> QED
    BY <1>2, <1>3, <1>4, <1>5 DEF Actores, Trabaja, Llevando

(* A step of sumar_instancia_a_recurso goes on with the same process and
   the same resource.                                                      *)
LEMMA PasaTrabajo ==
  ASSUME Tipos, NEW h \in Hilos, NEW x \in Fichas, Pasa(h, x),
         hilo[h].en \in Trabaja, x.en \in Trabaja,
         x.pid = hilo[h].pid, x.recurso = hilo[h].recurso,
         x.en \in Llevando <=> x.despertado \in Pids,
         UNCHANGED <<asignadas, ejecutando>>
  PROVE  hilo' \in [Hilos -> Fichas] /\ Actores'
  <1>0. x.en \notin {"libre", "leer", "encolar", "bloquear", "liberar"}
    BY DEF Trabaja, Sumando
  <1>1. CASE h = "despacho"
    <2>1. Pasa("despacho", x) /\ D.en \in Trabaja /\ x.pid = D.pid /\ x.recurso = D.recurso
      BY <1>1 DEF D
    <2>2. D.pid \in Pids /\ D.pid = ejecutando /\ D.recurso \in Recursos
      BY <2>1 DEF Tipos, Actores, Trabaja, Sumando
    <2>3. asignadas[D.pid][D.recurso] > 0
      BY <2>1 DEF Tipos, Actores
    <2>4. E.en \in Trabaja => asignadas[E.pid][E.recurso] > 0
      BY DEF Tipos, Actores
    <2> QED
      BY <1>0, <2>1, <2>2, <2>3, <2>4, PasaDespacho
  <1>2. CASE h = "eliminacion"
    <2>1. Pasa("eliminacion", x) /\ E.en \in Trabaja /\ x.pid = E.pid /\ x.recurso = E.recurso
      BY <1>2 DEF E
    <2>2. E.pid # NULO /\ E.recurso \in Recursos /\ asignadas[E.pid][E.recurso] > 0
      BY <2>1 DEF Tipos, Actores, Trabaja, Sumando
    <2>3. /\ D.en = "leer" => asignadas[D.pid][D.recurso] < MAX_RETENIDAS
          /\ D.en \in Trabaja => asignadas[D.pid][D.recurso] > 0
      BY DEF Tipos, Actores
    <2> QED
      BY <1>0, <2>1, <2>2, <2>3, PasaEliminacion
  <1> QED
    BY <1>1, <1>2 DEF Hilos

(* The types of the records of the threads, before a step.                 *)
LEMMA Ficha ==
  ASSUME Tipos
  PROVE  /\ D \in Fichas /\ E \in Fichas /\ Libre \in Fichas
         /\ \A h \in Hilos : hilo[h] \in Fichas
         /\ Hilos = {"despacho", "eliminacion"} /\ D = hilo["despacho"] /\ E = hilo["eliminacion"]
         /\ NULO \notin Pids
         /\ ejecutando \in Pids \cup {NULO}
         /\ E.en # "libre" => E.pid \in Pids
         /\ E.en \notin Llevando => E.despertado = NULO
         /\ D.en \notin Llevando => D.despertado = NULO
  <1>1. \A h \in Hilos : hilo[h] \in Fichas
    BY DEF Tipos, TypeOK, Fichas, Lugares
  <1>2. Hilos = {"despacho", "eliminacion"}
    BY DEF Hilos
  <1>3. Libre \in Fichas
    BY DEF Libre, Fichas, Lugares
  <1>4. NULO \notin Pids
    BY NuloAssumption
  <1>5. D \in Fichas /\ E \in Fichas
    BY <1>1, <1>2 DEF D, E
  <1>6. E.en # "libre" => E.pid \in Pids
    BY <1>5 DEF Tipos, Actores, Fichas
  <1>7. /\ E.en \in Llevando <=> E.despertado \in Pids
        /\ D.en \in Llevando <=> D.despertado \in Pids
    BY <1>2 DEF Tipos, Actores, D, E
  <1>8. E.despertado \in Pids \cup {NULO} /\ D.despertado \in Pids \cup {NULO}
    BY <1>5 DEF Fichas
  <1> QED
    BY <1>1, <1>2, <1>3, <1>4, <1>5, <1>6, <1>7, <1>8 DEF D, E, Tipos, TypeOK

LEMMA HiloAlSumar ==
  ASSUME Tipos, UnLugar, NEW h \in Hilos, SumarInstancia(h)
  PROVE  hilo' \in [Hilos -> Fichas] /\ Actores'
  <1>0. /\ hilo[h] \in Fichas /\ NULO \notin Pids /\ TypeOK /\ Actores
        /\ hilo[h].en \in Llevando <=> hilo[h].despertado \in Pids
        /\ hilo[h].en \in Trabaja => hilo[h].recurso \in Recursos
    <2>1. hilo[h] \in Fichas /\ NULO \notin Pids /\ (h = "despacho" \/ h = "eliminacion")
      BY Ficha
    <2>2. /\ D.en \in Trabaja => D.recurso \in Recursos
          /\ E.en \in Trabaja => E.recurso \in Recursos
      BY DEF Tipos, Actores, Trabaja, Sumando
    <2> QED
      BY <2>1, <2>2 DEF Tipos, Actores, D, E
  <1>a. /\ Llevando \subseteq Trabaja /\ Trabaja \subseteq Lugares
        /\ {"revisar", "despertar", "buscar", "sacar", "agregar", "devolver"} \subseteq Trabaja
        /\ {"sumar", "revisar", "despertar", "devolver", "libre", "liberar"} \cap Llevando = {}
        /\ {"buscar", "sacar", "agregar"} \subseteq Llevando
    BY DEF Llevando, Trabaja, Sumando, Lugares
  <1>1. ASSUME NEW lugar \in {"revisar", "despertar", "devolver"},
               hilo[h].en \in Trabaja \ Llevando, UNCHANGED <<asignadas, ejecutando>>,
               Pasa(h, [hilo[h] EXCEPT !.en = lugar])
        PROVE  hilo' \in [Hilos -> Fichas] /\ Actores'
    <2> DEFINE x == [hilo[h] EXCEPT !.en = lugar]
    <2>1. /\ x \in Fichas /\ x.en = lugar /\ x.pid = hilo[h].pid /\ x.recurso = hilo[h].recurso
          /\ x.despertado = hilo[h].despertado
      BY <1>0, <1>a DEF Fichas
    <2>2. x.en \in Trabaja /\ (x.en \in Llevando <=> x.despertado \in Pids)
      BY <1>0, <1>a, <1>1, <2>1
    <2> HIDE DEF x
    <2>3. Pasa(h, x) /\ hilo[h].en \in Trabaja
      BY <1>1 DEF x
    <2> QED
      BY <1>1, <2>1, <2>2, <2>3, PasaTrabajo
  <1>2. CASE Sumar(h)
    <2>1. /\ hilo[h].en \in Trabaja \ Llevando /\ UNCHANGED <<asignadas, ejecutando>>
          /\ Pasa(h, [hilo[h] EXCEPT !.en = "revisar"])
      BY <1>0, <1>2, PasosDeSumar DEF Sumar, Trabaja, Llevando
    <2> QED
      BY <1>1, <2>1
  <1>3. CASE Revisar(h)
    <2>1. /\ hilo[h].en \in Trabaja \ Llevando /\ UNCHANGED <<asignadas, ejecutando>>
          /\ \/ Pasa(h, [hilo[h] EXCEPT !.en = "despertar"])
             \/ Pasa(h, [hilo[h] EXCEPT !.en = "devolver"])
      BY <1>0, <1>3, PasosDeSumar DEF Revisar, Trabaja, Sumando, Llevando
    <2> QED
      BY <1>1, <2>1
  <1>4. CASE Despertar(h)
    <2>1. /\ hilo[h].en = "despertar" /\ hilo[h].en \in Trabaja \ Llevando
          /\ UNCHANGED <<asignadas, ejecutando>>
      BY <1>4 DEF Despertar, Trabaja, Sumando, Llevando
    <2>2. CASE Pasa(h, [hilo[h] EXCEPT !.en = "devolver"])
      BY <1>1, <2>1, <2>2
    <2>3. CASE /\ cola[hilo[h].recurso] # <<>>
               /\ Pasa(h, [hilo[h] EXCEPT !.en = "buscar",
                                          !.despertado = Head(cola[hilo[h].recurso])])
      <3> DEFINE c == Head(cola[hilo[h].recurso])
                 x == [hilo[h] EXCEPT !.en = "buscar", !.despertado = c]
      <3>1. c \in Pids
        <4>1. cola[hilo[h].recurso] \in Seq(Pids)
          BY <1>0, <2>1 DEF TypeOK
        <4> QED
          BY <2>3, <4>1, Cola
      <3> HIDE DEF c
      <3>2. /\ x \in Fichas /\ x.en = "buscar" /\ x.pid = hilo[h].pid
            /\ x.recurso = hilo[h].recurso /\ x.despertado = c
        BY <1>0, <1>a, <3>1 DEF Fichas
      <3>3. Pasa(h, x)
        BY <2>3 DEF c
      <3> HIDE DEF x
      <3> QED
        BY <1>a, <2>1, <3>1, <3>2, <3>3, PasaTrabajo
    <2> QED
      BY <1>0, <1>4, <2>2, <2>3, PasosDeSumar
  <1>5. CASE BuscarIndice(h)
    <2> DEFINE x == [hilo[h] EXCEPT !.en = "sacar", !.indice = IndiceDe(h)]
    <2>1. /\ hilo[h].en = "buscar" /\ UNCHANGED <<asignadas, ejecutando>>
          /\ IndiceDe(h) \in Nat /\ Pasa(h, x)
      BY <1>0, <1>5, PasosDeSumar DEF BuscarIndice
    <2>2. /\ x \in Fichas /\ x.en = "sacar" /\ x.pid = hilo[h].pid
          /\ x.recurso = hilo[h].recurso /\ x.despertado = hilo[h].despertado
      BY <1>0, <1>a, <2>1 DEF Fichas
    <2> HIDE DEF x
    <2> QED
      BY <1>0, <1>a, <2>1, <2>2, PasaTrabajo
  <1>6. CASE SacarDeBloqueados(h)
    <2> DEFINE x == [hilo[h] EXCEPT !.en = "agregar"]
    <2>1. /\ hilo[h].en = "sacar" /\ UNCHANGED <<asignadas, ejecutando>> /\ Pasa(h, x)
      BY <1>0, <1>6, PasosDeSumar DEF SacarDeBloqueados
    <2>2. /\ x \in Fichas /\ x.en = "agregar" /\ x.pid = hilo[h].pid
          /\ x.recurso = hilo[h].recurso /\ x.despertado = hilo[h].despertado
      BY <1>0, <1>a, <2>1 DEF Fichas
    <2> HIDE DEF x
    <2> QED
      BY <1>0, <1>a, <2>1, <2>2, PasaTrabajo
  <1>7. CASE AgregarAReady(h)
    <2> DEFINE x == [hilo[h] EXCEPT !.en = "devolver", !.despertado = NULO, !.indice = 0]
    <2>1. /\ hilo[h].en = "agregar" /\ UNCHANGED <<asignadas, ejecutando>> /\ Pasa(h, x)
      BY <1>0, <1>7, PasosDeSumar DEF AgregarAReady
    <2>2. /\ x \in Fichas /\ x.en = "devolver" /\ x.pid = hilo[h].pid
          /\ x.recurso = hilo[h].recurso /\ x.despertado = NULO
      BY <1>0, <1>a, <2>1 DEF Fichas
    <2> HIDE DEF x
    <2> QED
      BY <1>0, <1>a, <2>1, <2>2, PasaTrabajo
  <1>8. CASE Devolver(h)
    <2>1. /\ hilo[h].en = "devolver" /\ ejecutando' = ejecutando
          /\ asignadas' = [asignadas EXCEPT ![hilo[h].pid][hilo[h].recurso] = @ - 1]
      BY <1>8 DEF Devolver
    <2>2. asignadas \in [Pids -> [Recursos -> 0..MAX_RETENIDAS]]
      BY <1>0 DEF TypeOK
    <2>3. CASE h = "despacho"
      <3>1. Pasa("despacho", Libre) /\ Libre \in Fichas /\ D.en = "devolver"
        BY <1>0, <1>8, <2>1, <2>3, PasosDeSumar, Ficha DEF D
      <3>2. Libre.en = "libre" /\ Libre.despertado = NULO
        BY DEF Libre
      <3>3. D.pid # E.pid
        BY <3>1, Distintos
      <3>4. E.en \in Trabaja => asignadas'[E.pid][E.recurso] > 0
        <4>1. E.en \in Trabaja =>
                E.recurso \in Recursos /\ E.pid \in Pids /\ asignadas[E.pid][E.recurso] > 0
          BY Ficha DEF Tipos, Actores, Trabaja, Sumando
        <4>2. asignadas' = [asignadas EXCEPT ![D.pid][D.recurso] = @ - 1]
          BY <2>1, <2>3 DEF D
        <4> QED
          BY <2>2, <3>3, <4>1, <4>2
      <3>5. Libre.en \notin Trabaja \cup Llevando \cup {"liberar", "leer"}
        BY <3>2 DEF Trabaja, Sumando, Llevando
      <3> QED
        BY <1>0, <3>1, <3>2, <3>4, <3>5, PasaDespacho
    <2>4. CASE h = "eliminacion"
      <3> DEFINE x == [E EXCEPT !.en = "liberar", !.recurso = NULO]
      <3>1. Pasa("eliminacion", x) /\ E \in Fichas /\ E.en = "devolver"
        BY <1>0, <1>8, <2>1, <2>4, PasosDeSumar, Ficha DEF E
      <3>2. /\ x \in Fichas /\ x.en = "liberar" /\ x.pid = E.pid /\ x.despertado = E.despertado
        BY <3>1 DEF Fichas, Lugares
      <3>3. E.pid \in Pids /\ E.despertado = NULO
        BY <3>1, Ficha DEF Llevando
      <3>4. asignadas' = [asignadas EXCEPT ![E.pid][E.recurso] = @ - 1]
        BY <2>1, <2>4 DEF E
      <3>5. D.en \in Trabaja \cup {"leer"} =>
              /\ D.pid # E.pid /\ D.pid \in Pids /\ D.recurso \in Recursos
              /\ asignadas'[D.pid][D.recurso] = asignadas[D.pid][D.recurso]
        <4>1. D.en \in Trabaja \cup {"leer"} =>
                D.pid # E.pid /\ D.pid \in Pids /\ D.recurso \in Recursos
          BY Distintos DEF Tipos, Actores, Trabaja, Sumando
        <4> QED
          BY <2>2, <3>4, <4>1
      <3>6. /\ D.en = "leer" => asignadas'[D.pid][D.recurso] < MAX_RETENIDAS
            /\ D.en \in Trabaja => asignadas'[D.pid][D.recurso] > 0
        BY <3>5 DEF Tipos, Actores
      <3>7. x.en \notin Trabaja \cup Llevando
        BY <3>2 DEF Trabaja, Sumando, Llevando
      <3> HIDE DEF x
      <3> QED
        BY <1>0, <2>1, <3>1, <3>2, <3>3, <3>6, <3>7, PasaEliminacion
    <2> QED
      BY <2>3, <2>4 DEF Hilos
  <1> QED
    BY <1>2, <1>3, <1>4, <1>5, <1>6, <1>7, <1>8 DEF SumarInstancia

\* The steps of one thread only.
Propios ==
  \/ \E r \in Recursos : Restar(r) \/ Signal(r) \/ Liberar(r)
  \/ LeerInstancias \/ Encolar \/ Bloquear \/ TomarExit \/ Terminar

LEMMA HiloPropio ==
  ASSUME Tipos, UnLugar, Propios
  PROVE  hilo' \in [Hilos -> Fichas] /\ Actores'
  <1>0. /\ D \in Fichas /\ E \in Fichas /\ Libre \in Fichas /\ NULO \notin Pids
        /\ TypeOK /\ Actores /\ ejecutando \in Pids \cup {NULO}
        /\ asignadas \in [Pids -> [Recursos -> 0..MAX_RETENIDAS]]
        /\ D = hilo["despacho"] /\ E = hilo["eliminacion"]
    BY Ficha DEF Tipos, TypeOK
  <1>a. /\ E.en \in Trabaja =>
             E.recurso \in Recursos /\ E.pid \in Pids /\ asignadas[E.pid][E.recurso] > 0
        /\ D.en = "leer" => asignadas[D.pid][D.recurso] < MAX_RETENIDAS
        /\ D.en \in Trabaja => asignadas[D.pid][D.recurso] > 0
        /\ D.en # "libre" => D.pid \in Pids /\ D.pid = ejecutando /\ D.recurso \in Recursos
    BY Ficha DEF Tipos, Actores, Trabaja, Sumando
  <1>b. /\ {"libre", "leer", "encolar", "bloquear", "sumar", "liberar", "devolver"} \subseteq Lugares
        /\ {"libre", "leer", "encolar", "bloquear", "sumar", "liberar", "devolver"} \cap Llevando = {}
        /\ {"libre", "leer", "encolar", "bloquear", "liberar"} \cap Trabaja = {}
        /\ {"sumar", "devolver"} \subseteq Trabaja
    BY DEF Lugares, Llevando, Trabaja, Sumando
  <1>1. ASSUME NEW r \in Recursos, Restar(r)
        PROVE  hilo' \in [Hilos -> Fichas] /\ Actores'
    <2> DEFINE x == [Libre EXCEPT !.en = "leer", !.pid = ejecutando, !.recurso = r]
    <2>1. /\ ejecutando \in Pids /\ UNCHANGED <<ejecutando, asignadas>>
          /\ asignadas[ejecutando][r] < MAX_RETENIDAS
      BY <1>0, <1>1 DEF Restar, Ejecuta
    <2>2. Pasa("despacho", x)
      BY <1>0, <1>1, PasosPropios
    <2>3. /\ x \in Fichas /\ x.en = "leer" /\ x.pid = ejecutando /\ x.recurso = r
          /\ x.despertado = NULO
      BY <1>b, <2>1 DEF Libre, Fichas
    <2> HIDE DEF x
    <2> QED
      BY <1>0, <1>a, <1>b, <2>1, <2>2, <2>3, PasaDespacho
  <1>2. ASSUME NEW r \in Recursos, Signal(r)
        PROVE  hilo' \in [Hilos -> Fichas] /\ Actores'
    <2> DEFINE x == [Libre EXCEPT !.en = "sumar", !.pid = ejecutando, !.recurso = r]
    <2>1. /\ ejecutando \in Pids /\ UNCHANGED <<ejecutando, asignadas>>
          /\ asignadas[ejecutando][r] > 0
      BY <1>0, <1>2 DEF Signal, Ejecuta
    <2>2. Pasa("despacho", x)
      BY <1>0, <1>2, PasosPropios
    <2>3. /\ x \in Fichas /\ x.en = "sumar" /\ x.pid = ejecutando /\ x.recurso = r
          /\ x.despertado = NULO
      BY <1>b, <2>1 DEF Libre, Fichas
    <2> HIDE DEF x
    <2> QED
      BY <1>0, <1>a, <1>b, <2>1, <2>2, <2>3, PasaDespacho
  <1>3. CASE LeerInstancias
    <2>1. /\ D.en = "leer" /\ UNCHANGED ejecutando
          /\ asignadas' = [asignadas EXCEPT ![D.pid][D.recurso] = @ + 1]
      BY <1>0, <1>3 DEF LeerInstancias
    <2>2. D.pid # E.pid /\ D.pid \in Pids
      BY <1>a, <2>1, Distintos
    <2>3. E.en \in Trabaja => asignadas'[E.pid][E.recurso] > 0
      BY <1>0, <1>a, <2>1, <2>2
    <2>4. CASE Pasa("despacho", Libre)
      <3>1. Libre.en = "libre" /\ Libre.despertado = NULO
        BY DEF Libre
      <3> QED
        BY <1>0, <1>b, <2>3, <2>4, <3>1, PasaDespacho
    <2>5. CASE Pasa("despacho", [D EXCEPT !.en = "encolar"])
      <3> DEFINE x == [D EXCEPT !.en = "encolar"]
      <3>1. /\ x \in Fichas /\ x.en = "encolar" /\ x.pid = D.pid /\ x.recurso = D.recurso
            /\ x.despertado = D.despertado
        BY <1>0, <1>b DEF Fichas
      <3>2. D.despertado = NULO
        BY <1>b, <2>1, Ficha
      <3>3. Pasa("despacho", x)
        BY <2>5
      <3> HIDE DEF x
      <3> QED
        BY <1>0, <1>a, <1>b, <2>1, <2>3, <3>1, <3>2, <3>3, PasaDespacho
    <2>6. Pasa("despacho", Libre) \/ Pasa("despacho", [D EXCEPT !.en = "encolar"])
      <3>1. \A r \in Recursos : LeerInstancias =>
              Pasa("despacho", Libre) \/ Pasa("despacho", [D EXCEPT !.en = "encolar"])
        BY <1>0, PasosPropios
      <3>2. D.recurso \in Recursos
        BY <1>a, <2>1
      <3> QED
        BY <1>3, <3>1, <3>2
    <2> QED
      BY <2>4, <2>5, <2>6
  <1>4. CASE Encolar
    <2> DEFINE x == [D EXCEPT !.en = "bloquear"]
    <2>1. D.en = "encolar" /\ UNCHANGED <<ejecutando, asignadas>> /\ D.recurso \in Recursos
      BY <1>0, <1>4, <1>a DEF Encolar
    <2>2. Pasa("despacho", x)
      BY <1>0, <1>4, <2>1, PasosPropios
    <2>3. /\ x \in Fichas /\ x.en = "bloquear" /\ x.pid = D.pid /\ x.recurso = D.recurso
          /\ x.despertado = D.despertado
      BY <1>0, <1>b DEF Fichas
    <2>4. D.despertado = NULO
      BY <1>b, <2>1, Ficha
    <2> HIDE DEF x
    <2> QED
      BY <1>0, <1>a, <1>b, <2>1, <2>2, <2>3, <2>4, PasaDespacho
  <1>5. CASE Bloquear
    <2>1. D.en = "bloquear" /\ UNCHANGED asignadas /\ D.recurso \in Recursos
      BY <1>0, <1>5, <1>a DEF Bloquear
    <2>2. Pasa("despacho", Libre)
      BY <1>0, <1>5, <2>1, PasosPropios
    <2>3. Libre.en = "libre" /\ Libre.despertado = NULO
      BY DEF Libre
    <2> QED
      BY <1>0, <1>a, <1>b, <2>1, <2>2, <2>3, PasaDespacho
  <1>6. CASE TomarExit
    <2> DEFINE c == Head(colaExit)
               x == [Libre EXCEPT !.en = "liberar", !.pid = c]
    <2>1. /\ UNCHANGED <<ejecutando, asignadas>>
          /\ hilo' = [hilo EXCEPT !["eliminacion"] = x]
      BY <1>6 DEF TomarExit
    <2>2. c \in Pids
      <3>1. colaExit # <<>> /\ colaExit \in Seq(Pids)
        BY <1>0, <1>6 DEF TomarExit, TypeOK
      <3> QED
        BY <3>1, Cola
    <2> HIDE DEF c
    <2>3. x \in Fichas /\ x.en = "liberar" /\ x.pid = c /\ x.despertado = NULO
      BY <1>b, <2>2 DEF Libre, Fichas
    <2> HIDE DEF x
    <2>4. Pasa("eliminacion", x)
      BY <2>1 DEF Pasa
    <2> QED
      BY <1>0, <1>a, <1>b, <2>1, <2>2, <2>3, <2>4, PasaEliminacion
  <1>7. ASSUME NEW r \in Recursos, Liberar(r)
        PROVE  hilo' \in [Hilos -> Fichas] /\ Actores'
    <2>1. /\ UNCHANGED <<ejecutando, asignadas>> /\ E.en = "liberar"
          /\ asignadas[E.pid][r] > 0
      BY <1>0, <1>7 DEF Liberar
    <2>2. E.pid \in Pids /\ E.despertado = NULO
      BY <1>b, <2>1, Ficha
    <2>3. ASSUME NEW lugar \in {"sumar", "devolver"},
                 Pasa("eliminacion", [E EXCEPT !.recurso = r, !.en = lugar])
          PROVE  hilo' \in [Hilos -> Fichas] /\ Actores'
      <3> DEFINE x == [E EXCEPT !.recurso = r, !.en = lugar]
      <3>1. /\ x \in Fichas /\ x.en = lugar /\ x.pid = E.pid /\ x.recurso = r
            /\ x.despertado = E.despertado
        BY <1>0, <1>b DEF Fichas
      <3>2. Pasa("eliminacion", x)
        BY <2>3
      <3>3. x.en \notin {"libre", "leer", "encolar", "bloquear"}
        BY <3>1
      <3>4. x.en \in Trabaja /\ x.en \notin Llevando
        BY <1>b, <3>1
      <3> HIDE DEF x
      <3> QED
        BY <1>0, <1>a, <2>1, <2>2, <3>1, <3>2, <3>3, <3>4, PasaEliminacion
    <2>4. \/ Pasa("eliminacion", [E EXCEPT !.recurso = r, !.en = "sumar"])
          \/ Pasa("eliminacion", [E EXCEPT !.recurso = r, !.en = "devolver"])
      BY <1>0, <1>7, PasosPropios
    <2> QED
      BY <2>3, <2>4
  <1>8. CASE Terminar
    <2>1. UNCHANGED <<ejecutando, asignadas>> /\ Pasa("eliminacion", Libre)
      BY <1>8 DEF Terminar, Pasa
    <2>2. Libre.en = "libre" /\ Libre.despertado = NULO /\ Libre.pid = NULO
      BY DEF Libre
    <2> QED
      BY <1>0, <1>a, <1>b, <2>1, <2>2, PasaEliminacion
  <1> QED
    BY <1>1, <1>2, <1>3, <1>4, <1>5, <1>6, <1>7, <1>8 DEF Propios

(* Outside this code the process in EXEC changes only when no request of
   its is being served.                                                    *)
LEMMA HiloFuera ==
  ASSUME Tipos, Fuera \/ UNCHANGED vars
  PROVE  /\ UNCHANGED <<hilo, instancias, asignadas, cola>>
         /\ D.en # "libre" => ejecutando' = ejecutando
         /\ hilo' \in [Hilos -> Fichas] /\ Actores'
  <1>1. UNCHANGED <<hilo, instancias, asignadas, cola>>
    BY FueraNoPasa DEF vars
  <1>2. D.en # "libre" => ejecutando' = ejecutando
    <2>1. CASE UNCHANGED vars
      BY <2>1 DEF vars
    <2>2. ASSUME NEW p \in Pids, Crear(p) \/ TerminarIo(p) PROVE ejecutando' = ejecutando
      BY <2>2 DEF Crear, TerminarIo
    <2>3. Despachar => D.en = "libre"
      BY Ficha DEF Despachar, Tipos, Actores
    <2>4. Desalojar \/ Salir \/ PedirIo => D.en = "libre"
      BY DEF Desalojar, Salir, PedirIo, Ejecuta, D
    <2> QED
      BY <2>1, <2>2, <2>3, <2>4 DEF Fuera
  <1>3. D' = D /\ E' = E
    BY <1>1 DEF D, E
  <1>4. hilo' \in [Hilos -> Fichas]
    BY <1>1, Ficha DEF Tipos, TypeOK, Fichas, Lugares
  <1>5. Actores'
    BY <1>1, <1>2, <1>3 DEF Tipos, Actores
  <1> QED
    BY <1>1, <1>2, <1>4, <1>5

LEMMA PasoListas ==
  ASSUME Tipos, UnLugar, [Next]_vars
  PROVE  /\ bloqueados' \in Seq(Pids) /\ colaReady' \in Seq(Pids) /\ colaExit' \in Seq(Pids)
         /\ enIo' \subseteq Pids /\ pedidosIo' \in Nat /\ listaRota' \in BOOLEAN
         /\ ejecutando' \in Pids \cup {NULO}
         /\ creados' \subseteq Pids /\ terminados' \subseteq creados'
  <1> DEFINE Bien ==
        /\ bloqueados \in Seq(Pids) /\ colaReady \in Seq(Pids) /\ colaExit \in Seq(Pids)
        /\ enIo \subseteq Pids /\ pedidosIo \in Nat /\ listaRota \in BOOLEAN
        /\ ejecutando \in Pids \cup {NULO}
        /\ creados \subseteq Pids /\ terminados \subseteq creados
  <1>0. Bien
    BY DEF Tipos, TypeOK
  <1>1. CASE UNCHANGED vars
    BY <1>0, <1>1 DEF vars, lista
  <1>2. ASSUME NEW p \in Pids, Crear(p) PROVE Bien'
    <2>1. Append(colaReady, p) \in Seq(Pids)
      BY <1>0, Cola
    <2> QED
      BY <1>0, <1>2, <2>1 DEF Crear, lista
  <1>3. ASSUME NEW p \in Pids, TerminarIo(p) PROVE Bien'
    <2>1. Append(colaReady, p) \in Seq(Pids) /\ Sacar(bloqueados, p) \in Seq(Pids)
      BY <1>0, Cola, SacaUno
    <2> QED
      BY <1>0, <1>3, <2>1 DEF TerminarIo
  <1>4. CASE Despachar
    <2>1. Head(colaReady) \in Pids /\ Tail(colaReady) \in Seq(Pids)
      BY <1>0, <1>4, Cola DEF Despachar
    <2> QED
      BY <1>0, <1>4, <2>1 DEF Despachar, lista
  <1>5. CASE Desalojar \/ Salir \/ PedirIo
    <2>1. ejecutando \in Pids
      BY <1>0, <1>5 DEF Desalojar, Salir, PedirIo, Ejecuta
    <2>2. /\ Append(colaReady, ejecutando) \in Seq(Pids)
          /\ Append(colaExit, ejecutando) \in Seq(Pids)
          /\ Append(bloqueados, ejecutando) \in Seq(Pids)
      BY <1>0, <2>1, Cola
    <2>3. Desalojar => Bien'
      BY <1>0, <2>1, <2>2 DEF Desalojar, lista
    <2>4. Salir => Bien'
      BY <1>0, <2>1, <2>2 DEF Salir, lista
    <2>5. PedirIo => Bien'
      BY <1>0, <2>1, <2>2 DEF PedirIo, lista
    <2> QED
      BY <1>5, <2>3, <2>4, <2>5
  <1>6. ASSUME NEW r \in Recursos, Restar(r) \/ Signal(r) \/ Liberar(r) PROVE Bien'
    BY <1>0, <1>6 DEF Restar, Signal, Liberar, lista
  <1>7. CASE LeerInstancias \/ Encolar
    BY <1>0, <1>7 DEF LeerInstancias, Encolar, lista
  <1>8. CASE Bloquear
    <2>1. D.pid \in Pids /\ Append(bloqueados, D.pid) \in Seq(Pids)
      <3>1. D.pid \in Pids
        BY <1>8 DEF Tipos, Actores, Bloquear, D
      <3> QED
        BY <1>0, <3>1, Cola
    <2> QED
      BY <1>0, <1>8, <2>1 DEF Bloquear, D
  <1>9. CASE TomarExit
    <2>1. Tail(colaExit) \in Seq(Pids)
      BY <1>0, <1>9, Cola DEF TomarExit
    <2> QED
      BY <1>0, <1>9, <2>1 DEF TomarExit, lista
  <1>10. CASE Terminar
    <2>1. E.en = "liberar" /\ E.pid \in Pids
      BY <1>10, Ficha DEF Terminar
    <2> DEFINE p == E.pid
    <2>2. /\ Veces(colaReady, p) \in Nat /\ Veces(colaExit, p) \in Nat
      BY <1>0, Aparece
    <2>3. Bit(E.pid = p) = 1
      BY DEF Bit
    <2>4. /\ Bit(p \in enIo) \in 0 .. 1 /\ Bit(EnCola(p)) \in 0 .. 1 /\ Bit(p \in creados) \in 0 .. 1
          /\ Bit(D.despertado = p) \in 0 .. 1 /\ Bit(E.despertado = p) \in 0 .. 1
          /\ Bit(p \in terminados) \in 0 .. 1 /\ Bit(EnExec(p)) \in 0 .. 1
      BY DEF Bit
    <2> HIDE DEF p
    <2>5. Bit(p \in creados) = 1
      BY <2>1, <2>2, <2>3, <2>4 DEF UnLugar, Suma, p
    <2>6. E.pid \in creados
      BY <2>5 DEF Bit, p
    <2> QED
      BY <1>0, <1>10, <2>1, <2>6 DEF Terminar, lista, E
  <1>11. ASSUME NEW h \in Hilos, SumarInstancia(h) PROVE Bien'
    <2>1. CASE Sumar(h) \/ Revisar(h) \/ Despertar(h) \/ BuscarIndice(h) \/ Devolver(h)
      BY <1>0, <2>1 DEF Sumar, Revisar, Despertar, BuscarIndice, Devolver, lista
    <2>2. CASE SacarDeBloqueados(h)
      <3>1. \A i \in DOMAIN bloqueados : RemoveAt(bloqueados, i) \in Seq(Pids)
        BY <1>0, SinUno
      <3>2. bloqueados' \in Seq(Pids)
        BY <1>0, <2>2, <3>1 DEF SacarDeBloqueados
      <3>3. listaRota' \in BOOLEAN
        BY <1>0, <2>2 DEF SacarDeBloqueados
      <3> QED
        BY <1>0, <2>2, <3>2, <3>3 DEF SacarDeBloqueados
    <2>3. CASE AgregarAReady(h)
      <3>1. hilo[h].despertado \in Pids
        BY <2>3 DEF AgregarAReady, Tipos, Actores, Llevando
      <3>2. Append(colaReady, hilo[h].despertado) \in Seq(Pids)
        BY <1>0, <3>1, Cola
      <3> QED
        BY <1>0, <2>3, <3>2 DEF AgregarAReady, lista
    <2> QED
      BY <1>11, <2>1, <2>2, <2>3 DEF SumarInstancia
  <1>12. Bien'
    BY <1>1, <1>2, <1>3, <1>4, <1>5, <1>6, <1>7, <1>8, <1>9, <1>10, <1>11 DEF Next
  <1> QED
    BY <1>12

LEMMA PasoTipos ==
  ASSUME Tipos, UnLugar, [Next]_vars
  PROVE  Tipos'
  <1>1. hilo' \in [Hilos -> Fichas] /\ Actores'
    <2>1. \/ Fuera \/ UNCHANGED vars
          \/ Propios
          \/ \E h \in Hilos : SumarInstancia(h)
      BY DEF Next, Fuera, Propios
    <2> QED
      BY <2>1, HiloFuera, HiloPropio, HiloAlSumar
  <1>2. TypeOK'
    BY <1>1, PasoCuentas, PasoListas DEF TypeOK, Fichas, Lugares
  <1> QED
    BY <1>1, <1>2 DEF Tipos

-----------------------------------------------------------------------------
(* Each process in one place.                                              *)

LEMMA Numeros ==
  ASSUME Tipos, NEW p \in Pids
  PROVE  /\ Veces(colaReady, p) \in Nat /\ Veces(colaExit, p) \in Nat
         /\ Bit(EnExec(p)) \in 0 .. 1 /\ Bit(p \in enIo) \in 0 .. 1 /\ Bit(EnCola(p)) \in 0 .. 1
         /\ Bit(D.despertado = p) \in 0 .. 1 /\ Bit(E.despertado = p) \in 0 .. 1
         /\ Bit(E.pid = p) \in 0 .. 1 /\ Bit(p \in terminados) \in 0 .. 1
         /\ Bit(p \in creados) \in 0 .. 1
  <1>1. Veces(colaReady, p) \in Nat /\ Veces(colaExit, p) \in Nat
    BY Aparece DEF Tipos, TypeOK
  <1> QED
    BY <1>1 DEF Bit

(* In a place, and so in no queue of a resource.                           *)
LEMMA NoEspera ==
  ASSUME Tipos, UnLugar, NEW p \in Pids,
         EnExec(p) \/ E.pid = p \/ p \in enIo \/ p \in Elementos(colaReady)
         \/ p \in Elementos(colaExit) \/ D.despertado = p \/ E.despertado = p
  PROVE  ~EnCola(p)
  <1>1. /\ p \in Elementos(colaReady) => Veces(colaReady, p) > 0
        /\ p \in Elementos(colaExit) => Veces(colaExit, p) > 0
    BY Aparece DEF Tipos, TypeOK
  <1>2. \/ Bit(EnExec(p)) = 1 \/ Bit(E.pid = p) = 1 \/ Bit(p \in enIo) = 1
        \/ Veces(colaReady, p) > 0 \/ Veces(colaExit, p) > 0
        \/ Bit(D.despertado = p) = 1 \/ Bit(E.despertado = p) = 1
    BY <1>1 DEF Bit
  <1>3. Bit(EnCola(p)) = 0
    BY <1>2, Numeros DEF UnLugar, Suma
  <1> QED
    BY <1>3 DEF Bit

\* The threads hold the processes they held.
Fijos ==
  /\ D'.despertado = D.despertado /\ E'.despertado = E.despertado /\ E'.pid = E.pid
  /\ PorEntrar' = PorEntrar

LEMMA Pasan ==
  ASSUME Tipos, NEW h \in Hilos, NEW x, Pasa(h, x)
  PROVE  /\ h = "despacho" => D' = x /\ E' = E
         /\ h = "eliminacion" => E' = x /\ D' = D
  <1>1. hilo \in [Hilos -> Fichas] /\ Hilos = {"despacho", "eliminacion"}
    BY DEF Tipos, TypeOK, Fichas, Lugares, Hilos
  <1> QED
    BY <1>1 DEF Pasa, D, E

LEMMA SiguenFijos ==
  ASSUME Tipos, NEW h \in Hilos, NEW x, Pasa(h, x), x.despertado = hilo[h].despertado,
         h = "despacho" => x.en # "bloquear" /\ D.en # "bloquear",
         h = "eliminacion" => x.pid = E.pid
  PROVE  Fijos
  <1>1. CASE h = "despacho"
    BY <1>1, Pasan DEF Fijos, PorEntrar, D
  <1>2. CASE h = "eliminacion"
    BY <1>2, Pasan DEF Fijos, PorEntrar, E
  <1> QED
    BY <1>1, <1>2 DEF Hilos

LEMMA Quietos ==
  ASSUME UnLugar, UnaEspera, Fijos,
         UNCHANGED <<colaReady, colaExit, ejecutando, cola, enIo, creados, terminados>>
  PROVE  UnLugar' /\ UnaEspera'
  <1>1. UnaEspera'
    BY DEF UnaEspera
  <1>2. ASSUME NEW p \in Pids PROVE EnExec(p)' = EnExec(p) /\ EnCola(p)' = EnCola(p)
    BY DEF EnExec, EnCola, Fijos
  <1>3. ASSUME NEW p \in Pids
        PROVE  Suma(p)' = Bit(p \in creados)'
    BY <1>2 DEF UnLugar, Suma, Fijos
  <1> QED
    BY <1>1, <1>3 DEF UnLugar

(* The steps that move no process.                                         *)
LEMMA SinMover ==
  ASSUME Tipos, UnLugar, UnaEspera,
         \/ UNCHANGED vars
         \/ \E r \in Recursos : Restar(r) \/ Signal(r) \/ Liberar(r)
         \/ LeerInstancias
         \/ \E h \in Hilos : Sumar(h) \/ Revisar(h) \/ BuscarIndice(h) \/ SacarDeBloqueados(h)
                             \/ (Despertar(h) /\ UNCHANGED cola) \/ Devolver(h)
  PROVE  UnLugar' /\ UnaEspera'
  <1> DEFINE Listas == UNCHANGED <<colaReady, colaExit, ejecutando, cola, enIo, creados,
                                   terminados>>
  <1>0. /\ D \in Fichas /\ E \in Fichas /\ D = hilo["despacho"] /\ E = hilo["eliminacion"]
        /\ "despacho" \in Hilos /\ "eliminacion" \in Hilos /\ TypeOK /\ Actores
        /\ D.en \notin Llevando => D.despertado = NULO
        /\ E.en \notin Llevando => E.despertado = NULO
        /\ \A h \in Hilos : hilo[h] \in Fichas
    BY Ficha DEF Tipos
  <1>1. CASE UNCHANGED vars
    BY <1>1, Quietos DEF vars, lista, Fijos, D, E, PorEntrar
  <1>2. ASSUME NEW r \in Recursos, Restar(r) \/ Signal(r) PROVE Fijos /\ Listas
    <2>1. Listas /\ D.en = "libre"
      BY <1>0, <1>2 DEF Restar, Signal, Ejecuta, lista
    <2>2. PICK lugar \in {"leer", "sumar"} :
            Pasa("despacho", [Libre EXCEPT !.en = lugar, !.pid = ejecutando, !.recurso = r])
      BY <1>0, <1>2, PasosPropios
    <2> DEFINE x == [Libre EXCEPT !.en = lugar, !.pid = ejecutando, !.recurso = r]
    <2>3. x.despertado = NULO /\ x.en # "bloquear" /\ Pasa("despacho", x)
      BY <2>2 DEF Libre
    <2>4. D.despertado = NULO /\ D.en # "bloquear"
      BY <1>0, <2>1 DEF Llevando
    <2> HIDE DEF x
    <2> QED
      BY <1>0, <2>1, <2>3, <2>4, SiguenFijos
  <1>3. ASSUME NEW r \in Recursos, Liberar(r) PROVE Fijos /\ Listas
    <2>1. /\ E.en = "liberar" /\ cola' = [cola EXCEPT ![r] = Sacar(cola[r], E.pid)]
          /\ UNCHANGED <<colaReady, colaExit, ejecutando, enIo, creados, terminados>>
      BY <1>0, <1>3 DEF Liberar, lista
    <2>2. E.pid \in Pids /\ ~EnCola(E.pid)
      BY <2>1, Ficha, NoEspera
    <2>3. cola \in [Recursos -> Seq(Pids)] /\ E.pid \notin Elementos(cola[r])
      BY <1>0, <2>2 DEF TypeOK, EnCola
    <2>4. Sacar(cola[r], E.pid) = cola[r]
      BY <2>3, SacaNada
    <2>5. cola' = cola
      BY <2>1, <2>3, <2>4
    <2>6. PICK lugar : Pasa("eliminacion", [E EXCEPT !.recurso = r, !.en = lugar])
      BY <1>0, <1>3, PasosPropios
    <2> DEFINE x == [E EXCEPT !.recurso = r, !.en = lugar]
    <2>7. x.despertado = E.despertado /\ x.pid = E.pid /\ Pasa("eliminacion", x)
      BY <1>0, <2>6 DEF Fichas
    <2> HIDE DEF x
    <2> QED
      BY <1>0, <2>1, <2>5, <2>7, SiguenFijos
  <1>4. CASE LeerInstancias
    <2>1. Listas /\ D.en = "leer"
      BY <1>0, <1>4 DEF LeerInstancias, lista
    <2>2. D.despertado = NULO /\ D.en # "bloquear" /\ D.recurso \in Recursos
      BY <1>0, <2>1 DEF Llevando, Actores
    <2>3. Pasa("despacho", [D EXCEPT !.en = "encolar"]) \/ Pasa("despacho", Libre)
      BY <1>0, <1>4, <2>2, PasosPropios
    <2>4. CASE Pasa("despacho", Libre)
      <3>1. Libre.despertado = NULO /\ Libre.en # "bloquear"
        BY DEF Libre
      <3> QED
        BY <1>0, <2>1, <2>2, <2>4, <3>1, SiguenFijos, Quietos
    <2>5. CASE Pasa("despacho", [D EXCEPT !.en = "encolar"])
      <3> DEFINE x == [D EXCEPT !.en = "encolar"]
      <3>1. x.despertado = D.despertado /\ x.en # "bloquear" /\ Pasa("despacho", x)
        BY <1>0, <2>5 DEF Fichas
      <3> HIDE DEF x
      <3> QED
        BY <1>0, <2>1, <2>2, <3>1, SiguenFijos, Quietos
    <2> QED
      BY <2>3, <2>4, <2>5
  <1>5. ASSUME NEW h \in Hilos, NEW lugar, NEW i, hilo[h].en \in Trabaja,
               Pasa(h, [hilo[h] EXCEPT !.en = lugar]) \/ Pasa(h, [hilo[h] EXCEPT !.en = lugar, !.indice = i]),
               lugar \in Trabaja
        PROVE  Fijos
    <2>1. PICK x : Pasa(h, x) /\ x \in {[hilo[h] EXCEPT !.en = lugar],
                                        [hilo[h] EXCEPT !.en = lugar, !.indice = i]}
      BY <1>5
    <2>2. x.despertado = hilo[h].despertado /\ x.pid = hilo[h].pid /\ x.en = lugar
      BY <1>0, <2>1 DEF Fichas
    <2>3. lugar # "bloquear" /\ (h = "despacho" => D.en # "bloquear")
      BY <1>0, <1>5 DEF Trabaja, Sumando
    <2> QED
      BY <1>0, <2>1, <2>2, <2>3, SiguenFijos
  <1>6. ASSUME NEW h \in Hilos,
               Sumar(h) \/ Revisar(h) \/ BuscarIndice(h) \/ SacarDeBloqueados(h)
               \/ (Despertar(h) /\ UNCHANGED cola)
        PROVE  Fijos /\ Listas
    <2>0. {"sumar", "revisar", "despertar", "buscar", "sacar", "agregar", "devolver"} \subseteq Trabaja
      BY DEF Trabaja, Sumando
    <2>1. CASE Sumar(h)
      BY <1>0, <1>5, <2>0, <2>1, PasosDeSumar DEF Sumar, lista
    <2>2. CASE Revisar(h)
      BY <1>0, <1>5, <2>0, <2>2, PasosDeSumar DEF Revisar, lista
    <2>3. CASE BuscarIndice(h)
      BY <1>0, <1>5, <2>0, <2>3, PasosDeSumar DEF BuscarIndice, lista
    <2>4. CASE SacarDeBloqueados(h)
      BY <1>0, <1>5, <2>0, <2>4, PasosDeSumar DEF SacarDeBloqueados, lista
    <2>5. CASE Despertar(h) /\ UNCHANGED cola
      <3>1. hilo[h].en = "despertar" /\ hilo[h].recurso \in Recursos /\ Listas
        <4>1. hilo[h].en = "despertar" /\ Listas
          BY <2>5 DEF Despertar, lista
        <4> QED
          BY <1>0, <2>0, <4>1 DEF Actores, Hilos
      <3>2. cola[hilo[h].recurso] # <<>> /\ cola' = [cola EXCEPT ![hilo[h].recurso] = Tail(@)] => FALSE
        <4>1. cola \in [Recursos -> Seq(Pids)]
          BY <1>0 DEF TypeOK
        <4>2. cola[hilo[h].recurso] # <<>> => Tail(cola[hilo[h].recurso]) # cola[hilo[h].recurso]
          <5>1. cola[hilo[h].recurso] \in Seq(Pids)
            BY <3>1, <4>1
          <5>2. ASSUME NEW s \in Seq(Pids), s # <<>> PROVE Tail(s) # s
            <6> DEFINE t == Tail(s)
            <6>1. t \in Seq(Pids) /\ Len(s) = Len(t) + 1
              BY <5>2, Cola
            <6> HIDE DEF t
            <6>2. Len(t) \in Nat
              BY <6>1, Cola
            <6>3. t # s
              BY <6>1, <6>2
            <6> QED
              BY <6>3 DEF t
          <5> QED
            BY <5>1, <5>2
        <4> QED
          BY <2>5, <3>1, <4>1, <4>2
      <3>3. Pasa(h, [hilo[h] EXCEPT !.en = "devolver"])
        BY <1>0, <2>5, <3>2, PasosDeSumar
      <3> QED
        BY <1>5, <2>0, <3>1, <3>3
    <2> QED
      BY <1>6, <2>1, <2>2, <2>3, <2>4, <2>5
  <1>7. ASSUME NEW h \in Hilos, Devolver(h) PROVE Fijos /\ Listas
    <2>1. hilo[h].en = "devolver" /\ Listas
      BY <1>7 DEF Devolver, lista
    <2>2. CASE h = "despacho"
      <3>1. Pasa("despacho", Libre) /\ Libre.despertado = NULO /\ Libre.en # "bloquear"
        BY <1>0, <1>7, <2>2, PasosDeSumar DEF Libre
      <3>2. D.despertado = NULO /\ D.en # "bloquear"
        BY <1>0, <2>1, <2>2 DEF Llevando
      <3> QED
        BY <1>0, <2>1, <3>1, <3>2, SiguenFijos
    <2>3. CASE h = "eliminacion"
      <3> DEFINE x == [E EXCEPT !.en = "liberar", !.recurso = NULO]
      <3>1. Pasa("eliminacion", x) /\ x.despertado = E.despertado /\ x.pid = E.pid
        BY <1>0, <1>7, <2>3, PasosDeSumar DEF Fichas
      <3> HIDE DEF x
      <3> QED
        BY <1>0, <2>1, <3>1, SiguenFijos
    <2> QED
      BY <2>2, <2>3 DEF Hilos
  <1>8. CASE Fijos /\ Listas
    BY <1>8, Quietos
  <1> HIDE DEF Listas
  <1> QED
    BY <1>1, <1>2, <1>3, <1>4, <1>6, <1>7, <1>8

LEMMA MuevenFuera ==
  ASSUME Tipos, UnLugar, UnaEspera, Fuera
  PROVE  UnLugar' /\ UnaEspera'
  <1>0. /\ UNCHANGED <<hilo, cola>> /\ D' = D /\ E' = E /\ PorEntrar' = PorEntrar
        /\ \A p \in Pids : EnCola(p)' = EnCola(p)
        /\ UnaEspera'
    BY FueraNoPasa DEF D, E, PorEntrar, EnCola, UnaEspera
  <1>a. /\ colaReady \in Seq(Pids) /\ colaExit \in Seq(Pids) /\ NULO \notin Pids
        /\ D = hilo["despacho"] /\ ejecutando \in Pids \cup {NULO}
    BY Ficha DEF Tipos, TypeOK
  <1>b. D.en = "libre" => ~PorEntrar
    BY DEF PorEntrar
  <1>1. ASSUME NEW q \in Pids, Crear(q), NEW p \in Pids PROVE Suma(p)' = Bit(p \in creados)'
    <2>1. Veces(colaReady', p) = Veces(colaReady, p) + Bit(q = p)
      BY <1>a, <1>1, Entra DEF Crear
    <2>2. Bit(p \in creados)' = Bit(p \in creados) + Bit(q = p)
      BY <1>1 DEF Crear, Bit
    <2>3. Bit(q = p) \in 0 .. 1
      BY DEF Bit
    <2>4. EnExec(p)' = EnExec(p)
      BY <1>0, <1>1 DEF Crear, EnExec
    <2>5. colaExit' = colaExit /\ enIo' = enIo /\ terminados' = terminados
      BY <1>1 DEF Crear, lista
    <2> QED
      BY <1>0, <2>1, <2>2, <2>3, <2>4, <2>5, Numeros DEF UnLugar, Suma
  <1>2. ASSUME NEW q \in Pids, TerminarIo(q), NEW p \in Pids PROVE Suma(p)' = Bit(p \in creados)'
    <2>1. Veces(colaReady', p) = Veces(colaReady, p) + Bit(q = p)
      BY <1>a, <1>2, Entra DEF TerminarIo
    <2>2. Bit(p \in enIo) = Bit(p \in enIo') + Bit(q = p)
      BY <1>2 DEF TerminarIo, Bit
    <2>3. Bit(q = p) \in 0 .. 1 /\ Bit(p \in enIo') \in 0 .. 1
      BY DEF Bit
    <2>4. EnExec(p)' = EnExec(p)
      BY <1>0, <1>2 DEF TerminarIo, EnExec
    <2>5. colaExit' = colaExit /\ creados' = creados /\ terminados' = terminados
      BY <1>2 DEF TerminarIo
    <2> QED
      BY <1>0, <2>1, <2>2, <2>3, <2>4, <2>5, Numeros DEF UnLugar, Suma
  <1>3. ASSUME Despachar, NEW p \in Pids PROVE Suma(p)' = Bit(p \in creados)'
    <2>1. colaReady' = Tail(colaReady) /\ colaReady # <<>> /\ ejecutando' = Head(colaReady)
      BY <1>3 DEF Despachar
    <2>2. Veces(colaReady, p) = Veces(colaReady', p) + Bit(Head(colaReady) = p)
      BY <1>a, <2>1, Sale
    <2>3. ~PorEntrar
      <3>1. D.en = "libre"
        BY <1>3, Ficha DEF Despachar, Tipos, Actores
      <3> QED
        BY <1>b, <3>1
    <2>4. Bit(EnExec(p)) = 0 /\ Bit(EnExec(p))' = Bit(Head(colaReady) = p)
      BY <1>a, <1>0, <1>3, <2>1, <2>3 DEF Despachar, EnExec, Bit
    <2>5. /\ colaExit' = colaExit /\ creados' = creados /\ terminados' = terminados
          /\ enIo' = enIo
      BY <1>3 DEF Despachar, lista
    <2>6. Veces(colaReady', p) \in Nat
      <3>1. colaReady' \in Seq(Pids)
        BY <1>a, <2>1
      <3> QED
        BY <3>1, Aparece
    <2>7. Bit(Head(colaReady) = p) \in 0 .. 1
      BY DEF Bit
    <2> QED
      BY <1>0, <2>2, <2>4, <2>5, <2>6, <2>7, Numeros DEF UnLugar, Suma
  <1>4. ASSUME Desalojar \/ Salir \/ PedirIo, NEW p \in Pids
        PROVE  Suma(p)' = Bit(p \in creados)'
    <2>1. /\ ejecutando \in Pids /\ D.en = "libre" /\ ejecutando' = NULO
          /\ creados' = creados /\ terminados' = terminados
      BY <1>a, <1>4 DEF Desalojar, Salir, PedirIo, Ejecuta
    <2>2. Bit(EnExec(p)) = Bit(ejecutando = p) /\ Bit(EnExec(p))' = 0
      BY <1>a, <1>b, <1>0, <2>1 DEF EnExec, Bit
    <2>3. Bit(ejecutando = p) \in 0 .. 1
      BY DEF Bit
    <2>4. CASE Desalojar
      <3>1. Veces(colaReady', p) = Veces(colaReady, p) + Bit(ejecutando = p)
        BY <1>a, <2>1, <2>4, Entra DEF Desalojar
      <3>2. colaExit' = colaExit /\ enIo' = enIo
        BY <2>4 DEF Desalojar, lista
      <3> QED
        BY <1>0, <2>1, <2>2, <2>3, <3>1, <3>2, Numeros DEF UnLugar, Suma
    <2>5. CASE Salir
      <3>1. Veces(colaExit', p) = Veces(colaExit, p) + Bit(ejecutando = p)
        BY <1>a, <2>1, <2>5, Entra DEF Salir
      <3>2. colaReady' = colaReady /\ enIo' = enIo
        BY <2>5 DEF Salir, lista
      <3> QED
        BY <1>0, <2>1, <2>2, <2>3, <3>1, <3>2, Numeros DEF UnLugar, Suma
    <2>6. CASE PedirIo
      <3>1. /\ colaReady' = colaReady /\ colaExit' = colaExit
            /\ enIo' = enIo \cup {ejecutando}
        BY <2>6 DEF PedirIo
      <3>2. ejecutando = p => p \notin enIo
        <4>1. ejecutando = p => Bit(EnExec(p)) = 1
          BY <2>2 DEF Bit
        <4>2. ejecutando = p => Bit(p \in enIo) = 0
          BY <4>1, Numeros DEF UnLugar, Suma
        <4> QED
          BY <4>2 DEF Bit
      <3>3. Bit(p \in enIo') = Bit(p \in enIo) + Bit(ejecutando = p)
        BY <3>1, <3>2 DEF Bit
      <3> QED
        BY <1>0, <2>1, <2>2, <2>3, <3>1, <3>3, Numeros DEF UnLugar, Suma
    <2> QED
      BY <1>4, <2>4, <2>5, <2>6
  <1>5. \A p \in Pids : Suma(p)' = Bit(p \in creados)'
    BY <1>1, <1>2, <1>3, <1>4 DEF Fuera
  <1> QED
    BY <1>0, <1>5 DEF UnLugar

(* The process of a WAIT goes from EXEC to the queue of its resource.      *)
LEMMA MueveEncolar ==
  ASSUME Tipos, UnLugar, UnaEspera, Encolar
  PROVE  UnLugar' /\ UnaEspera'
  <1> DEFINE q == D.pid
             s == D.recurso
  <1>0. /\ D \in Fichas /\ D.en = "encolar" /\ q \in Pids /\ q = ejecutando /\ s \in Recursos
        /\ cola \in [Recursos -> Seq(Pids)] /\ ~PorEntrar
        /\ cola' = [cola EXCEPT ![s] = Append(cola[s], q)]
        /\ UNCHANGED <<colaReady, colaExit, ejecutando, enIo, creados, terminados>>
    BY Ficha DEF Encolar, Tipos, TypeOK, Actores, PorEntrar, lista
  <1> DEFINE x == [D EXCEPT !.en = "bloquear"]
  <1>1. Pasa("despacho", x) /\ x.despertado = D.despertado /\ x.en = "bloquear"
    BY <1>0, PasosPropios DEF Tipos, Fichas
  <1> HIDE DEF q, s, x
  <1>2. /\ D'.despertado = D.despertado /\ E' = E /\ PorEntrar'
    <2>1. "despacho" \in Hilos
      BY DEF Hilos
    <2>2. D' = x /\ E' = E
      BY <1>1, <2>1, Pasan
    <2> QED
      BY <1>1, <2>2 DEF PorEntrar
  <1>3. EnExec(q) /\ ~EnCola(q)
    <2>1. EnExec(q)
      BY <1>0 DEF EnExec
    <2> QED
      BY <1>0, <2>1, NoEspera
  <1>4. \A p \in Pids, r \in Recursos : Veces(cola'[r], p) = Veces(cola[r], p) + Bit(r = s /\ q = p)
    <2>1. ASSUME NEW p \in Pids PROVE Veces(cola'[s], p) = Veces(cola[s], p) + Bit(q = p)
      BY <1>0, Entra
    <2>2. ASSUME NEW p \in Pids, NEW r \in Recursos
          PROVE  Veces(cola'[r], p) = Veces(cola[r], p) + Bit(r = s /\ q = p)
      <3>1. Veces(cola[r], p) \in Nat
        BY <1>0, Aparece
      <3>2. r # s => cola'[r] = cola[r]
        BY <1>0
      <3> QED
        BY <2>1, <3>1, <3>2 DEF Bit
    <2> QED
      BY <2>2
  <1>5. \A p \in Pids, r \in Recursos :
          p \in Elementos(cola'[r]) <=> p \in Elementos(cola[r]) \/ (r = s /\ q = p)
    <2>1. cola' \in [Recursos -> Seq(Pids)]
      <3>1. Append(cola[s], q) \in Seq(Pids)
        BY <1>0, Cola
      <3> QED
        BY <1>0, <3>1
    <2>2. ASSUME NEW p \in Pids, NEW r \in Recursos
          PROVE  p \in Elementos(cola'[r]) <=> p \in Elementos(cola[r]) \/ (r = s /\ q = p)
      <3>1. Veces(cola[r], p) \in Nat /\ (Veces(cola[r], p) > 0 <=> p \in Elementos(cola[r]))
        BY <1>0, Aparece
      <3>2. Veces(cola'[r], p) > 0 <=> p \in Elementos(cola'[r])
        BY <2>1, Aparece
      <3>3. Bit(r = s /\ q = p) \in 0 .. 1 /\ (Bit(r = s /\ q = p) = 1 <=> r = s /\ q = p)
        BY DEF Bit
      <3> QED
        BY <1>4, <3>1, <3>2, <3>3
    <2> QED
      BY <2>2
  <1>6. UnaEspera'
    <2>1. ASSUME NEW p \in Pids, NEW r \in Recursos, p \in Elementos(cola'[r])
          PROVE  Veces(cola'[r], p) = 1 /\ \A t \in Recursos \ {r} : p \notin Elementos(cola'[t])
      <3>1. CASE p = q
        <4>1. \A t \in Recursos : q \notin Elementos(cola[t])
          BY <1>3 DEF EnCola
        <4>2. r = s
          BY <1>5, <2>1, <3>1, <4>1
        <4>3. Veces(cola[s], q) = 0
          BY <1>0, <4>1, Aparece
        <4>4. Veces(cola'[r], p) = 1
          BY <1>4, <3>1, <4>2, <4>3 DEF Bit
        <4> QED
          BY <1>5, <3>1, <4>1, <4>2, <4>4
      <3>2. CASE p # q
        <4>1. \A t \in Recursos : p \in Elementos(cola'[t]) <=> p \in Elementos(cola[t])
          BY <1>5, <3>2
        <4>2. Veces(cola[r], p) = 1 /\ \A t \in Recursos \ {r} : p \notin Elementos(cola[t])
          BY <2>1, <4>1 DEF UnaEspera
        <4>3. Veces(cola'[r], p) = 1
          BY <1>4, <3>2, <4>2 DEF Bit
        <4> QED
          BY <4>1, <4>2, <4>3
      <3> QED
        BY <3>1, <3>2
    <2> QED
      BY <2>1 DEF UnaEspera
  <1>7. ASSUME NEW p \in Pids PROVE Suma(p)' = Bit(p \in creados)'
    <2>1. Bit(EnExec(p)) = Bit(q = p) /\ Bit(EnExec(p))' = 0
      BY <1>0, <1>2 DEF EnExec, Bit
    <2>2. Bit(EnCola(p))' = Bit(EnCola(p)) + Bit(q = p)
      <3>1. EnCola(p)' <=> EnCola(p) \/ q = p
        BY <1>0, <1>5 DEF EnCola
      <3> QED
        BY <1>3, <3>1 DEF Bit
    <2>3. Bit(q = p) \in 0 .. 1
      BY DEF Bit
    <2>4. /\ Veces(colaReady, p)' = Veces(colaReady, p) /\ Veces(colaExit, p)' = Veces(colaExit, p)
          /\ Bit(p \in enIo)' = Bit(p \in enIo) /\ Bit(p \in terminados)' = Bit(p \in terminados)
          /\ Bit(p \in creados)' = Bit(p \in creados)
      BY <1>0
    <2>5. /\ Bit(D.despertado = p)' = Bit(D.despertado = p)
          /\ Bit(E.despertado = p)' = Bit(E.despertado = p) /\ Bit(E.pid = p)' = Bit(E.pid = p)
      BY <1>2
    <2> QED
      BY <2>1, <2>2, <2>3, <2>4, <2>5, Numeros DEF UnLugar, Suma
  <1> QED
    BY <1>6, <1>7 DEF UnLugar

(* The process at the head of the queue goes to the thread that wakes it.  *)
LEMMA MueveDespertar ==
  ASSUME Tipos, UnLugar, UnaEspera, NEW h \in Hilos, Despertar(h), cola' # cola
  PROVE  UnLugar' /\ UnaEspera'
  <1> DEFINE s == hilo[h].recurso
             c == Head(cola[s])
  <1>0. /\ hilo[h].en = "despertar" /\ s \in Recursos /\ cola \in [Recursos -> Seq(Pids)]
        /\ cola[s] # <<>> /\ cola' = [cola EXCEPT ![s] = Tail(cola[s])]
        /\ UNCHANGED <<colaReady, colaExit, ejecutando, enIo, creados, terminados>>
    <2>1. hilo[h].en = "despertar" /\ hilo[h].en \in Trabaja
      BY DEF Despertar, Trabaja, Sumando
    <2>2. (D.en \in Trabaja => D.recurso \in Recursos) /\ (E.en \in Trabaja => E.recurso \in Recursos)
      BY DEF Tipos, Actores, Trabaja, Sumando
    <2>3. s \in Recursos
      BY <2>1, <2>2 DEF D, E, Hilos
    <2> QED
      BY <2>1, <2>3 DEF Despertar, Tipos, TypeOK, lista
  <1>1. c \in Pids /\ cola[s] \in Seq(Pids) /\ Tail(cola[s]) \in Seq(Pids)
    BY <1>0, Cola
  <1>2. cola' \in [Recursos -> Seq(Pids)]
    BY <1>0, <1>1
  <1> DEFINE x == [hilo[h] EXCEPT !.en = "buscar", !.despertado = c]
  <1>3. /\ Pasa(h, x) /\ x.despertado = c /\ x.pid = hilo[h].pid /\ x.en = "buscar"
        /\ hilo[h].despertado \notin Pids
    <2>1. /\ TypeOK /\ Actores /\ hilo[h] \in Fichas
          /\ hilo[h].en \in Llevando <=> hilo[h].despertado \in Pids
      BY Ficha DEF Tipos, Actores
    <2>2. Pasa(h, x)
      BY <1>0, <2>1, PasosDeSumar
    <2> QED
      BY <1>0, <2>1, <2>2 DEF Fichas, Llevando
  <1> HIDE DEF s, c, x
  <1>4. \A p \in Pids, r \in Recursos : Veces(cola[r], p) = Veces(cola'[r], p) + Bit(r = s /\ c = p)
    <2>1. ASSUME NEW p \in Pids PROVE Veces(cola[s], p) = Veces(cola'[s], p) + Bit(c = p)
      <3>1. cola'[s] = Tail(cola[s])
        BY <1>0
      <3> QED
        BY <1>0, <1>1, <3>1, Sale DEF c
    <2>2. ASSUME NEW p \in Pids, NEW r \in Recursos
          PROVE  Veces(cola[r], p) = Veces(cola'[r], p) + Bit(r = s /\ c = p)
      <3>1. Veces(cola[r], p) \in Nat
        BY <1>0, Aparece
      <3>2. r # s => cola'[r] = cola[r]
        BY <1>0
      <3> QED
        BY <2>1, <3>1, <3>2 DEF Bit
    <2> QED
      BY <2>2
  <1>5. c \in Elementos(cola[s])
    <2>1. Veces(cola[s], c) = Veces(cola'[s], c) + 1
      BY <1>0, <1>1, <1>4 DEF Bit
    <2>2. Veces(cola'[s], c) \in Nat
      BY <1>0, <1>2, Aparece
    <2>3. Veces(cola[s], c) > 0 <=> c \in Elementos(cola[s])
      BY <1>1, Aparece
    <2> QED
      BY <2>1, <2>2, <2>3
  <1>6. \A p \in Pids, r \in Recursos :
          p \in Elementos(cola'[r]) <=> p \in Elementos(cola[r]) /\ p # c
    <2>1. ASSUME NEW p \in Pids, NEW r \in Recursos
          PROVE  p \in Elementos(cola'[r]) <=> p \in Elementos(cola[r]) /\ p # c
      <3>1. Veces(cola[r], p) \in Nat /\ (Veces(cola[r], p) > 0 <=> p \in Elementos(cola[r]))
        BY <1>0, Aparece
      <3>2. Veces(cola'[r], p) \in Nat /\ (Veces(cola'[r], p) > 0 <=> p \in Elementos(cola'[r]))
        BY <1>2, Aparece
      <3>3. CASE p # c
        BY <1>4, <3>1, <3>2, <3>3 DEF Bit
      <3>4. CASE p = c
        <4>1. Veces(cola[s], c) = 1 /\ \A t \in Recursos \ {s} : c \notin Elementos(cola[t])
          BY <1>0, <1>1, <1>5 DEF UnaEspera
        <4>2. CASE r = s
          BY <1>4, <3>2, <3>4, <4>1, <4>2 DEF Bit
        <4>3. CASE r # s
          <5>1. cola'[r] = cola[r]
            BY <1>0, <4>3
          <5> QED
            BY <3>4, <4>1, <4>3, <5>1
        <4> QED
          BY <4>2, <4>3
      <3> QED
        BY <3>3, <3>4
    <2> QED
      BY <2>1
  <1>7. UnaEspera'
    <2>1. ASSUME NEW p \in Pids, NEW r \in Recursos, p \in Elementos(cola'[r])
          PROVE  Veces(cola'[r], p) = 1 /\ \A t \in Recursos \ {r} : p \notin Elementos(cola'[t])
      <3>1. p # c /\ p \in Elementos(cola[r])
        BY <1>6, <2>1
      <3>2. Veces(cola[r], p) = 1 /\ \A t \in Recursos \ {r} : p \notin Elementos(cola[t])
        BY <3>1 DEF UnaEspera
      <3>3. Veces(cola'[r], p) = 1
        <4>1. Veces(cola'[r], p) \in Nat
          BY <1>2, Aparece
        <4> QED
          BY <1>4, <3>1, <3>2, <4>1 DEF Bit
      <3> QED
        BY <1>6, <3>2, <3>3
    <2> QED
      BY <2>1 DEF UnaEspera
  <1>8. ASSUME NEW p \in Pids PROVE Suma(p)' = Bit(p \in creados)'
    <2>1. Bit(EnCola(p)) = Bit(EnCola(p))' + Bit(c = p)
      <3>1. EnCola(p)' <=> EnCola(p) /\ p # c
        BY <1>0, <1>6 DEF EnCola
      <3>2. EnCola(c)
        BY <1>0, <1>5 DEF EnCola
      <3> QED
        BY <3>1, <3>2 DEF Bit
    <2>2. /\ Bit(D.despertado = p)' + Bit(E.despertado = p)'
               = Bit(D.despertado = p) + Bit(E.despertado = p) + Bit(c = p)
          /\ E'.pid = E.pid /\ PorEntrar' = PorEntrar
      <3>1. CASE h = "despacho"
        <4>1. D' = x /\ E' = E /\ D.en = "despertar" /\ D.despertado \notin Pids
          BY <1>0, <1>3, <3>1, Pasan DEF D
        <4>2. /\ Bit(D.despertado = p) = 0 /\ Bit(D.despertado = p)' = Bit(c = p)
              /\ Bit(E.despertado = p)' = Bit(E.despertado = p)
          BY <1>3, <4>1 DEF Bit
        <4>3. Bit(E.despertado = p) \in 0 .. 1 /\ Bit(c = p) \in 0 .. 1
          BY DEF Bit
        <4> QED
          BY <1>3, <4>1, <4>2, <4>3 DEF PorEntrar
      <3>2. CASE h = "eliminacion"
        <4>1. E' = x /\ D' = D /\ E.despertado \notin Pids
          BY <1>0, <1>3, <3>2, Pasan DEF E
        <4>2. /\ Bit(E.despertado = p) = 0 /\ Bit(E.despertado = p)' = Bit(c = p)
              /\ Bit(D.despertado = p)' = Bit(D.despertado = p)
          BY <1>3, <4>1 DEF Bit
        <4>3. Bit(D.despertado = p) \in 0 .. 1 /\ Bit(c = p) \in 0 .. 1
          BY DEF Bit
        <4>4. E'.pid = E.pid
          BY <1>3, <3>2, <4>1 DEF E
        <4> QED
          BY <1>3, <4>1, <4>2, <4>3, <4>4 DEF PorEntrar
      <3> QED
        BY <3>1, <3>2 DEF Hilos
    <2>3. Bit(c = p) \in 0 .. 1 /\ EnExec(p)' = EnExec(p) /\ Bit(EnCola(p))' \in 0 .. 1
      BY <1>0, <2>2 DEF Bit, EnExec
    <2>4. Bit(D.despertado = p)' \in 0 .. 1 /\ Bit(E.despertado = p)' \in 0 .. 1
      BY DEF Bit
    <2>5. /\ Veces(colaReady, p)' = Veces(colaReady, p) /\ Veces(colaExit, p)' = Veces(colaExit, p)
          /\ Bit(p \in enIo)' = Bit(p \in enIo) /\ Bit(p \in terminados)' = Bit(p \in terminados)
          /\ Bit(p \in creados)' = Bit(p \in creados) /\ Bit(E.pid = p)' = Bit(E.pid = p)
          /\ Bit(EnExec(p))' = Bit(EnExec(p))
      BY <1>0, <2>2, <2>3
    <2> QED
      BY <2>1, <2>2, <2>3, <2>4, <2>5, Numeros DEF UnLugar, Suma
  <1> QED
    BY <1>7, <1>8 DEF UnLugar

(* The other moves: the queues of the resources stay.                      *)
LEMMA MuevenHilos ==
  ASSUME Tipos, UnLugar, UnaEspera,
         Bloquear \/ TomarExit \/ Terminar \/ \E h \in Hilos : AgregarAReady(h)
  PROVE  UnLugar' /\ UnaEspera'
  <1>0. /\ colaReady \in Seq(Pids) /\ colaExit \in Seq(Pids) /\ NULO \notin Pids
        /\ D = hilo["despacho"] /\ E = hilo["eliminacion"] /\ D \in Fichas /\ E \in Fichas
        /\ ejecutando \in Pids \cup {NULO} /\ TypeOK /\ Actores
        /\ "despacho" \in Hilos /\ "eliminacion" \in Hilos /\ Hilos = {"despacho", "eliminacion"}
        /\ E.en \notin Llevando => E.despertado = NULO
        /\ D.en \notin Llevando => D.despertado = NULO
        /\ E.en # "libre" => E.pid \in Pids
    BY Ficha DEF Tipos, TypeOK
  <1>a. cola' = cola
    BY DEF Bloquear, TomarExit, Terminar, AgregarAReady
  <1>b. UnaEspera' /\ \A p \in Pids : Bit(EnCola(p))' = Bit(EnCola(p))
    BY <1>a DEF UnaEspera, EnCola
  <1>1. ASSUME Bloquear, NEW p \in Pids PROVE Suma(p)' = Bit(p \in creados)'
    <2>1. /\ D.en = "bloquear" /\ ejecutando' = NULO
          /\ UNCHANGED <<colaReady, colaExit, enIo, creados, terminados>>
          /\ hilo' = [hilo EXCEPT !["despacho"] = Libre]
      BY <1>0, <1>1 DEF Bloquear
    <2>2. D' = Libre /\ E' = E
      BY <1>0, <2>1, Pasan DEF Pasa
    <2>3. Bit(EnExec(p)) = 0 /\ Bit(EnExec(p))' = 0
      BY <1>0, <2>1 DEF EnExec, PorEntrar, Bit
    <2>4. /\ Bit(D.despertado = p)' = Bit(D.despertado = p)
          /\ Bit(E.despertado = p)' = Bit(E.despertado = p) /\ Bit(E.pid = p)' = Bit(E.pid = p)
      <3>1. D.despertado = NULO /\ Libre.despertado = NULO
        BY <1>0, <2>1 DEF Libre, Llevando
      <3> QED
        BY <2>2, <3>1
    <2>5. /\ Veces(colaReady, p)' = Veces(colaReady, p) /\ Veces(colaExit, p)' = Veces(colaExit, p)
          /\ Bit(p \in enIo)' = Bit(p \in enIo) /\ Bit(p \in terminados)' = Bit(p \in terminados)
          /\ Bit(p \in creados)' = Bit(p \in creados)
      BY <2>1
    <2> QED
      BY <1>b, <2>3, <2>4, <2>5, Numeros DEF UnLugar, Suma
  <1>2. ASSUME TomarExit, NEW p \in Pids PROVE Suma(p)' = Bit(p \in creados)'
    <2> DEFINE c == Head(colaExit)
               x == [Libre EXCEPT !.en = "liberar", !.pid = c]
    <2>1. /\ E.en = "libre" /\ E.pid = NULO /\ colaExit # <<>> /\ colaExit' = Tail(colaExit)
          /\ UNCHANGED <<colaReady, ejecutando, enIo, creados, terminados>>
          /\ Pasa("eliminacion", x)
      BY <1>0, <1>2 DEF TomarExit, Actores, Pasa, lista
    <2>2. x.pid = c /\ x.despertado = NULO
      BY DEF Libre
    <2> HIDE DEF x
    <2>3. D' = D /\ E'.pid = c /\ E'.despertado = NULO
      BY <1>0, <2>1, <2>2, Pasan
    <2>4. /\ Bit(E.pid = p) = 0 /\ Bit(E.pid = p)' = Bit(c = p)
          /\ Bit(E.despertado = p)' = Bit(E.despertado = p)
          /\ Bit(D.despertado = p)' = Bit(D.despertado = p)
          /\ Bit(EnExec(p))' = Bit(EnExec(p))
      <3>1. E.despertado = NULO
        BY <1>0, <2>1 DEF Llevando
      <3> QED
        BY <1>0, <2>1, <2>3, <3>1 DEF Bit, EnExec, PorEntrar
    <2>5. Veces(colaExit, p) = Veces(colaExit, p)' + Bit(c = p) /\ Veces(colaExit, p)' \in Nat
      <3>1. Veces(colaExit, p) = Veces(Tail(colaExit), p) + Bit(c = p)
        BY <1>0, <2>1, Sale
      <3>2. Tail(colaExit) \in Seq(Pids)
        BY <1>0, <2>1, Cola
      <3>3. Veces(Tail(colaExit), p) \in Nat
        BY <3>2, Aparece
      <3> QED
        BY <2>1, <3>1, <3>3
    <2>6. /\ Veces(colaReady, p)' = Veces(colaReady, p)
          /\ Bit(p \in enIo)' = Bit(p \in enIo) /\ Bit(p \in terminados)' = Bit(p \in terminados)
          /\ Bit(p \in creados)' = Bit(p \in creados) /\ Bit(c = p) \in 0 .. 1
      BY <2>1 DEF Bit
    <2> QED
      BY <1>b, <2>4, <2>5, <2>6, Numeros DEF UnLugar, Suma
  <1>3. ASSUME Terminar, NEW p \in Pids PROVE Suma(p)' = Bit(p \in creados)'
    <2>1. /\ E.en = "liberar" /\ terminados' = terminados \cup {E.pid} /\ Pasa("eliminacion", Libre)
          /\ UNCHANGED <<colaReady, colaExit, ejecutando, enIo, creados>>
      BY <1>0, <1>3 DEF Terminar, Pasa, lista
    <2>2. D' = D /\ E'.pid = NULO /\ E'.despertado = NULO /\ E.despertado = NULO
      BY <1>0, <2>1, Pasan DEF Libre, Llevando
    <2>3. E.pid = p => p \notin terminados
      <3>1. E.pid = p => Bit(E.pid = p) = 1
        BY DEF Bit
      <3>2. E.pid = p => Bit(p \in terminados) = 0
        BY <3>1, Numeros DEF UnLugar, Suma
      <3> QED
        BY <3>2 DEF Bit
    <2>4. /\ Bit(E.pid = p)' = 0 /\ Bit(p \in terminados)' = Bit(p \in terminados) + Bit(E.pid = p)
      BY <1>0, <2>1, <2>2, <2>3 DEF Bit
    <2>5. /\ Bit(E.despertado = p)' = Bit(E.despertado = p)
          /\ Bit(D.despertado = p)' = Bit(D.despertado = p)
          /\ Bit(EnExec(p))' = Bit(EnExec(p))
      BY <2>1, <2>2 DEF EnExec, PorEntrar
    <2>6. /\ Veces(colaReady, p)' = Veces(colaReady, p) /\ Veces(colaExit, p)' = Veces(colaExit, p)
          /\ Bit(p \in enIo)' = Bit(p \in enIo) /\ Bit(p \in creados)' = Bit(p \in creados)
      BY <2>1
    <2> QED
      BY <1>b, <2>4, <2>5, <2>6, Numeros DEF UnLugar, Suma
  <1>4. ASSUME NEW h \in Hilos, AgregarAReady(h), NEW p \in Pids
        PROVE  Suma(p)' = Bit(p \in creados)'
    <2> DEFINE c == hilo[h].despertado
               x == [hilo[h] EXCEPT !.en = "devolver", !.despertado = NULO, !.indice = 0]
    <2>1. /\ hilo[h].en = "agregar" /\ colaReady' = Append(colaReady, c)
          /\ UNCHANGED <<colaExit, ejecutando, enIo, creados, terminados>>
      BY <1>4 DEF AgregarAReady, lista
    <2>2. Pasa(h, x)
      BY <1>0, <1>4, PasosDeSumar
    <2>3. x.pid = hilo[h].pid /\ x.despertado = NULO /\ x.en = "devolver"
      BY <1>0 DEF Fichas
    <2>4. c \in Pids
      BY <1>0, <2>1 DEF Actores, Llevando
    <2> HIDE DEF x, c
    <2>5. Veces(colaReady, p)' = Veces(colaReady, p) + Bit(c = p) /\ Bit(c = p) \in 0 .. 1
      BY <1>0, <2>1, <2>4, Entra DEF Bit
    <2>6. CASE h = "despacho"
      <3>1. D' = x /\ E' = E /\ D.en = "agregar" /\ D.despertado = c
        BY <1>0, <2>1, <2>2, <2>6, Pasan DEF c
      <3>2. /\ Bit(D.despertado = p) = Bit(c = p) /\ Bit(D.despertado = p)' = 0
            /\ Bit(E.despertado = p)' = Bit(E.despertado = p) /\ Bit(E.pid = p)' = Bit(E.pid = p)
            /\ Bit(EnExec(p))' = Bit(EnExec(p))
        BY <1>0, <2>1, <2>3, <3>1 DEF Bit, EnExec, PorEntrar
      <3>3. /\ Veces(colaExit, p)' = Veces(colaExit, p) /\ Bit(p \in enIo)' = Bit(p \in enIo)
            /\ Bit(p \in terminados)' = Bit(p \in terminados)
            /\ Bit(p \in creados)' = Bit(p \in creados)
        BY <2>1
      <3> QED
        BY <1>b, <2>5, <3>2, <3>3, Numeros DEF UnLugar, Suma
    <2>7. CASE h = "eliminacion"
      <3>1. E' = x /\ D' = D /\ E.despertado = c /\ x.pid = E.pid
        BY <1>0, <2>2, <2>3, <2>7, Pasan DEF c
      <3>2. /\ Bit(E.despertado = p) = Bit(c = p) /\ Bit(E.despertado = p)' = 0
            /\ Bit(D.despertado = p)' = Bit(D.despertado = p) /\ Bit(E.pid = p)' = Bit(E.pid = p)
            /\ Bit(EnExec(p))' = Bit(EnExec(p))
        BY <1>0, <2>1, <2>3, <3>1 DEF Bit, EnExec, PorEntrar
      <3>3. /\ Veces(colaExit, p)' = Veces(colaExit, p) /\ Bit(p \in enIo)' = Bit(p \in enIo)
            /\ Bit(p \in terminados)' = Bit(p \in terminados)
            /\ Bit(p \in creados)' = Bit(p \in creados)
        BY <2>1
      <3> QED
        BY <1>b, <2>5, <3>2, <3>3, Numeros DEF UnLugar, Suma
    <2> QED
      BY <1>0, <2>6, <2>7
  <1>5. \A p \in Pids : Suma(p)' = Bit(p \in creados)'
    BY <1>1, <1>2, <1>3, <1>4
  <1> QED
    BY <1>b, <1>5 DEF UnLugar

LEMMA InicioLugares == Init => UnLugar /\ UnaEspera
  <1> SUFFICES ASSUME Init PROVE UnLugar /\ UnaEspera
    OBVIOUS
  <1>1. Tipos
    BY InicioTipos
  <1>2. /\ colaReady = <<>> /\ colaExit = <<>> /\ ejecutando = NULO /\ enIo = {}
        /\ creados = {} /\ terminados = {} /\ D = Libre /\ E = Libre /\ NULO \notin Pids
        /\ \A r \in Recursos : cola[r] = <<>>
    BY NuloAssumption DEF Init, D, E, Hilos
  <1>3. \A p : p \notin Elementos(<<>>)
    BY DEF Elementos
  <1>4. ASSUME NEW p \in Pids PROVE Suma(p) = Bit(p \in creados)
    <2>1. Veces(colaReady, p) = 0 /\ Veces(colaExit, p) = 0
      <3>1. colaReady \in Seq(Pids) /\ colaExit \in Seq(Pids)
        BY <1>1 DEF Tipos, TypeOK
      <3>2. /\ Veces(colaReady, p) \in Nat /\ (Veces(colaReady, p) > 0 <=> p \in Elementos(colaReady))
            /\ Veces(colaExit, p) \in Nat /\ (Veces(colaExit, p) > 0 <=> p \in Elementos(colaExit))
        BY <3>1, Aparece
      <3>3. p \notin Elementos(colaReady) /\ p \notin Elementos(colaExit)
        BY <1>2, <1>3
      <3> QED
        BY <3>2, <3>3
    <2>2. /\ Bit(EnExec(p)) = 0 /\ Bit(p \in enIo) = 0 /\ Bit(EnCola(p)) = 0
          /\ Bit(D.despertado = p) = 0 /\ Bit(E.despertado = p) = 0 /\ Bit(E.pid = p) = 0
          /\ Bit(p \in terminados) = 0 /\ Bit(p \in creados) = 0
      BY <1>2, <1>3 DEF Bit, EnExec, EnCola, Libre
    <2> QED
      BY <2>1, <2>2 DEF Suma
  <1> QED
    BY <1>2, <1>3, <1>4 DEF UnLugar, UnaEspera

LEMMA PasoIndInv == IndInv /\ [Next]_vars => IndInv'
  <1> SUFFICES ASSUME IndInv, [Next]_vars PROVE IndInv'
    OBVIOUS
  <1>1. Tipos /\ UnLugar /\ UnaEspera
    BY DEF IndInv
  <1>2. Tipos'
    BY <1>1, PasoTipos
  <1>3. UnLugar' /\ UnaEspera'
    <2>1. CASE \/ UNCHANGED vars
               \/ \E r \in Recursos : Restar(r) \/ Signal(r) \/ Liberar(r)
               \/ LeerInstancias
               \/ \E h \in Hilos : Sumar(h) \/ Revisar(h) \/ BuscarIndice(h) \/ SacarDeBloqueados(h)
                                   \/ (Despertar(h) /\ UNCHANGED cola) \/ Devolver(h)
      BY <1>1, <2>1, SinMover
    <2>2. CASE Fuera
      BY <1>1, <2>2, MuevenFuera
    <2>3. CASE Encolar
      BY <1>1, <2>3, MueveEncolar
    <2>4. ASSUME NEW h \in Hilos, Despertar(h), cola' # cola PROVE UnLugar' /\ UnaEspera'
      BY <1>1, <2>4, MueveDespertar
    <2>5. CASE Bloquear \/ TomarExit \/ Terminar \/ \E h \in Hilos : AgregarAReady(h)
      BY <1>1, <2>5, MuevenHilos
    <2> QED
      BY <2>1, <2>2, <2>3, <2>4, <2>5 DEF Next, Fuera, SumarInstancia
  <1> QED
    BY <1>2, <1>3 DEF IndInv

(* The counters, the accounts, the queues and the two threads hold what
   they are declared to hold: no account below zero, no thread with a
   process or a resource that is none.                                     *)
THEOREM TiposBien == Spec => []TypeOK
  <1>1. Init => IndInv
    BY InicioTipos, InicioLugares DEF IndInv
  <1>2. IndInv => TypeOK
    BY DEF IndInv, Tipos
  <1> QED
    BY <1>1, <1>2, PasoIndInv, PTL DEF Spec

-----------------------------------------------------------------------------
(* Conservation of the instances.                                          *)

Finitas == \A r \in Recursos : IsFiniteSet(Retenidas(r))
Cuentas == Finitas /\ Conservacion

(* One more instance on an account is one more instance retained.          *)
LEMMA UnaMas ==
  ASSUME TypeOK, Finitas, NEW p \in Pids, NEW r \in Recursos, asignadas[p][r] < MAX_RETENIDAS,
         asignadas' = [asignadas EXCEPT ![p][r] = @ + 1]
  PROVE  Finitas' /\ Total(r)' = Total(r) + 1 /\ \A s \in Recursos \ {r} : Total(s)' = Total(s)
  <1> DEFINE n == asignadas[p][r]
             R(s) == {pk \in Pids \X (1..MAX_RETENIDAS) : pk[2] <= asignadas'[pk[1]][s]}
  <1>0. /\ asignadas \in [Pids -> [Recursos -> 0..MAX_RETENIDAS]] /\ n \in 0..MAX_RETENIDAS
        /\ MAX_RETENIDAS \in Nat
    BY RetenidasAssumption DEF TypeOK
  <1>1. \A q \in Pids, s \in Recursos :
          asignadas'[q][s] = IF q = p /\ s = r THEN n + 1 ELSE asignadas[q][s]
    BY <1>0
  <1>2. n + 1 \in 1..MAX_RETENIDAS
    BY <1>0
  <1> HIDE DEF n
  <1>3. ASSUME NEW s \in Recursos \ {r} PROVE R(s) = Retenidas(s)
    BY <1>1, <1>3 DEF Retenidas
  <1>4. R(r) = Retenidas(r) \cup {<<p, n + 1>>}
    <2>1. ASSUME NEW pk \in Pids \X (1..MAX_RETENIDAS)
          PROVE  pk[2] <= asignadas'[pk[1]][r] <=> pk[2] <= asignadas[pk[1]][r] \/ pk = <<p, n + 1>>
      <3>1. PICK q \in Pids, k \in 1..MAX_RETENIDAS : pk = <<q, k>>
        OBVIOUS
      <3>2. pk[1] = q /\ pk[2] = k /\ (pk = <<p, n + 1>> <=> q = p /\ k = n + 1)
        BY <3>1
      <3>3. CASE q = p
        <4>1. asignadas'[q][r] = n + 1 /\ asignadas[q][r] = n
          BY <1>1, <3>3 DEF n
        <4> QED
          BY <1>0, <3>2, <3>3, <4>1
      <3>4. CASE q # p
        <4>1. asignadas'[q][r] = asignadas[q][r]
          BY <1>1, <3>4
        <4> QED
          BY <3>2, <3>4, <4>1
      <3> QED
        BY <3>3, <3>4
    <2>2. <<p, n + 1>> \in Pids \X (1..MAX_RETENIDAS)
      BY <1>2
    <2> QED
      BY <2>1, <2>2 DEF Retenidas
  <1>5. <<p, n + 1>> \notin Retenidas(r)
    BY <1>0 DEF Retenidas, n
  <1>6. IsFiniteSet(Retenidas(r) \cup {<<p, n + 1>>})
        /\ Cardinality(Retenidas(r) \cup {<<p, n + 1>>}) = Cardinality(Retenidas(r)) + 1
    BY <1>5, FS_AddElement DEF Finitas
  <1>7. \A s \in Recursos : Retenidas(s)' = R(s)
    BY DEF Retenidas
  <1> HIDE DEF R
  <1>8. /\ Retenidas(r)' = Retenidas(r) \cup {<<p, n + 1>>}
        /\ \A s \in Recursos \ {r} : Retenidas(s)' = Retenidas(s)
    BY <1>3, <1>4, <1>7
  <1>9. Finitas'
    BY <1>6, <1>8 DEF Finitas
  <1>10. \A s \in Recursos \ {r} : Total(s)' = Total(s)
    BY <1>8 DEF Total
  <1>11. Total(r)' = Total(r) + 1
    BY <1>6, <1>8 DEF Total
  <1> QED
    BY <1>9, <1>10, <1>11

LEMMA UnaMenos ==
  ASSUME TypeOK, Finitas, NEW p \in Pids, NEW r \in Recursos, asignadas[p][r] > 0,
         asignadas' = [asignadas EXCEPT ![p][r] = @ - 1]
  PROVE  Finitas' /\ Total(r) = Total(r)' + 1 /\ \A s \in Recursos \ {r} : Total(s)' = Total(s)
  <1> DEFINE n == asignadas[p][r]
             R(s) == {pk \in Pids \X (1..MAX_RETENIDAS) : pk[2] <= asignadas'[pk[1]][s]}
  <1>0. /\ asignadas \in [Pids -> [Recursos -> 0..MAX_RETENIDAS]] /\ n \in 1..MAX_RETENIDAS
        /\ MAX_RETENIDAS \in Nat
    BY RetenidasAssumption DEF TypeOK
  <1>1. \A q \in Pids, s \in Recursos :
          asignadas'[q][s] = IF q = p /\ s = r THEN n - 1 ELSE asignadas[q][s]
    BY <1>0
  <1> HIDE DEF n
  <1>3. ASSUME NEW s \in Recursos \ {r} PROVE R(s) = Retenidas(s)
    BY <1>1, <1>3 DEF Retenidas
  <1>4. R(r) = Retenidas(r) \ {<<p, n>>}
    <2>1. ASSUME NEW pk \in Pids \X (1..MAX_RETENIDAS)
          PROVE  pk[2] <= asignadas'[pk[1]][r] <=> pk[2] <= asignadas[pk[1]][r] /\ pk # <<p, n>>
      <3>1. PICK q \in Pids, k \in 1..MAX_RETENIDAS : pk = <<q, k>>
        OBVIOUS
      <3>2. pk[1] = q /\ pk[2] = k /\ (pk = <<p, n>> <=> q = p /\ k = n)
        BY <3>1
      <3>3. CASE q = p
        <4>1. asignadas'[q][r] = n - 1 /\ asignadas[q][r] = n
          BY <1>1, <3>3 DEF n
        <4> QED
          BY <1>0, <3>2, <3>3, <4>1
      <3>4. CASE q # p
        <4>1. asignadas'[q][r] = asignadas[q][r]
          BY <1>1, <3>4
        <4> QED
          BY <3>2, <3>4, <4>1
      <3> QED
        BY <3>3, <3>4
    <2> QED
      BY <2>1 DEF Retenidas
  <1>5. <<p, n>> \in Retenidas(r)
    BY <1>0 DEF Retenidas, n
  <1>6. /\ IsFiniteSet(Retenidas(r) \ {<<p, n>>})
        /\ Cardinality(Retenidas(r) \ {<<p, n>>}) = Cardinality(Retenidas(r)) - 1
        /\ Cardinality(Retenidas(r)) \in Nat
    BY <1>5, FS_RemoveElement, FS_CardinalityType DEF Finitas
  <1>7. \A s \in Recursos : Retenidas(s)' = R(s)
    BY DEF Retenidas
  <1> HIDE DEF R
  <1>8. /\ Retenidas(r)' = Retenidas(r) \ {<<p, n>>}
        /\ \A s \in Recursos \ {r} : Retenidas(s)' = Retenidas(s)
    BY <1>3, <1>4, <1>7
  <1>9. Finitas'
    BY <1>6, <1>8 DEF Finitas
  <1>10. \A s \in Recursos \ {r} : Total(s)' = Total(s)
    BY <1>8 DEF Total
  <1>11. Total(r) = Total(r)' + 1
    <2>1. Total(r)' = Cardinality(Retenidas(r)) - 1
      BY <1>6, <1>8 DEF Total
    <2> QED
      BY <1>6, <2>1 DEF Total
  <1> QED
    BY <1>9, <1>10, <1>11

(* A process that ends and holds a resource finds its counter below the
   maximum: the instances that are being returned are of the other one.    *)
LEMMA SiempreSuma ==
  ASSUME IndInv, Cuentas, NEW r \in Recursos, E.en = "liberar", asignadas[E.pid][r] > 0
  PROVE  instancias[r] < Instancias[r]
  <1>0. /\ Tipos /\ UnLugar /\ TypeOK /\ E.pid \in Pids
        /\ asignadas \in [Pids -> [Recursos -> 0..MAX_RETENIDAS]] /\ MAX_RETENIDAS \in Nat
        /\ instancias \in [Recursos -> Int] /\ Instancias \in [Recursos -> Nat]
        /\ IsFiniteSet(Retenidas(r))
    BY Ficha, RetenidasAssumption, InstanciasAssumption
    DEF IndInv, Tipos, TypeOK, Cuentas, Finitas
  <1>1. ASSUME NEW p \in Pids, asignadas[p][r] > 0 PROVE <<p, 1>> \in Retenidas(r)
    <2>1. asignadas[p][r] \in 0..MAX_RETENIDAS /\ 1 \in 1..MAX_RETENIDAS
      BY <1>0, <1>1
    <2> QED
      BY <1>1, <2>1 DEF Retenidas
  <1>2. Total(r) \in Nat
    BY <1>0, FS_CardinalityType DEF Total
  <1>3. Total(r) > Bit(Devuelve("despacho", r))
    <2>1. CASE ~Devuelve("despacho", r)
      <3>1. Retenidas(r) # {}
        BY <1>0, <1>1
      <3>2. Total(r) # 0
        BY <1>0, <3>1, FS_EmptySet DEF Total
      <3> QED
        BY <1>2, <2>1, <3>2 DEF Bit
    <2>2. CASE Devuelve("despacho", r)
      <3>1. D.en \in Sumando /\ D.recurso = r
        BY <2>2 DEF Devuelve, D
      <3>2. D.pid \in Pids /\ asignadas[D.pid][r] > 0 /\ D.pid # E.pid
        <4>1. D.pid \in Pids /\ asignadas[D.pid][r] > 0
          BY <1>0, <3>1 DEF Tipos, Actores, Trabaja, Sumando
        <4>2. D.en \notin {"libre", "bloquear"}
          BY <3>1 DEF Sumando
        <4> QED
          BY <1>0, <4>1, <4>2, Distintos
      <3> DEFINE A == {<<D.pid, 1>>}
                 B == {<<E.pid, 1>>}
      <3>3. IsFiniteSet({<<D.pid, 1>>}) /\ Cardinality({<<D.pid, 1>>}) = 1
        BY FS_Singleton
      <3>4. <<E.pid, 1>> \notin {<<D.pid, 1>>}
        BY <3>2
      <3>5. /\ IsFiniteSet({<<D.pid, 1>>} \cup {<<E.pid, 1>>})
            /\ Cardinality({<<D.pid, 1>>} \cup {<<E.pid, 1>>}) = 1 + 1
        BY <3>3, <3>4, FS_AddElement
      <3>6. {<<D.pid, 1>>} \cup {<<E.pid, 1>>} \subseteq Retenidas(r)
        BY <1>0, <1>1, <3>2
      <3>7. 2 <= Total(r)
        <4> DEFINE dos == {<<D.pid, 1>>} \cup {<<E.pid, 1>>}
                   todas == Retenidas(r)
        <4>1. IsFiniteSet(todas) /\ Cardinality(todas) = Total(r)
          BY <1>0 DEF Total
        <4>2. dos \in SUBSET todas /\ IsFiniteSet(dos) /\ Cardinality(dos) = 2
          BY <3>5, <3>6
        <4> HIDE DEF dos, todas
        <4>3. Cardinality(dos) <= Cardinality(todas)
          BY <4>1, <4>2, FS_Subset
        <4> QED
          BY <4>1, <4>2, <4>3
      <3> QED
        BY <1>2, <2>2, <3>7 DEF Bit
    <2> QED
      BY <2>1, <2>2
  <1>4. ~Devuelve("eliminacion", r)
    BY DEF Devuelve, E, Sumando
  <1>5. Devueltas(r) = Bit(Devuelve("despacho", r)) /\ Bit(Devuelve("despacho", r)) \in 0 .. 1
    BY <1>4 DEF Devueltas, Bit
  <1>6. Bit(hilo["despacho"].en = "leer" /\ hilo["despacho"].recurso = r) \in 0 .. 1
    BY DEF Bit
  <1>7. instancias[r] \in Int /\ Instancias[r] \in Int
    BY <1>0
  <1> QED
    BY <1>2, <1>3, <1>5, <1>6, <1>7 DEF Cuentas, Conservacion

Lee(r) == hilo["despacho"].en = "leer" /\ hilo["despacho"].recurso = r

(* A thread that moves without an instance changing hands.                 *)
LEMMA CuentasIguales ==
  ASSUME Tipos, Cuentas, NEW h \in Hilos, NEW x, Pasa(h, x), UNCHANGED <<instancias, asignadas>>,
         x.en \in Sumando <=> hilo[h].en \in Sumando,
         x.en \in Sumando => x.recurso = hilo[h].recurso,
         h = "despacho" => x.en # "leer" /\ hilo[h].en # "leer"
  PROVE  Cuentas'
  <1>0. hilo \in [Hilos -> Fichas] /\ Hilos = {"despacho", "eliminacion"}
    BY DEF Tipos, TypeOK, Fichas, Lugares, Hilos
  <1>1. hilo'[h] = x /\ \A g \in Hilos \ {h} : hilo'[g] = hilo[g]
    BY <1>0 DEF Pasa
  <1>2. \A r : /\ Devuelve("despacho", r)' <=> Devuelve("despacho", r)
               /\ Devuelve("eliminacion", r)' <=> Devuelve("eliminacion", r)
               /\ Lee(r)' <=> Lee(r)
    BY <1>0, <1>1 DEF Devuelve, Lee
  <1>3. ASSUME NEW r \in Recursos
        PROVE  Devueltas(r)' = Devueltas(r) /\ Bit(Lee(r))' = Bit(Lee(r))
               /\ Retenidas(r)' = Retenidas(r) /\ Total(r)' = Total(r)
    BY <1>2 DEF Devueltas, Bit, Retenidas, Total
  <1>4. Finitas'
    BY <1>3 DEF Cuentas, Finitas
  <1>5. Conservacion'
    BY <1>3 DEF Cuentas, Conservacion, Lee
  <1> QED
    BY <1>4, <1>5 DEF Cuentas

LEMMA CuentasPropias ==
  ASSUME IndInv, Cuentas, Propios
  PROVE  Cuentas'
  <1>0. /\ Tipos /\ TypeOK /\ D = hilo["despacho"] /\ E = hilo["eliminacion"]
        /\ D \in Fichas /\ E \in Fichas /\ "despacho" \in Hilos /\ "eliminacion" \in Hilos
        /\ instancias \in [Recursos -> Int]
    BY Ficha DEF IndInv, Tipos, TypeOK
  <1>a. \A r \in Recursos :
          instancias[r] + Total(r) + Bit(Lee(r)) - Devueltas(r) = Instancias[r]
    BY DEF Cuentas, Conservacion, Lee
  <1>b. \A r \in Recursos :
          /\ instancias[r] \in Int /\ Instancias[r] \in Int /\ Total(r) \in Nat
          /\ Devueltas(r) \in Int /\ Bit(Lee(r)) \in 0 .. 1
    <2>1. \A r \in Recursos : Total(r) \in Nat
      BY FS_CardinalityType DEF Cuentas, Finitas, Total
    <2>2. \A r \in Recursos : Devueltas(r) \in Int /\ Bit(Lee(r)) \in 0 .. 1
      BY DEF Devueltas, Bit
    <2> QED
      BY <1>0, <2>1, <2>2, InstanciasAssumption
  <1>1. ASSUME NEW r \in Recursos, Restar(r) PROVE Cuentas'
    <2> DEFINE x == [Libre EXCEPT !.en = "leer", !.pid = ejecutando, !.recurso = r]
    <2>1. /\ D.en = "libre" /\ UNCHANGED asignadas
          /\ instancias' = [instancias EXCEPT ![r] = @ - 1] /\ Pasa("despacho", x)
      BY <1>0, <1>1, PasosPropios DEF Restar, Ejecuta
    <2>2. x.en = "leer" /\ x.recurso = r
      BY DEF Libre
    <2> HIDE DEF x
    <2>3. D' = x /\ E' = E
      BY <1>0, <2>1, Pasan
    <2>4. \A s \in Recursos : /\ ~Lee(s) /\ (Lee(s)' <=> s = r)
                              /\ ~Devuelve("despacho", s) /\ ~Devuelve("despacho", s)'
                              /\ Devuelve("eliminacion", s)' <=> Devuelve("eliminacion", s)
      BY <1>0, <2>1, <2>2, <2>3 DEF Lee, Devuelve, D, E, Sumando
    <2>5. \A s \in Recursos : /\ Bit(Lee(s)) = 0 /\ Bit(Lee(s))' = (IF s = r THEN 1 ELSE 0)
                              /\ Devueltas(s)' = Devueltas(s)
                              /\ Retenidas(s)' = Retenidas(s) /\ Total(s)' = Total(s)
      BY <2>1, <2>4 DEF Bit, Devueltas, Retenidas, Total
    <2>6. \A s \in Recursos : instancias'[s] = IF s = r THEN instancias[s] - 1 ELSE instancias[s]
      BY <1>0, <2>1
    <2>7. \A s \in Recursos :
            instancias'[s] + Total(s)' + Bit(Lee(s))' - Devueltas(s)' = Instancias[s]
      BY <1>a, <1>b, <2>5, <2>6
    <2>8. Conservacion'
      BY <2>7 DEF Conservacion, Lee
    <2>9. Finitas'
      BY <2>5 DEF Cuentas, Finitas
    <2> QED
      BY <2>8, <2>9 DEF Cuentas
  <1>2. ASSUME NEW r \in Recursos, Signal(r) PROVE Cuentas'
    <2> DEFINE x == [Libre EXCEPT !.en = "sumar", !.pid = ejecutando, !.recurso = r]
    <2>1. /\ D.en = "libre" /\ UNCHANGED <<instancias, asignadas>> /\ Pasa("despacho", x)
      BY <1>0, <1>2, PasosPropios DEF Signal, Ejecuta
    <2>2. x.en = "sumar" /\ x.en \notin Sumando /\ D.en \notin Sumando
      BY <2>1 DEF Libre, Sumando
    <2> HIDE DEF x
    <2> QED
      BY <1>0, <2>1, <2>2, CuentasIguales
  <1>3. ASSUME NEW r \in Recursos, Liberar(r) PROVE Cuentas'
    <2> DEFINE x == [E EXCEPT !.recurso = r, !.en = "sumar"]
    <2>1. /\ E.en = "liberar" /\ asignadas[E.pid][r] > 0 /\ UNCHANGED <<instancias, asignadas>>
      BY <1>0, <1>3 DEF Liberar
    <2>2. instancias[r] < Instancias[r]
      BY <2>1, SiempreSuma
    <2>3. Pasa("eliminacion", x)
      BY <1>0, <1>3, <2>2, PasosPropios
    <2>4. x.en = "sumar" /\ x.en \notin Sumando /\ E.en \notin Sumando
      BY <1>0, <2>1 DEF Fichas, Sumando
    <2> HIDE DEF x
    <2> QED
      BY <1>0, <2>1, <2>3, <2>4, CuentasIguales
  <1>4. CASE LeerInstancias
    <2>0. PICK p \in Pids, r \in Recursos : p = D.pid /\ r = D.recurso /\ D.en = "leer"
      BY <1>0, <1>4 DEF LeerInstancias, Tipos, Actores
    <2>1. UNCHANGED instancias /\ asignadas' = [asignadas EXCEPT ![p][r] = @ + 1]
      BY <1>0, <1>4, <2>0 DEF LeerInstancias
    <2>2. asignadas[p][r] < MAX_RETENIDAS
      BY <1>0, <2>0 DEF Tipos, Actores
    <2>3. PICK x : Pasa("despacho", x) /\ x.en \in {"libre", "encolar"}
      <3>1. Libre.en = "libre" /\ [D EXCEPT !.en = "encolar"].en = "encolar"
        BY <1>0 DEF Libre, Fichas
      <3>2. Pasa("despacho", [D EXCEPT !.en = "encolar"]) \/ Pasa("despacho", Libre)
        BY <1>0, <1>4, PasosPropios
      <3> QED
        BY <3>1, <3>2
    <2>4. D' = x /\ E' = E
      BY <1>0, <2>3, Pasan
    <2>5. /\ Finitas' /\ Total(r)' = Total(r) + 1
          /\ \A s \in Recursos \ {r} : Total(s)' = Total(s)
      BY <1>0, <2>1, <2>2, UnaMas DEF Cuentas
    <2>6. \A s \in Recursos : /\ ~Lee(s)' /\ (Lee(s) <=> s = r)
                              /\ ~Devuelve("despacho", s) /\ ~Devuelve("despacho", s)'
                              /\ Devuelve("eliminacion", s)' <=> Devuelve("eliminacion", s)
      BY <1>0, <2>0, <2>3, <2>4 DEF Lee, Devuelve, D, E, Sumando
    <2>7. \A s \in Recursos : /\ Bit(Lee(s))' = 0 /\ Bit(Lee(s)) = (IF s = r THEN 1 ELSE 0)
                              /\ Devueltas(s)' = Devueltas(s)
      BY <2>6 DEF Bit, Devueltas
    <2>8. \A s \in Recursos :
            instancias'[s] + Total(s)' + Bit(Lee(s))' - Devueltas(s)' = Instancias[s]
      BY <1>a, <1>b, <2>1, <2>5, <2>7
    <2>9. Conservacion'
      BY <2>8 DEF Conservacion, Lee
    <2> QED
      BY <2>5, <2>9 DEF Cuentas
  <1>5. CASE Encolar
    <2> DEFINE x == [D EXCEPT !.en = "bloquear"]
    <2>1. D.en = "encolar" /\ UNCHANGED <<instancias, asignadas>> /\ D.recurso \in Recursos
      BY <1>0, <1>5 DEF Encolar, Tipos, Actores
    <2>2. Pasa("despacho", x) /\ x.en = "bloquear"
      BY <1>0, <1>5, <2>1, PasosPropios DEF Fichas
    <2>3. x.en \notin Sumando /\ D.en \notin Sumando
      BY <2>1, <2>2 DEF Sumando
    <2> HIDE DEF x
    <2> QED
      BY <1>0, <2>1, <2>2, <2>3, CuentasIguales
  <1>6. CASE Bloquear
    <2>1. D.en = "bloquear" /\ UNCHANGED <<instancias, asignadas>> /\ Pasa("despacho", Libre)
      BY <1>0, <1>6 DEF Bloquear, Pasa
    <2>2. Libre.en = "libre" /\ Libre.en \notin Sumando /\ D.en \notin Sumando
      BY <2>1 DEF Sumando, Libre
    <2> QED
      BY <1>0, <2>1, <2>2, CuentasIguales
  <1>7. CASE TomarExit
    <2>1. /\ E.en = "libre" /\ UNCHANGED <<instancias, asignadas>>
          /\ Pasa("eliminacion", [Libre EXCEPT !.en = "liberar", !.pid = Head(colaExit)])
      BY <1>0, <1>7 DEF TomarExit, Pasa
    <2> DEFINE x == [Libre EXCEPT !.en = "liberar", !.pid = Head(colaExit)]
    <2>2. x.en \notin Sumando /\ E.en \notin Sumando /\ Pasa("eliminacion", x)
      BY <2>1 DEF Sumando, Libre
    <2> HIDE DEF x
    <2> QED
      BY <1>0, <2>1, <2>2, CuentasIguales
  <1>8. CASE Terminar
    <2>1. E.en = "liberar" /\ UNCHANGED <<instancias, asignadas>> /\ Pasa("eliminacion", Libre)
      BY <1>0, <1>8 DEF Terminar, Pasa
    <2>2. Libre.en \notin Sumando /\ E.en \notin Sumando
      BY <2>1 DEF Sumando, Libre
    <2> QED
      BY <1>0, <2>1, <2>2, CuentasIguales
  <1> QED
    BY <1>1, <1>2, <1>3, <1>4, <1>5, <1>6, <1>7, <1>8 DEF Propios

LEMMA CuentasAlSumar ==
  ASSUME IndInv, Cuentas, NEW h \in Hilos, SumarInstancia(h)
  PROVE  Cuentas'
  <1>0. /\ Tipos /\ TypeOK /\ Actores /\ hilo[h] \in Fichas
        /\ Hilos = {"despacho", "eliminacion"} /\ D = hilo["despacho"] /\ E = hilo["eliminacion"]
        /\ instancias \in [Recursos -> Int] /\ hilo \in [Hilos -> Fichas]
    BY Ficha DEF IndInv, Tipos, TypeOK, Fichas, Lugares
  <1>a. \A r \in Recursos :
          instancias[r] + Total(r) + Bit(Lee(r)) - Devueltas(r) = Instancias[r]
    BY DEF Cuentas, Conservacion, Lee
  <1>b. \A r \in Recursos :
          /\ instancias[r] \in Int /\ Instancias[r] \in Int /\ Total(r) \in Nat
          /\ Devueltas(r) \in Int /\ Bit(Lee(r)) \in 0 .. 1
    <2>1. \A r \in Recursos : Total(r) \in Nat
      BY FS_CardinalityType DEF Cuentas, Finitas, Total
    <2>2. \A r \in Recursos : Devueltas(r) \in Int /\ Bit(Lee(r)) \in 0 .. 1
      BY DEF Devueltas, Bit
    <2> QED
      BY <1>0, <2>1, <2>2, InstanciasAssumption
  <1>c. hilo[h].en \in Trabaja =>
          /\ hilo[h].recurso \in Recursos /\ hilo[h].pid \in Pids
          /\ asignadas[hilo[h].pid][hilo[h].recurso] > 0
    <2>1. D.en \in Trabaja =>
            D.recurso \in Recursos /\ D.pid \in Pids /\ asignadas[D.pid][D.recurso] > 0
      BY <1>0 DEF Actores, Trabaja, Sumando
    <2>2. E.en \in Trabaja =>
            E.recurso \in Recursos /\ E.pid \in Pids /\ asignadas[E.pid][E.recurso] > 0
      BY <1>0, Ficha DEF Actores, Trabaja, Sumando
    <2> QED
      BY <1>0, <2>1, <2>2
  <1>d. {"revisar", "despertar", "buscar", "sacar", "agregar", "devolver"} = Sumando
    BY DEF Sumando
  <1>1. CASE Sumar(h)
    <2> DEFINE x == [hilo[h] EXCEPT !.en = "revisar"]
               s == hilo[h].recurso
    <2>1. /\ hilo[h].en = "sumar" /\ s \in Recursos /\ UNCHANGED asignadas
          /\ instancias' = [instancias EXCEPT ![s] = @ + 1]
      BY <1>1, <1>c DEF Sumar, Trabaja
    <2>2. Pasa(h, x) /\ x.en = "revisar" /\ x.recurso = s
      BY <1>0, <1>1, PasosDeSumar DEF Fichas
    <2> HIDE DEF x, s
    <2>3. hilo'[h] = x /\ \A g \in Hilos \ {h} : hilo'[g] = hilo[g]
      BY <1>0, <2>2 DEF Pasa
    <2>4. \A r \in Recursos :
            /\ Lee(r)' <=> Lee(r)
            /\ ~Devuelve(h, r) /\ (Devuelve(h, r)' <=> r = s)
            /\ \A g \in Hilos \ {h} : Devuelve(g, r)' <=> Devuelve(g, r)
      BY <1>0, <1>d, <2>1, <2>2, <2>3 DEF Lee, Devuelve
    <2>5. \A r \in Recursos :
            /\ Bit(Lee(r))' = Bit(Lee(r))
            /\ Devueltas(r)' = Devueltas(r) + (IF r = s THEN 1 ELSE 0)
            /\ Retenidas(r)' = Retenidas(r) /\ Total(r)' = Total(r)
      BY <1>0, <2>1, <2>4 DEF Bit, Devueltas, Retenidas, Total
    <2>6. \A r \in Recursos : instancias'[r] = IF r = s THEN instancias[r] + 1 ELSE instancias[r]
      BY <1>0, <2>1
    <2>7. \A r \in Recursos :
            instancias'[r] + Total(r)' + Bit(Lee(r))' - Devueltas(r)' = Instancias[r]
      BY <1>a, <1>b, <2>5, <2>6
    <2>8. Conservacion'
      BY <2>7 DEF Conservacion, Lee
    <2>9. Finitas'
      BY <2>5 DEF Cuentas, Finitas
    <2> QED
      BY <2>8, <2>9 DEF Cuentas
  <1>2. CASE Revisar(h) \/ Despertar(h) \/ BuscarIndice(h) \/ SacarDeBloqueados(h) \/ AgregarAReady(h)
    <2>1. hilo[h].en \in Sumando /\ hilo[h].en # "leer" /\ UNCHANGED <<instancias, asignadas>>
      BY <1>2 DEF Revisar, Despertar, BuscarIndice, SacarDeBloqueados, AgregarAReady, Sumando
    <2>2. PICK x : Pasa(h, x) /\ x.en \in Sumando /\ x.recurso = hilo[h].recurso
      <3>1. ASSUME NEW lugar \in Sumando, NEW i
            PROVE  /\ [hilo[h] EXCEPT !.en = lugar].en \in Sumando
                   /\ [hilo[h] EXCEPT !.en = lugar].recurso = hilo[h].recurso
                   /\ [hilo[h] EXCEPT !.en = lugar, !.indice = i].en \in Sumando
                   /\ [hilo[h] EXCEPT !.en = lugar, !.indice = i].recurso = hilo[h].recurso
        BY <1>0 DEF Fichas
      <3>2. CASE Revisar(h)
        BY <1>0, <1>d, <3>1, <3>2, PasosDeSumar
      <3>3. CASE Despertar(h)
        <4> DEFINE c == Head(cola[hilo[h].recurso])
        <4>1. \/ Pasa(h, [hilo[h] EXCEPT !.en = "buscar", !.despertado = c])
              \/ Pasa(h, [hilo[h] EXCEPT !.en = "devolver"])
          BY <1>0, <3>3, PasosDeSumar
        <4> HIDE DEF c
        <4>2. CASE Pasa(h, [hilo[h] EXCEPT !.en = "devolver"])
          BY <1>d, <3>1, <4>2
        <4>3. CASE Pasa(h, [hilo[h] EXCEPT !.en = "buscar", !.despertado = c])
          <5>1. /\ [hilo[h] EXCEPT !.en = "buscar", !.despertado = c].en \in Sumando
                /\ [hilo[h] EXCEPT !.en = "buscar", !.despertado = c].recurso = hilo[h].recurso
            BY <1>0, <1>d DEF Fichas
          <5> QED
            BY <4>3, <5>1
        <4> QED
          BY <4>1, <4>2, <4>3
      <3>4. CASE BuscarIndice(h)
        BY <1>0, <1>d, <3>1, <3>4, PasosDeSumar
      <3>5. CASE SacarDeBloqueados(h)
        BY <1>0, <1>d, <3>1, <3>5, PasosDeSumar
      <3>6. CASE AgregarAReady(h)
        <4>1. Pasa(h, [hilo[h] EXCEPT !.en = "devolver", !.despertado = NULO, !.indice = 0])
          BY <1>0, <3>6, PasosDeSumar
        <4>2. /\ [hilo[h] EXCEPT !.en = "devolver", !.despertado = NULO, !.indice = 0].en \in Sumando
              /\ [hilo[h] EXCEPT !.en = "devolver", !.despertado = NULO, !.indice = 0].recurso
                   = hilo[h].recurso
          BY <1>0, <1>d DEF Fichas
        <4> QED
          BY <4>1, <4>2
      <3> QED
        BY <1>2, <3>2, <3>3, <3>4, <3>5, <3>6
    <2>3. x.en # "leer"
      BY <2>2 DEF Sumando
    <2> QED
      BY <1>0, <2>1, <2>2, <2>3, CuentasIguales
  <1>3. CASE Devolver(h)
    <2>1. PICK p \in Pids, s \in Recursos : p = hilo[h].pid /\ s = hilo[h].recurso
      BY <1>3, <1>c DEF Devolver, Trabaja, Sumando
    <2>2. /\ hilo[h].en = "devolver" /\ UNCHANGED instancias /\ asignadas[p][s] > 0
          /\ asignadas' = [asignadas EXCEPT ![p][s] = @ - 1]
      BY <1>3, <1>c, <2>1 DEF Devolver, Trabaja, Sumando
    <2>3. PICK x : Pasa(h, x) /\ x.en \in {"libre", "liberar"}
      <3>1. Libre.en = "libre" /\ [hilo[h] EXCEPT !.en = "liberar", !.recurso = NULO].en = "liberar"
        BY <1>0 DEF Libre, Fichas
      <3>2. Pasa(h, IF h = "despacho" THEN Libre
                    ELSE [hilo[h] EXCEPT !.en = "liberar", !.recurso = NULO])
        BY <1>0, <1>3, PasosDeSumar
      <3> QED
        BY <3>1, <3>2
    <2>4. hilo'[h] = x /\ \A g \in Hilos \ {h} : hilo'[g] = hilo[g]
      BY <1>0, <2>3 DEF Pasa
    <2>5. /\ Finitas' /\ Total(s) = Total(s)' + 1
          /\ \A r \in Recursos \ {s} : Total(r)' = Total(r)
      BY <1>0, <2>2, UnaMenos DEF Cuentas
    <2>6. \A r \in Recursos :
            /\ Lee(r)' <=> Lee(r)
            /\ ~Devuelve(h, r)' /\ (Devuelve(h, r) <=> r = s)
            /\ \A g \in Hilos \ {h} : Devuelve(g, r)' <=> Devuelve(g, r)
      BY <1>0, <1>d, <2>1, <2>2, <2>3, <2>4 DEF Lee, Devuelve
    <2>7. \A r \in Recursos :
            /\ Bit(Lee(r))' = Bit(Lee(r))
            /\ Devueltas(r) = Devueltas(r)' + (IF r = s THEN 1 ELSE 0)
            /\ Devueltas(r)' \in Int
      BY <1>0, <2>6 DEF Bit, Devueltas
    <2>8. Total(s)' \in Nat
      <3>1. IsFiniteSet(Retenidas(s))'
        BY <2>5 DEF Finitas
      <3>2. IsFiniteSet(Retenidas(s)') => Cardinality(Retenidas(s)') \in Nat
        BY FS_CardinalityType
      <3> QED
        BY <3>1, <3>2 DEF Total
    <2>9. \A r \in Recursos :
            instancias'[r] + Total(r)' + Bit(Lee(r))' - Devueltas(r)' = Instancias[r]
      BY <1>a, <1>b, <2>2, <2>5, <2>7, <2>8
    <2>10. Conservacion'
      BY <2>9 DEF Conservacion, Lee
    <2> QED
      BY <2>5, <2>10 DEF Cuentas
  <1> QED
    BY <1>1, <1>2, <1>3 DEF SumarInstancia

LEMMA PasoCuentasIguales == IndInv /\ Cuentas /\ [Next]_vars => Cuentas'
  <1> SUFFICES ASSUME IndInv, Cuentas, [Next]_vars PROVE Cuentas'
    OBVIOUS
  <1>1. CASE Fuera \/ UNCHANGED vars
    <2>1. UNCHANGED <<hilo, instancias, asignadas>>
      BY <1>1, FueraNoPasa DEF vars
    <2>2. Finitas'
      BY <2>1 DEF Cuentas, Finitas, Retenidas
    <2>3. Conservacion'
      BY <2>1 DEF Cuentas, Conservacion, Total, Retenidas, Devueltas, Devuelve
    <2> QED
      BY <2>2, <2>3 DEF Cuentas
  <1>2. CASE Propios
    BY <1>2, CuentasPropias
  <1>3. CASE \E h \in Hilos : SumarInstancia(h)
    BY <1>3, CuentasAlSumar
  <1> QED
    BY <1>1, <1>2, <1>3 DEF Next, Fuera, Propios

LEMMA InicioCuentas == Init => IndInv /\ Cuentas
  <1> SUFFICES ASSUME Init PROVE IndInv /\ Cuentas
    OBVIOUS
  <1>1. IndInv
    BY InicioTipos, InicioLugares DEF IndInv
  <1>2. /\ instancias = Instancias /\ hilo = [h \in Hilos |-> Libre] /\ Libre.en = "libre"
        /\ "despacho" \in Hilos /\ "eliminacion" \in Hilos
        /\ \A p \in Pids, r \in Recursos : asignadas[p][r] = 0
    BY DEF Init, Libre, Hilos
  <1>3. \A r \in Recursos : Retenidas(r) = {}
    BY <1>2, RetenidasAssumption DEF Retenidas
  <1>4. IsFiniteSet({}) /\ Cardinality({}) = 0
    BY FS_EmptySet
  <1>5. Finitas /\ \A r \in Recursos : Total(r) = 0
    BY <1>3, <1>4 DEF Finitas, Total
  <1>6. \A r \in Recursos : Devueltas(r) = 0 /\ Bit(Lee(r)) = 0
    BY <1>2 DEF Devueltas, Devuelve, Sumando, Bit, Lee
  <1>7. Conservacion
    <2>1. \A r \in Recursos : instancias[r] + Total(r) + Bit(Lee(r)) - Devueltas(r) = Instancias[r]
      BY <1>2, <1>5, <1>6, InstanciasAssumption
    <2> QED
      BY <2>1 DEF Conservacion, Lee
  <1> QED
    BY <1>1, <1>5, <1>7 DEF Cuentas

(* For every set of processes and resources, and in every interleaving of
   the two threads that change the counters, instancias and the accounts of
   the processes add up to instancias_maximas: the mutex of the counter
   does not cover the account, but each thread works for a process that is
   in no other place, so an instance added is always one that was held.    *)
THEOREM SeConserva == Spec => []Conservacion
  <1>1. IndInv /\ Cuentas => Conservacion
    BY DEF Cuentas
  <1> QED
    BY <1>1, InicioCuentas, PasoIndInv, PasoCuentasIguales, PTL DEF Spec

-----------------------------------------------------------------------------
(* Mutual exclusion.                                                       *)

LEMMA EntranYSalen ==
  ASSUME NEW s \in Seq(Pids)
  PROVE  /\ \A e \in Pids, p \in Pids :
              p \in Elementos(Append(s, e)) <=> p \in Elementos(s) \/ p = e
         /\ s # <<>> => \A p \in Pids :
              p \in Elementos(s) <=> p \in Elementos(Tail(s)) \/ p = Head(s)
  <1>1. ASSUME NEW e \in Pids, NEW p \in Pids
        PROVE  p \in Elementos(Append(s, e)) <=> p \in Elementos(s) \/ p = e
    <2>1. Append(s, e) \in Seq(Pids)
      BY Cola
    <2>2. Veces(Append(s, e), p) > 0 <=> p \in Elementos(Append(s, e))
      BY <2>1, Aparece
    <2>3. Veces(s, p) \in Nat /\ (Veces(s, p) > 0 <=> p \in Elementos(s))
      BY Aparece
    <2>4. Veces(Append(s, e), p) = Veces(s, p) + Bit(e = p)
      BY Entra
    <2> QED
      BY <2>2, <2>3, <2>4 DEF Bit
  <1>2. ASSUME s # <<>>, NEW p \in Pids
        PROVE  p \in Elementos(s) <=> p \in Elementos(Tail(s)) \/ p = Head(s)
    <2>1. Tail(s) \in Seq(Pids)
      BY <1>2, Cola
    <2>2. Veces(Tail(s), p) \in Nat /\ (Veces(Tail(s), p) > 0 <=> p \in Elementos(Tail(s)))
      BY <2>1, Aparece
    <2>3. Veces(s, p) > 0 <=> p \in Elementos(s)
      BY Aparece
    <2>4. Veces(s, p) = Veces(Tail(s), p) + Bit(Head(s) = p)
      BY <1>2, Sale
    <2> QED
      BY <2>2, <2>3, <2>4 DEF Bit
  <1> QED
    BY <1>1, <1>2

(* The process that WAIT or SIGNAL serves has not exited.                  *)
LEMMA NoSale ==
  ASSUME Tipos, UnLugar, D.en \notin {"libre", "bloquear"}
  PROVE  D.pid \in Pids /\ D.pid \notin Elementos(colaExit) /\ D.pid # E.pid
  <1>1. D.pid \in Pids /\ EnExec(D.pid)
    BY DEF Tipos, Actores, EnExec, PorEntrar
  <1>2. PICK p \in Pids : p = D.pid
    BY <1>1
  <1>3. Bit(EnExec(p)) = 1
    BY <1>1, <1>2 DEF Bit
  <1>4. Veces(colaExit, p) = 0
    BY <1>3, Numeros DEF UnLugar, Suma
  <1>5. p \notin Elementos(colaExit)
    BY <1>4, Aparece DEF Tipos, TypeOK
  <1> QED
    BY <1>1, <1>2, <1>5, Distintos

(* What a step leaves of the debt when it touches neither the counter nor
   the queue of r.                                                         *)
LEMMA DeudaSigue ==
  ASSUME Tipos, NEW r \in Recursos \ SalenCon, Deuda(r),
         instancias'[r] = instancias[r], cola'[r] = cola[r],
         Leyendo(r)' = Leyendo(r),
         (D.en = "encolar" /\ D.recurso = r)' = (D.en = "encolar" /\ D.recurso = r),
         D'.en = "despertar" /\ D'.recurso = r => instancias[r] >= 0,
         E'.recurso # r,
         \A p \in Pids : p \in Elementos(colaExit') \/ p = E'.pid => asignadas'[p][r] = 0
  PROVE  Deuda(r)'
  <1>1. EnEspera(r)' = EnEspera(r)
    BY DEF EnEspera, D
  <1>2. Bit(Leyendo(r))' = Bit(Leyendo(r))
    BY DEF Bit
  <1>3. (instancias[r] + Bit(Leyendo(r)) + EnEspera(r) >= 0)'
    BY <1>1, <1>2 DEF Deuda
  <1> QED
    BY <1>3 DEF Deuda

LEMMA DeudaFuera ==
  ASSUME Tipos, NEW r \in Recursos \ SalenCon, Deuda(r), Fuera \/ UNCHANGED vars
  PROVE  Deuda(r)'
  <1>1. UNCHANGED <<hilo, instancias, asignadas, cola>>
    BY FueraNoPasa DEF vars
  <1>2. D' = D /\ E' = E
    BY <1>1 DEF D, E
  <1>3. \A p \in Pids : p \in Elementos(colaExit') =>
                          p \in Elementos(colaExit) \/ asignadas[p][r] = 0
    <2>1. CASE colaExit' = colaExit
      BY <2>1
    <2>2. CASE Salir
      <3>1. /\ ejecutando \in Pids /\ colaExit \in Seq(Pids)
            /\ colaExit' = Append(colaExit, ejecutando) /\ asignadas[ejecutando][r] = 0
        BY <2>2 DEF Salir, Ejecuta, Tipos, TypeOK
      <3>2. \A p \in Pids : p \in Elementos(colaExit') <=> p \in Elementos(colaExit) \/ p = ejecutando
        BY <3>1, EntranYSalen
      <3> QED
        BY <3>1, <3>2
    <2>3. colaExit' = colaExit \/ Salir
      BY DEF Fuera, Crear, TerminarIo, Despachar, Desalojar, PedirIo, vars
    <2> QED
      BY <2>1, <2>2, <2>3
  <1> QED
    BY <1>1, <1>2, <1>3, DeudaSigue DEF Deuda, Leyendo

LEMMA DeudaPropia ==
  ASSUME IndInv, NEW r \in Recursos \ SalenCon, Deuda(r), Propios
  PROVE  Deuda(r)'
  <1>0. /\ Tipos /\ UnLugar /\ TypeOK /\ Actores /\ D = hilo["despacho"] /\ E = hilo["eliminacion"]
        /\ D \in Fichas /\ E \in Fichas /\ "despacho" \in Hilos /\ "eliminacion" \in Hilos
        /\ instancias \in [Recursos -> Int] /\ cola \in [Recursos -> Seq(Pids)]
        /\ colaExit \in Seq(Pids)
        /\ asignadas \in [Pids -> [Recursos -> 0..MAX_RETENIDAS]] /\ NULO \notin Pids
        /\ E.en # "libre" => E.pid \in Pids
    BY Ficha DEF IndInv, Tipos, TypeOK
  <1>a. /\ instancias[r] \in Int /\ Len(cola[r]) \in Nat /\ r \in Recursos /\ r # NULO
        /\ Bit(Leyendo(r)) \in 0 .. 1
        /\ EnEspera(r) = Len(cola[r]) + Bit(D.en = "encolar" /\ D.recurso = r)
    BY <1>0, Cola, NuloAssumption DEF Bit, EnEspera
  <1>b. /\ instancias[r] + Bit(Leyendo(r)) + EnEspera(r) >= 0
        /\ D.en = "despertar" /\ D.recurso = r => instancias[r] >= 0
        /\ E.recurso # r
        /\ \A p \in Pids : p \in Elementos(colaExit) \/ p = E.pid => asignadas[p][r] = 0
    BY DEF Deuda
  <1>1. ASSUME NEW s \in Recursos, Restar(s) PROVE Deuda(r)'
    <2> DEFINE x == [Libre EXCEPT !.en = "leer", !.pid = ejecutando, !.recurso = s]
    <2>1. /\ D.en = "libre" /\ UNCHANGED <<asignadas, cola, colaExit>>
          /\ instancias' = [instancias EXCEPT ![s] = @ - 1] /\ Pasa("despacho", x)
      BY <1>0, <1>1, PasosPropios DEF Restar, Ejecuta
    <2>2. x.en = "leer" /\ x.recurso = s
      BY DEF Libre
    <2> HIDE DEF x
    <2>3. D' = x /\ E' = E
      BY <1>0, <2>1, Pasan
    <2>4. /\ Bit(Leyendo(r)) = 0 /\ EnEspera(r) = Len(cola[r])
          /\ Bit(Leyendo(r))' = (IF s = r THEN 1 ELSE 0) /\ EnEspera(r)' = Len(cola[r])
      <3>1. ~Leyendo(r) /\ (Leyendo(r)' <=> s = r)
        BY <2>1, <2>2, <2>3 DEF Leyendo
      <3>2. EnEspera(r)' = Len(cola[r]) + Bit(D'.en = "encolar" /\ D'.recurso = r)
        BY <2>1 DEF EnEspera, D
      <3> QED
        BY <1>a, <2>1, <2>2, <2>3, <3>1, <3>2 DEF Bit
    <2>5. instancias'[r] = IF s = r THEN instancias[r] - 1 ELSE instancias[r]
      BY <1>0, <2>1
    <2>6. instancias'[r] + Bit(Leyendo(r))' + EnEspera(r)' >= 0
      BY <1>a, <1>b, <2>4, <2>5
    <2> QED
      BY <1>b, <2>1, <2>2, <2>3, <2>6 DEF Deuda
  <1>2. ASSUME NEW s \in Recursos, Signal(s) PROVE Deuda(r)'
    <2> DEFINE x == [Libre EXCEPT !.en = "sumar", !.pid = ejecutando, !.recurso = s]
    <2>1. /\ D.en = "libre" /\ UNCHANGED <<instancias, asignadas, cola, colaExit>>
          /\ Pasa("despacho", x)
      BY <1>0, <1>2, PasosPropios DEF Signal, Ejecuta
    <2>2. x.en = "sumar"
      BY DEF Libre
    <2> HIDE DEF x
    <2>3. D' = x /\ E' = E
      BY <1>0, <2>1, Pasan
    <2> QED
      BY <1>0, <1>b, <2>1, <2>2, <2>3, DeudaSigue DEF Leyendo
  <1>3. ASSUME NEW s \in Recursos, Liberar(s) PROVE Deuda(r)'
    <2>1. /\ E.en = "liberar" /\ asignadas[E.pid][s] > 0
          /\ UNCHANGED <<instancias, asignadas, colaExit>>
          /\ cola' = [cola EXCEPT ![s] = Sacar(@, E.pid)]
      BY <1>0, <1>3 DEF Liberar
    <2>2. s # r
      BY <1>0, <1>b, <2>1
    <2>3. cola'[r] = cola[r]
      BY <1>0, <2>1, <2>2
    <2>4. PICK lugar : Pasa("eliminacion", [E EXCEPT !.recurso = s, !.en = lugar])
      BY <1>0, <1>3, PasosPropios
    <2> DEFINE x == [E EXCEPT !.recurso = s, !.en = lugar]
    <2>5. x.recurso = s /\ x.pid = E.pid /\ Pasa("eliminacion", x)
      BY <1>0, <2>4 DEF Fichas
    <2> HIDE DEF x
    <2>6. D' = D /\ E' = x
      BY <1>0, <2>5, Pasan
    <2> QED
      BY <1>0, <1>b, <2>1, <2>2, <2>3, <2>5, <2>6, DeudaSigue DEF Leyendo
  <1>4. CASE LeerInstancias
    <2>1. /\ D.en = "leer" /\ D.recurso \in Recursos /\ UNCHANGED <<instancias, cola, colaExit>>
          /\ asignadas' = [asignadas EXCEPT ![D.pid][D.recurso] = @ + 1]
      BY <1>0, <1>4 DEF LeerInstancias, Actores
    <2>2. D.pid \in Pids /\ D.pid \notin Elementos(colaExit) /\ D.pid # E.pid
      BY <1>0, <2>1, NoSale
    <2>3. PICK x : /\ Pasa("despacho", x)
                   /\ \/ x.en = "encolar" /\ x.recurso = D.recurso /\ instancias[D.recurso] < 0
                      \/ x.en = "libre" /\ ~(instancias[D.recurso] < 0)
      <3>1. /\ [D EXCEPT !.en = "encolar"].en = "encolar" /\ Libre.en = "libre"
            /\ [D EXCEPT !.en = "encolar"].recurso = D.recurso
        BY <1>0 DEF Libre, Fichas
      <3>2. \/ Pasa("despacho", [D EXCEPT !.en = "encolar"]) /\ instancias[D.recurso] < 0
            \/ Pasa("despacho", Libre) /\ ~(instancias[D.recurso] < 0)
        BY <1>0, <1>4, <2>1, PasosPropios
      <3> QED
        BY <3>1, <3>2
    <2>4. D' = x /\ E' = E
      BY <1>0, <2>3, Pasan
    <2>5. \A p \in Pids : p \in Elementos(colaExit') \/ p = E'.pid => asignadas'[p][r] = 0
      <3>1. ASSUME NEW p \in Pids, p \in Elementos(colaExit') \/ p = E'.pid
            PROVE  asignadas'[p][r] = 0
        <4>1. p # D.pid /\ asignadas[p][r] = 0
          BY <1>b, <2>1, <2>2, <2>4, <3>1
        <4> QED
          BY <1>0, <2>1, <4>1
      <3> QED
        BY <3>1
    <2>6. instancias'[r] + Bit(Leyendo(r))' + EnEspera(r)' >= 0
      <3>1. ~Leyendo(r)' /\ (Leyendo(r) <=> D.recurso = r)
        BY <2>1, <2>3, <2>4 DEF Leyendo
      <3>2. EnEspera(r)' = Len(cola[r]) + Bit(D'.en = "encolar" /\ D'.recurso = r)
        BY <2>1 DEF EnEspera, D
      <3>3. EnEspera(r) = Len(cola[r])
        BY <1>a, <2>1 DEF Bit
      <3>0. instancias'[r] = instancias[r] /\ Bit(Leyendo(r))' = 0
        BY <2>1, <3>1 DEF Bit
      <3>4. CASE D.recurso = r
        <4>1. Bit(Leyendo(r)) = 1
          BY <3>1, <3>4 DEF Bit
        <4>2. CASE instancias[r] < 0
          <5>1. EnEspera(r)' = Len(cola[r]) + 1
            BY <2>3, <2>4, <3>2, <3>4, <4>2 DEF Bit
          <5> QED
            BY <1>a, <1>b, <3>0, <3>3, <4>1, <5>1
        <4>3. CASE ~(instancias[r] < 0)
          <5>1. EnEspera(r)' = Len(cola[r]) + 0
            BY <2>3, <2>4, <3>2, <3>4, <4>3 DEF Bit
          <5> QED
            BY <1>a, <3>0, <4>3, <5>1
        <4> QED
          BY <4>2, <4>3
      <3>5. CASE D.recurso # r
        <4>1. Bit(Leyendo(r)) = 0
          BY <3>1, <3>5 DEF Bit
        <4>2. EnEspera(r)' = Len(cola[r]) + 0
          BY <2>3, <2>4, <3>2, <3>5 DEF Bit
        <4> QED
          BY <1>a, <1>b, <3>0, <3>3, <4>1, <4>2
      <3> QED
        BY <3>4, <3>5
    <2> QED
      BY <1>b, <2>1, <2>3, <2>4, <2>5, <2>6 DEF Deuda
  <1>5. CASE Encolar
    <2> DEFINE x == [D EXCEPT !.en = "bloquear"]
    <2>1. /\ D.en = "encolar" /\ UNCHANGED <<instancias, asignadas, colaExit>> /\ D.recurso \in Recursos
          /\ D.pid \in Pids /\ cola' = [cola EXCEPT ![D.recurso] = Append(cola[D.recurso], D.pid)]
      BY <1>0, <1>5 DEF Encolar, Actores
    <2>2. Pasa("despacho", x) /\ x.en = "bloquear"
      BY <1>0, <1>5, <2>1, PasosPropios DEF Fichas
    <2> HIDE DEF x
    <2>3. D' = x /\ E' = E
      BY <1>0, <2>2, Pasan
    <2>4. instancias'[r] + Bit(Leyendo(r))' + EnEspera(r)' >= 0
      <3>1. ~Leyendo(r)' /\ ~Leyendo(r)
        BY <2>1, <2>2, <2>3 DEF Leyendo
      <3>2. EnEspera(r)' = Len(cola'[r]) + Bit(D'.en = "encolar" /\ D'.recurso = r)
        BY DEF EnEspera, D
      <3>3. Len(cola'[r]) = Len(cola[r]) + Bit(D.recurso = r)
        <4>1. Len(Append(cola[D.recurso], D.pid)) = Len(cola[D.recurso]) + 1
          BY <1>0, <2>1, Cola
        <4>2. D.recurso # r => cola'[r] = cola[r]
          BY <1>0, <2>1
        <4>3. cola'[D.recurso] = Append(cola[D.recurso], D.pid)
          BY <1>0, <2>1
        <4>4. CASE D.recurso = r
          <5>1. Len(cola'[r]) = Len(cola[r]) + 1
            BY <4>1, <4>3, <4>4
          <5> QED
            BY <4>4, <5>1 DEF Bit
        <4>5. CASE D.recurso # r
          BY <1>a, <4>2, <4>5 DEF Bit
        <4> QED
          BY <4>4, <4>5
      <3>4. EnEspera(r)' = EnEspera(r)
        <4>1. Bit(D'.en = "encolar" /\ D'.recurso = r) = 0
          BY <2>2, <2>3 DEF Bit
        <4>2. Bit(D.en = "encolar" /\ D.recurso = r) = Bit(D.recurso = r) /\ Bit(D.recurso = r) \in 0 .. 1
          BY <2>1 DEF Bit
        <4> QED
          BY <1>a, <3>2, <3>3, <4>1, <4>2
      <3>5. Bit(Leyendo(r))' = Bit(Leyendo(r))
        BY <3>1 DEF Bit
      <3> QED
        BY <1>b, <2>1, <3>4, <3>5
    <2> QED
      BY <1>b, <2>1, <2>2, <2>3, <2>4 DEF Deuda
  <1>6. CASE Bloquear
    <2>1. /\ D.en = "bloquear" /\ UNCHANGED <<instancias, asignadas, cola, colaExit>>
          /\ Pasa("despacho", Libre)
      BY <1>0, <1>6 DEF Bloquear, Pasa
    <2>2. D' = Libre /\ E' = E /\ Libre.en = "libre"
      BY <1>0, <2>1, Pasan DEF Libre
    <2> QED
      BY <1>0, <1>b, <2>1, <2>2, DeudaSigue DEF Leyendo
  <1>7. CASE TomarExit
    <2> DEFINE c == Head(colaExit)
               x == [Libre EXCEPT !.en = "liberar", !.pid = c]
    <2>1. /\ colaExit # <<>> /\ colaExit' = Tail(colaExit)
          /\ UNCHANGED <<instancias, asignadas, cola>> /\ Pasa("eliminacion", x)
      BY <1>0, <1>7 DEF TomarExit, Pasa
    <2>2. x.pid = c /\ x.recurso = NULO
      BY DEF Libre
    <2>3. \A p \in Pids : p \in Elementos(colaExit) <=> p \in Elementos(colaExit') \/ p = c
      BY <1>0, <2>1, EntranYSalen
    <2> HIDE DEF x, c
    <2>4. D' = D /\ E' = x
      BY <1>0, <2>1, Pasan
    <2> QED
      BY <1>0, <1>a, <1>b, <2>1, <2>2, <2>3, <2>4, DeudaSigue DEF Leyendo
  <1>8. CASE Terminar
    <2>1. UNCHANGED <<instancias, asignadas, cola, colaExit>> /\ Pasa("eliminacion", Libre)
      BY <1>0, <1>8 DEF Terminar, Pasa
    <2>2. D' = D /\ E' = Libre /\ Libre.pid = NULO /\ Libre.recurso = NULO
      BY <1>0, <2>1, Pasan DEF Libre
    <2> QED
      BY <1>0, <1>a, <1>b, <2>1, <2>2, DeudaSigue DEF Leyendo
  <1> QED
    BY <1>1, <1>2, <1>3, <1>4, <1>5, <1>6, <1>7, <1>8 DEF Propios

LEMMA DeudaAlSumar ==
  ASSUME IndInv, NEW r \in Recursos \ SalenCon, Deuda(r), NEW h \in Hilos, SumarInstancia(h)
  PROVE  Deuda(r)'
  <1>0. /\ Tipos /\ UnLugar /\ TypeOK /\ Actores /\ hilo[h] \in Fichas
        /\ D = hilo["despacho"] /\ E = hilo["eliminacion"]
        /\ Hilos = {"despacho", "eliminacion"} /\ hilo \in [Hilos -> Fichas]
        /\ instancias \in [Recursos -> Int] /\ cola \in [Recursos -> Seq(Pids)]
        /\ asignadas \in [Pids -> [Recursos -> 0..MAX_RETENIDAS]] /\ r \in Recursos
    BY Ficha DEF IndInv, Tipos, TypeOK, Fichas, Lugares
  <1>a. /\ instancias[r] \in Int /\ Len(cola[r]) \in Nat /\ r # NULO
        /\ Bit(Leyendo(r)) \in 0 .. 1
        /\ EnEspera(r) = Len(cola[r]) + Bit(D.en = "encolar" /\ D.recurso = r)
    BY <1>0, Cola, NuloAssumption DEF Bit, EnEspera
  <1>b. /\ instancias[r] + Bit(Leyendo(r)) + EnEspera(r) >= 0
        /\ D.en = "despertar" /\ D.recurso = r => instancias[r] >= 0
        /\ E.recurso # r
        /\ \A p \in Pids : p \in Elementos(colaExit) \/ p = E.pid => asignadas[p][r] = 0
    BY DEF Deuda
  <1>c. UNCHANGED colaExit /\ hilo[h].en \in Trabaja
    BY DEF SumarInstancia, Sumar, Revisar, Despertar, BuscarIndice, SacarDeBloqueados,
           AgregarAReady, Devolver, lista, Trabaja, Sumando
  <1>d. /\ h = "despacho" => D.en \in Trabaja /\ D.en \notin {"leer", "encolar"}
        /\ h = "eliminacion" => hilo[h].recurso # r
        /\ hilo[h].recurso \in Recursos
    <2>1. D.en \in Trabaja => D.recurso \in Recursos /\ D.en \notin {"leer", "encolar"}
      BY <1>0 DEF Actores, Trabaja, Sumando
    <2>2. E.en \in Trabaja => E.recurso \in Recursos
      BY <1>0 DEF Actores
    <2> QED
      BY <1>0, <1>b, <1>c, <2>1, <2>2
  \* A step that moves the thread only, to a place other than "despertar".
  <1>1. ASSUME NEW x, Pasa(h, x), x.en \notin {"leer", "encolar", "despertar"},
               x.recurso \in {hilo[h].recurso, NULO}, x.pid \in {hilo[h].pid, NULO},
               instancias'[r] = instancias[r], cola'[r] = cola[r],
               \A p \in Pids : p \in Elementos(colaExit) \/ p = E.pid => asignadas'[p][r] = 0,
               NULO \notin Pids
        PROVE  Deuda(r)'
    <2>1. CASE h = "despacho"
      <3>1. D' = x /\ E' = E
        BY <1>0, <1>1, <2>1, Pasan
      <3> QED
        BY <1>0, <1>b, <1>c, <1>d, <1>1, <2>1, <3>1, DeudaSigue DEF Leyendo
    <2>2. CASE h = "eliminacion"
      <3>1. D' = D /\ E' = x
        BY <1>0, <1>1, <2>2, Pasan
      <3>2. E'.recurso # r
        BY <1>0, <1>a, <1>d, <1>1, <2>2, <3>1
      <3>3. \A p \in Pids : p = E'.pid => p = E.pid
        BY <1>0, <1>1, <2>2, <3>1
      <3> QED
        BY <1>0, <1>b, <1>c, <1>1, <3>1, <3>2, <3>3, DeudaSigue DEF Leyendo
    <2> QED
      BY <1>0, <2>1, <2>2
  <1>e. NULO \notin Pids
    BY NuloAssumption
  <1>2. CASE Sumar(h)
    <2> DEFINE x == [hilo[h] EXCEPT !.en = "revisar"]
    <2>1. /\ instancias' = [instancias EXCEPT ![hilo[h].recurso] = @ + 1]
          /\ UNCHANGED <<asignadas, cola>>
      BY <1>2 DEF Sumar
    <2>2. Pasa(h, x) /\ x.en = "revisar" /\ x.recurso = hilo[h].recurso /\ x.pid = hilo[h].pid
      BY <1>0, <1>2, PasosDeSumar DEF Fichas
    <2> HIDE DEF x
    <2>3. CASE hilo[h].recurso # r
      <3>1. instancias'[r] = instancias[r]
        BY <1>0, <2>1, <2>3
      <3> QED
        BY <1>b, <1>e, <1>1, <2>1, <2>2, <3>1
    <2>4. CASE hilo[h].recurso = r
      <3>1. h = "despacho" /\ instancias'[r] = instancias[r] + 1
        BY <1>0, <1>d, <2>1, <2>4
      <3>2. D' = x /\ E' = E
        BY <1>0, <2>2, <3>1, Pasan
      <3>3. Bit(Leyendo(r))' = 0 /\ Bit(Leyendo(r)) = 0 /\ EnEspera(r)' = EnEspera(r)
        <4>1. ~Leyendo(r) /\ ~Leyendo(r)'
          BY <1>d, <2>2, <3>1, <3>2 DEF Leyendo
        <4>2. EnEspera(r)' = Len(cola[r]) + Bit(D'.en = "encolar" /\ D'.recurso = r)
          BY <2>1 DEF EnEspera, D
        <4>3. /\ Bit(D'.en = "encolar" /\ D'.recurso = r) = 0
              /\ Bit(D.en = "encolar" /\ D.recurso = r) = 0
          BY <1>d, <2>2, <3>1, <3>2 DEF Bit
        <4>4. Bit(Leyendo(r))' = 0 /\ Bit(Leyendo(r)) = 0
          BY <4>1 DEF Bit
        <4>5. EnEspera(r)' = Len(cola[r]) + 0 /\ EnEspera(r) = Len(cola[r]) + 0
          BY <1>a, <4>2, <4>3
        <4> QED
          BY <4>4, <4>5
      <3>4. EnEspera(r) \in Int
        BY <1>a DEF Bit
      <3>5. instancias'[r] + Bit(Leyendo(r))' + EnEspera(r)' >= 0
        BY <1>a, <1>b, <3>1, <3>3, <3>4
      <3> QED
        BY <1>b, <1>c, <2>1, <2>2, <3>2, <3>5 DEF Deuda
    <2> QED
      BY <2>3, <2>4
  <1>3. CASE Revisar(h)
    <2>1. UNCHANGED <<instancias, asignadas, cola>>
      BY <1>3 DEF Revisar
    <2>2. CASE Pasa(h, [hilo[h] EXCEPT !.en = "devolver"])
      <3> DEFINE x == [hilo[h] EXCEPT !.en = "devolver"]
      <3>1. Pasa(h, x) /\ x.en = "devolver" /\ x.recurso = hilo[h].recurso /\ x.pid = hilo[h].pid
        BY <1>0, <2>2 DEF Fichas
      <3> HIDE DEF x
      <3> QED
        BY <1>b, <1>e, <1>1, <2>1, <3>1
    <2>3. CASE /\ instancias[hilo[h].recurso] >= 0
               /\ Pasa(h, [hilo[h] EXCEPT !.en = "despertar"])
      <3> DEFINE x == [hilo[h] EXCEPT !.en = "despertar"]
      <3>1. Pasa(h, x) /\ x.en = "despertar" /\ x.recurso = hilo[h].recurso /\ x.pid = hilo[h].pid
        BY <1>0, <2>3 DEF Fichas
      <3> HIDE DEF x
      <3>2. CASE h = "despacho"
        <4>1. D' = x /\ E' = E
          BY <1>0, <3>1, <3>2, Pasan
        <4> QED
          BY <1>0, <1>b, <1>c, <1>d, <2>1, <2>3, <3>1, <3>2, <4>1, DeudaSigue DEF Leyendo
      <3>3. CASE h = "eliminacion"
        <4>1. D' = D /\ E' = x
          BY <1>0, <3>1, <3>3, Pasan
        <4> QED
          BY <1>0, <1>b, <1>c, <1>d, <2>1, <3>1, <3>3, <4>1, DeudaSigue DEF Leyendo
      <3> QED
        BY <1>0, <3>2, <3>3
    <2> QED
      BY <1>0, <1>3, <2>2, <2>3, PasosDeSumar
  <1>4. CASE Despertar(h)
    <2>1. UNCHANGED <<instancias, asignadas>> /\ hilo[h].en = "despertar"
      BY <1>4 DEF Despertar
    <2>2. CASE Pasa(h, [hilo[h] EXCEPT !.en = "devolver"]) /\ UNCHANGED cola
      <3> DEFINE x == [hilo[h] EXCEPT !.en = "devolver"]
      <3>1. Pasa(h, x) /\ x.en = "devolver" /\ x.recurso = hilo[h].recurso /\ x.pid = hilo[h].pid
        BY <1>0, <2>2 DEF Fichas
      <3> HIDE DEF x
      <3> QED
        BY <1>b, <1>e, <1>1, <2>1, <2>2, <3>1
    <2>3. CASE /\ cola[hilo[h].recurso] # <<>>
               /\ Pasa(h, [hilo[h] EXCEPT !.en = "buscar",
                                          !.despertado = Head(cola[hilo[h].recurso])])
               /\ cola' = [cola EXCEPT ![hilo[h].recurso] = Tail(@)]
      <3> DEFINE c == Head(cola[hilo[h].recurso])
                 x == [hilo[h] EXCEPT !.en = "buscar", !.despertado = c]
      <3>1. Pasa(h, x) /\ x.en = "buscar" /\ x.recurso = hilo[h].recurso /\ x.pid = hilo[h].pid
        BY <1>0, <2>3 DEF Fichas
      <3> HIDE DEF c, x
      <3>2. CASE hilo[h].recurso # r
        <4>1. cola'[r] = cola[r]
          BY <1>0, <2>3, <3>2
        <4> QED
          BY <1>b, <1>e, <1>1, <2>1, <3>1, <4>1
      <3>3. CASE hilo[h].recurso = r
        <4>1. h = "despacho" /\ instancias[r] >= 0
          BY <1>0, <1>b, <1>d, <2>1, <3>3
        <4>2. D' = x /\ E' = E
          BY <1>0, <3>1, <4>1, Pasan
        <4>3. Bit(Leyendo(r))' = 0
          <5>1. ~Leyendo(r)'
            BY <3>1, <4>2 DEF Leyendo
          <5> QED
            BY <5>1 DEF Bit
        <4>4. EnEspera(r)' \in Nat
          <5>1. cola'[r] = Tail(cola[r]) /\ cola[r] \in Seq(Pids) /\ cola[r] # <<>>
            BY <1>0, <2>3, <3>3
          <5>2. Tail(cola[r]) \in Seq(Pids)
            BY <5>1, Cola
          <5>3. Len(cola'[r]) \in Nat
            BY <5>1, <5>2, Cola
          <5>4. EnEspera(r)' = Len(cola'[r]) + Bit(D'.en = "encolar" /\ D'.recurso = r)
            BY DEF EnEspera, D
          <5>5. Bit(D'.en = "encolar" /\ D'.recurso = r) \in 0 .. 1
            BY DEF Bit
          <5> QED
            BY <5>3, <5>4, <5>5
        <4>5. instancias'[r] + Bit(Leyendo(r))' + EnEspera(r)' >= 0
          BY <1>a, <2>1, <4>1, <4>3, <4>4
        <4> QED
          BY <1>b, <1>c, <2>1, <3>1, <4>1, <4>2, <4>5 DEF Deuda
      <3> QED
        BY <3>2, <3>3
    <2> QED
      BY <1>0, <1>4, <2>2, <2>3, PasosDeSumar
  <1>5. CASE BuscarIndice(h)
    <2> DEFINE x == [hilo[h] EXCEPT !.en = "sacar", !.indice = IndiceDe(h)]
    <2>1. UNCHANGED <<instancias, asignadas, cola>>
      BY <1>5 DEF BuscarIndice
    <2>2. Pasa(h, x) /\ x.en = "sacar" /\ x.recurso = hilo[h].recurso /\ x.pid = hilo[h].pid
      BY <1>0, <1>5, PasosDeSumar DEF Fichas
    <2> HIDE DEF x
    <2> QED
      BY <1>b, <1>e, <1>1, <2>1, <2>2
  <1>6. CASE SacarDeBloqueados(h)
    <2> DEFINE x == [hilo[h] EXCEPT !.en = "agregar"]
    <2>1. UNCHANGED <<instancias, asignadas, cola>>
      BY <1>6 DEF SacarDeBloqueados
    <2>2. Pasa(h, x) /\ x.en = "agregar" /\ x.recurso = hilo[h].recurso /\ x.pid = hilo[h].pid
      BY <1>0, <1>6, PasosDeSumar DEF Fichas
    <2> HIDE DEF x
    <2> QED
      BY <1>b, <1>e, <1>1, <2>1, <2>2
  <1>7. CASE AgregarAReady(h)
    <2> DEFINE x == [hilo[h] EXCEPT !.en = "devolver", !.despertado = NULO, !.indice = 0]
    <2>1. UNCHANGED <<instancias, asignadas, cola>>
      BY <1>7 DEF AgregarAReady
    <2>2. Pasa(h, x) /\ x.en = "devolver" /\ x.recurso = hilo[h].recurso /\ x.pid = hilo[h].pid
      BY <1>0, <1>7, PasosDeSumar DEF Fichas
    <2> HIDE DEF x
    <2> QED
      BY <1>b, <1>e, <1>1, <2>1, <2>2
  <1>8. CASE Devolver(h)
    <2>1. /\ UNCHANGED <<instancias, cola>> /\ hilo[h].en = "devolver"
          /\ asignadas' = [asignadas EXCEPT ![hilo[h].pid][hilo[h].recurso] = @ - 1]
      BY <1>8 DEF Devolver
    <2>2. PICK x : /\ Pasa(h, x) /\ x.en \in {"libre", "liberar"} /\ x.recurso = NULO
                   /\ x.pid \in {hilo[h].pid, NULO}
      <3>1. /\ Libre.en = "libre" /\ Libre.recurso = NULO /\ Libre.pid = NULO
            /\ [hilo[h] EXCEPT !.en = "liberar", !.recurso = NULO].en = "liberar"
            /\ [hilo[h] EXCEPT !.en = "liberar", !.recurso = NULO].recurso = NULO
            /\ [hilo[h] EXCEPT !.en = "liberar", !.recurso = NULO].pid = hilo[h].pid
        BY <1>0 DEF Libre, Fichas
      <3>2. Pasa(h, IF h = "despacho" THEN Libre
                    ELSE [hilo[h] EXCEPT !.en = "liberar", !.recurso = NULO])
        BY <1>0, <1>8, PasosDeSumar
      <3> QED
        BY <3>1, <3>2
    <2>3. ASSUME NEW p \in Pids, p \in Elementos(colaExit) \/ p = E.pid
          PROVE  asignadas'[p][r] = 0
      <3>1. asignadas[p][r] = 0
        BY <1>b, <2>3
      <3>2. p # hilo[h].pid \/ r # hilo[h].recurso
        <4>1. CASE h = "despacho"
          <5>1. D.en \notin {"libre", "bloquear"}
            BY <1>0, <2>1, <4>1
          <5> QED
            BY <1>0, <2>3, <4>1, <5>1, NoSale
        <4>2. CASE h = "eliminacion"
          BY <1>d, <4>2
        <4> QED
          BY <1>0, <4>1, <4>2
      <3> QED
        BY <1>0, <2>1, <3>1, <3>2
    <2> QED
      BY <1>e, <1>1, <2>1, <2>2, <2>3
  <1> QED
    BY <1>2, <1>3, <1>4, <1>5, <1>6, <1>7, <1>8 DEF SumarInstancia

LEMMA PasoDeuda == IndInv /\ DeudaCubierta /\ [Next]_vars => DeudaCubierta'
  <1> SUFFICES ASSUME IndInv, DeudaCubierta, [Next]_vars, NEW r \in Recursos \ SalenCon
               PROVE  Deuda(r)'
    BY DEF DeudaCubierta
  <1>1. Tipos /\ Deuda(r)
    BY DEF IndInv, DeudaCubierta
  <1>2. Fuera \/ UNCHANGED vars \/ Propios \/ \E h \in Hilos : SumarInstancia(h)
    BY DEF Next, Fuera, Propios
  <1> QED
    BY <1>1, <1>2, DeudaFuera, DeudaPropia, DeudaAlSumar

LEMMA InicioDeuda == Init => DeudaCubierta
  <1> SUFFICES ASSUME Init, NEW r \in Recursos \ SalenCon PROVE Deuda(r)
    BY DEF DeudaCubierta
  <1>1. /\ instancias = Instancias /\ D = Libre /\ E = Libre /\ cola[r] = <<>> /\ r # NULO
        /\ \A p \in Pids : asignadas[p][r] = 0
    BY NuloAssumption DEF Init, D, E, Hilos
  <1>2. Bit(Leyendo(r)) = 0 /\ EnEspera(r) = 0
    <2>1. D.en = "libre" /\ hilo["despacho"].en = "libre"
      BY <1>1 DEF Libre, D
    <2>2. Len(cola[r]) = 0
      BY <1>1
    <2>3. Bit(hilo["despacho"].en = "encolar" /\ hilo["despacho"].recurso = r) = 0
      BY <2>1 DEF Bit
    <2>4. Bit(Leyendo(r)) = 0
      BY <2>1 DEF Bit, Leyendo
    <2>5. EnEspera(r) = 0 + 0
      BY <2>2, <2>3 DEF EnEspera
    <2> QED
      BY <2>4, <2>5
  <1>3. Instancias[r] \in Nat
    BY InstanciasAssumption
  <1>4. D.en = "libre" /\ E.recurso = NULO
    BY <1>1 DEF Libre
  <1>5. instancias[r] + Bit(Leyendo(r)) + EnEspera(r) >= 0
    BY <1>1, <1>2, <1>3
  <1> QED
    BY <1>1, <1>4, <1>5 DEF Deuda

(* Of a resource that every program returns with SIGNAL before it exits
   there are never more instances granted than instancias_maximas, though
   WAIT reads the counter and joins the queue after the unlock, and SIGNAL
   adds an instance before it looks for somebody to wake: what the counter
   is below zero is always no more than those that wait, so the process
   that is woken takes an instance that nobody has.                        *)
THEOREM HayExclusionMutua == Spec => []ExclusionMutua
  <1>1. IndInv /\ Cuentas /\ DeudaCubierta => ExclusionMutua
    <2> SUFFICES ASSUME IndInv, Cuentas, DeudaCubierta, NEW r \in Recursos \ SalenCon
                 PROVE  Otorgadas(r) <= Instancias[r]
      BY DEF ExclusionMutua
    <2>1. instancias[r] + Total(r) + Bit(Lee(r)) - Devueltas(r) = Instancias[r]
      BY DEF Cuentas, Conservacion, Lee
    <2>2. instancias[r] + Bit(Lee(r)) + EnEspera(r) >= 0
      BY DEF DeudaCubierta, Deuda, Leyendo, Lee, D
    <2>3. instancias[r] \in Int /\ Instancias[r] \in Int /\ Len(cola[r]) \in Nat
      <3>1. instancias \in [Recursos -> Int] /\ cola \in [Recursos -> Seq(Pids)]
        BY DEF IndInv, Tipos, TypeOK
      <3> QED
        BY <3>1, InstanciasAssumption, Cola
    <2>4. Total(r) \in Nat
      BY FS_CardinalityType DEF Cuentas, Finitas, Total
    <2>5. Bit(Lee(r)) \in 0 .. 1 /\ Devueltas(r) \in Int /\ EnEspera(r) \in Int
      BY <2>3 DEF Bit, Devueltas, EnEspera
    <2> DEFINE i == instancias[r]
               k == Instancias[r]
               t == Total(r)
               l == Bit(Lee(r))
               v == Devueltas(r)
               e == EnEspera(r)
    <2>6. i \in Int /\ k \in Int /\ t \in Int /\ l \in Int /\ v \in Int /\ e \in Int
      BY <2>3, <2>4, <2>5
    <2>7. i + t + l - v = k /\ i + l + e >= 0
      BY <2>1, <2>2
    <2>8. Otorgadas(r) = t - v - e
      BY DEF Otorgadas
    <2> HIDE DEF i, k, t, l, v, e
    <2>9. t - v - e <= k
      BY <2>6, <2>7
    <2> QED
      BY <2>8, <2>9 DEF k
  <1> QED
    BY <1>1, InicioCuentas, InicioDeuda, PasoIndInv, PasoCuentasIguales, PasoDeuda, PTL DEF Spec

-----------------------------------------------------------------------------
(* The list of blocked processes.                                          *)

\* What thread h woke and has not taken out of the list yet.
Alza(h, p) == hilo[h].en \in {"buscar", "sacar"} /\ hilo[h].despertado = p

LEMMA Sitios ==
  ASSUME Tipos, UnLugar, NEW p \in Pids
  PROVE  /\ EnExec(p) => p \notin enIo /\ ~EnCola(p) /\ D.despertado # p /\ E.despertado # p
         /\ p \in enIo => ~EnCola(p) /\ D.despertado # p /\ E.despertado # p
         /\ EnCola(p) => D.despertado # p /\ E.despertado # p
         /\ D.despertado = p => E.despertado # p
         /\ Despertando(p) => D.despertado = p \/ E.despertado = p
         /\ Despertando(p) <=> Alza("despacho", p) \/ Alza("eliminacion", p)
  <1>1. Bit(EnExec(p)) + Bit(p \in enIo) + Bit(EnCola(p)) + Bit(D.despertado = p)
          + Bit(E.despertado = p) <= 1
    BY Numeros DEF UnLugar, Suma
  <1>2. Despertando(p) <=> Alza("despacho", p) \/ Alza("eliminacion", p)
    BY DEF Despertando, Alza, Hilos
  <1>3. Despertando(p) => D.despertado = p \/ E.despertado = p
    BY <1>2 DEF Alza, D, E
  <1> QED
    BY <1>1, <1>2, <1>3 DEF Bit

LEMMA Cancela ==
  ASSUME NEW w \in Int, NEW b \in Int, NEW d \in Int, NEW v, v = w + d, v = b + d
  PROVE  w = b
  OBVIOUS

LEMMA AlDiaSigue ==
  ASSUME BloqueadosAlDia, UNCHANGED <<bloqueados, enIo, listaRota>>,
         \A p \in Pids : /\ EnCola(p)' = EnCola(p) /\ Despertando(p)' = Despertando(p)
                         /\ EnBloqueo(p)' = EnBloqueo(p)
  PROVE  BloqueadosAlDia'
  <1>1. ASSUME NEW p \in Pids PROVE Bit(Debe(p))' = Bit(Debe(p))
    BY DEF Debe, Bit
  <1> QED
    BY <1>1 DEF BloqueadosAlDia

LEMMA AlDiaFuera ==
  ASSUME Tipos, UnLugar, BloqueadosAlDia, Fuera \/ UNCHANGED vars
  PROVE  BloqueadosAlDia'
  <1>0. /\ UNCHANGED <<hilo, cola>> /\ (D.en # "libre" => ejecutando' = ejecutando)
        /\ D' = D /\ E' = E /\ bloqueados \in Seq(Pids) /\ NULO \notin Pids
        /\ D = hilo["despacho"] /\ ejecutando \in Pids \cup {NULO}
    BY HiloFuera, Ficha DEF D, E, Tipos, TypeOK
  <1>1. ASSUME NEW p \in Pids
        PROVE  EnCola(p)' = EnCola(p) /\ Despertando(p)' = Despertando(p) /\ EnBloqueo(p)' = EnBloqueo(p)
    BY <1>0 DEF EnCola, Despertando, EnBloqueo, PorEntrar
  <1>2. CASE UNCHANGED <<bloqueados, enIo, listaRota>>
    BY <1>1, <1>2, AlDiaSigue
  <1>3. ASSUME NEW q \in Pids, TerminarIo(q) PROVE BloqueadosAlDia'
    <2>1. /\ q \in enIo /\ q \in Elementos(bloqueados) /\ bloqueados' = Sacar(bloqueados, q)
          /\ enIo' = enIo \ {q} /\ listaRota' = listaRota
      BY <1>3 DEF TerminarIo
    <2>2. ASSUME ~listaRota, NEW p \in Pids
          PROVE  Veces(bloqueados', p) = Bit(Debe(p))' /\ (EnBloqueo(p) => EnCola(p) \/ Despertando(p))'
      <3>1. Veces(bloqueados, p) = Bit(Debe(p)) /\ (EnBloqueo(p) => EnCola(p) \/ Despertando(p))
        BY <2>2 DEF BloqueadosAlDia
      <3>2. Veces(bloqueados, p) = Veces(bloqueados', p) + Bit(q = p)
        BY <1>0, <2>1, SacaUno
      <3>3. Veces(bloqueados', p) \in Nat
        <4>1. bloqueados' \in Seq(Pids)
          BY <1>0, <2>1, SacaUno
        <4> QED
          BY <4>1, Aparece
      <3>4. Bit(Debe(p)) = Bit(Debe(p))' + Bit(q = p)
        <4>1. CASE q = p
          <5>1. ~EnCola(p) /\ ~Despertando(p)
            BY <2>1, <4>1, Sitios
          <5>2. Debe(p) /\ ~Debe(p)'
            BY <1>1, <2>1, <4>1, <5>1 DEF Debe
          <5> QED
            BY <4>1, <5>2 DEF Bit
        <4>2. CASE q # p
          <5>1. Debe(p)' = Debe(p)
            BY <1>1, <2>1, <4>2 DEF Debe
          <5> QED
            BY <4>2, <5>1 DEF Bit
        <4> QED
          BY <4>1, <4>2
      <3>5. Bit(Debe(p))' \in 0 .. 1 /\ Bit(q = p) \in 0 .. 1
        BY DEF Bit
      <3>6. Veces(bloqueados', p) = Bit(Debe(p))'
        <4>1. Veces(bloqueados, p) = Bit(Debe(p))' + Bit(q = p)
          BY <3>1, <3>4
        <4>2. Veces(bloqueados', p) \in Int /\ Bit(Debe(p))' \in Int /\ Bit(q = p) \in Int
          BY <3>3, <3>5
        <4> QED
          BY <3>2, <4>1, <4>2, Cancela
      <3> QED
        BY <1>1, <3>1, <3>6
    <2> QED
      BY <2>1, <2>2 DEF BloqueadosAlDia
  <1>4. CASE PedirIo
    <2>1. /\ D.en = "libre" /\ ejecutando \in Pids /\ bloqueados' = Append(bloqueados, ejecutando)
          /\ enIo' = enIo \cup {ejecutando} /\ listaRota' = listaRota
      BY <1>0, <1>4 DEF PedirIo, Ejecuta
    <2>2. PICK q \in Pids : q = ejecutando
      BY <2>1
    <2>3. EnExec(q)
      BY <2>1, <2>2 DEF EnExec, PorEntrar
    <2>4. ASSUME ~listaRota, NEW p \in Pids
          PROVE  Veces(bloqueados', p) = Bit(Debe(p))' /\ (EnBloqueo(p) => EnCola(p) \/ Despertando(p))'
      <3>1. Veces(bloqueados, p) = Bit(Debe(p)) /\ (EnBloqueo(p) => EnCola(p) \/ Despertando(p))
        BY <2>4 DEF BloqueadosAlDia
      <3>2. Veces(bloqueados', p) = Veces(bloqueados, p) + Bit(q = p)
        BY <1>0, <2>1, <2>2, Entra
      <3>4. CASE q = p
        <4>1. ~Debe(p) /\ Debe(p)'
          <5>1. p \notin enIo /\ ~EnCola(p) /\ ~Despertando(p)
            BY <2>3, <3>4, Sitios
          <5> QED
            BY <2>1, <2>2, <3>4, <5>1 DEF Debe
        <4>2. Bit(Debe(p)) = 0 /\ Bit(Debe(p))' = 1 /\ Bit(q = p) = 1
          BY <3>4, <4>1 DEF Bit
        <4> QED
          BY <1>1, <3>1, <3>2, <4>2
      <3>5. CASE q # p
        <4>1. Debe(p)' = Debe(p)
          BY <1>1, <2>1, <2>2, <3>5 DEF Debe
        <4>2. Bit(Debe(p))' = Bit(Debe(p)) /\ Bit(q = p) = 0 /\ Bit(Debe(p)) \in 0 .. 1
          BY <3>5, <4>1 DEF Bit
        <4> QED
          BY <1>1, <3>1, <3>2, <4>2
      <3> QED
        BY <3>4, <3>5
    <2> QED
      BY <2>1, <2>4 DEF BloqueadosAlDia
  <1>5. \/ UNCHANGED <<bloqueados, enIo, listaRota>>
        \/ \E q \in Pids : TerminarIo(q)
        \/ PedirIo
    BY DEF Fuera, Crear, Despachar, Desalojar, Salir, vars, lista
  <1> QED
    BY <1>2, <1>3, <1>4, <1>5

LEMMA AlDiaPropia ==
  ASSUME IndInv, BloqueadosAlDia, Propios
  PROVE  BloqueadosAlDia'
  <1>0. /\ Tipos /\ UnLugar /\ TypeOK /\ Actores /\ D = hilo["despacho"] /\ E = hilo["eliminacion"]
        /\ D \in Fichas /\ E \in Fichas /\ "despacho" \in Hilos /\ "eliminacion" \in Hilos
        /\ Hilos = {"despacho", "eliminacion"}
        /\ bloqueados \in Seq(Pids) /\ cola \in [Recursos -> Seq(Pids)]
        /\ NULO \notin Pids
    BY Ficha DEF IndInv, Tipos, TypeOK
  \* A thread that wakes nobody, before or after the step.
  <1>1. ASSUME NEW h \in Hilos, NEW x, Pasa(h, x), x.en \notin {"buscar", "sacar"},
               hilo[h].en \notin {"buscar", "sacar"}, NEW p \in Pids
        PROVE  Despertando(p)' = Despertando(p)
    <2>1. hilo'[h] = x /\ \A g \in Hilos \ {h} : hilo'[g] = hilo[g]
      <3>1. hilo \in [Hilos -> Fichas]
        BY <1>0 DEF TypeOK, Fichas, Lugares
      <3> QED
        BY <1>1, <3>1 DEF Pasa
    <2> QED
      BY <1>1, <2>1 DEF Despertando
  <1>2. CASE \/ \E r \in Recursos : Restar(r) \/ Signal(r)
             \/ LeerInstancias
    <2>1. D.en \in {"libre", "leer"} /\ UNCHANGED <<bloqueados, enIo, listaRota, cola, ejecutando>>
      BY <1>0, <1>2 DEF Restar, Signal, LeerInstancias, Ejecuta, lista
    <2>2. PICK x : Pasa("despacho", x) /\ x.en \in {"leer", "sumar", "encolar", "libre"}
      <3>1. /\ Libre.en = "libre" /\ [D EXCEPT !.en = "encolar"].en = "encolar"
            /\ \A r : [Libre EXCEPT !.en = "leer", !.pid = ejecutando, !.recurso = r].en = "leer"
            /\ \A r : [Libre EXCEPT !.en = "sumar", !.pid = ejecutando, !.recurso = r].en = "sumar"
        BY <1>0 DEF Libre, Fichas
      <3>2. ASSUME NEW r \in Recursos, Restar(r) \/ Signal(r)
            PROVE  \E x : Pasa("despacho", x) /\ x.en \in {"leer", "sumar", "encolar", "libre"}
        <4>1. \/ Pasa("despacho", [Libre EXCEPT !.en = "leer", !.pid = ejecutando, !.recurso = r])
              \/ Pasa("despacho", [Libre EXCEPT !.en = "sumar", !.pid = ejecutando, !.recurso = r])
          BY <1>0, <3>2, PasosPropios
        <4> QED
          BY <3>1, <4>1
      <3>3. ASSUME LeerInstancias
            PROVE  \E x : Pasa("despacho", x) /\ x.en \in {"leer", "sumar", "encolar", "libre"}
        <4>1. D.recurso \in Recursos
          BY <1>0, <3>3 DEF LeerInstancias, Actores
        <4>2. Pasa("despacho", [D EXCEPT !.en = "encolar"]) \/ Pasa("despacho", Libre)
          BY <1>0, <3>3, <4>1, PasosPropios
        <4> QED
          BY <3>1, <4>2
      <3> QED
        BY <1>2, <3>2, <3>3
    <2>3. D' = x
      BY <1>0, <2>2, Pasan
    <2>4. ASSUME NEW p \in Pids
          PROVE  EnCola(p)' = EnCola(p) /\ Despertando(p)' = Despertando(p) /\ EnBloqueo(p)' = EnBloqueo(p)
      <3>1. Despertando(p)' = Despertando(p)
        BY <1>0, <1>1, <2>1, <2>2
      <3> QED
        BY <2>1, <2>2, <2>3, <3>1 DEF EnCola, EnBloqueo, PorEntrar
    <2> QED
      BY <2>1, <2>4, AlDiaSigue
  <1>3. CASE (\E r \in Recursos : Liberar(r)) \/ TomarExit \/ Terminar
    <2>1. /\ E.en \in {"libre", "liberar"} /\ UNCHANGED <<bloqueados, enIo, listaRota, ejecutando>>
      BY <1>0, <1>3 DEF Liberar, TomarExit, Terminar, lista
    <2>2. PICK x : Pasa("eliminacion", x) /\ x.en \in {"sumar", "devolver", "liberar", "libre"}
      <3>1. /\ Libre.en = "libre"
            /\ \A r : [E EXCEPT !.recurso = r, !.en = "sumar"].en = "sumar"
            /\ \A r : [E EXCEPT !.recurso = r, !.en = "devolver"].en = "devolver"
            /\ \A q : [Libre EXCEPT !.en = "liberar", !.pid = q].en = "liberar"
        BY <1>0 DEF Libre, Fichas
      <3>2. ASSUME NEW r \in Recursos, Liberar(r)
            PROVE  \E x : Pasa("eliminacion", x) /\ x.en \in {"sumar", "devolver", "liberar", "libre"}
        <4>1. \/ Pasa("eliminacion", [E EXCEPT !.recurso = r, !.en = "sumar"])
              \/ Pasa("eliminacion", [E EXCEPT !.recurso = r, !.en = "devolver"])
          BY <1>0, <3>2, PasosPropios
        <4> QED
          BY <3>1, <4>1
      <3>3. ASSUME TomarExit \/ Terminar
            PROVE  \E x : Pasa("eliminacion", x) /\ x.en \in {"sumar", "devolver", "liberar", "libre"}
        <4> DEFINE c == Head(colaExit)
        <4>1. \/ Pasa("eliminacion", [Libre EXCEPT !.en = "liberar", !.pid = c])
              \/ Pasa("eliminacion", Libre)
          BY <3>3 DEF TomarExit, Terminar, Pasa
        <4> HIDE DEF c
        <4> QED
          BY <3>1, <4>1
      <3> QED
        BY <1>3, <3>2, <3>3
    <2>3. D' = D
      BY <1>0, <2>2, Pasan
    <2>4. cola' = cola
      <3>1. ASSUME NEW r \in Recursos, Liberar(r) PROVE cola' = cola
        <4>1. E.en = "liberar" /\ cola' = [cola EXCEPT ![r] = Sacar(cola[r], E.pid)]
          BY <1>0, <3>1 DEF Liberar
        <4>2. E.pid \in Pids /\ ~EnCola(E.pid)
          BY <1>0, <4>1, Ficha, NoEspera
        <4>3. E.pid \notin Elementos(cola[r])
          BY <4>2 DEF EnCola
        <4>4. Sacar(cola[r], E.pid) = cola[r]
          BY <1>0, <4>3, SacaNada
        <4> QED
          BY <1>0, <4>1, <4>4
      <3> QED
        BY <1>3, <3>1 DEF TomarExit, Terminar
    <2>5. ASSUME NEW p \in Pids
          PROVE  EnCola(p)' = EnCola(p) /\ Despertando(p)' = Despertando(p) /\ EnBloqueo(p)' = EnBloqueo(p)
      <3>1. Despertando(p)' = Despertando(p)
        BY <1>0, <1>1, <2>1, <2>2
      <3> QED
        BY <2>1, <2>3, <2>4, <3>1 DEF EnCola, EnBloqueo, PorEntrar
    <2> QED
      BY <2>1, <2>5, AlDiaSigue
  <1>4. CASE Encolar
    <2>1. PICK q \in Pids, s \in Recursos : q = D.pid /\ s = D.recurso /\ D.en = "encolar" /\ q = ejecutando
      BY <1>0, <1>4 DEF Encolar, Actores
    <2>2. /\ cola' = [cola EXCEPT ![s] = Append(cola[s], q)]
          /\ UNCHANGED <<bloqueados, enIo, listaRota, ejecutando>>
      BY <1>0, <1>4, <2>1 DEF Encolar, lista
    <2> DEFINE x == [D EXCEPT !.en = "bloquear"]
    <2>3. Pasa("despacho", x) /\ x.en = "bloquear"
      BY <1>0, <1>4, <2>1, PasosPropios DEF Fichas
    <2> HIDE DEF x
    <2>4. D' = x
      BY <1>0, <2>3, Pasan
    <2>5. \A p \in Pids : EnCola(p)' <=> EnCola(p) \/ p = q
      <3>1. \A p \in Pids : p \in Elementos(Append(cola[s], q)) <=> p \in Elementos(cola[s]) \/ p = q
        BY <1>0, EntranYSalen
      <3>2. \A r \in Recursos : cola'[r] = IF r = s THEN Append(cola[s], q) ELSE cola[r]
        BY <1>0, <2>2
      <3> QED
        BY <3>1, <3>2 DEF EnCola
    <2>6. EnExec(q)
      BY <2>1 DEF EnExec, PorEntrar
    <2>7. ASSUME ~listaRota, NEW p \in Pids
          PROVE  Veces(bloqueados', p) = Bit(Debe(p))' /\ (EnBloqueo(p) => EnCola(p) \/ Despertando(p))'
      <3>1. Veces(bloqueados, p) = Bit(Debe(p))
        BY <2>7 DEF BloqueadosAlDia
      <3>2. Despertando(p)' = Despertando(p)
        BY <1>0, <1>1, <2>1, <2>3
      <3>3. EnBloqueo(p)' <=> p = q
        BY <2>1, <2>2, <2>3, <2>4 DEF EnBloqueo, PorEntrar
      <3>4. ~EnBloqueo(p)
        BY <2>1 DEF EnBloqueo, PorEntrar
      <3>5. Debe(p)' = Debe(p)
        <4>1. p = q => p \notin enIo /\ ~EnCola(p) /\ ~Despertando(p)
          BY <2>6, <1>0, Sitios
        <4> QED
          BY <2>2, <2>5, <3>2, <3>3, <3>4, <4>1 DEF Debe
      <3>6. Bit(Debe(p))' = Bit(Debe(p))
        BY <3>5 DEF Bit
      <3> QED
        BY <2>2, <2>5, <3>1, <3>3, <3>6
    <2> QED
      BY <2>2, <2>7 DEF BloqueadosAlDia
  <1>5. CASE Bloquear
    <2>1. PICK q \in Pids : q = D.pid /\ D.en = "bloquear" /\ q = ejecutando
      BY <1>0, <1>5 DEF Bloquear, Actores
    <2>2. /\ bloqueados' = Append(bloqueados, q) /\ ejecutando' = NULO
          /\ UNCHANGED <<cola, enIo, listaRota>> /\ Pasa("despacho", Libre)
      BY <1>0, <1>5, <2>1 DEF Bloquear, Pasa
    <2>3. D' = Libre /\ Libre.en = "libre"
      BY <1>0, <2>2, Pasan DEF Libre
    <2>7. ASSUME ~listaRota, NEW p \in Pids
          PROVE  Veces(bloqueados', p) = Bit(Debe(p))' /\ (EnBloqueo(p) => EnCola(p) \/ Despertando(p))'
      <3>1. Veces(bloqueados, p) = Bit(Debe(p)) /\ (EnBloqueo(p) => EnCola(p) \/ Despertando(p))
        BY <2>7 DEF BloqueadosAlDia
      <3>2. Despertando(p)' = Despertando(p) /\ EnCola(p)' = EnCola(p)
        BY <1>0, <1>1, <2>1, <2>2, <2>3 DEF EnCola
      <3>3. ~EnBloqueo(p)' /\ (EnBloqueo(p) <=> p = q)
        BY <1>0, <2>1, <2>2 DEF EnBloqueo, PorEntrar
      <3>4. Veces(bloqueados', p) = Veces(bloqueados, p) + Bit(q = p)
        BY <1>0, <2>2, Entra
      <3>5. CASE p = q
        <4>1. p \notin enIo
          BY <1>0, <3>1, <3>3, <3>5, Sitios
        <4>2. ~Debe(p) /\ Debe(p)'
          BY <2>2, <3>1, <3>2, <3>3, <3>5, <4>1 DEF Debe
        <4>3. Bit(Debe(p)) = 0 /\ Bit(Debe(p))' = 1 /\ Bit(q = p) = 1
          BY <3>5, <4>2 DEF Bit
        <4> QED
          BY <3>1, <3>3, <3>4, <4>3
      <3>6. CASE p # q
        <4>1. Debe(p)' = Debe(p)
          BY <2>2, <3>2, <3>3, <3>6 DEF Debe
        <4>2. Bit(Debe(p))' = Bit(Debe(p)) /\ Bit(q = p) = 0 /\ Bit(Debe(p)) \in 0 .. 1
          BY <3>6, <4>1 DEF Bit
        <4> QED
          BY <3>1, <3>3, <3>4, <4>2
      <3> QED
        BY <3>5, <3>6
    <2> QED
      BY <2>2, <2>7 DEF BloqueadosAlDia
  <1> QED
    BY <1>2, <1>3, <1>4, <1>5 DEF Propios

LEMMA AlDiaAlSumar ==
  ASSUME IndInv, BloqueadosAlDia, NEW h \in Hilos, SumarInstancia(h)
  PROVE  BloqueadosAlDia'
  <1>0. /\ Tipos /\ UnLugar /\ TypeOK /\ Actores /\ hilo[h] \in Fichas
        /\ D = hilo["despacho"] /\ E = hilo["eliminacion"]
        /\ Hilos = {"despacho", "eliminacion"} /\ hilo \in [Hilos -> Fichas]
        /\ bloqueados \in Seq(Pids) /\ cola \in [Recursos -> Seq(Pids)]
    BY Ficha DEF IndInv, Tipos, TypeOK, Fichas, Lugares
  <1>a. /\ hilo[h].en \in Trabaja /\ hilo[h].recurso \in Recursos
        /\ hilo[h].en \in Llevando => hilo[h].despertado \in Pids
        /\ UNCHANGED <<enIo, ejecutando>>
    <2>1. hilo[h].en \in Trabaja /\ UNCHANGED <<enIo, ejecutando>>
      BY DEF SumarInstancia, Sumar, Revisar, Despertar, BuscarIndice, SacarDeBloqueados,
             AgregarAReady, Devolver, lista, Trabaja, Sumando
    <2>2. /\ D.en \in Trabaja => D.recurso \in Recursos
          /\ E.en \in Trabaja => E.recurso \in Recursos
      BY <1>0 DEF Actores, Trabaja, Sumando
    <2> QED
      BY <1>0, <2>1, <2>2 DEF Actores
  \* The step of the thread, and what it does to those that are being woken.
  <1>1. ASSUME NEW x, Pasa(h, x), x.en # "bloquear", NEW p \in Pids
        PROVE  /\ Despertando(p)' <=> \/ x.en \in {"buscar", "sacar"} /\ x.despertado = p
                                      \/ \E g \in Hilos \ {h} : Alza(g, p)
               /\ EnBloqueo(p)' = EnBloqueo(p)
    <2>1. hilo'[h] = x /\ \A g \in Hilos \ {h} : hilo'[g] = hilo[g]
      BY <1>0, <1>1 DEF Pasa
    <2>2. PorEntrar' = PorEntrar
      <3>1. hilo[h].en # "bloquear"
        BY <1>a DEF Trabaja, Sumando
      <3> QED
        BY <1>0, <1>1, <2>1, <3>1 DEF PorEntrar, D
    <2>3. Despertando(p)' <=> \/ x.en \in {"buscar", "sacar"} /\ x.despertado = p
                              \/ \E g \in Hilos \ {h} : Alza(g, p)
      BY <2>1 DEF Despertando, Alza
    <2> QED
      BY <1>a, <2>2, <2>3 DEF EnBloqueo
  <1>2. ASSUME NEW p \in Pids PROVE Despertando(p) <=> Alza(h, p) \/ \E g \in Hilos \ {h} : Alza(g, p)
    BY DEF Despertando, Alza
  <1>3. CASE Sumar(h) \/ Revisar(h) \/ BuscarIndice(h) \/ AgregarAReady(h) \/ Devolver(h)
             \/ (Despertar(h) /\ UNCHANGED cola)
    <2>1. UNCHANGED <<bloqueados, listaRota, cola>>
      BY <1>3 DEF Sumar, Revisar, BuscarIndice, AgregarAReady, Devolver, Despertar, lista
    <2>2. PICK x : /\ Pasa(h, x) /\ x.en # "bloquear"
                   /\ \/ /\ x.en \notin {"buscar", "sacar"}
                         /\ hilo[h].en \notin {"buscar", "sacar"}
                      \/ /\ x.en \in {"buscar", "sacar"} /\ x.despertado = hilo[h].despertado
                         /\ hilo[h].en \in {"buscar", "sacar"}
      <3>1. /\ [hilo[h] EXCEPT !.en = "revisar"].en = "revisar"
            /\ [hilo[h] EXCEPT !.en = "despertar"].en = "despertar"
            /\ [hilo[h] EXCEPT !.en = "devolver"].en = "devolver"
            /\ [hilo[h] EXCEPT !.en = "devolver", !.despertado = NULO, !.indice = 0].en = "devolver"
            /\ [hilo[h] EXCEPT !.en = "liberar", !.recurso = NULO].en = "liberar"
            /\ \A i : /\ [hilo[h] EXCEPT !.en = "sacar", !.indice = i].en = "sacar"
                      /\ [hilo[h] EXCEPT !.en = "sacar", !.indice = i].despertado = hilo[h].despertado
            /\ Libre.en = "libre"
        BY <1>0 DEF Fichas, Libre
      <3>2. CASE Sumar(h)
        <4>1. hilo[h].en = "sumar" /\ Pasa(h, [hilo[h] EXCEPT !.en = "revisar"])
          BY <1>0, <3>2, PasosDeSumar DEF Sumar
        <4> QED
          BY <3>1, <4>1
      <3>3. CASE Revisar(h)
        <4>1. /\ hilo[h].en = "revisar"
              /\ \/ Pasa(h, [hilo[h] EXCEPT !.en = "despertar"])
                 \/ Pasa(h, [hilo[h] EXCEPT !.en = "devolver"])
          BY <1>0, <3>3, PasosDeSumar DEF Revisar
        <4> QED
          BY <3>1, <4>1
      <3>4. CASE BuscarIndice(h)
        <4>1. /\ hilo[h].en = "buscar"
              /\ Pasa(h, [hilo[h] EXCEPT !.en = "sacar", !.indice = IndiceDe(h)])
          BY <1>0, <3>4, PasosDeSumar DEF BuscarIndice
        <4>2. PICK i : i = IndiceDe(h)
          OBVIOUS
        <4> DEFINE y == [hilo[h] EXCEPT !.en = "sacar", !.indice = i]
        <4>3. Pasa(h, y) /\ y.en = "sacar" /\ y.despertado = hilo[h].despertado
          BY <3>1, <4>1, <4>2
        <4> HIDE DEF y
        <4> QED
          BY <4>1, <4>3
      <3>5. CASE AgregarAReady(h)
        <4>1. /\ hilo[h].en = "agregar"
              /\ Pasa(h, [hilo[h] EXCEPT !.en = "devolver", !.despertado = NULO, !.indice = 0])
          BY <1>0, <3>5, PasosDeSumar DEF AgregarAReady
        <4> QED
          BY <3>1, <4>1
      <3>6. CASE Devolver(h)
        <4>1. /\ hilo[h].en = "devolver"
              /\ Pasa(h, IF h = "despacho" THEN Libre
                         ELSE [hilo[h] EXCEPT !.en = "liberar", !.recurso = NULO])
          BY <1>0, <3>6, PasosDeSumar DEF Devolver
        <4> QED
          BY <3>1, <4>1
      <3>7. CASE Despertar(h) /\ UNCHANGED cola
        <4>1. hilo[h].en = "despertar"
          BY <3>7 DEF Despertar
        <4>2. cola[hilo[h].recurso] = <<>>
          <5>1. \/ cola[hilo[h].recurso] = <<>>
                \/ /\ cola[hilo[h].recurso] # <<>>
                   /\ cola' = [cola EXCEPT ![hilo[h].recurso] = Tail(cola[hilo[h].recurso])]
            BY <3>7 DEF Despertar
          <5>2. ASSUME NEW s \in Seq(Pids), s # <<>>, NEW u, u = Tail(s) PROVE u # s
            <6>1. u \in Seq(Pids) /\ Len(s) = Len(u) + 1
              BY <5>2, Cola
            <6>2. Len(u) \in Nat
              BY <6>1, Cola
            <6> QED
              BY <6>1, <6>2
          <5>3. cola[hilo[h].recurso] \in Seq(Pids)
            BY <1>0, <1>a
          <5>4. cola[hilo[h].recurso] # <<>> => Tail(cola[hilo[h].recurso]) # cola[hilo[h].recurso]
            BY <5>2, <5>3
          <5> QED
            BY <1>0, <1>a, <3>7, <5>1, <5>4
        <4>3. Pasa(h, [hilo[h] EXCEPT !.en = "devolver"])
          BY <1>0, <3>7, <4>2, PasosDeSumar
        <4> QED
          BY <3>1, <4>1, <4>3
      <3> QED
        BY <1>3, <3>2, <3>3, <3>4, <3>5, <3>6, <3>7
    <2>3. ASSUME NEW p \in Pids
          PROVE  EnCola(p)' = EnCola(p) /\ Despertando(p)' = Despertando(p) /\ EnBloqueo(p)' = EnBloqueo(p)
      <3>1. Alza(h, p) <=> x.en \in {"buscar", "sacar"} /\ x.despertado = p
        BY <2>2 DEF Alza
      <3>2. (Despertando(p)' <=> Despertando(p)) /\ EnBloqueo(p)' = EnBloqueo(p)
        BY <1>1, <1>2, <2>2, <3>1
      <3>3. Despertando(p)' = Despertando(p)
        BY <3>2 DEF Despertando
      <3>4. EnCola(p)' = EnCola(p)
        BY <2>1 DEF EnCola
      <3> QED
        BY <3>2, <3>3, <3>4
    <2> QED
      BY <1>a, <2>1, <2>3, AlDiaSigue
  <1>4. CASE Despertar(h) /\ cola' # cola
    <2>1. PICK s \in Recursos : s = hilo[h].recurso
      BY <1>a
    <2>2. /\ hilo[h].en = "despertar" /\ cola[s] # <<>> /\ cola' = [cola EXCEPT ![s] = Tail(cola[s])]
          /\ UNCHANGED <<bloqueados, listaRota>>
      BY <1>4, <2>1 DEF Despertar, lista
    <2>3. PICK c \in Pids : c = Head(cola[s])
      BY <1>0, <2>2, Cola
    <2> DEFINE x == [hilo[h] EXCEPT !.en = "buscar", !.despertado = c]
    <2>4. Pasa(h, x) /\ x.en = "buscar" /\ x.despertado = c
      <3>1. Pasa(h, [hilo[h] EXCEPT !.en = "buscar", !.despertado = Head(cola[s])])
        BY <1>0, <1>4, <2>1, <2>2, PasosDeSumar
      <3> QED
        BY <1>0, <2>3, <3>1 DEF Fichas
    <2> HIDE DEF x
    <2>5. \A p \in Pids : EnCola(p) <=> EnCola(p)' \/ p = c
      <3>1. \A p \in Pids : p \in Elementos(cola[s]) <=> p \in Elementos(Tail(cola[s])) \/ p = c
        BY <1>0, <2>2, <2>3, EntranYSalen
      <3>2. \A r \in Recursos : cola'[r] = IF r = s THEN Tail(cola[s]) ELSE cola[r]
        BY <1>0, <2>2
      <3> QED
        BY <3>1, <3>2 DEF EnCola
    <2>6. ASSUME NEW p \in Pids
          PROVE  /\ (EnCola(p) \/ Despertando(p))' <=> EnCola(p) \/ Despertando(p)
                 /\ EnBloqueo(p)' = EnBloqueo(p)
      <3>1. ~Alza(h, p)
        BY <2>2 DEF Alza
      <3>2. Despertando(p)' <=> p = c \/ Despertando(p)
        BY <1>1, <1>2, <2>4, <3>1
      <3>3. EnBloqueo(p)' = EnBloqueo(p)
        BY <1>1, <2>4
      <3> QED
        BY <2>5, <3>2, <3>3
    <2>7. ASSUME NEW p \in Pids PROVE Bit(Debe(p))' = Bit(Debe(p))
      <3>1. Debe(p)' <=> Debe(p)
        BY <1>a, <2>6 DEF Debe
      <3> QED
        BY <3>1 DEF Bit
    <2> QED
      BY <2>2, <2>6, <2>7 DEF BloqueadosAlDia
  <1>5. CASE SacarDeBloqueados(h)
    <2>1. PICK c \in Pids, i \in {hilo[h].indice} : c = hilo[h].despertado /\ i = hilo[h].indice /\ hilo[h].en = "sacar"
      BY <1>5, <1>a DEF SacarDeBloqueados, Llevando
    <2>2. /\ UNCHANGED cola
          /\ bloqueados' = IF i \in DOMAIN bloqueados THEN RemoveAt(bloqueados, i) ELSE bloqueados
          /\ listaRota' = (listaRota \/ i \notin DOMAIN bloqueados \/ bloqueados[i] # c)
      BY <1>5, <2>1 DEF SacarDeBloqueados
    <2> DEFINE x == [hilo[h] EXCEPT !.en = "agregar"]
    <2>3. Pasa(h, x) /\ x.en = "agregar"
      BY <1>0, <1>5, PasosDeSumar DEF Fichas
    <2> HIDE DEF x
    <2>4. ASSUME ~listaRota', NEW p \in Pids
          PROVE  Veces(bloqueados', p) = Bit(Debe(p))' /\ (EnBloqueo(p) => EnCola(p) \/ Despertando(p))'
      <3>1. ~listaRota /\ i \in DOMAIN bloqueados /\ bloqueados[i] = c
        BY <2>2, <2>4
      <3>2. Veces(bloqueados, p) = Bit(Debe(p)) /\ (EnBloqueo(p) => EnCola(p) \/ Despertando(p))
        BY <3>1 DEF BloqueadosAlDia
      <3>3. Veces(bloqueados, p) = Veces(bloqueados', p) + Bit(c = p)
        BY <1>0, <2>2, <3>1, SinUno
      <3>4. Veces(bloqueados', p) \in Nat
        <4>1. bloqueados' \in Seq(Pids)
          BY <1>0, <2>2, <3>1, SinUno
        <4> QED
          BY <4>1, Aparece
      <3>5. EnBloqueo(p)' = EnBloqueo(p) /\ EnCola(p)' = EnCola(p)
        BY <1>1, <2>2, <2>3 DEF EnCola
      <3>6. /\ Despertando(p)' <=> \E g \in Hilos \ {h} : Alza(g, p)
            /\ Alza(h, p) <=> p = c
        BY <1>1, <2>1, <2>3 DEF Alza
      <3>7. CASE p = c
        <4>1. ~(\E g \in Hilos \ {h} : Alza(g, p)) /\ p \notin enIo /\ ~EnCola(p)
          <5>1. D.despertado = p \/ E.despertado = p
            BY <1>0, <2>1, <3>7
          <5>2. p \notin enIo /\ ~EnCola(p) /\ ~(D.despertado = p /\ E.despertado = p)
            BY <1>0, <5>1, Sitios
          <5>3. \A g \in Hilos \ {h} : hilo[g].despertado # p
            BY <1>0, <2>1, <3>7, <5>2
          <5> QED
            BY <5>2, <5>3 DEF Alza
        <4>2. ~Debe(p)'
          BY <1>a, <3>5, <3>6, <4>1 DEF Debe
        <4>3. Bit(Debe(p))' = 0 /\ Bit(c = p) = 1 /\ Bit(Debe(p)) \in 0 .. 1
          BY <3>7, <4>2 DEF Bit
        <4>4. Veces(bloqueados', p) = Bit(Debe(p))' /\ Bit(Debe(p)) = 1
          BY <3>2, <3>3, <3>4, <4>3
        <4>5. ~EnBloqueo(p)
          BY <4>1, <4>4 DEF Bit, Debe
        <4> QED
          BY <3>5, <4>4, <4>5
      <3>8. CASE p # c
        <4>1. Despertando(p)' = Despertando(p)
          <5>1. Despertando(p)' <=> Despertando(p)
            BY <1>2, <3>6, <3>8
          <5> QED
            BY <5>1 DEF Despertando
        <4>2. Debe(p)' = Debe(p)
          BY <1>a, <3>5, <4>1 DEF Debe
        <4>3. Bit(Debe(p))' = Bit(Debe(p)) /\ Bit(c = p) = 0 /\ Bit(Debe(p)) \in 0 .. 1
          BY <3>8, <4>2 DEF Bit
        <4>4. Veces(bloqueados', p) = Bit(Debe(p))'
          <5>1. Veces(bloqueados, p) = Bit(Debe(p))' + Bit(c = p)
            BY <3>2, <4>3
          <5>2. Veces(bloqueados', p) \in Int /\ Bit(Debe(p))' \in Int /\ Bit(c = p) \in Int
            BY <3>4, <4>3
          <5> QED
            BY <3>3, <5>1, <5>2, Cancela
        <4> QED
          BY <3>2, <3>5, <4>1, <4>4
      <3> QED
        BY <3>7, <3>8
    <2> QED
      BY <2>4 DEF BloqueadosAlDia
  <1> QED
    BY <1>3, <1>4, <1>5 DEF SumarInstancia

LEMMA PasoAlDia == IndInv /\ BloqueadosAlDia /\ [Next]_vars => BloqueadosAlDia'
  <1> SUFFICES ASSUME IndInv, BloqueadosAlDia, [Next]_vars PROVE BloqueadosAlDia'
    OBVIOUS
  <1>1. Tipos /\ UnLugar
    BY DEF IndInv
  <1>2. Fuera \/ UNCHANGED vars \/ Propios \/ \E h \in Hilos : SumarInstancia(h)
    BY DEF Next, Fuera, Propios
  <1> QED
    BY <1>1, <1>2, AlDiaFuera, AlDiaPropia, AlDiaAlSumar

LEMMA InicioAlDia == Init => BloqueadosAlDia
  <1> SUFFICES ASSUME Init, NEW p \in Pids
               PROVE  /\ Veces(bloqueados, p) = Bit(Debe(p))
                      /\ EnBloqueo(p) => EnCola(p) \/ Despertando(p)
    BY DEF BloqueadosAlDia
  <1>1. /\ bloqueados = <<>> /\ enIo = {} /\ hilo = [h \in Hilos |-> Libre] /\ Libre.en = "libre"
        /\ "despacho" \in Hilos /\ \A r \in Recursos : cola[r] = <<>>
    BY DEF Init, Libre, Hilos
  <1>2. p \notin Elementos(<<>>)
    BY DEF Elementos
  <1>3. ~EnCola(p) /\ ~Despertando(p) /\ ~EnBloqueo(p)
    BY <1>1, <1>2 DEF EnCola, Despertando, EnBloqueo, PorEntrar, D
  <1>4. ~Debe(p)
    BY <1>1, <1>3 DEF Debe
  <1>5. Veces(bloqueados, p) = 0
    <2>1. bloqueados \in Seq(Pids) /\ p \notin Elementos(bloqueados)
      <3>1. Tipos
        BY InicioTipos
      <3> QED
        BY <1>1, <1>2, <3>1 DEF Tipos, TypeOK
    <2>2. Veces(bloqueados, p) \in Nat /\ (Veces(bloqueados, p) > 0 <=> p \in Elementos(bloqueados))
      BY <2>1, Aparece
    <2> QED
      BY <2>1, <2>2
  <1> QED
    BY <1>3, <1>4, <1>5 DEF Bit

(* A process that waits for a resource waits in one queue, once, and is in
   no other place of the system; and the index that SIGNAL computes of
   lista_procesos_blocked before it takes the process out of it is right as
   long as no other thread changed the list in between: the first time it
   is stale is the first time the list stops being those that wait.        *)
THEOREM QuienEsperaEstaFuera == Spec => []EsperaFuera
  <1>1. IndInv /\ BloqueadosAlDia => EsperaFuera
    <2> SUFFICES ASSUME IndInv, BloqueadosAlDia PROVE EsperaFuera
      OBVIOUS
    <2>0. Tipos /\ UnLugar /\ UnaEspera /\ Actores /\ D = hilo["despacho"]
      BY Ficha DEF IndInv, Tipos
    <2>1. ASSUME NEW p \in Pids
          PROVE  EnBloqueo(p) <=> hilo["despacho"].en = "bloquear" /\ hilo["despacho"].pid = p
      BY <2>0 DEF EnBloqueo, PorEntrar, Actores
    <2>2. ASSUME NEW p \in Pids, NEW r \in Recursos, p \in Elementos(cola[r])
          PROVE  /\ {s \in Recursos : p \in Elementos(cola[s])} = {r} /\ Veces(cola[r], p) = 1
                 /\ p \notin Elementos(colaReady) \cup Elementos(colaExit) \cup enIo
                 /\ p = ejecutando => hilo["despacho"].en = "bloquear" /\ hilo["despacho"].pid = p
      <3>1. EnCola(p)
        BY <2>2 DEF EnCola
      <3>2. Veces(cola[r], p) = 1 /\ \A s \in Recursos \ {r} : p \notin Elementos(cola[s])
        BY <2>0, <2>2 DEF UnaEspera
      <3>3. p \notin Elementos(colaReady) /\ p \notin Elementos(colaExit) /\ p \notin enIo /\ ~EnExec(p)
        BY <2>0, <3>1, NoEspera
      <3>4. p = ejecutando => EnBloqueo(p)
        BY <3>3 DEF EnExec, EnBloqueo
      <3> QED
        BY <2>1, <2>2, <3>2, <3>3, <3>4
    <2>3. ASSUME NEW p \in Pids, ~listaRota
          PROVE  Veces(bloqueados, p)
                 = Bit(p \in enIo \/ (({r \in Recursos : p \in Elementos(cola[r])} # {} \/ Despertando(p))
                                      /\ ~(hilo["despacho"].en = "bloquear" /\ hilo["despacho"].pid = p)))
      <3>1. Veces(bloqueados, p) = Bit(Debe(p))
        BY <2>3 DEF BloqueadosAlDia
      <3>2. {r \in Recursos : p \in Elementos(cola[r])} # {} <=> EnCola(p)
        BY DEF EnCola
      <3>3. Debe(p) <=> p \in enIo \/ (({r \in Recursos : p \in Elementos(cola[r])} # {} \/ Despertando(p))
                          /\ ~(hilo["despacho"].en = "bloquear" /\ hilo["despacho"].pid = p))
        BY <2>1, <3>2 DEF Debe
      <3> QED
        BY <3>1, <3>3 DEF Bit
    <2> QED
      BY <2>2, <2>3 DEF EsperaFuera
  <1>2. Init => IndInv
    BY InicioTipos, InicioLugares DEF IndInv
  <1> QED
    BY <1>1, <1>2, InicioAlDia, PasoIndInv, PasoAlDia, PTL DEF Spec
=============================================================================
