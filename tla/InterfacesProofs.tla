-------------------------- MODULE InterfacesProofs --------------------------
(***************************************************************************)
(* Proofs about InterfacesIO, for any processes, names and connections,    *)
(* and any number of modules that die and come back.                       *)
(*                                                                         *)
(* 1. A thread that has passed binario_io_libre has the interface for      *)
(* itself.  Types and that exclusion are inductive with Alta: what         *)
(* crear_interfaz has published by each of its steps stays published, so   *)
(* that the threads it starts find their entries in the dictionaries.      *)
(*                                                                         *)
(* 2. A blocked process has one request, in one place (PInv).              *)
(*                                                                         *)
(* 3. The semaphores count the queues, and each death of a module loses    *)
(* one request at most (SInv).                                             *)
(***************************************************************************)
EXTENDS InterfacesIO, Conteo

Publicada(dic, c) == dic[nombreDe[c]] \in Conexiones

\* How far crear_interfaz went, and what each thread holds at each place.
Alta ==
  Sano => \A c \in Conexiones :
    /\ cliente[c] \in {"cola", "semaforos", "hilo", "listo"} => Publicada(conexiones_io, c)
    /\ cliente[c] \in {"semaforos", "hilo", "listo"} => Publicada(colas_blocks_io, c)
    /\ cliente[c] \in {"hilo", "listo"} => Publicada(diccionario_semaforos_io, c)
    /\ hilo[c].en # "no" => cliente[c] = "listo"
Manos ==
  /\ \A c \in Conexiones :
       /\ hilo[c].en \notin {"no", "inicio"} => hilo[c].sem \in Conexiones
       /\ hilo[c].en \in EnMano => hilo[c].pid \in Pids
       /\ hilo[c].en \in {"recibir", "compuerta", "manejar"} => hilo[c].con \in Conexiones
  /\ despacho.en # "esperar" => despacho.nombre \in Nombres
  /\ despacho.en = "cola" => despacho.pid \in Pids

IInv == TypeOK /\ Alta /\ Manos /\ UnPedidoALaVez

-----------------------------------------------------------------------------
LEMMA Colas ==
  ASSUME NEW S, NEW s \in Seq(S)
  PROVE  /\ \A e \in S : Append(s, e) \in Seq(S)
         /\ s # <<>> => Head(s) \in S /\ Tail(s) \in Seq(S)
         /\ <<>> \in Seq(S)
  OBVIOUS

LEMMA Inicio == Init => IInv
  <1> SUFFICES ASSUME Init PROVE IInv
    OBVIOUS
  <1> USE DEF Init
  <1>1. TypeOK
    <2>1. SinHilo \in Hilos /\ Libre \in Despachos
      BY DEF Hilos, EnMano, Despachos, SinHilo, Libre
    <2>2. hilo \in [Conexiones -> Hilos] /\ despacho \in Despachos
      BY <2>1
    <2>3. cola \in [Conexiones -> Seq(Pids)] /\ pedidos \in [Conexiones -> Seq(Pids)]
      OBVIOUS
    <2>4. /\ conexiones_io \in [Nombres -> Conexiones \cup {NULO}]
          /\ colas_blocks_io \in [Nombres -> Conexiones \cup {NULO}]
          /\ diccionario_semaforos_io \in [Nombres -> Conexiones \cup {NULO}]
      OBVIOUS
    <2>5. /\ instruccion_en_cola \in [Conexiones -> Nat]
          /\ binario_io_libre \in [Conexiones -> Nat] /\ respuestas \in [Conexiones -> Nat]
      OBVIOUS
    <2>6. nombreDe \in [Conexiones -> Nombres]
      BY BautismosAssumption
    <2> QED
      BY <2>2, <2>3, <2>4, <2>5, <2>6 DEF TypeOK
  <1>2. Alta /\ Manos
    BY DEF Alta, Manos, EnMano, Publicada, SinHilo, Libre
  <1>3. UnPedidoALaVez
    BY DEF UnPedidoALaVez, Tiene, EnMano, SinHilo
  <1> QED
    BY <1>1, <1>2, <1>3 DEF IInv

\* What a step does to the thread of c, which goes on at "en".
Cambia(c, en) ==
  /\ hilo' \in [Conexiones -> Hilos]
  /\ hilo'[c].en = en
  /\ \A d \in Conexiones \ {c} : hilo'[d] = hilo[d]
Conserva(c) ==
  hilo'[c].sem = hilo[c].sem /\ hilo'[c].pid = hilo[c].pid /\ hilo'[c].con = hilo[c].con

\* The thread of c goes on at "en", and one of its other fields may change.
Estados == {"no", "inicio", "esperar", "libre", "sacar"} \cup EnMano

PasaA(h, c, en) == [h EXCEPT ![c].en = en]
ConPid(h, c, en, p) == [h EXCEPT ![c].en = en, ![c].pid = p]
ConConexion(h, c, en, k) == [h EXCEPT ![c].en = en, ![c].con = k]
ConBien(h, c, en, bien) == [h EXCEPT ![c] = [[@ EXCEPT !.en = en] EXCEPT !.bien = bien]]

LEMMA UnaEntrada ==
  ASSUME NEW h \in [Conexiones -> Hilos], NEW c \in Conexiones, NEW r \in Hilos
  PROVE  /\ [h EXCEPT ![c] = r] \in [Conexiones -> Hilos]
         /\ [h EXCEPT ![c] = r][c] = r
         /\ \A d \in Conexiones \ {c} : [h EXCEPT ![c] = r][d] = h[d]
  OBVIOUS

\* sem_wait takes one unit of a semaphore that has some.
LEMMA UnaMenos ==
  ASSUME NEW f \in [Conexiones -> Nat], NEW s \in Conexiones, f[s] > 0
  PROVE  [f EXCEPT ![s] = @ - 1] \in [Conexiones -> Nat]
  <1>1. f[s] - 1 \in Nat
    OBVIOUS
  <1> QED
    BY <1>1

LEMMA UnaMenosOCero ==
  ASSUME NEW f \in [Conexiones -> Nat], NEW s \in Conexiones
  PROVE  [f EXCEPT ![s] = IF f[s] > 0 THEN @ - 1 ELSE 0] \in [Conexiones -> Nat]
  <1>1. (IF f[s] > 0 THEN f[s] - 1 ELSE 0) \in Nat
    OBVIOUS
  <1> QED
    BY <1>1

LEMMA UnaMas ==
  ASSUME NEW f \in [Conexiones -> Nat], NEW s \in Conexiones
  PROVE  [f EXCEPT ![s] = @ + 1] \in [Conexiones -> Nat]
  <1>1. f[s] + 1 \in Nat
    OBVIOUS
  <1> QED
    BY <1>1

LEMMA AlPasar ==
  ASSUME NEW h \in [Conexiones -> Hilos], NEW c \in Conexiones, NEW en \in Estados
  PROVE  /\ PasaA(h, c, en) \in [Conexiones -> Hilos]
         /\ \A d \in Conexiones \ {c} : PasaA(h, c, en)[d] = h[d]
         /\ PasaA(h, c, en)[c].en = en
         /\ PasaA(h, c, en)[c].sem = h[c].sem
         /\ PasaA(h, c, en)[c].pid = h[c].pid
         /\ PasaA(h, c, en)[c].con = h[c].con
         /\ PasaA(h, c, en)[c].bien = h[c].bien
  <1> DEFINE r == [h[c] EXCEPT !.en = en]
  <1>1. h[c] \in Hilos
    OBVIOUS
  <1>2. r \in Hilos
    BY <1>1 DEF Hilos, Estados
  <1>3. r.en = en
    BY <1>1 DEF Hilos
  <1>4. r.sem = h[c].sem
    BY <1>1 DEF Hilos
  <1>5. r.pid = h[c].pid
    BY <1>1 DEF Hilos
  <1>6. r.con = h[c].con
    BY <1>1 DEF Hilos
  <1>7. r.bien = h[c].bien
    BY <1>1 DEF Hilos
  <1>8. PasaA(h, c, en) = [h EXCEPT ![c] = r]
    BY DEF PasaA
  <1> HIDE DEF r
  <1> QED
    BY <1>2, <1>3, <1>4, <1>5, <1>6, <1>7, <1>8, UnaEntrada

LEMMA AlSacar ==
  ASSUME NEW h \in [Conexiones -> Hilos], NEW c \in Conexiones, NEW en \in Estados, NEW p \in Pids
  PROVE  /\ ConPid(h, c, en, p) \in [Conexiones -> Hilos]
         /\ \A d \in Conexiones \ {c} : ConPid(h, c, en, p)[d] = h[d]
         /\ ConPid(h, c, en, p)[c].en = en
         /\ ConPid(h, c, en, p)[c].pid = p
         /\ ConPid(h, c, en, p)[c].sem = h[c].sem
  <1> DEFINE r == [h[c] EXCEPT !.en = en, !.pid = p]
  <1>1. h[c] \in Hilos
    OBVIOUS
  <1>2. r \in Hilos
    BY <1>1 DEF Hilos, Estados
  <1>3. r.en = en
    BY <1>1 DEF Hilos
  <1>4. r.pid = p
    BY <1>1 DEF Hilos
  <1>5. r.sem = h[c].sem
    BY <1>1 DEF Hilos
  <1>6. ConPid(h, c, en, p) = [h EXCEPT ![c] = r]
    BY DEF ConPid
  <1> HIDE DEF r
  <1> QED
    BY <1>2, <1>3, <1>4, <1>5, <1>6, UnaEntrada

LEMMA AlEnviar ==
  ASSUME NEW h \in [Conexiones -> Hilos], NEW c \in Conexiones, NEW en \in Estados,
         NEW k \in Conexiones
  PROVE  /\ ConConexion(h, c, en, k) \in [Conexiones -> Hilos]
         /\ \A d \in Conexiones \ {c} : ConConexion(h, c, en, k)[d] = h[d]
         /\ ConConexion(h, c, en, k)[c].en = en
         /\ ConConexion(h, c, en, k)[c].con = k
         /\ ConConexion(h, c, en, k)[c].sem = h[c].sem
         /\ ConConexion(h, c, en, k)[c].pid = h[c].pid
  <1> DEFINE r == [h[c] EXCEPT !.en = en, !.con = k]
  <1>1. h[c] \in Hilos
    OBVIOUS
  <1>2. r \in Hilos
    BY <1>1 DEF Hilos, Estados
  <1>3. r.en = en
    BY <1>1 DEF Hilos
  <1>4. r.con = k
    BY <1>1 DEF Hilos
  <1>5. r.sem = h[c].sem
    BY <1>1 DEF Hilos
  <1>6. r.pid = h[c].pid
    BY <1>1 DEF Hilos
  <1>7. ConConexion(h, c, en, k) = [h EXCEPT ![c] = r]
    BY DEF ConConexion
  <1> HIDE DEF r
  <1> QED
    BY <1>2, <1>3, <1>4, <1>5, <1>6, <1>7, UnaEntrada

LEMMA AlRecibir ==
  ASSUME NEW h \in [Conexiones -> Hilos], NEW c \in Conexiones, NEW en \in Estados,
         NEW bien \in BOOLEAN
  PROVE  /\ ConBien(h, c, en, bien) \in [Conexiones -> Hilos]
         /\ \A d \in Conexiones \ {c} : ConBien(h, c, en, bien)[d] = h[d]
         /\ ConBien(h, c, en, bien)[c].en = en
         /\ ConBien(h, c, en, bien)[c].bien = bien
         /\ ConBien(h, c, en, bien)[c].sem = h[c].sem
         /\ ConBien(h, c, en, bien)[c].pid = h[c].pid
         /\ ConBien(h, c, en, bien)[c].con = h[c].con
  <1> DEFINE r == [[h[c] EXCEPT !.en = en] EXCEPT !.bien = bien]
  <1>1. h[c] \in Hilos
    OBVIOUS
  <1>2. r \in Hilos
    BY <1>1 DEF Hilos, Estados
  <1>3. r.en = en
    BY <1>1 DEF Hilos
  <1>4. r.bien = bien
    BY <1>1 DEF Hilos
  <1>5. r.sem = h[c].sem
    BY <1>1 DEF Hilos
  <1>6. r.pid = h[c].pid
    BY <1>1 DEF Hilos
  <1>7. r.con = h[c].con
    BY <1>1 DEF Hilos
  <1>8. ConBien(h, c, en, bien) = [h EXCEPT ![c] = r]
    BY DEF ConBien
  <1> HIDE DEF r
  <1> QED
    BY <1>2, <1>3, <1>4, <1>5, <1>6, <1>7, <1>8, UnaEntrada

LEMMA PasarCambia ==
  ASSUME TypeOK, NEW c \in Conexiones, NEW en \in {"inicio", "libre", "sacar", "manejar"},
         Pasar(c, en)
  PROVE  Cambia(c, en) /\ Conserva(c) /\ hilo'[c].bien = hilo[c].bien
  <1>1. hilo \in [Conexiones -> Hilos] /\ en \in Estados
    BY DEF TypeOK, Estados, EnMano
  <1>2. hilo' = PasaA(hilo, c, en)
    BY DEF Pasar, PasaA
  <1>3. /\ hilo' \in [Conexiones -> Hilos] /\ \A d \in Conexiones \ {c} : hilo'[d] = hilo[d]
        /\ hilo'[c].en = en /\ hilo'[c].sem = hilo[c].sem /\ hilo'[c].pid = hilo[c].pid
        /\ hilo'[c].con = hilo[c].con /\ hilo'[c].bien = hilo[c].bien
    BY <1>1, <1>2, AlPasar
  <1> QED
    BY <1>3 DEF Cambia, Conserva

\* A thread that does not take the interface and does not touch the semaphore.
LEMMA SigueAlta ==
  ASSUME TypeOK, Alta, Sano, NEW c \in Conexiones, hilo[c].en # "no",
         \A d \in Conexiones \ {c} : hilo'[d] = hilo[d],
         UNCHANGED <<nombreDe, cliente, diccionarios>>
  PROVE  Alta'
  <1> DEFINE Listo(k, x) == x.en # "no" => k = "listo"
  <1>1. \A d \in Conexiones : Listo(cliente[d], hilo[d])
    BY DEF Alta, Publicada, Sano
  <1>2. \A d \in Conexiones : Listo(cliente[d], hilo'[d])
    BY <1>1
  <1> QED
    BY <1>2 DEF Alta, Publicada, Sano, diccionarios

LEMMA SigueSola ==
  ASSUME UnPedidoALaVez, NEW c \in Conexiones, NEW en, Cambia(c, en), hilo'[c].sem = hilo[c].sem,
         en \in {"sacar"} \cup EnMano => hilo[c].en \in {"sacar"} \cup EnMano,
         UNCHANGED binario_io_libre
  PROVE  UnPedidoALaVez'
  <1>1. \A d, s \in Conexiones : Tiene(d, s)' => Tiene(d, s)
    BY DEF Tiene, Cambia
  <1> QED
    BY <1>1 DEF UnPedidoALaVez

\* A thread that holds nothing.
LEMMA SinNada ==
  ASSUME UnPedidoALaVez, NEW c \in Conexiones, NEW en, en \notin {"sacar"} \cup EnMano,
         Cambia(c, en), UNCHANGED binario_io_libre
  PROVE  UnPedidoALaVez'
  <1>1. \A d, s \in Conexiones : Tiene(d, s)' => Tiene(d, s)
    BY DEF Tiene, Cambia
  <1> QED
    BY <1>1 DEF UnPedidoALaVez

\* A module that connects.
LEMMA PasoCliente ==
  ASSUME IInv, Sano, NEW c \in Conexiones, Conectar(c) \/ Cliente(c)
  PROVE  IInv'
  <1> USE DEF IInv, RegistroSolo, diccionarios, semaforosIO, procesos, planificacion
  <1>1. CASE Conectar(c)
    <2>1. TypeOK'
      BY <1>1 DEF Conectar, TypeOK
    <2>2. Alta'
      BY <1>1, NuloAssumption DEF Conectar, TypeOK, Alta, Publicada, Sano
    <2>3. Manos' /\ UnPedidoALaVez'
      BY <1>1 DEF Conectar, Manos, UnPedidoALaVez, Tiene
    <2> QED
      BY <2>1, <2>2, <2>3
  <1>2. CASE PublicarConexion(c)
    <2>1. TypeOK'
      <3>1. conexiones_io' \in [Nombres -> Conexiones \cup {NULO}]
        BY <1>2 DEF PublicarConexion, TypeOK
      <3>2. cliente' = [cliente EXCEPT ![c] = "cola"] /\ quiebre' \in {"no", "nombre"}
            /\ UNCHANGED <<nombreDe, viva, nombre_entrada_salida_conectada, colas_blocks_io,
                           diccionario_semaforos_io, cola, instruccion_en_cola, binario_io_libre,
                           hilo, pedidos, respuestas, bloqueados, terminados, despacho,
                           detenida, puerta, detenciones, perdidos>>
        BY <1>2 DEF PublicarConexion
      <3> QED
        BY <3>1, <3>2 DEF TypeOK
    <2>2. Alta'
      <3>1. SUFFICES ASSUME Sano' PROVE Alta'
        BY DEF Alta
      <3>2. nombre_entrada_salida_conectada = c
        BY <1>2, <3>1 DEF PublicarConexion, Sano
      <3>3. conexiones_io' = [conexiones_io EXCEPT ![nombreDe[c]] = c]
        BY <1>2, <3>2, NuloAssumption DEF PublicarConexion
      <3>4. /\ nombreDe \in [Conexiones -> Nombres]
            /\ conexiones_io \in [Nombres -> Conexiones \cup {NULO}]
        BY DEF TypeOK
      <3>5. conexiones_io'[nombreDe[c]] = c
        BY <3>3, <3>4
      <3>6. \A d \in Conexiones : conexiones_io[nombreDe[d]] \in Conexiones
                                 => conexiones_io'[nombreDe[d]] \in Conexiones
        BY <3>3, <3>4
      <3>7. /\ cliente' = [cliente EXCEPT ![c] = "cola"]
            /\ cliente[c] = "conexion"
            /\ UNCHANGED <<nombreDe, colas_blocks_io, diccionario_semaforos_io, hilo>>
        BY <1>2 DEF PublicarConexion
      <3> QED
        BY <3>5, <3>6, <3>7 DEF Alta, Publicada, TypeOK
    <2>3. Manos' /\ UnPedidoALaVez'
      BY <1>2 DEF PublicarConexion, Manos, UnPedidoALaVez, Tiene
    <2> QED
      BY <2>1, <2>2, <2>3
  <1>3. CASE PublicarCola(c)
    <2>1. TypeOK'
      BY <1>3 DEF PublicarCola, TypeOK
    <2>2. Alta'
      BY <1>3, NuloAssumption DEF PublicarCola, TypeOK, Alta, Publicada, Sano
    <2>3. Manos' /\ UnPedidoALaVez'
      BY <1>3 DEF PublicarCola, Manos, UnPedidoALaVez, Tiene
    <2> QED
      BY <2>1, <2>2, <2>3
  <1>4. CASE PublicarSemaforos(c)
    <2>1. TypeOK'
      BY <1>4 DEF PublicarSemaforos, TypeOK
    <2>2. Alta'
      BY <1>4, NuloAssumption DEF PublicarSemaforos, TypeOK, Alta, Publicada, Sano
    <2>3. Manos' /\ UnPedidoALaVez'
      BY <1>4 DEF PublicarSemaforos, Manos, UnPedidoALaVez, Tiene
    <2> QED
      BY <2>1, <2>2, <2>3
  <1>5. CASE CrearHilo(c)
    <2>1. Cambia(c, "inicio") /\ Conserva(c)
      BY <1>5, PasarCambia DEF CrearHilo, Pasar
    <2>2. TypeOK'
      BY <1>5, <2>1 DEF CrearHilo, TypeOK, Cambia
    <2>3. Alta'
      BY <1>5, <2>1 DEF CrearHilo, TypeOK, Alta, Publicada, Sano, Cambia
    <2>4. Manos'
      BY <1>5, <2>1 DEF CrearHilo, Manos, EnMano, Cambia, Conserva
    <2>5. UnPedidoALaVez'
      BY <1>5, <2>1, SinNada DEF CrearHilo, EnMano
    <2> QED
      BY <2>2, <2>3, <2>4, <2>5
  <1> QED
    BY <1>1, <1>2, <1>3, <1>4, <1>5 DEF Cliente

\* atender_interfaz.
LEMMA PasoHilo ==
  ASSUME IInv, Sano, NEW c \in Conexiones, HiloIo(c)
  PROVE  IInv'
  <1> USE DEF IInv, HiloSolo, registro, diccionarios, semaforosIO, procesos
  <1>1. CASE LeerSemaforos(c)
    <2>0. diccionario_semaforos_io[nombreDe[c]] \in Conexiones
      BY <1>1 DEF LeerSemaforos, Alta, Publicada
    <2>1. Cambia(c, "esperar") /\ hilo'[c].sem \in Conexiones
      BY <1>1, <2>0 DEF LeerSemaforos, TypeOK, Hilos, EnMano, SinHilo, Cambia
    <2>2. TypeOK'
      BY <1>1, <2>1 DEF LeerSemaforos, TypeOK, Cambia
    <2>3. Alta'
      BY <1>1, <2>1 DEF LeerSemaforos, TypeOK, Alta, Publicada, Sano, Cambia
    <2>4. Manos'
      BY <1>1, <2>1 DEF LeerSemaforos, Manos, EnMano, Cambia, Conserva
    <2>5. UnPedidoALaVez'
      BY <1>1, <2>1, SinNada DEF LeerSemaforos, EnMano
    <2> QED
      BY <2>2, <2>3, <2>4, <2>5
  <1>2. CASE EsperarInstruccion(c)
    <2>1. Cambia(c, "libre") /\ Conserva(c)
      BY <1>2, PasarCambia DEF EsperarInstruccion
    <2>6. hilo[c].sem \in Conexiones
      BY <1>2 DEF EsperarInstruccion, Manos, EnMano
    <2>7. instruccion_en_cola' \in [Conexiones -> Nat]
      <3>1. instruccion_en_cola \in [Conexiones -> Nat]
        BY DEF TypeOK
      <3>2. PICK s \in Conexiones : s = hilo[c].sem
        BY <2>6
      <3>3. /\ instruccion_en_cola[s] > 0
            /\ instruccion_en_cola' = [instruccion_en_cola EXCEPT ![s] = @ - 1]
        BY <1>2, <3>2 DEF EsperarInstruccion
      <3> QED
        BY <3>1, <3>3, UnaMenos
    <2>2. TypeOK'
      BY <1>2, <2>1, <2>7 DEF EsperarInstruccion, TypeOK, Cambia
    <2>3. Alta'
      BY <1>2, <2>1 DEF EsperarInstruccion, TypeOK, Alta, Publicada, Sano, Cambia
    <2>4. Manos'
      BY <1>2, <2>1 DEF EsperarInstruccion, Manos, EnMano, Cambia, Conserva
    <2>5. UnPedidoALaVez'
      BY <1>2, <2>1, SinNada DEF EsperarInstruccion, Conserva, EnMano
    <2> QED
      BY <2>2, <2>3, <2>4, <2>5
  <1>3. CASE EsperarLibre(c)
    <2>1. Cambia(c, "sacar") /\ Conserva(c)
      BY <1>3, PasarCambia DEF EsperarLibre
    <2> DEFINE s == hilo[c].sem
    <2>6. s \in Conexiones
      BY <1>3 DEF EsperarLibre, Manos, EnMano
    <2>8. binario_io_libre[s] \in Nat /\ binario_io_libre[s] > 0 /\ binario_io_libre[s] <= 1
      BY <1>3, <2>6 DEF EsperarLibre, TypeOK, UnPedidoALaVez
    <2>9. binario_io_libre[s] = 1 /\ binario_io_libre[s] - 1 = 0
      BY <2>8
    <2>7. binario_io_libre[s] = 1 /\ binario_io_libre' = [binario_io_libre EXCEPT ![s] = 0]
      BY <1>3, <2>9 DEF EsperarLibre
    <2>10. binario_io_libre' \in [Conexiones -> Nat]
      BY <2>6, <2>7 DEF TypeOK
    <2>2. TypeOK'
      BY <1>3, <2>1, <2>10 DEF EsperarLibre, TypeOK, Cambia
    <2>3. Alta'
      BY <1>3, <2>1 DEF EsperarLibre, TypeOK, Alta, Publicada, Sano, Cambia
    <2>4. Manos'
      BY <1>3, <2>1 DEF EsperarLibre, Manos, EnMano, Cambia, Conserva
    <2>5. UnPedidoALaVez'
      <3>1. \A d \in Conexiones : ~Tiene(d, s)
        BY <2>6, <2>7 DEF UnPedidoALaVez
      <3>2. \A d, t \in Conexiones : Tiene(d, t)' => Tiene(d, t) \/ (d = c /\ t = s)
        BY <2>1 DEF Tiene, Cambia, Conserva
      <3>3. /\ binario_io_libre'[s] = 0
            /\ \A t \in Conexiones \ {s} : binario_io_libre'[t] = binario_io_libre[t]
        BY <2>6, <2>7 DEF TypeOK
      <3> QED
        BY <3>1, <3>2, <3>3 DEF UnPedidoALaVez
    <2> QED
      BY <2>2, <2>3, <2>4, <2>5
  <1>4. CASE SacarPedido(c)
    <2>0. CASE cola[colas_blocks_io[nombreDe[c]]] = <<>>
      <3>1. TypeOK'
        BY <1>4, <2>0 DEF SacarPedido, TypeOK
      <3>2. Alta' /\ Manos'
        BY <1>4, <2>0 DEF SacarPedido, Alta, Manos, Sano
      <3>3. UnPedidoALaVez'
        BY <1>4, <2>0 DEF SacarPedido, UnPedidoALaVez, Tiene
      <3> QED
        BY <3>1, <3>2, <3>3
    <2> DEFINE q == colas_blocks_io[nombreDe[c]]
    <2>6. SUFFICES ASSUME cola[q] # <<>> PROVE IInv'
      BY <2>0
    <2>7. q \in Conexiones
      BY <1>4 DEF SacarPedido, Alta, Publicada
    <2>8. Head(cola[q]) \in Pids /\ Tail(cola[q]) \in Seq(Pids)
      BY <2>6, <2>7, Colas DEF TypeOK
    <2> DEFINE h == Head(cola[q])
    <2>9. hilo' = ConPid(hilo, c, "pedir", h) /\ cola' = [cola EXCEPT ![q] = Tail(@)]
      BY <1>4, <2>6 DEF SacarPedido, ConPid
    <2>10. h \in Pids
      BY <2>8
    <2> HIDE DEF h, q
    <2>1. Cambia(c, "pedir") /\ hilo'[c].pid \in Pids /\ hilo'[c].sem = hilo[c].sem
      <3>1. hilo \in [Conexiones -> Hilos] /\ "pedir" \in Estados
        BY DEF TypeOK, Estados, EnMano
      <3>2. /\ hilo' \in [Conexiones -> Hilos] /\ \A d \in Conexiones \ {c} : hilo'[d] = hilo[d]
            /\ hilo'[c].en = "pedir" /\ hilo'[c].pid = h /\ hilo'[c].sem = hilo[c].sem
        BY <2>9, <2>10, <3>1, AlSacar
      <3> QED
        BY <2>10, <3>2 DEF Cambia
    <2>2. TypeOK'
      <3>1. UNCHANGED <<registro, viva, despacho, detenida, detenciones, semaforosIO,
                        pedidos, respuestas, procesos, puerta, perdidos>>
        BY <1>4 DEF SacarPedido
      <3>2. cola' \in [Conexiones -> Seq(Pids)] /\ quiebre' = quiebre
        BY <1>4, <2>6, <2>7, <2>8, <2>9 DEF SacarPedido, TypeOK
      <3>3. hilo' \in [Conexiones -> Hilos]
        BY <2>1 DEF Cambia
      <3> QED
        BY <3>1, <3>2, <3>3 DEF TypeOK
    <2>3. Alta'
      BY <1>4, <2>1, <2>9 DEF SacarPedido, TypeOK, Alta, Publicada, Sano, Cambia
    <2>11. /\ hilo[c].en = "sacar" /\ UNCHANGED <<despacho, binario_io_libre>>
           /\ \A d \in Conexiones \ {c} : hilo'[d] = hilo[d]
           /\ hilo'[c].en = "pedir" /\ hilo'[c].sem = hilo[c].sem
      BY <1>4, <2>1 DEF SacarPedido, HiloSolo, semaforosIO, Cambia
    <2>4. Manos'
      BY <2>1, <2>11 DEF Manos, EnMano
    <2>5. UnPedidoALaVez'
      BY <2>1, <2>11, SigueSola DEF EnMano
    <2> QED
      BY <2>2, <2>3, <2>4, <2>5
  <1>5. CASE EnviarPedido(c)
    <2>6. conexiones_io[nombreDe[c]] \in Conexiones
      BY <1>5 DEF EnviarPedido, Alta, Publicada
    <2>7. hilo[c].pid \in Pids
      BY <1>5 DEF EnviarPedido, Manos, EnMano
    <2>1. /\ Cambia(c, "recibir") /\ hilo'[c].con \in Conexiones
          /\ hilo'[c].sem = hilo[c].sem /\ hilo'[c].pid = hilo[c].pid
      <3>1. hilo \in [Conexiones -> Hilos] /\ "recibir" \in Estados
        BY DEF TypeOK, Estados, EnMano
      <3>2. PICK k \in Conexiones : k = conexiones_io[nombreDe[c]]
        BY <2>6
      <3>3. hilo' = ConConexion(hilo, c, "recibir", k)
        BY <1>5, <3>2 DEF EnviarPedido, ConConexion
      <3>4. /\ hilo' \in [Conexiones -> Hilos] /\ \A d \in Conexiones \ {c} : hilo'[d] = hilo[d]
            /\ hilo'[c].en = "recibir" /\ hilo'[c].con = k
            /\ hilo'[c].sem = hilo[c].sem /\ hilo'[c].pid = hilo[c].pid
        BY <3>1, <3>3, AlEnviar
      <3> QED
        BY <3>4 DEF Cambia
    <2>2. TypeOK'
      BY <1>5, <2>1, <2>6, <2>7, Colas DEF EnviarPedido, TypeOK, Cambia
    <2>3. Alta'
      BY <1>5, <2>1 DEF EnviarPedido, TypeOK, Alta, Publicada, Sano, Cambia
    <2>4. Manos'
      BY <1>5, <2>1 DEF EnviarPedido, Manos, EnMano, Cambia, Conserva
    <2>5. UnPedidoALaVez'
      BY <1>5, <2>1, SigueSola DEF EnviarPedido, Conserva, EnMano
    <2> QED
      BY <2>2, <2>3, <2>4, <2>5
  <1>6. CASE RecibirRespuesta(c)
    <2> DEFINE en == IF detenida THEN "compuerta" ELSE "manejar"
               bien == respuestas[hilo[c].con] > 0
    <2>5. hilo[c].con \in Conexiones
      BY <1>6 DEF RecibirRespuesta, Manos
    <2>6. en \in {"compuerta", "manejar"} /\ bien \in BOOLEAN
      BY <2>5 DEF TypeOK
    <2>7. hilo' = ConBien(hilo, c, en, bien)
      BY <1>6 DEF RecibirRespuesta, TypeOK, Hilos, ConBien
    <2> HIDE DEF en, bien
    <2>1. Cambia(c, en) /\ Conserva(c)
      <3>1. hilo \in [Conexiones -> Hilos] /\ en \in Estados /\ bien \in BOOLEAN
        BY <2>6 DEF TypeOK, Estados, EnMano
      <3> DEFINE h == ConBien(hilo, c, en, bien)
      <3>3. /\ h \in [Conexiones -> Hilos] /\ \A d \in Conexiones \ {c} : h[d] = hilo[d]
            /\ h[c].en = en /\ h[c].sem = hilo[c].sem
            /\ h[c].pid = hilo[c].pid /\ h[c].con = hilo[c].con
        BY <3>1, AlRecibir
      <3>4. hilo' = h
        BY <2>7
      <3> HIDE DEF h
      <3>2. /\ hilo' \in [Conexiones -> Hilos] /\ \A d \in Conexiones \ {c} : hilo'[d] = hilo[d]
            /\ hilo'[c].en = en /\ hilo'[c].sem = hilo[c].sem
            /\ hilo'[c].pid = hilo[c].pid /\ hilo'[c].con = hilo[c].con
        BY <3>3, <3>4
      <3> QED
        BY <3>2 DEF Cambia, Conserva
    <2>8. respuestas' \in [Conexiones -> Nat]
      BY <1>6, <2>5, UnaMenosOCero DEF RecibirRespuesta, TypeOK
    <2>10. UNCHANGED <<registro, viva, despacho, detenida, detenciones, cola, semaforosIO,
                       pedidos, procesos, puerta, perdidos, quiebre>>
      BY <1>6 DEF RecibirRespuesta
    <2>11. hilo' \in [Conexiones -> Hilos]
      BY <2>1 DEF Cambia
    <2>2. TypeOK'
      BY <2>8, <2>10, <2>11 DEF TypeOK
    <2>3. Alta'
      <3>1. \A d \in Conexiones \ {c} : hilo'[d] = hilo[d]
        BY <2>1 DEF Cambia
      <3>2. hilo[c].en # "no"
        BY <1>6 DEF RecibirRespuesta
      <3> HIDE DEF TypeOK, Alta, Sano
      <3> QED
        BY <2>10, <3>1, <3>2, SigueAlta DEF registro
    <2>4. Manos'
      <3>1. UNCHANGED despacho /\ Manos
        BY <2>10
      <3>2. /\ \A d \in Conexiones \ {c} : hilo'[d] = hilo[d]
            /\ hilo'[c].sem = hilo[c].sem /\ hilo'[c].pid = hilo[c].pid
            /\ hilo'[c].con = hilo[c].con /\ hilo'[c].en \in {"compuerta", "manejar"}
        BY <2>1, <2>6 DEF Cambia, Conserva
      <3>3. hilo[c].en = "recibir"
        BY <1>6 DEF RecibirRespuesta
      <3> QED
        BY <3>1, <3>2, <3>3 DEF Manos, EnMano
    <2>9. UnPedidoALaVez'
      <3>1. hilo[c].en \in EnMano /\ hilo'[c].sem = hilo[c].sem /\ UNCHANGED binario_io_libre
        BY <1>6, <2>1 DEF RecibirRespuesta, Conserva, EnMano
      <3> QED
        BY <2>1, <3>1, SigueSola
    <2> QED
      BY <2>2, <2>3, <2>4, <2>9
  <1>7. CASE PasarCompuerta(c)
    <2>1. Cambia(c, "manejar") /\ Conserva(c)
      BY <1>7, PasarCambia DEF PasarCompuerta
    <2>6. UNCHANGED <<registro, viva, despacho, detenida, detenciones, cola, semaforosIO,
                      pedidos, respuestas, procesos, perdidos, quiebre>>
      BY <1>7 DEF PasarCompuerta
    <2>7. hilo[c].en = "compuerta" /\ puerta' \in Nat
      BY <1>7 DEF PasarCompuerta, TypeOK
    <2>8. /\ hilo' \in [Conexiones -> Hilos] /\ hilo'[c].en = "manejar"
          /\ \A d \in Conexiones \ {c} : hilo'[d] = hilo[d]
          /\ hilo'[c].sem = hilo[c].sem /\ hilo'[c].pid = hilo[c].pid
          /\ hilo'[c].con = hilo[c].con
      BY <2>1 DEF Cambia, Conserva
    <2>2. TypeOK'
      BY <2>6, <2>7, <2>8 DEF TypeOK
    <2>3. Alta'
      <3> HIDE DEF TypeOK, Alta, Sano
      <3> QED
        BY <2>6, <2>7, <2>8, SigueAlta DEF registro
    <2>4. Manos'
      BY <2>6, <2>7, <2>8 DEF Manos, EnMano
    <2>5. UnPedidoALaVez'
      BY <2>1, <2>6, <2>7, <2>8, SigueSola DEF EnMano
    <2> QED
      BY <2>2, <2>3, <2>4, <2>5
  <1>8. CASE ManejarExito(c)
    <2>0. CASE hilo[c].pid \notin bloqueados
      <3>1. TypeOK'
        BY <1>8, <2>0 DEF ManejarExito, TypeOK
      <3>2. Alta' /\ Manos'
        BY <1>8, <2>0 DEF ManejarExito, Alta, Manos, Sano
      <3>3. UnPedidoALaVez'
        BY <1>8, <2>0 DEF ManejarExito, UnPedidoALaVez, Tiene
      <3> QED
        BY <3>1, <3>2, <3>3
    <2>6. SUFFICES ASSUME hilo[c].pid \in bloqueados PROVE IInv'
      BY <2>0
    <2>1. Cambia(c, "inicio") /\ Conserva(c)
      BY <1>8, <2>6, PasarCambia DEF ManejarExito
    <2> DEFINE s == hilo[c].sem
    <2>7. s \in Conexiones /\ Tiene(c, s)
      BY <1>8 DEF ManejarExito, Manos, EnMano, Tiene
    <2>8. binario_io_libre[s] = 0 /\ binario_io_libre' = [binario_io_libre EXCEPT ![s] = 1]
      BY <1>8, <2>6, <2>7 DEF ManejarExito, TypeOK, UnPedidoALaVez
    <2>2. TypeOK'
      BY <1>8, <2>1, <2>6, <2>8 DEF ManejarExito, TypeOK, Cambia
    <2>3. Alta'
      BY <1>8, <2>1, <2>6 DEF ManejarExito, TypeOK, Alta, Publicada, Sano, Cambia
    <2>4. Manos'
      BY <1>8, <2>1, <2>6 DEF ManejarExito, Manos, EnMano, Cambia, Conserva
    <2>5. UnPedidoALaVez'
      <3>1. \A d \in Conexiones : Tiene(d, s) => d = c
        BY <2>7 DEF UnPedidoALaVez
      <3>2. \A d, t \in Conexiones : Tiene(d, t)' => Tiene(d, t) /\ d # c
        BY <2>1 DEF Tiene, Cambia, EnMano
      <3>3. /\ binario_io_libre'[s] = 1
            /\ \A t \in Conexiones \ {s} : binario_io_libre'[t] = binario_io_libre[t]
        BY <2>7, <2>8 DEF TypeOK
      <3> QED
        BY <3>1, <3>2, <3>3 DEF UnPedidoALaVez
    <2> QED
      BY <2>2, <2>3, <2>4, <2>5
  <1>9. CASE ManejarFalla(c)
    <2>6. hilo[c].pid \in Pids
      BY <1>9 DEF ManejarFalla, Manos, EnMano
    <2>1. Cambia(c, "inicio") /\ Conserva(c)
      BY <1>9, PasarCambia DEF ManejarFalla
    <2>2. TypeOK'
      BY <1>9, <2>1, <2>6 DEF ManejarFalla, TypeOK, Cambia
    <2>3. Alta'
      BY <1>9, <2>1 DEF ManejarFalla, TypeOK, Alta, Publicada, Sano, Cambia
    <2>4. Manos'
      BY <1>9, <2>1 DEF ManejarFalla, Manos, EnMano, Cambia, Conserva
    <2>5. UnPedidoALaVez'
      BY <1>9, <2>1, SinNada DEF ManejarFalla, Conserva, EnMano
    <2> QED
      BY <2>2, <2>3, <2>4, <2>5
  <1> QED
    BY <1>1, <1>2, <1>3, <1>4, <1>5, <1>6, <1>7, <1>8, <1>9 DEF HiloIo

\* A step that leaves the threads and what crear_interfaz publishes as they are.
LEMMA Ajeno ==
  ASSUME IInv, UNCHANGED <<registro, hilo, binario_io_libre>>, quiebre = "no"
  PROVE  Alta' /\ UnPedidoALaVez' /\ (UNCHANGED despacho => Manos')
  <1>1. Alta'
    BY DEF IInv, Alta, Publicada, Sano, registro, diccionarios
  <1>2. UnPedidoALaVez'
    BY DEF IInv, UnPedidoALaVez, Tiene
  <1>3. UNCHANGED despacho => Manos'
    BY DEF IInv, Manos
  <1> QED
    BY <1>1, <1>2, <1>3

\* recibir_dispatch.
LEMMA PasoDespacho ==
  ASSUME IInv, Sano,
         HiloDespacho \/ \E p \in Pids, n \in Nombres, i \in Identificadores : PedirIo(p, n, i)
  PROVE  IInv'
  <1> USE DEF IInv, DespachoSolo, registro, diccionarios, sockets, procesos, planificacion
  <1>0. ASSUME DespachoSolo PROVE Alta' /\ UnPedidoALaVez'
    BY <1>0, Ajeno DEF Sano
  <1>1. CASE Encolar
    <2> DEFINE q == colas_blocks_io[despacho.nombre]
    <2>1. despacho.nombre \in Nombres /\ despacho.pid \in Pids
      BY <1>1 DEF Encolar, Manos
    <2>2. despacho' \in Despachos /\ despacho'.nombre \in Nombres /\ despacho'.en = "avisar"
      BY <1>1, <2>1 DEF Encolar, TypeOK, Despachos
    <2>3. cola' \in [Conexiones -> Seq(Pids)]
      <3>1. CASE q = NULO
        BY <1>1, <3>1 DEF Encolar, TypeOK
      <3>2. CASE q # NULO
        <4>1. q \in Conexiones
          BY <2>1, <3>2 DEF TypeOK
        <4>2. Append(cola[q], despacho.pid) \in Seq(Pids)
          BY <2>1, <4>1, Colas DEF TypeOK
        <4>3. cola' = [cola EXCEPT ![q] = Append(@, despacho.pid)]
          BY <1>1, <3>2 DEF Encolar
        <4> QED
          BY <4>2, <4>3 DEF TypeOK
      <3> QED
        BY <3>1, <3>2
    <2>4. quiebre' \in {"no", "nula"}
      BY <1>1 DEF Encolar, Sano
    <2>5. TypeOK'
      BY <1>1, <2>2, <2>3, <2>4 DEF Encolar, TypeOK
    <2>6. Manos'
      BY <1>1, <2>2 DEF Encolar, Manos
    <2>7. Alta' /\ UnPedidoALaVez'
      BY <1>0, <1>1 DEF Encolar
    <2> QED
      BY <2>5, <2>6, <2>7
  <1>2. CASE Avisar
    <2> DEFINE s == diccionario_semaforos_io[despacho.nombre]
    <2>1. despacho.nombre \in Nombres
      BY <1>2 DEF Avisar, Manos
    <2>2. despacho' \in Despachos /\ despacho'.en = "esperar"
      BY <1>2 DEF Avisar, Libre, Despachos
    <2>3. instruccion_en_cola' \in [Conexiones -> Nat]
      <3>1. instruccion_en_cola \in [Conexiones -> Nat] /\ s \in Conexiones \cup {NULO}
        BY <2>1 DEF TypeOK
      <3>2. \/ UNCHANGED instruccion_en_cola
            \/ s # NULO /\ instruccion_en_cola' = [instruccion_en_cola EXCEPT ![s] = @ + 1]
        BY <1>2 DEF Avisar
      <3> HIDE DEF s
      <3>3. CASE UNCHANGED instruccion_en_cola
        BY <3>1, <3>3
      <3>4. CASE s # NULO /\ instruccion_en_cola' = [instruccion_en_cola EXCEPT ![s] = @ + 1]
        BY <3>1, <3>4, UnaMas
      <3> QED
        BY <3>2, <3>3, <3>4
    <2>4. quiebre' \in {"no", "nula"}
      BY <1>2 DEF Avisar, Sano
    <2>5. TypeOK'
      BY <1>2, <2>2, <2>3, <2>4 DEF Avisar, TypeOK
    <2>6. Manos'
      BY <1>2, <2>2 DEF Avisar, Manos
    <2>7. Alta' /\ UnPedidoALaVez'
      BY <1>0, <1>2 DEF Avisar
    <2> QED
      BY <2>5, <2>6, <2>7
  <1>3. ASSUME NEW p \in Pids, NEW n \in Nombres, NEW i \in Identificadores, PedirIo(p, n, i)
        PROVE  IInv'
    <2>1. /\ despacho' \in Despachos
          /\ despacho' # despacho => despacho'.nombre \in Nombres /\ despacho'.pid \in Pids
      BY <1>3 DEF PedirIo, TypeOK, Despachos
    <2>2. TypeOK'
      BY <1>3, <2>1 DEF PedirIo, TypeOK
    <2>3. Manos'
      BY <1>3, <2>1 DEF PedirIo, Manos
    <2>4. Alta' /\ UnPedidoALaVez'
      BY <1>0, <1>3 DEF PedirIo
    <2> QED
      BY <2>2, <2>3, <2>4
  <1> QED
    BY <1>1, <1>2, <1>3 DEF HiloDespacho

\* The modules and the console.
LEMMA PasoAfuera ==
  ASSUME IInv, Sano, (\E c \in Conexiones : Responder(c) \/ Morir(c)) \/ Consola
  PROVE  IInv'
  <1> USE DEF IInv, ModuloSolo, ConsolaSola, registro, diccionarios, semaforosIO, sockets,
              procesos, planificacion
  <1>1. Alta' /\ UnPedidoALaVez' /\ Manos'
    <2>1. UNCHANGED <<registro, hilo, binario_io_libre, despacho>>
      BY DEF Responder, Morir, Consola, FinalizarProceso, DetenerPlanificacion, IniciarPlanificacion
    <2> QED
      BY <2>1, Ajeno DEF Sano
  <1>2. ASSUME NEW c \in Conexiones, Responder(c) PROVE TypeOK'
    <2>1. Tail(pedidos[c]) \in Seq(Pids) /\ respuestas[c] + 1 \in Nat
      BY <1>2, Colas DEF Responder, TypeOK
    <2> QED
      BY <1>2, <2>1 DEF Responder, TypeOK
  <1>3. ASSUME NEW c \in Conexiones, Morir(c) PROVE TypeOK'
    <2>1. pedidos' \in [Conexiones -> Seq(Pids)]
      BY <1>3, Colas DEF Morir, TypeOK
    <2> QED
      BY <1>3, <2>1 DEF Morir, TypeOK
  <1>4. ASSUME Consola PROVE TypeOK'
    <2>1. ASSUME NEW p \in Pids, FinalizarProceso(p) PROVE TypeOK'
      BY <2>1 DEF FinalizarProceso, TypeOK
    <2>2. ASSUME DetenerPlanificacion PROVE TypeOK'
      BY <2>2 DEF DetenerPlanificacion, TypeOK
    <2>3. ASSUME IniciarPlanificacion PROVE TypeOK'
      <3>1. detenida' \in BOOLEAN
        BY <2>3 DEF IniciarPlanificacion
      <3>2. puerta' = puerta + 1
        BY <2>3 DEF IniciarPlanificacion
      <3>3. ConsolaSola /\ UNCHANGED <<detenciones, bloqueados, terminados>>
        BY <2>3 DEF IniciarPlanificacion
      <3>4. puerta' \in Nat
        BY <3>2 DEF TypeOK
      <3> QED
        BY <3>1, <3>3, <3>4 DEF TypeOK
    <2> QED
      BY <1>4, <2>1, <2>2, <2>3 DEF Consola
  <1> QED
    BY <1>1, <1>2, <1>3, <1>4

-----------------------------------------------------------------------------
LEMMA Quietos == ASSUME IInv, UNCHANGED vars PROVE IInv'
  <1> USE DEF vars, IInv, registro, diccionarios, semaforosIO, sockets, procesos, planificacion
  <1>1. TypeOK'
    BY DEF TypeOK
  <1>2. Alta'
    BY DEF Alta, Publicada, Sano
  <1>3. Manos' /\ UnPedidoALaVez'
    BY DEF Manos, UnPedidoALaVez, Tiene
  <1> QED
    BY <1>1, <1>2, <1>3

LEMMA Paso == IInv /\ [Next]_vars => IInv'
  <1> SUFFICES ASSUME IInv, [Next]_vars PROVE IInv'
    OBVIOUS
  <1>1. CASE UNCHANGED vars
    BY <1>1, Quietos
  <1>2. CASE Next
    BY <1>2, PasoCliente, PasoHilo, PasoDespacho, PasoAfuera DEF Next
  <1> QED
    BY <1>1, <1>2

\* The inductive invariant holds for ever.
THEOREM SiempreIInv == Spec => []IInv
  BY Inicio, Paso, PTL DEF Spec

\* For ever, the counts of the semaphores, the contents of the queues and the
\* pointers of the threads are what the code declares them to be.
THEOREM TiposDeInterfaces == Spec => []TypeOK
  BY SiempreIInv, PTL DEF IInv

\* Of the threads that wait on one pair of semaphores (two, when a module died
\* and came back under its name), one at most has passed binario_io_libre, and
\* the semaphore is 0 meanwhile: an interface has one request out at a time.  It
\* holds for any number of processes and of modules that die and reconnect.
THEOREM UnPedidoPorInterfaz == Spec => []UnPedidoALaVez
  BY SiempreIInv, PTL DEF IInv

\* atender_interfaz never finds NULL in a dictionary: crear_interfaz publishes
\* the queue and the semaphores after the connection, and starts the thread last.
EntradasDelHilo ==
  Sano => \A c \in Conexiones : hilo[c].en # "no" =>
    /\ conexiones_io[nombreDe[c]] # NULO
    /\ colas_blocks_io[nombreDe[c]] # NULO
    /\ diccionario_semaforos_io[nombreDe[c]] # NULO

\* The dispatch thread has no such guarantee: it reads the dictionaries while
\* crear_interfaz fills them (quiebre "nula").  The threads of the interfaces do.
THEOREM ElHiloEncuentraSusEntradas == Spec => []EntradasDelHilo
  <1>1. IInv => EntradasDelHilo
    BY NuloAssumption DEF IInv, Alta, Publicada, EntradasDelHilo
  <1> QED
    BY <1>1, SiempreIInv, PTL

-----------------------------------------------------------------------------
(* Where the request of each process is.                                   *)

Espera(p, c, i) == i \in DOMAIN cola[c] /\ cola[c][i] = p
Lleva(p, c) == hilo[c].en \in EnMano /\ hilo[c].pid = p
Pide(p) ==
  \/ despacho.pid = p
  \/ \E c \in Conexiones : \E i \in DOMAIN cola[c] : cola[c][i] = p
  \/ \E c \in Conexiones : Lleva(p, c)

\* In one place, once.
UnSitio(p) ==
  /\ \A c, d \in Conexiones, i, j \in Nat : Espera(p, c, i) /\ Espera(p, d, j) => c = d /\ i = j
  /\ \A c, d \in Conexiones : Lleva(p, c) /\ Lleva(p, d) => c = d
  /\ \A c, d \in Conexiones, i \in Nat : Espera(p, c, i) => ~Lleva(p, d)
  /\ \A c \in Conexiones, i \in Nat : Espera(p, c, i) => despacho.pid # p
  /\ \A c \in Conexiones : Lleva(p, c) => despacho.pid # p

\* A process that was not killed asks while it is blocked, until its request is
\* lost.
Pedida(p) ==
  /\ p \notin terminados => (Pide(p) <=> p \in bloqueados \ perdidos)
  /\ Pide(p) => p \in bloqueados \cup terminados
Cercos ==
  /\ perdidos \subseteq bloqueados \cup terminados
  /\ bloqueados \cap terminados = {}
  /\ despacho.en # "cola" => despacho.pid = NULO
PInv == Sano => Cercos /\ \A p \in Pids : UnSitio(p) /\ Pedida(p)

\* The requests stay where they are.
PedidosQuietos ==
  /\ UNCHANGED cola /\ despacho'.pid = despacho.pid
  /\ \A c \in Conexiones : /\ hilo'[c].en \in EnMano <=> hilo[c].en \in EnMano
                           /\ hilo[c].en \in EnMano => hilo'[c].pid = hilo[c].pid

LEMMA Quieta ==
  ASSUME NEW p \in Pids, PedidosQuietos, UnSitio(p)
  PROVE  UnSitio(p)' /\ (Pide(p)' <=> Pide(p))
  <1>1. \A c \in Conexiones, i \in Nat : Espera(p, c, i)' <=> Espera(p, c, i)
    BY DEF PedidosQuietos, Espera
  <1>2. \A c \in Conexiones : Lleva(p, c)' <=> Lleva(p, c)
    BY DEF PedidosQuietos, Lleva
  <1>3. UnSitio(p)'
    BY <1>1, <1>2 DEF UnSitio, PedidosQuietos
  <1>4. Pide(p)' <=> Pide(p)
    BY <1>2 DEF Pide, PedidosQuietos
  <1> QED
    BY <1>3, <1>4

LEMMA InicioPedidos == Init => PInv
  <1> SUFFICES ASSUME Init PROVE PInv
    OBVIOUS
  <1>1. \A p \in Pids : p # NULO
    BY NuloAssumption
  <1>2. \A p \in Pids, c \in Conexiones : ~Lleva(p, c)
    BY DEF Init, SinHilo, Lleva, EnMano
  <1>3. \A p, c, i : c \in Conexiones => ~Espera(p, c, i)
    BY DEF Init, Espera
  <1>4. \A p \in Pids : ~Pide(p) /\ UnSitio(p)
    BY <1>1, <1>2, <1>3 DEF Init, Libre, Pide, UnSitio, Espera
  <1> QED
    BY <1>4 DEF Init, Libre, PInv, Cercos, Pedida

\* A step that moves no request, and neither blocks nor frees anybody.
LEMMA PasoQuieto ==
  ASSUME PInv, Sano, PedidosQuietos, UNCHANGED <<bloqueados, terminados, perdidos>>,
         despacho'.en = "cola" <=> despacho.en = "cola"
  PROVE  PInv'
  <1>1. Cercos'
    BY DEF PInv, Cercos, PedidosQuietos
  <1>2. ASSUME NEW p \in Pids PROVE UnSitio(p)' /\ Pedida(p)'
    BY <1>2, Quieta DEF PInv, Pedida
  <1> QED
    BY <1>1, <1>2 DEF PInv

LEMMA PasosQuietos ==
  ASSUME IInv, PInv, Sano, NEW c \in Conexiones,
         \/ Conectar(c) \/ Cliente(c) \/ Responder(c) \/ Morir(c)
         \/ LeerSemaforos(c) \/ EsperarInstruccion(c) \/ EsperarLibre(c) \/ EnviarPedido(c)
         \/ RecibirRespuesta(c) \/ PasarCompuerta(c)
  PROVE  PInv'
  <1> USE DEF registro, diccionarios, semaforosIO, sockets, procesos, planificacion, PedidosQuietos
  <1>0. hilo \in [Conexiones -> Hilos]
    BY DEF IInv, TypeOK
  <1>1. CASE Conectar(c) \/ Responder(c) \/ Morir(c)
    <2>1. PedidosQuietos /\ UNCHANGED <<bloqueados, terminados, perdidos, despacho>>
      BY <1>1 DEF Conectar, Responder, Morir, RegistroSolo, ModuloSolo
    <2> QED
      BY <2>1, PasoQuieto
  <1>2. CASE Cliente(c)
    <2>1. CASE PublicarConexion(c) \/ PublicarCola(c) \/ PublicarSemaforos(c)
      <3>1. PedidosQuietos /\ UNCHANGED <<bloqueados, terminados, perdidos, despacho>>
        BY <2>1 DEF PublicarConexion, PublicarCola, PublicarSemaforos, RegistroSolo
      <3> QED
        BY <3>1, PasoQuieto
    <2>2. CASE CrearHilo(c)
      <3>1. hilo[c].en = "no"
        BY <2>2 DEF CrearHilo, IInv, Alta
      <3>2. PedidosQuietos /\ UNCHANGED <<bloqueados, terminados, perdidos, despacho>>
        BY <1>0, <2>2, <3>1 DEF CrearHilo, RegistroSolo, EnMano
      <3> QED
        BY <3>2, PasoQuieto
    <2> QED
      BY <1>2, <2>1, <2>2 DEF Cliente
  <1>3. CASE \/ LeerSemaforos(c) \/ EsperarInstruccion(c) \/ EsperarLibre(c) \/ EnviarPedido(c)
             \/ RecibirRespuesta(c) \/ PasarCompuerta(c)
    <2>1. UNCHANGED <<cola, bloqueados, terminados, perdidos, despacho>>
      BY <1>3 DEF LeerSemaforos, EsperarInstruccion, EsperarLibre, EnviarPedido,
                  RecibirRespuesta, PasarCompuerta, HiloSolo
    <2>2. \A d \in Conexiones \ {c} : hilo'[d] = hilo[d]
      BY <1>0, <1>3 DEF LeerSemaforos, EsperarInstruccion, EsperarLibre, EnviarPedido,
                        RecibirRespuesta, PasarCompuerta, Pasar
    <2>3. /\ hilo'[c].en \in EnMano <=> hilo[c].en \in EnMano
          /\ hilo[c].en \in EnMano => hilo'[c].pid = hilo[c].pid
      <3>1. CASE LeerSemaforos(c)
        BY <1>0, <3>1 DEF LeerSemaforos, SinHilo, EnMano
      <3>2. CASE EsperarInstruccion(c) \/ EsperarLibre(c) \/ PasarCompuerta(c)
        BY <1>0, <3>2 DEF EsperarInstruccion, EsperarLibre, PasarCompuerta, Pasar, EnMano, Hilos
      <3>3. CASE EnviarPedido(c)
        BY <1>0, <3>3 DEF EnviarPedido, EnMano, Hilos
      <3>4. CASE RecibirRespuesta(c)
        <4>1. hilo'[c].en \in {"compuerta", "manejar"} /\ hilo'[c].pid = hilo[c].pid
          BY <1>0, <3>4 DEF RecibirRespuesta, Hilos
        <4> QED
          BY <3>4, <4>1 DEF RecibirRespuesta, EnMano
      <3> QED
        BY <1>3, <3>1, <3>2, <3>3, <3>4
    <2>4. PedidosQuietos
      BY <2>1, <2>2, <2>3
    <2> QED
      BY <2>1, <2>4, PasoQuieto
  <1> QED
    BY <1>1, <1>2, <1>3

LEMMA PasosAjenos ==
  ASSUME IInv, PInv, Sano, Avisar \/ DetenerPlanificacion \/ IniciarPlanificacion
  PROVE  PInv'
  <1> USE DEF registro, diccionarios, semaforosIO, sockets, procesos, planificacion, PedidosQuietos
  <1>1. CASE DetenerPlanificacion \/ IniciarPlanificacion
    <2>1. PedidosQuietos /\ UNCHANGED <<bloqueados, terminados, perdidos, despacho>>
      BY <1>1 DEF DetenerPlanificacion, IniciarPlanificacion, ConsolaSola
    <2> QED
      BY <2>1, PasoQuieto
  <1>2. CASE Avisar
    <2>1. despacho'.pid = despacho.pid
      BY <1>2 DEF Avisar, Libre, PInv, Cercos
    <2>2. PedidosQuietos /\ UNCHANGED <<bloqueados, terminados, perdidos>>
      BY <1>2, <2>1 DEF Avisar, DespachoSolo
    <2>3. despacho'.en # "cola" /\ despacho.en # "cola"
      BY <1>2 DEF Avisar, Libre
    <2> QED
      BY <2>2, <2>3, PasoQuieto
  <1> QED
    BY <1>1, <1>2

\* OPERACION_IO: a process that asks for nothing asks for something.
LEMMA PasoPedir ==
  ASSUME IInv, PInv, Sano, NEW p \in Pids, NEW n \in Nombres, NEW i \in Identificadores,
         PedirIo(p, n, i)
  PROVE  PInv'
  <1> USE DEF registro, diccionarios, sockets, planificacion
  <1>1. /\ despacho = Libre /\ p \notin bloqueados \cup terminados
        /\ UNCHANGED <<cola, hilo, perdidos>>
    BY DEF PedirIo, DespachoSolo
  <1>2. ~Pide(p) /\ p # NULO
    BY <1>1, NuloAssumption DEF PInv, Pedida, Sano
  <1>3. CASE bloqueados' = bloqueados \cup {p} /\ UNCHANGED terminados
             /\ despacho' = [en |-> "cola", pid |-> p, nombre |-> n]
    <2>1. Cercos'
      BY <1>1, <1>3 DEF PInv, Cercos
    <2>2. ASSUME NEW x \in Pids, x # p PROVE UnSitio(x)' /\ Pedida(x)'
      <3>1. UnSitio(x)' /\ (Pide(x)' <=> Pide(x))
        <4>1. despacho.pid # x /\ despacho'.pid # x
          BY <1>1, <1>3, <2>2, NuloAssumption DEF Libre
        <4>2. UnSitio(x)
          BY DEF PInv
        <4>3. UnSitio(x)'
          BY <1>1, <4>1, <4>2 DEF UnSitio, Espera, Lleva
        <4>4. Pide(x)' <=> Pide(x)
          BY <1>1, <4>1 DEF Pide, Lleva
        <4> QED
          BY <4>3, <4>4
      <3> QED
        BY <1>1, <1>3, <2>2, <3>1 DEF PInv, Pedida
    <2>3. UnSitio(p)' /\ Pedida(p)'
      <3>1. /\ \A d \in Conexiones : ~Lleva(p, d)
            /\ \A d \in Conexiones, j \in Nat : ~Espera(p, d, j)
        BY <1>2 DEF Pide, Espera
      <3>2. UnSitio(p)'
        BY <1>1, <3>1 DEF UnSitio, Espera, Lleva
      <3>3. Pide(p)' /\ p \notin perdidos
        BY <1>1, <1>3 DEF Pide, PInv, Cercos
      <3> QED
        BY <1>1, <1>3, <3>2, <3>3 DEF Pedida
    <2> QED
      BY <2>1, <2>2, <2>3 DEF PInv
  <1>4. CASE terminados' = terminados \cup {p} /\ UNCHANGED <<bloqueados, despacho>>
    <2>1. Cercos'
      BY <1>1, <1>4 DEF PInv, Cercos
    <2>2. ASSUME NEW x \in Pids PROVE UnSitio(x)' /\ Pedida(x)'
      <3>1. PedidosQuietos
        BY <1>1, <1>4 DEF PedidosQuietos
      <3>2. UnSitio(x)' /\ (Pide(x)' <=> Pide(x))
        BY <3>1, Quieta DEF PInv
      <3> QED
        BY <1>1, <1>4, <3>2 DEF PInv, Pedida
    <2> QED
      BY <2>1, <2>2 DEF PInv
  <1> QED
    BY <1>3, <1>4 DEF PedirIo

\* The request goes from the hand of dispatch to the end of a queue.
LEMMA PasoEncolar ==
  ASSUME IInv, PInv, Sano, Encolar
  PROVE  PInv'
  <1> USE DEF registro, diccionarios, sockets, planificacion, procesos
  <1>0. SUFFICES ASSUME Sano' PROVE PInv'
    BY DEF PInv
  <1>a. PICK p \in Pids : p = despacho.pid
    BY DEF Encolar, IInv, Manos
  <1>1. /\ despacho.en = "cola" /\ despacho.nombre \in Nombres
        /\ UNCHANGED <<hilo, bloqueados, terminados, perdidos>>
    BY DEF Encolar, DespachoSolo, IInv, Manos
  <1>2. PICK q \in Conexiones : cola' = [cola EXCEPT ![q] = Append(@, p)]
    BY <1>0, <1>1, <1>a, NuloAssumption DEF Encolar, Sano, IInv, TypeOK
  <1>b. PICK m \in Nat : m = Len(cola[q]) + 1
    BY DEF IInv, TypeOK
  <1>3. despacho'.en = "avisar" /\ despacho'.pid = NULO
    BY <1>1 DEF Encolar, IInv, TypeOK, Despachos
  <1>4. /\ cola[q] \in Seq(Pids)
        /\ DOMAIN cola'[q] = DOMAIN cola[q] \cup {m} /\ m \notin DOMAIN cola[q]
        /\ cola'[q][m] = p /\ \A i \in DOMAIN cola[q] : cola'[q][i] = cola[q][i]
        /\ \A d \in Conexiones \ {q} : cola'[d] = cola[d]
    <2>1. cola[q] \in Seq(Pids)
      BY <1>2 DEF IInv, TypeOK
    <2>2. cola'[q] = Append(cola[q], p) /\ \A d \in Conexiones \ {q} : cola'[d] = cola[d]
      BY <1>2 DEF IInv, TypeOK
    <2> QED
      BY <1>b, <2>1, <2>2
  <1>5. \A x, d, i : d \in Conexiones =>
          (Espera(x, d, i)' <=> Espera(x, d, i) \/ (x = p /\ d = q /\ i = m))
    BY <1>4 DEF Espera
  <1>6. \A x, d : Lleva(x, d)' <=> Lleva(x, d)
    BY <1>1 DEF Lleva
  <1>7. Cercos'
    BY <1>1, <1>3 DEF PInv, Cercos
  <1>8. ASSUME NEW x \in Pids, x # p PROVE UnSitio(x)' /\ Pedida(x)'
    <2>1. despacho.pid # x /\ despacho'.pid # x
      BY <1>3, <1>8, <1>a, NuloAssumption
    <2>2. UnSitio(x)'
      BY <1>5, <1>6, <1>8, <2>1 DEF PInv, UnSitio
    <2>3. Pide(x)' <=> Pide(x)
      BY <1>5, <1>6, <1>8, <2>1 DEF Pide, Espera
    <2> QED
      BY <1>1, <2>2, <2>3 DEF PInv, Pedida
  <1>9. UnSitio(p)' /\ Pedida(p)'
    <2>1. /\ \A d \in Conexiones : ~Lleva(p, d)
          /\ \A d \in Conexiones, i \in Nat : ~Espera(p, d, i)
      BY <1>a DEF PInv, UnSitio
    <2>2. despacho'.pid # p
      BY <1>3, NuloAssumption
    <2>3. UnSitio(p)'
      BY <1>5, <1>6, <2>1, <2>2 DEF UnSitio
    <2>4. Pide(p) /\ Pide(p)'
      <3>1. Espera(p, q, m)'
        BY <1>2, <1>5
      <3> QED
        BY <1>a, <3>1 DEF Pide, Espera
    <2> QED
      BY <1>1, <2>3, <2>4 DEF PInv, Pedida
  <1> QED
    BY <1>7, <1>8, <1>9 DEF PInv

\* The request at the head of a queue goes to the hand of the thread.
LEMMA PasoSacar ==
  ASSUME IInv, PInv, Sano, NEW c \in Conexiones, SacarPedido(c)
  PROVE  PInv'
  <1> USE DEF registro, procesos
  <1>0. SUFFICES ASSUME Sano' PROVE PInv'
    BY DEF PInv
  <1>a. colas_blocks_io[nombreDe[c]] \in Conexiones
    BY DEF SacarPedido, IInv, Alta, Publicada
  <1>2. PICK q \in Conexiones : q = colas_blocks_io[nombreDe[c]]
    BY <1>a
  <1>b. cola[q] # <<>> /\ cola[q] \in Seq(Pids)
    BY <1>0, <1>2 DEF SacarPedido, Sano, IInv, TypeOK
  <1>c. PICK p \in Pids : p = Head(cola[q])
    BY <1>b
  <1>1. /\ hilo[c].en = "sacar"
        /\ UNCHANGED <<despacho, bloqueados, terminados, perdidos>>
        /\ cola' = [cola EXCEPT ![q] = Tail(@)]
        /\ hilo' = [hilo EXCEPT ![c].en = "pedir", ![c].pid = p]
    BY <1>0, <1>2, <1>c DEF SacarPedido, HiloSolo, Sano
  <1>3. /\ p = cola[q][1] /\ 1 \in DOMAIN cola[q]
        /\ DOMAIN cola[q] \subseteq Nat /\ 0 \notin DOMAIN cola[q]
        /\ \A i \in Nat : i \in DOMAIN cola'[q] <=> i + 1 \in DOMAIN cola[q] /\ i # 0
        /\ DOMAIN cola'[q] \subseteq Nat
        /\ \A i \in DOMAIN cola'[q] : cola'[q][i] = cola[q][i + 1]
        /\ \A d \in Conexiones \ {q} : cola'[d] = cola[d]
    <2>1. cola[q] \in Seq(Pids) /\ cola[q] # <<>>
      BY <1>b
    <2>2. cola'[q] = Tail(cola[q]) /\ \A d \in Conexiones \ {q} : cola'[d] = cola[d]
      BY <1>1, <1>2 DEF IInv, TypeOK
    <2>3. /\ DOMAIN cola[q] = 1 .. Len(cola[q]) /\ Len(cola[q]) \in Nat \ {0}
          /\ DOMAIN Tail(cola[q]) = 1 .. (Len(cola[q]) - 1)
          /\ \A i \in 1 .. (Len(cola[q]) - 1) : Tail(cola[q])[i] = cola[q][i + 1]
      BY <1>1, <2>1
    <2>4. p = cola[q][1]
      BY <1>c, <2>1
    <2> QED
      BY <2>2, <2>3, <2>4
  <1>4. /\ hilo'[c].en = "pedir" /\ hilo'[c].pid = p
        /\ \A d \in Conexiones \ {c} : hilo'[d] = hilo[d]
    BY <1>1 DEF IInv, TypeOK, Hilos
  <1> DEFINE Antes_(d, i) == IF d = q THEN i + 1 ELSE i
  <1>5. \A x : \A d \in Conexiones, i \in Nat :
          Espera(x, d, i)' => Espera(x, d, Antes_(d, i)) /\ (d = q => i # 0)
    BY <1>3 DEF Espera
  <1>6. \A x : \A d \in Conexiones :
          Lleva(x, d)' <=> Lleva(x, d) \/ (x = p /\ d = c)
    BY <1>1, <1>4 DEF Lleva, EnMano
  <1>7. Cercos'
    BY <1>1 DEF PInv, Cercos
  <1>8. Espera(p, q, 1)
    BY <1>3 DEF Espera
  <1>9. ASSUME NEW x \in Pids, x # p PROVE UnSitio(x)' /\ Pedida(x)'
    <2>0. UnSitio(x)
      BY DEF PInv
    <2>1. \A d, e \in Conexiones, i, j \in Nat :
            Espera(x, d, i)' /\ Espera(x, e, j)' => d = e /\ i = j
      <3> SUFFICES ASSUME NEW d \in Conexiones, NEW e \in Conexiones, NEW i \in Nat, NEW j \in Nat,
                          Espera(x, d, i)', Espera(x, e, j)'
                   PROVE  d = e /\ i = j
        OBVIOUS
      <3>1. /\ Espera(x, d, Antes_(d, i)) /\ Espera(x, e, Antes_(e, j))
            /\ Antes_(d, i) \in Nat /\ Antes_(e, j) \in Nat
        BY <1>5
      <3>2. d = e /\ Antes_(d, i) = Antes_(e, j)
        BY <2>0, <3>1 DEF UnSitio
      <3> QED
        BY <3>2
    <2>2. \A d \in Conexiones, i \in Nat :
            Espera(x, d, i)' => \E j \in Nat : Espera(x, d, j)
      <3>1. \A d \in Conexiones, i \in Nat : Antes_(d, i) \in Nat
        OBVIOUS
      <3> HIDE DEF Antes_
      <3> QED
        BY <1>5, <3>1
    <2>3. UnSitio(x)'
      BY <1>1, <1>6, <1>9, <2>0, <2>1, <2>2 DEF UnSitio
    <2>4. Pide(x)' => Pide(x)
      BY <1>1, <1>6, <1>9, <2>2 DEF Pide, Espera
    <2>5. Pide(x) => Pide(x)'
      <3>1. ASSUME NEW d \in Conexiones, NEW i \in DOMAIN cola[d], cola[d][i] = x
            PROVE  \E j \in DOMAIN cola'[d] : cola'[d][j] = x
        <4>1. CASE d # q
          BY <1>3, <3>1, <4>1
        <4>2. CASE d = q
          <5>1. i \in Nat /\ i # 0 /\ i # 1
            BY <1>3, <1>9, <3>1, <4>2
          <5>2. i - 1 \in Nat /\ (i - 1) + 1 = i /\ i - 1 # 0
            BY <5>1
          <5>3. i - 1 \in DOMAIN cola'[d]
            BY <1>3, <4>2, <5>2
          <5> QED
            BY <1>3, <3>1, <4>2, <5>2, <5>3
        <4> QED
          BY <4>1, <4>2
      <3> QED
        BY <1>1, <1>6, <3>1 DEF Pide
    <2> QED
      BY <1>1, <2>3, <2>4, <2>5 DEF PInv, Pedida
  <1>10. UnSitio(p)' /\ Pedida(p)'
    <2>0. UnSitio(p)
      BY <1>3 DEF PInv
    <2>1. \A d \in Conexiones : ~Lleva(p, d)
      BY <1>2, <1>8, <2>0 DEF UnSitio
    <2>2. despacho.pid # p
      BY <1>2, <1>8, <2>0 DEF UnSitio
    <2>3. ASSUME NEW d \in Conexiones, NEW i \in Nat, Espera(p, d, i)' PROVE FALSE
      <3>1. Espera(p, d, Antes_(d, i)) /\ Antes_(d, i) \in Nat /\ (d = q => i # 0)
        BY <1>5, <2>3
      <3>2. d = q /\ Antes_(d, i) = 1
        BY <1>2, <1>8, <2>0, <3>1 DEF UnSitio
      <3> QED
        BY <3>1, <3>2
    <2>4. UnSitio(p)'
      BY <1>1, <1>6, <2>1, <2>2, <2>3 DEF UnSitio
    <2>5. Pide(p) /\ Pide(p)'
      BY <1>2, <1>6, <1>8 DEF Pide, Espera
    <2> QED
      BY <1>1, <1>3, <2>4, <2>5 DEF PInv, Pedida
  <1> QED
    BY <1>7, <1>9, <1>10 DEF PInv

\* The thread is done with its request, which was served or lost.
LEMMA PasoManejar ==
  ASSUME IInv, PInv, Sano, NEW c \in Conexiones, ManejarExito(c) \/ ManejarFalla(c)
  PROVE  PInv'
  <1> USE DEF registro, procesos
  <1>a. PICK p \in Pids : p = hilo[c].pid
    BY DEF ManejarExito, ManejarFalla, IInv, Manos, EnMano
  <1>0. SUFFICES ASSUME Sano' PROVE PInv'
    BY DEF PInv
  <1>1. /\ hilo[c].en = "manejar" /\ UNCHANGED <<cola, despacho, terminados>>
        /\ Pasar(c, "inicio")
    BY <1>0 DEF ManejarExito, ManejarFalla, HiloSolo, Sano
  <1>2. \/ bloqueados' = bloqueados \ {p} /\ p \in bloqueados /\ UNCHANGED perdidos
        \/ UNCHANGED bloqueados /\ perdidos' = perdidos \cup {p}
    BY <1>0, <1>a DEF ManejarExito, ManejarFalla, Sano
  <1>3. hilo'[c].en = "inicio" /\ \A d \in Conexiones \ {c} : hilo'[d] = hilo[d]
    BY <1>1 DEF Pasar, IInv, TypeOK, Hilos
  <1>4. Lleva(p, c) /\ Pide(p) /\ UnSitio(p) /\ Pedida(p)
    BY <1>1, <1>a DEF Lleva, EnMano, Pide, PInv
  <1>5. \A x : \A d \in Conexiones : Lleva(x, d)' <=> Lleva(x, d) /\ d # c
    BY <1>3 DEF Lleva, EnMano
  <1>6. \A x, d, i : Espera(x, d, i)' <=> Espera(x, d, i)
    BY <1>1 DEF Espera
  <1>7. Cercos'
    BY <1>1, <1>2, <1>4 DEF PInv, Cercos, Pedida
  <1>8. ASSUME NEW x \in Pids PROVE UnSitio(x)'
    BY <1>1, <1>5, <1>6 DEF PInv, UnSitio
  <1>9. ASSUME NEW x \in Pids, x # p PROVE Pedida(x)'
    <2>1. Lleva(x, c) => x = p
      BY <1>a DEF Lleva
    <2>2. Pide(x)' <=> Pide(x)
      BY <1>1, <1>5, <1>9, <2>1 DEF Pide
    <2> QED
      BY <1>1, <1>2, <1>9, <2>2 DEF PInv, Pedida
  <1>10. Pedida(p)'
    <2>1. ~Pide(p)'
      <3>1. \A d \in Conexiones : ~Lleva(p, d)'
        BY <1>4, <1>5 DEF UnSitio
      <3>2. \A d \in Conexiones, i \in Nat : ~Espera(p, d, i)
        BY <1>4 DEF UnSitio
      <3>3. despacho.pid # p
        BY <1>4 DEF UnSitio
      <3>4. \A d \in Conexiones : DOMAIN cola[d] \subseteq Nat
        <4>1. \A d \in Conexiones : cola[d] \in Seq(Pids)
          BY DEF IInv, TypeOK
        <4> QED
          BY <4>1
      <3>5. \A d \in Conexiones : ~\E i \in DOMAIN cola[d] : cola[d][i] = p
        BY <3>2, <3>4 DEF Espera
      <3>6. UNCHANGED <<cola, despacho>>
        BY <1>1
      <3> QED
        BY <3>1, <3>3, <3>5, <3>6 DEF Pide
    <2>2. p \notin terminados => p \notin bloqueados' \ perdidos'
      BY <1>2
    <2> QED
      BY <1>1, <2>1, <2>2 DEF Pedida
  <1> QED
    BY <1>7, <1>8, <1>9, <1>10 DEF PInv

\* FINALIZAR_PROCESO of a blocked process.
LEMMA PasoFinalizar ==
  ASSUME IInv, PInv, Sano, NEW p \in Pids, FinalizarProceso(p)
  PROVE  PInv'
  <1> USE DEF registro, ConsolaSola
  <1>1. /\ p \in bloqueados /\ bloqueados' = bloqueados \ {p} /\ terminados' = terminados \cup {p}
        /\ UNCHANGED <<cola, hilo, despacho, perdidos>>
    BY DEF FinalizarProceso
  <1>2. PedidosQuietos
    BY <1>1 DEF PedidosQuietos
  <1>3. Cercos'
    BY <1>1 DEF PInv, Cercos
  <1>4. ASSUME NEW x \in Pids PROVE UnSitio(x)' /\ Pedida(x)'
    <2>1. UnSitio(x)' /\ (Pide(x)' <=> Pide(x))
      BY <1>2, Quieta DEF PInv
    <2> QED
      BY <1>1, <2>1 DEF PInv, Pedida
  <1> QED
    BY <1>3, <1>4 DEF PInv

LEMMA PasoPedidos == IInv /\ PInv /\ [Next]_vars => PInv'
  <1> SUFFICES ASSUME IInv, PInv, [Next]_vars PROVE PInv'
    OBVIOUS
  <1>1. CASE UNCHANGED vars
    <2>1. /\ UNCHANGED <<hilo, cola, despacho, bloqueados, terminados, perdidos, quiebre>>
          /\ PedidosQuietos
      BY <1>1 DEF vars, procesos, PedidosQuietos
    <2>2. CASE Sano
      BY <2>1, <2>2, PasoQuieto
    <2>3. CASE ~Sano
      BY <2>1, <2>3 DEF PInv, Sano
    <2> QED
      BY <2>2, <2>3
  <1>2. CASE Next
    <2>1. Sano
      BY <1>2 DEF Next
    <2>2. ASSUME NEW c \in Conexiones,
                 Conectar(c) \/ Cliente(c) \/ HiloIo(c) \/ Responder(c) \/ Morir(c)
          PROVE  PInv'
      BY <2>1, <2>2, PasosQuietos, PasoSacar, PasoManejar DEF HiloIo
    <2>3. CASE HiloDespacho
      BY <2>1, <2>3, PasosAjenos, PasoEncolar DEF HiloDespacho
    <2>4. CASE Consola
      BY <2>1, <2>4, PasosAjenos, PasoFinalizar DEF Consola
    <2> QED
      BY <1>2, <2>1, <2>2, <2>3, <2>4, PasoPedir DEF Next
  <1> QED
    BY <1>1, <1>2

\* The invariant of the requests holds, for any deaths and reconnections.
THEOREM SiemprePInv == Spec => []PInv
  BY SiempreIInv, InicioPedidos, PasoPedidos, PTL DEF Spec

\* A process waits in one place of a queue: no queue is longer than they are.
LEMMA ColaCorta ==
  ASSUME IInv, PInv, Sano, NEW c \in Conexiones
  PROVE  Len(cola[c]) <= Cardinality(Pids) /\ DOMAIN cola[c] \subseteq 1 .. Cardinality(Pids)
  <1> DEFINE n == Len(cola[c])
             f == cola[c]
  <1>1. /\ f \in Seq(Pids) /\ n \in Nat /\ DOMAIN f = 1 .. n /\ f \in [1 .. n -> Pids]
    BY DEF IInv, TypeOK
  <1>2. \A i, j \in 1 .. n : f[i] = f[j] => i = j
    <2> SUFFICES ASSUME NEW i \in 1 .. n, NEW j \in 1 .. n, f[i] = f[j] PROVE i = j
      OBVIOUS
    <2>1. PICK p \in Pids : p = f[i]
      BY <1>1
    <2>2. Espera(p, c, i) /\ Espera(p, c, j) /\ i \in Nat /\ j \in Nat
      BY <1>1, <2>1 DEF Espera
    <2>3. UnSitio(p)
      BY DEF PInv
    <2> QED
      BY <2>2, <2>3 DEF UnSitio
  <1> HIDE DEF f
  <1>3. f \in Injection(1 .. n, Pids)
    BY <1>1, <1>2 DEF Injection, IsInjective
  <1>4. Cardinality(1 .. n) <= Cardinality(Pids)
    BY <1>3, FinitosAssumption, FS_Injection
  <1>5. Cardinality(1 .. n) = n /\ Cardinality(Pids) \in Nat
    <2>1. 1 \in Int /\ n \in Int
      BY <1>1
    <2>2. Cardinality(1 .. n) = IF 1 > n THEN 0 ELSE n - 1 + 1
      BY <2>1, FS_Interval
    <2>3. Cardinality(Pids) \in Nat
      BY FinitosAssumption, FS_CardinalityType
    <2> QED
      BY <1>1, <2>2, <2>3
  <1>6. n <= Cardinality(Pids)
    BY <1>4, <1>5
  <1>7. DOMAIN cola[c] \subseteq 1 .. Cardinality(Pids)
    BY <1>1, <1>5, <1>6 DEF f
  <1> QED
    BY <1>6, <1>7

\* A blocked process has exactly one request, on its way to a queue, in a queue
\* or in the hands of a thread, unless it was lost; a process that is not
\* blocked has none, unless it was killed.  It holds for any number of
\* processes, names and connections, and of modules that die and come back.
THEOREM CadaBloqueadoUnPedido == Spec => []PedidoUnico
  <1>1. IInv /\ PInv => PedidoUnico
    <2> SUFFICES ASSUME IInv, PInv, Sano
                 PROVE  /\ \A p \in Pids \ terminados : Pedidos(p) = Uno(p \in bloqueados \ perdidos)
                        /\ \A c \in Conexiones : Len(cola[c]) <= Cardinality(Pids)
      BY DEF PedidoUnico
    <2>1. \A c \in Conexiones : Len(cola[c]) <= Cardinality(Pids)
      BY ColaCorta
    <2>2. ASSUME NEW p \in Pids \ terminados
          PROVE  Pedidos(p) = Uno(p \in bloqueados \ perdidos)
      <3> DEFINE A == {ci \in Conexiones \X (1 .. Cardinality(Pids)) :
                         ci[2] \in DOMAIN cola[ci[1]] /\ cola[ci[1]][ci[2]] = p}
                 B == {c \in Conexiones : hilo[c].en \in EnMano /\ hilo[c].pid = p}
      <3>0. Pedidos(p) = Uno(despacho.pid = p) + Cardinality(A) + Cardinality(B)
        BY DEF Pedidos
      <3>1. UnSitio(p) /\ (Pide(p) <=> p \in bloqueados \ perdidos)
        BY DEF PInv, Pedida
      <3>2. \A x : x \in A <=> \E c \in Conexiones, i \in Nat : x = <<c, i>> /\ Espera(p, c, i)
        <4>1. \A c \in Conexiones : DOMAIN cola[c] \subseteq 1 .. Cardinality(Pids)
          BY ColaCorta
        <4>2. ASSUME NEW x \in A PROVE \E c \in Conexiones, i \in Nat : x = <<c, i>> /\ Espera(p, c, i)
          BY DEF Espera
        <4>3. ASSUME NEW c \in Conexiones, NEW i \in Nat, Espera(p, c, i) PROVE <<c, i>> \in A
          BY <4>1, <4>3 DEF Espera
        <4> QED
          BY <4>2, <4>3
      <3>3. \A c : c \in B <=> c \in Conexiones /\ Lleva(p, c)
        BY DEF Lleva
      <3>4. \A c \in Conexiones : DOMAIN cola[c] \subseteq Nat
        BY DEF IInv, TypeOK
      <3>5. Cardinality({}) = 0 /\ \A x : Cardinality({x}) = 1
        BY FS_EmptySet, FS_Singleton
      <3> HIDE DEF A, B
      <3>6. CASE despacho.pid = p
        <4>1. A = {} /\ B = {}
          BY <3>1, <3>2, <3>3, <3>6 DEF UnSitio
        <4> QED
          BY <3>0, <3>1, <3>5, <3>6, <4>1 DEF Pide, Uno
      <3>7. ASSUME NEW c \in Conexiones, NEW i \in DOMAIN cola[c], cola[c][i] = p
            PROVE  Pedidos(p) = Uno(p \in bloqueados \ perdidos)
        <4>1. Espera(p, c, i) /\ i \in Nat
          BY <3>4, <3>7 DEF Espera
        <4>2. A = {<<c, i>>}
          BY <3>1, <3>2, <4>1 DEF UnSitio
        <4>3. B = {} /\ despacho.pid # p
          BY <3>1, <3>3, <4>1 DEF UnSitio
        <4>4. Pide(p)
          BY <3>7 DEF Pide
        <4>5. Cardinality(A) = 1 /\ Cardinality(B) = 0
          BY <3>5, <4>2, <4>3
        <4>6. Uno(despacho.pid = p) = 0 /\ Uno(p \in bloqueados \ perdidos) = 1
          BY <3>1, <4>3, <4>4 DEF Uno
        <4> QED
          BY <3>0, <4>5, <4>6
      <3>8. ASSUME NEW c \in Conexiones, Lleva(p, c)
            PROVE  Pedidos(p) = Uno(p \in bloqueados \ perdidos)
        <4>1. A = {} /\ B = {c} /\ despacho.pid # p
          BY <3>1, <3>2, <3>3, <3>8 DEF UnSitio
        <4>2. Pide(p)
          BY <3>8 DEF Pide
        <4> QED
          BY <3>0, <3>1, <3>5, <4>1, <4>2 DEF Uno
      <3>9. CASE ~Pide(p)
        <4>1. A = {} /\ B = {} /\ despacho.pid # p
          BY <3>2, <3>3, <3>9 DEF Pide, Espera
        <4> QED
          BY <3>0, <3>1, <3>5, <3>9, <4>1 DEF Uno
      <3> QED
        BY <3>6, <3>7, <3>8, <3>9 DEF Pide
    <2> QED
      BY <2>1, <2>2
  <1> QED
    BY <1>1, SiempreIInv, SiemprePInv, PTL

-----------------------------------------------------------------------------
(* What the semaphores count.                                              *)

\* crear_interfaz published c under the name n.
DeNombre(c, n) == nombreDe[c] = n /\ cliente[c] \notin {"fuera", "conexion"}
Diccionario(dic) == \A n \in Nombres : dic[n] # NULO => DeNombre(dic[n], n)
Dicc ==
  /\ Diccionario(conexiones_io) /\ Diccionario(colas_blocks_io)
  /\ Diccionario(diccionario_semaforos_io)
Firmas ==
  \A c \in Conexiones : hilo[c].en \notin {"no", "inicio"} => DeNombre(hilo[c].sem, nombreDe[c])

\* The module that lives under a name is the one that the dictionary of
\* connections gives, once it is published, and the one that connected last.
Vivas ==
  /\ \A c \in Conexiones : viva[c] => cliente[c] # "fuera"
  /\ \A c, d \in Conexiones : viva[c] /\ viva[d] /\ nombreDe[c] = nombreDe[d] => c = d
  /\ \A c \in Conexiones :
       viva[c] /\ cliente[c] # "conexion" => conexiones_io[nombreDe[c]] = c
  /\ \A c, d \in Conexiones :
       nombre_entrada_salida_conectada = c /\ nombreDe[d] = nombreDe[c] /\ viva[d] => d = c

\* A thread talks to the module of its semaphores while that one lives, and so
\* an answer that never comes means that it died.
Contacto(h) ==
  /\ h.en \in {"recibir", "compuerta", "manejar"} /\ viva[h.sem] => h.con = h.sem
  /\ h.en \in {"compuerta", "manejar"} /\ ~h.bien => ~viva[h.sem]
Contactos == \A c \in Conexiones : Contacto(hilo[c])

\* Semaphores that are 0 while no thread has the interface.
Caidos == {s \in Conexiones : binario_io_libre[s] = 0 /\ \A c \in Conexiones : ~Tiene(c, s)}
Bajas ==
  /\ Caidos \subseteq Muertas
  /\ IsFiniteSet(perdidos) /\ Cardinality(perdidos) <= Cardinality(Caidos)
  /\ Caidos # {} => perdidos # {}

\* The only connection of its name that was ever made.
Sola(c) == \A d \in Conexiones : nombreDe[d] = nombreDe[c] /\ cliente[d] # "fuera" => d = c
Cuenta(c) ==
  instruccion_en_cola[c] + Uno(hilo[c].en \in {"libre", "sacar"})
    + Uno(despacho.en = "avisar" /\ despacho.nombre = nombreDe[c])
  = Len(cola[c])
Cuentas == \A c \in Conexiones : Sola(c) => Cuenta(c)

SInv == Sano => Dicc /\ Firmas /\ Vivas /\ Contactos /\ Bajas /\ Cuentas

LEMMA InicioSem == Init => SInv
  <1> SUFFICES ASSUME Init PROVE SInv
    OBVIOUS
  <1> USE DEF Init
  <1>1. Dicc /\ Firmas /\ Vivas
    BY NuloAssumption DEF Dicc, Diccionario, Firmas, Vivas, SinHilo
  <1>2. Contactos
    BY DEF Contactos, Contacto, SinHilo
  <1>3. Caidos = {}
    BY DEF Caidos
  <1>4. Bajas
    BY <1>3, FS_EmptySet DEF Bajas
  <1>5. Cuentas
    BY DEF Cuentas, Cuenta, Uno, SinHilo, Libre
  <1> QED
    BY <1>1, <1>2, <1>4, <1>5 DEF SInv

\* Registrations are never undone, and a module that died stays dead.
Avance ==
  /\ UNCHANGED nombreDe
  /\ \A c \in Conexiones :
       /\ cliente[c] # "fuera" => cliente'[c] # "fuera"
       /\ cliente[c] \notin {"fuera", "conexion"} => cliente'[c] \notin {"fuera", "conexion"}
       /\ viva'[c] => viva[c] \/ cliente[c] = "fuera"

LEMMA Avanza ==
  ASSUME TypeOK, NEW c \in Conexiones, Conectar(c) \/ Cliente(c) \/ Responder(c) \/ Morir(c)
  PROVE  Avance
  <1> USE DEF TypeOK, RegistroSolo, ModuloSolo, registro
  <1>1. CASE Conectar(c)
    BY <1>1 DEF Conectar, Avance
  <1>2. CASE Cliente(c)
    BY <1>2 DEF Cliente, PublicarConexion, PublicarCola, PublicarSemaforos, CrearHilo, Avance
  <1>3. CASE Responder(c) \/ Morir(c)
    BY <1>3 DEF Responder, Morir, Avance
  <1> QED
    BY <1>1, <1>2, <1>3

LEMMA AvanzaQuieto ==
  ASSUME UNCHANGED <<nombreDe, cliente, viva>>
  PROVE  Avance
  BY DEF Avance

\* Threads that go on where they were, or begin.
HilosIguales ==
  \A c \in Conexiones : \/ hilo'[c] = hilo[c]
                        \/ hilo[c].en = "no" /\ hilo'[c].en = "inicio"

LEMMA SiguenIguales ==
  ASSUME IInv, SInv, Sano, Avance, HilosIguales, UNCHANGED <<binario_io_libre, perdidos>>
  PROVE  Firmas' /\ Contactos' /\ Bajas'
  <1>0. /\ \A c \in Conexiones : hilo[c].en \notin {"no", "inicio"} =>
             hilo[c].sem \in Conexiones /\ DeNombre(hilo[c].sem, nombreDe[c])
        /\ Contactos /\ Bajas
    BY DEF IInv, Manos, SInv, Firmas
  <1>1. Firmas'
    <2> SUFFICES ASSUME NEW c \in Conexiones, hilo'[c].en \notin {"no", "inicio"}
                 PROVE  DeNombre(hilo[c].sem, nombreDe[c])'
      BY DEF Firmas
    <2>1. hilo'[c] = hilo[c]
      BY DEF HilosIguales
    <2> QED
      BY <1>0, <2>1 DEF Avance, DeNombre
  <1>2. Contactos'
    <2> SUFFICES ASSUME NEW c \in Conexiones PROVE Contacto(hilo[c])'
      BY DEF Contactos
    <2>1. CASE hilo'[c] = hilo[c]
      <3>1. hilo[c].en \in {"recibir", "compuerta", "manejar"} =>
              (viva'[hilo[c].sem] => viva[hilo[c].sem])
        BY <1>0 DEF Avance, DeNombre
      <3> QED
        BY <1>0, <2>1, <3>1 DEF Contactos, Contacto
    <2>2. CASE hilo'[c].en = "inicio"
      BY <2>2 DEF Contacto
    <2> QED
      BY <2>1, <2>2 DEF HilosIguales
  <1>3. Caidos' = Caidos
    <2>1. \A c, s \in Conexiones : Tiene(c, s)' <=> Tiene(c, s)
      BY DEF HilosIguales, Tiene, EnMano
    <2> QED
      BY <2>1 DEF Caidos
  <1>4. Muertas \subseteq Muertas'
    BY DEF Muertas, Avance
  <1>5. Bajas'
    BY <1>0, <1>3, <1>4 DEF Bajas
  <1> QED
    BY <1>1, <1>2, <1>5

\* Queues and counters that stay as they are.
LEMMA CuentasIguales ==
  ASSUME IInv, SInv, Sano, Avance, UNCHANGED <<cola, instruccion_en_cola>>,
         \A c \in Conexiones : hilo'[c].en \in {"libre", "sacar"} <=> hilo[c].en \in {"libre", "sacar"},
         \/ UNCHANGED despacho
         \/ despacho.en # "avisar" /\ despacho'.en # "avisar"
  PROVE  Cuentas'
  <1> SUFFICES ASSUME NEW c \in Conexiones, Sola(c)' PROVE Cuenta(c)'
    BY DEF Cuentas
  <1>1. Sola(c)
    BY DEF Sola, Avance
  <1>2. Cuenta(c)
    BY <1>1 DEF SInv, Cuentas
  <1>3. /\ Uno(hilo[c].en \in {"libre", "sacar"})' = Uno(hilo[c].en \in {"libre", "sacar"})
        /\ Uno(despacho.en = "avisar" /\ despacho.nombre = nombreDe[c])'
           = Uno(despacho.en = "avisar" /\ despacho.nombre = nombreDe[c])
    BY DEF Uno, Avance
  <1> QED
    BY <1>2, <1>3 DEF Cuenta

LEMMA MismosDiccionarios ==
  ASSUME SInv, Sano, Avance, IInv, UNCHANGED diccionarios
  PROVE  Dicc'
  <1>1. ASSUME NEW c \in Conexiones, NEW n, DeNombre(c, n) PROVE DeNombre(c, n)'
    BY <1>1 DEF DeNombre, Avance
  <1> QED
    BY <1>1 DEF SInv, Dicc, Diccionario, diccionarios, IInv, TypeOK

\* A module connects: atender_cliente and crear_interfaz.
LEMMA SemCliente ==
  ASSUME IInv, SInv, Sano, NEW c \in Conexiones, Conectar(c) \/ Cliente(c)
  PROVE  SInv'
  <1> USE DEF RegistroSolo, diccionarios, semaforosIO
  <1>0. SUFFICES ASSUME Sano' PROVE SInv'
    BY DEF SInv
  <1>a. TypeOK /\ Alta /\ Dicc /\ Vivas
    BY DEF IInv, SInv
  <1>1. Avance
    BY <1>a, Avanza
  <1>2. /\ HilosIguales
        /\ \A d \in Conexiones :
             hilo'[d].en \in {"libre", "sacar"} <=> hilo[d].en \in {"libre", "sacar"}
    <2>1. CASE CrearHilo(c)
      <3>1. hilo[c].en = "no"
        BY <1>a, <2>1 DEF CrearHilo, Alta
      <3>2. /\ hilo'[c].en = "inicio"
            /\ \A d \in Conexiones \ {c} : hilo'[d] = hilo[d]
        BY <1>a, <2>1 DEF CrearHilo, TypeOK, Hilos
      <3> QED
        BY <3>1, <3>2 DEF HilosIguales
    <2>2. CASE UNCHANGED hilo
      BY <2>2 DEF HilosIguales
    <2> QED
      BY <2>1, <2>2 DEF Conectar, Cliente, PublicarConexion, PublicarCola, PublicarSemaforos
  <1>3. UNCHANGED <<binario_io_libre, instruccion_en_cola, cola, perdidos, despacho, nombreDe>>
    BY DEF Conectar, Cliente, PublicarConexion, PublicarCola, PublicarSemaforos, CrearHilo
  <1>4. Firmas' /\ Contactos' /\ Bajas'
    BY <1>1, <1>2, <1>3, SiguenIguales
  <1>5. Cuentas'
    BY <1>1, <1>2, <1>3, CuentasIguales
  <1>6. CASE Conectar(c)
    <2>1. Dicc'
      BY <1>1, <1>6, MismosDiccionarios DEF Conectar
    <2>2. Vivas'
      BY <1>3, <1>6, <1>a DEF Conectar, Vivas, TypeOK
    <2> QED
      BY <1>4, <1>5, <2>1, <2>2 DEF SInv
  <1>7. CASE PublicarConexion(c)
    <2>1. /\ nombre_entrada_salida_conectada = c /\ cliente[c] = "conexion"
          /\ conexiones_io' = [conexiones_io EXCEPT ![nombreDe[c]] = c]
          /\ cliente' = [cliente EXCEPT ![c] = "cola"]
          /\ UNCHANGED <<viva, nombre_entrada_salida_conectada, colas_blocks_io,
                         diccionario_semaforos_io>>
      BY <1>0, <1>7, NuloAssumption DEF PublicarConexion, Sano
    <2>2. /\ cliente'[c] = "cola" /\ \A d \in Conexiones \ {c} : cliente'[d] = cliente[d]
          /\ conexiones_io'[nombreDe[c]] = c
          /\ \A n \in Nombres \ {nombreDe[c]} : conexiones_io'[n] = conexiones_io[n]
      BY <1>a, <2>1 DEF TypeOK
    <2>4. Dicc'
      BY <1>1, <1>a, <2>1, <2>2 DEF Dicc, Diccionario, DeNombre, Avance, TypeOK
    <2>5. Vivas'
      BY <1>3, <1>a, <2>1, <2>2 DEF Vivas, TypeOK
    <2> QED
      BY <1>4, <1>5, <2>4, <2>5 DEF SInv
  <1>8. CASE PublicarCola(c) \/ PublicarSemaforos(c) \/ CrearHilo(c)
    <2>1. /\ UNCHANGED <<viva, conexiones_io>>
          /\ cliente[c] \in {"cola", "semaforos", "hilo"}
          /\ cliente'[c] \notin {"fuera", "conexion"}
          /\ \A d \in Conexiones \ {c} : cliente'[d] = cliente[d]
          /\ nombre_entrada_salida_conectada' \in {nombre_entrada_salida_conectada, NULO}
      BY <1>8, <1>a DEF PublicarCola, PublicarSemaforos, CrearHilo, TypeOK
    <2>2. Vivas'
      BY <1>3, <1>a, <2>1, NuloAssumption DEF Vivas
    <2>3. ASSUME NEW d \in Conexiones, NEW n, DeNombre(d, n) PROVE DeNombre(d, n)'
      BY <1>1, <2>3 DEF DeNombre, Avance
    <2>5. /\ colas_blocks_io' = colas_blocks_io
             \/ colas_blocks_io' = [colas_blocks_io EXCEPT ![nombreDe[c]] = c]
          /\ diccionario_semaforos_io' = diccionario_semaforos_io
             \/ diccionario_semaforos_io' = [diccionario_semaforos_io EXCEPT ![nombreDe[c]] = c]
      BY <1>8 DEF PublicarCola, PublicarSemaforos, CrearHilo
    <2>6. Diccionario(conexiones_io)'
      BY <1>a, <2>1, <2>3 DEF Dicc, Diccionario, TypeOK
    <2>7. Diccionario(colas_blocks_io)'
      <3> SUFFICES ASSUME NEW n \in Nombres, colas_blocks_io'[n] # NULO
                   PROVE  nombreDe'[colas_blocks_io'[n]] = n /\ cliente'[colas_blocks_io'[n]] \notin {"fuera", "conexion"}
        BY DEF Diccionario, DeNombre
      <3>1. \/ colas_blocks_io'[n] = colas_blocks_io[n]
            \/ n = nombreDe[c] /\ colas_blocks_io'[n] = c
        BY <1>a, <2>5 DEF TypeOK
      <3>2. CASE colas_blocks_io'[n] = colas_blocks_io[n]
        <4>1. nombreDe[colas_blocks_io[n]] = n /\ cliente[colas_blocks_io[n]] \notin {"fuera", "conexion"}
              /\ colas_blocks_io[n] \in Conexiones
          BY <1>a, <3>2 DEF Dicc, Diccionario, DeNombre, TypeOK
        <4> QED
          BY <1>1, <3>2, <4>1 DEF Avance
      <3>3. CASE n = nombreDe[c] /\ colas_blocks_io'[n] = c
        BY <1>1, <2>1, <3>3 DEF Avance
      <3> QED
        BY <3>1, <3>2, <3>3
    <2>8. Diccionario(diccionario_semaforos_io)'
      <3> SUFFICES ASSUME NEW n \in Nombres, diccionario_semaforos_io'[n] # NULO
                   PROVE  nombreDe'[diccionario_semaforos_io'[n]] = n /\ cliente'[diccionario_semaforos_io'[n]] \notin {"fuera", "conexion"}
        BY DEF Diccionario, DeNombre
      <3>1. \/ diccionario_semaforos_io'[n] = diccionario_semaforos_io[n]
            \/ n = nombreDe[c] /\ diccionario_semaforos_io'[n] = c
        BY <1>a, <2>5 DEF TypeOK
      <3>2. CASE diccionario_semaforos_io'[n] = diccionario_semaforos_io[n]
        <4>1. nombreDe[diccionario_semaforos_io[n]] = n /\ cliente[diccionario_semaforos_io[n]] \notin {"fuera", "conexion"}
              /\ diccionario_semaforos_io[n] \in Conexiones
          BY <1>a, <3>2 DEF Dicc, Diccionario, DeNombre, TypeOK
        <4> QED
          BY <1>1, <3>2, <4>1 DEF Avance
      <3>3. CASE n = nombreDe[c] /\ diccionario_semaforos_io'[n] = c
        BY <1>1, <2>1, <3>3 DEF Avance
      <3> QED
        BY <3>1, <3>2, <3>3
    <2> QED
      BY <1>4, <1>5, <2>2, <2>6, <2>7, <2>8 DEF SInv, Dicc
  <1> QED
    BY <1>6, <1>7, <1>8 DEF Cliente

\* The modules and the console.
LEMMA SemAfuera ==
  ASSUME IInv, SInv, Sano, (\E c \in Conexiones : Responder(c) \/ Morir(c)) \/ Consola
  PROVE  SInv'
  <1> USE DEF ModuloSolo, ConsolaSola, registro, semaforosIO, sockets
  <1>0. TypeOK /\ Vivas /\ Dicc
    BY DEF IInv, SInv
  <1>1. UNCHANGED <<registro, hilo, semaforosIO, cola, despacho, perdidos>>
    BY DEF Responder, Morir, Consola, FinalizarProceso, DetenerPlanificacion, IniciarPlanificacion
  <1>2. /\ Avance
        /\ \A c \in Conexiones : viva'[c] => viva[c]
    <2>1. CASE Consola
      <3>1. UNCHANGED <<nombreDe, cliente, viva>>
        BY <2>1 DEF Consola, FinalizarProceso, DetenerPlanificacion, IniciarPlanificacion
      <3> QED
        BY <3>1, AvanzaQuieto
    <2>2. ASSUME NEW c \in Conexiones, Responder(c) \/ Morir(c)
          PROVE  Avance /\ \A d \in Conexiones : viva'[d] => viva[d]
      <3>1. Avance
        BY <1>0, <2>2, Avanza
      <3>2. \A d \in Conexiones : viva'[d] => viva[d]
        BY <1>0, <2>2 DEF Responder, Morir, TypeOK
      <3> QED
        BY <3>1, <3>2
    <2> QED
      BY <2>1, <2>2
  <1>3. Dicc'
    BY <1>1, <1>2, MismosDiccionarios
  <1>4. Vivas'
    BY <1>0, <1>1, <1>2 DEF Vivas, diccionarios
  <1>5. Firmas' /\ Contactos' /\ Bajas'
    BY <1>1, <1>2, SiguenIguales DEF HilosIguales
  <1>6. Cuentas'
    BY <1>1, <1>2, CuentasIguales
  <1> QED
    BY <1>3, <1>4, <1>5, <1>6 DEF SInv

\* recibir_dispatch: of the queues, only the one of its name; and of the
\* connections that are the only one of their name, only that one.
LEMMA SemDespacho ==
  ASSUME IInv, SInv, Sano,
         HiloDespacho \/ \E p \in Pids, n \in Nombres, i \in Identificadores : PedirIo(p, n, i)
  PROVE  SInv'
  <1> USE DEF DespachoSolo, registro, diccionarios, sockets
  <1>0. SUFFICES ASSUME Sano' PROVE SInv'
    BY DEF SInv
  <1>a. TypeOK /\ Dicc /\ Vivas /\ Cuentas
    BY DEF IInv, SInv
  <1>1. UNCHANGED <<registro, hilo, viva, binario_io_libre, perdidos>>
    BY DEF HiloDespacho, Encolar, Avisar, PedirIo
  <1>2. Avance
    BY <1>1, AvanzaQuieto
  <1>3. Dicc'
    BY <1>1, <1>2, MismosDiccionarios
  <1>4. Vivas'
    BY <1>1, <1>a DEF Vivas
  <1>5. Firmas' /\ Contactos' /\ Bajas'
    BY <1>1, <1>2, SiguenIguales DEF HilosIguales
  <1>6. Cuentas'
    <2>1. ASSUME NEW p \in Pids, NEW n \in Nombres, NEW i \in Identificadores, PedirIo(p, n, i)
          PROVE  Cuentas'
      <3>1. /\ UNCHANGED <<cola, instruccion_en_cola>>
            /\ despacho.en # "avisar" /\ despacho'.en # "avisar"
        BY <2>1 DEF PedirIo, Libre
      <3> QED
        BY <1>1, <1>2, <3>1, CuentasIguales
    <2>2. ASSUME NEW c \in Conexiones, Sola(c)', HiloDespacho PROVE Cuenta(c)'
      <3>1. Sola(c)
        BY <1>1, <2>2 DEF Sola
      <3>2. Cuenta(c)
        BY <1>a, <3>1 DEF Cuentas
      <3>3. /\ cola[c] \in Seq(Pids) /\ Len(cola[c]) \in Nat /\ instruccion_en_cola[c] \in Nat
            /\ Uno(hilo[c].en \in {"libre", "sacar"})' = Uno(hilo[c].en \in {"libre", "sacar"})
            /\ Uno(hilo[c].en \in {"libre", "sacar"}) \in Nat
        BY <1>1, <1>a DEF TypeOK, Uno
      <3>4. despacho.nombre \in Nombres
        BY <2>2 DEF HiloDespacho, Encolar, Avisar, IInv, Manos
      <3>5. CASE Encolar
        <4>1. PICK q \in Conexiones : q = colas_blocks_io[despacho.nombre]
          BY <1>0, <1>a, <3>4, <3>5, NuloAssumption DEF Encolar, Sano, TypeOK
        <4>2. nombreDe[q] = despacho.nombre /\ cliente[q] # "fuera"
          BY <1>a, <3>4, <4>1, NuloAssumption DEF Dicc, Diccionario, DeNombre
        <4>3. /\ despacho.en = "cola" /\ despacho.pid \in Pids
              /\ cola' = [cola EXCEPT ![q] = Append(@, despacho.pid)]
              /\ despacho'.en = "avisar" /\ despacho'.nombre = despacho.nombre
              /\ UNCHANGED instruccion_en_cola
          BY <1>0, <1>a, <3>5, <4>1, NuloAssumption DEF Encolar, Sano, IInv, Manos, TypeOK, Despachos
        <4>4. CASE nombreDe[c] = despacho.nombre
          <5>1. c = q
            BY <3>1, <4>2, <4>4 DEF Sola
          <5>2. cola'[c] = Append(cola[c], despacho.pid)
            BY <1>a, <4>3, <5>1 DEF TypeOK
          <5>3. Len(cola'[c]) = Len(cola[c]) + 1
            BY <3>3, <4>3, <5>2
          <5>4. /\ Uno(despacho.en = "avisar" /\ despacho.nombre = nombreDe[c]) = 0
                /\ Uno(despacho.en = "avisar" /\ despacho.nombre = nombreDe[c])' = 1
            BY <1>1, <4>3, <4>4 DEF Uno
          <5> QED
            BY <3>2, <3>3, <4>3, <5>3, <5>4 DEF Cuenta
        <4>5. CASE nombreDe[c] # despacho.nombre
          <5>1. cola'[c] = cola[c]
            BY <1>a, <4>2, <4>3, <4>5 DEF TypeOK
          <5>2. /\ Uno(despacho.en = "avisar" /\ despacho.nombre = nombreDe[c]) = 0
                /\ Uno(despacho.en = "avisar" /\ despacho.nombre = nombreDe[c])' = 0
            BY <1>1, <4>3, <4>5 DEF Uno
          <5> QED
            BY <3>2, <3>3, <4>3, <5>1, <5>2 DEF Cuenta
        <4> QED
          BY <4>4, <4>5
      <3>6. CASE Avisar
        <4>1. PICK s \in Conexiones : s = diccionario_semaforos_io[despacho.nombre]
          BY <1>0, <1>a, <3>4, <3>6, NuloAssumption DEF Avisar, Sano, TypeOK
        <4>2. nombreDe[s] = despacho.nombre /\ cliente[s] # "fuera"
          BY <1>a, <3>4, <4>1, NuloAssumption DEF Dicc, Diccionario, DeNombre
        <4>3. /\ despacho.en = "avisar" /\ despacho' = Libre
              /\ instruccion_en_cola' = [instruccion_en_cola EXCEPT ![s] = @ + 1]
              /\ UNCHANGED cola
          BY <1>0, <3>6, <4>1, NuloAssumption DEF Avisar, Sano
        <4>4. CASE nombreDe[c] = despacho.nombre
          <5>1. c = s
            BY <3>1, <4>2, <4>4 DEF Sola
          <5>2. instruccion_en_cola'[c] = instruccion_en_cola[c] + 1
            BY <1>a, <4>3, <5>1 DEF TypeOK
          <5>4. /\ Uno(despacho.en = "avisar" /\ despacho.nombre = nombreDe[c]) = 1
                /\ Uno(despacho.en = "avisar" /\ despacho.nombre = nombreDe[c])' = 0
            BY <1>1, <4>3, <4>4 DEF Uno, Libre
          <5> QED
            BY <3>2, <3>3, <4>3, <5>2, <5>4 DEF Cuenta
        <4>5. CASE nombreDe[c] # despacho.nombre
          <5>1. instruccion_en_cola'[c] = instruccion_en_cola[c]
            BY <1>a, <4>2, <4>3, <4>5 DEF TypeOK
          <5>2. /\ Uno(despacho.en = "avisar" /\ despacho.nombre = nombreDe[c]) = 0
                /\ Uno(despacho.en = "avisar" /\ despacho.nombre = nombreDe[c])' = 0
            BY <1>1, <4>3, <4>5 DEF Uno, Libre
          <5> QED
            BY <3>2, <3>3, <4>3, <5>1, <5>2 DEF Cuenta
        <4> QED
          BY <4>4, <4>5
      <3> QED
        BY <2>2, <3>5, <3>6 DEF HiloDespacho
    <2> QED
      BY <2>1, <2>2 DEF Cuentas
  <1> QED
    BY <1>3, <1>4, <1>5, <1>6 DEF SInv

\* A step of the thread of c.
LEMMA UnHilo ==
  ASSUME IInv, SInv, Sano, NEW c \in Conexiones, NEW en, Cambia(c, en), UNCHANGED <<registro, viva>>,
         \/ en \in {"no", "inicio"}
         \/ hilo'[c].sem = hilo[c].sem /\ hilo[c].en \notin {"no", "inicio"}
         \/ DeNombre(hilo'[c].sem, nombreDe[c]),
         Contacto(hilo[c])'
  PROVE  Avance /\ Dicc' /\ Firmas' /\ Vivas' /\ Contactos'
  <1> USE DEF registro, diccionarios
  <1>1. Avance
    BY AvanzaQuieto
  <1>2. Dicc'
    BY <1>1, MismosDiccionarios
  <1>3. Vivas'
    BY DEF SInv, Vivas
  <1>4. Firmas'
    BY DEF SInv, Firmas, Cambia, DeNombre
  <1>5. Contactos'
    BY DEF SInv, Contactos, Contacto, Cambia
  <1> QED
    BY <1>1, <1>2, <1>3, <1>4, <1>5

\* Nobody takes an interface or gives it back.
LEMMA MismasBajas ==
  ASSUME IInv, SInv, Sano, NEW c \in Conexiones, NEW en, Cambia(c, en), UNCHANGED <<registro, viva>>,
         UNCHANGED <<binario_io_libre, perdidos>>,
         \/ en \notin {"sacar"} \cup EnMano /\ hilo[c].en \notin {"sacar"} \cup EnMano
         \/ /\ en \in {"sacar"} \cup EnMano /\ hilo[c].en \in {"sacar"} \cup EnMano
            /\ hilo'[c].sem = hilo[c].sem
  PROVE  Bajas'
  <1>1. \A d, s \in Conexiones : Tiene(d, s)' <=> Tiene(d, s)
    BY DEF Tiene, Cambia
  <1>2. Caidos' = Caidos /\ Muertas' = Muertas
    BY <1>1 DEF Caidos, Muertas, registro
  <1> QED
    BY <1>2 DEF SInv, Bajas

\* The thread of c and those that are the only ones of their name.
LEMMA SuNombre ==
  ASSUME IInv, Sano, NEW c \in Conexiones, hilo[c].en # "no",
         NEW s \in Conexiones, DeNombre(s, nombreDe[c]), NEW d \in Conexiones, Sola(d)
  PROVE  IF d = c THEN s = d ELSE s # d /\ nombreDe[d] # nombreDe[c]
  <1>1. cliente[c] = "listo"
    BY DEF IInv, Alta
  <1> QED
    BY <1>1 DEF Sola, DeNombre

LEMMA SemEspera ==
  ASSUME IInv, SInv, Sano, NEW c \in Conexiones,
         LeerSemaforos(c) \/ EsperarInstruccion(c) \/ EsperarLibre(c)
  PROVE  SInv'
  <1> USE DEF HiloSolo, semaforosIO
  <1>0. SUFFICES ASSUME Sano' PROVE SInv'
    BY DEF SInv
  <1>a. TypeOK /\ Dicc /\ Firmas /\ Cuentas /\ Bajas
    BY DEF IInv, SInv
  <1>b. UNCHANGED <<registro, viva, despacho, perdidos, cola>>
    BY DEF LeerSemaforos, EsperarInstruccion, EsperarLibre
  <1>1. CASE LeerSemaforos(c)
    <2> DEFINE s == diccionario_semaforos_io[nombreDe[c]]
    <2>0. s \in Conexiones /\ hilo[c].en = "inicio"
      BY <1>1 DEF LeerSemaforos, IInv, Alta, Publicada
    <2>1. Cambia(c, "esperar") /\ hilo'[c].sem = s
      BY <1>1, <1>a, <2>0 DEF LeerSemaforos, TypeOK, Hilos, EnMano, SinHilo, Cambia
    <2>2. DeNombre(s, nombreDe[c])
      BY <1>a, <2>0, NuloAssumption DEF Dicc, Diccionario, TypeOK
    <2>3. Contacto(hilo[c])'
      BY <2>1 DEF Contacto, Cambia
    <2>4. DeNombre(hilo'[c].sem, nombreDe[c])
      BY <2>1, <2>2
    <2>5. Avance /\ Dicc' /\ Firmas' /\ Vivas' /\ Contactos'
      BY <1>b, <2>1, <2>3, <2>4, UnHilo
    <2>6. UNCHANGED <<binario_io_libre, instruccion_en_cola>>
      BY <1>1 DEF LeerSemaforos
    <2>7. Bajas'
      BY <1>b, <2>0, <2>1, <2>6, MismasBajas DEF EnMano
    <2>8. Cuentas'
      BY <1>b, <2>0, <2>1, <2>5, <2>6, CuentasIguales DEF Cambia
    <2> QED
      BY <2>5, <2>7, <2>8 DEF SInv
  <1>2. CASE EsperarInstruccion(c)
    <2>0. PICK s \in Conexiones : s = hilo[c].sem
      BY <1>2 DEF EsperarInstruccion, IInv, Manos
    <2>1. Cambia(c, "libre") /\ Conserva(c) /\ hilo[c].en = "esperar"
      BY <1>2, <1>a, PasarCambia DEF EsperarInstruccion
    <2>2. DeNombre(s, nombreDe[c])
      BY <1>a, <2>0, <2>1 DEF Firmas
    <2>3. Contacto(hilo[c])'
      BY <2>1 DEF Contacto, Cambia
    <2>5. Avance /\ Dicc' /\ Firmas' /\ Vivas' /\ Contactos'
      BY <1>b, <2>1, <2>3, UnHilo DEF Conserva
    <2>6. /\ UNCHANGED binario_io_libre
          /\ instruccion_en_cola[s] > 0
          /\ instruccion_en_cola' = [instruccion_en_cola EXCEPT ![s] = @ - 1]
      BY <1>2, <2>0 DEF EsperarInstruccion
    <2>7. Bajas'
      BY <1>b, <2>1, <2>6, MismasBajas DEF EnMano
    <2>8. ASSUME NEW d \in Conexiones, Sola(d)' PROVE Cuenta(d)'
      <3>1. Sola(d)
        BY <2>5, <2>8 DEF Sola, Avance
      <3>2. Cuenta(d)
        BY <1>a, <3>1 DEF Cuentas
      <3>3. Uno(despacho.en = "avisar" /\ despacho.nombre = nombreDe[d])'
            = Uno(despacho.en = "avisar" /\ despacho.nombre = nombreDe[d])
        BY <1>b DEF registro
      <3>4. IF d = c THEN s = d ELSE s # d
        BY <2>1, <2>2, <3>1, SuNombre
      <3>5. CASE d = c
        <4>1. instruccion_en_cola'[d] = instruccion_en_cola[d] - 1 /\ instruccion_en_cola[d] \in Nat
          BY <1>a, <2>6, <3>4, <3>5 DEF TypeOK
        <4>2. /\ Uno(hilo[d].en \in {"libre", "sacar"})' = 1
              /\ Uno(hilo[d].en \in {"libre", "sacar"}) = 0
          BY <2>1, <3>5 DEF Cambia, Uno
        <4>3. Uno(despacho.en = "avisar" /\ despacho.nombre = nombreDe[d]) \in Nat
          BY DEF Uno
        <4> QED
          BY <1>b, <3>2, <3>3, <4>1, <4>2, <4>3 DEF Cuenta
      <3>6. CASE d # c
        <4>1. instruccion_en_cola'[d] = instruccion_en_cola[d] /\ hilo'[d] = hilo[d]
          BY <1>a, <2>1, <2>6, <3>4, <3>6 DEF TypeOK, Cambia
        <4> QED
          BY <1>b, <3>2, <3>3, <4>1 DEF Cuenta
      <3> QED
        BY <3>5, <3>6
    <2> QED
      BY <2>5, <2>7, <2>8 DEF SInv, Cuentas
  <1>3. CASE EsperarLibre(c)
    <2>0. PICK s \in Conexiones : s = hilo[c].sem
      BY <1>3 DEF EsperarLibre, IInv, Manos
    <2>1. Cambia(c, "sacar") /\ Conserva(c) /\ hilo[c].en = "libre"
      BY <1>3, <1>a, PasarCambia DEF EsperarLibre
    <2>3. Contacto(hilo[c])'
      BY <2>1 DEF Contacto, Cambia
    <2>5. Avance /\ Dicc' /\ Firmas' /\ Vivas' /\ Contactos'
      BY <1>b, <2>1, <2>3, UnHilo DEF Conserva
    <2>6. /\ UNCHANGED instruccion_en_cola
          /\ binario_io_libre[s] > 0 /\ binario_io_libre[s] \in Nat
          /\ binario_io_libre' = [binario_io_libre EXCEPT ![s] = @ - 1]
      BY <1>3, <1>a, <2>0 DEF EsperarLibre, TypeOK
    <2>7. Caidos' = Caidos
      <3>1. \A d, t \in Conexiones : Tiene(d, t)' <=> Tiene(d, t) \/ (d = c /\ t = s)
        BY <2>0, <2>1 DEF Tiene, Cambia, Conserva, EnMano
      <3>2. s \notin Caidos /\ s \notin Caidos'
        BY <2>6, <3>1 DEF Caidos
      <3>3. \A t \in Conexiones \ {s} : binario_io_libre'[t] = binario_io_libre[t]
        BY <1>a, <2>6 DEF TypeOK
      <3>4. \A t \in Conexiones \ {s} : t \in Caidos' <=> t \in Caidos
        BY <3>1, <3>3 DEF Caidos
      <3>5. Caidos \subseteq Conexiones /\ Caidos' \subseteq Conexiones
        BY DEF Caidos
      <3> QED
        BY <3>2, <3>4, <3>5
    <2>8. Bajas'
      BY <1>a, <1>b, <2>7 DEF Bajas, Muertas, registro
    <2>9. Cuentas'
      BY <1>b, <2>1, <2>5, <2>6, CuentasIguales DEF Cambia
    <2> QED
      BY <2>5, <2>8, <2>9 DEF SInv
  <1> QED
    BY <1>1, <1>2, <1>3

LEMMA SemSacar ==
  ASSUME IInv, SInv, Sano, NEW c \in Conexiones, SacarPedido(c)
  PROVE  SInv'
  <1> USE DEF HiloSolo, semaforosIO
  <1>0. SUFFICES ASSUME Sano' PROVE SInv'
    BY DEF SInv
  <1>a. TypeOK /\ Dicc /\ Cuentas
    BY DEF IInv, SInv
  <1>b. UNCHANGED <<registro, viva, despacho, perdidos, instruccion_en_cola, binario_io_libre>>
    BY DEF SacarPedido
  <1>1. PICK q \in Conexiones : q = colas_blocks_io[nombreDe[c]]
    BY DEF SacarPedido, IInv, Alta, Publicada
  <1>2. DeNombre(q, nombreDe[c])
    BY <1>1, <1>a, NuloAssumption DEF Dicc, Diccionario, TypeOK
  <1>3. cola[q] # <<>> /\ cola[q] \in Seq(Pids)
    BY <1>0, <1>1, <1>a DEF SacarPedido, Sano, TypeOK
  <1>4. PICK h \in Pids : h = Head(cola[q])
    BY <1>3
  <1>5. /\ cola' = [cola EXCEPT ![q] = Tail(@)]
        /\ hilo' = ConPid(hilo, c, "pedir", h)
        /\ hilo[c].en = "sacar"
    BY <1>1, <1>3, <1>4 DEF SacarPedido, ConPid
  <1>6. Cambia(c, "pedir") /\ hilo'[c].sem = hilo[c].sem
    <2>1. hilo \in [Conexiones -> Hilos] /\ "pedir" \in Estados
      BY <1>a DEF TypeOK, Estados, EnMano
    <2>2. /\ hilo' \in [Conexiones -> Hilos] /\ \A d \in Conexiones \ {c} : hilo'[d] = hilo[d]
          /\ hilo'[c].en = "pedir" /\ hilo'[c].sem = hilo[c].sem
      BY <1>5, <2>1, AlSacar
    <2> QED
      BY <2>2 DEF Cambia
  <1>7. Contacto(hilo[c])'
    BY <1>6 DEF Contacto, Cambia
  <1>8. Avance /\ Dicc' /\ Firmas' /\ Vivas' /\ Contactos'
    BY <1>b, <1>5, <1>6, <1>7, UnHilo
  <1>9. Bajas'
    BY <1>b, <1>5, <1>6, MismasBajas DEF EnMano
  <1>10. ASSUME NEW d \in Conexiones, Sola(d)' PROVE Cuenta(d)'
    <2>1. Sola(d)
      BY <1>8, <1>10 DEF Sola, Avance
    <2>2. Cuenta(d)
      BY <1>a, <2>1 DEF Cuentas
    <2>3. Uno(despacho.en = "avisar" /\ despacho.nombre = nombreDe[d])'
          = Uno(despacho.en = "avisar" /\ despacho.nombre = nombreDe[d])
      BY <1>b DEF registro
    <2>4. IF d = c THEN q = d ELSE q # d
      BY <1>2, <1>5, <2>1, SuNombre
    <2>5. CASE d = c
      <3>1. cola'[d] = Tail(cola[q]) /\ q = d
        BY <1>a, <1>5, <2>4, <2>5 DEF TypeOK
      <3>2. Len(cola'[d]) = Len(cola[d]) - 1 /\ Len(cola[d]) \in Nat
        BY <1>3, <3>1
      <3>3. /\ Uno(hilo[d].en \in {"libre", "sacar"})' = 0
            /\ Uno(hilo[d].en \in {"libre", "sacar"}) = 1
        BY <1>5, <1>6, <2>5 DEF Cambia, Uno
      <3>4. /\ Uno(despacho.en = "avisar" /\ despacho.nombre = nombreDe[d]) \in Nat
            /\ instruccion_en_cola[d] \in Nat
        BY <1>a DEF Uno, TypeOK
      <3> QED
        BY <1>b, <2>2, <2>3, <3>2, <3>3, <3>4 DEF Cuenta
    <2>6. CASE d # c
      <3>1. cola'[d] = cola[d] /\ hilo'[d] = hilo[d]
        BY <1>a, <1>5, <1>6, <2>4, <2>6 DEF TypeOK, Cambia
      <3> QED
        BY <1>b, <2>2, <2>3, <3>1 DEF Cuenta
    <2> QED
      BY <2>5, <2>6
  <1> QED
    BY <1>8, <1>9, <1>10 DEF SInv, Cuentas

LEMMA SemPedido ==
  ASSUME IInv, SInv, Sano, NEW c \in Conexiones,
         EnviarPedido(c) \/ RecibirRespuesta(c) \/ PasarCompuerta(c)
  PROVE  SInv'
  <1> USE DEF HiloSolo, semaforosIO
  <1>a. TypeOK /\ Vivas /\ Firmas /\ Contactos /\ Manos
    BY DEF IInv, SInv
  <1>b. UNCHANGED <<registro, viva, despacho, perdidos, cola, instruccion_en_cola,
                    binario_io_libre>>
    BY DEF EnviarPedido, RecibirRespuesta, PasarCompuerta
  <1>1. hilo[c].en \in {"pedir", "recibir", "compuerta"}
    BY DEF EnviarPedido, RecibirRespuesta, PasarCompuerta
  <1>2. \E en \in {"recibir", "compuerta", "manejar"} :
          /\ Cambia(c, en) /\ hilo'[c].sem = hilo[c].sem
          /\ Contacto(hilo[c])'
    <2>0. hilo[c].sem \in Conexiones /\ DeNombre(hilo[c].sem, nombreDe[c])
      BY <1>1, <1>a DEF Manos, Firmas
    <2>1. CASE EnviarPedido(c)
      <3>1. conexiones_io[nombreDe[c]] \in Conexiones
        BY <2>1 DEF EnviarPedido, IInv, Alta, Publicada
      <3>2. /\ Cambia(c, "recibir") /\ hilo'[c].sem = hilo[c].sem
            /\ hilo'[c].con = conexiones_io[nombreDe[c]]
        <4>1. hilo \in [Conexiones -> Hilos] /\ "recibir" \in Estados
          BY <1>a DEF TypeOK, Estados, EnMano
        <4>2. PICK k \in Conexiones : k = conexiones_io[nombreDe[c]]
          BY <3>1
        <4>3. hilo' = ConConexion(hilo, c, "recibir", k)
          BY <2>1, <4>2 DEF EnviarPedido, ConConexion
        <4>4. /\ hilo' \in [Conexiones -> Hilos]
              /\ \A d \in Conexiones \ {c} : hilo'[d] = hilo[d]
              /\ hilo'[c].en = "recibir" /\ hilo'[c].con = k /\ hilo'[c].sem = hilo[c].sem
          BY <4>1, <4>3, AlEnviar
        <4> QED
          BY <4>2, <4>4 DEF Cambia
      <3>3. viva[hilo[c].sem] => conexiones_io[nombreDe[c]] = hilo[c].sem
        BY <1>a, <2>0 DEF Vivas, DeNombre
      <3>4. Contacto(hilo[c])'
        BY <1>b, <3>2, <3>3 DEF Contacto, Cambia
      <3> QED
        BY <3>2, <3>4
    <2>2. CASE RecibirRespuesta(c)
      <3> DEFINE en == IF detenida THEN "compuerta" ELSE "manejar"
                 bien == respuestas[hilo[c].con] > 0
      <3>1. hilo[c].con \in Conexiones
        BY <1>a, <2>2 DEF RecibirRespuesta, Manos
      <3>2. en \in {"compuerta", "manejar"} /\ bien \in BOOLEAN
        BY <1>a, <3>1 DEF TypeOK
      <3>3. hilo' = ConBien(hilo, c, en, bien)
        BY <1>a, <2>2 DEF RecibirRespuesta, TypeOK, Hilos, ConBien
      <3>4. ~bien => ~viva[hilo[c].con]
        BY <2>2 DEF RecibirRespuesta
      <3>5. viva[hilo[c].sem] => hilo[c].con = hilo[c].sem
        BY <1>a, <2>2 DEF RecibirRespuesta, Contactos, Contacto
      <3> HIDE DEF en, bien
      <3>6. /\ Cambia(c, en) /\ Conserva(c) /\ hilo'[c].bien = bien
        <4>1. hilo \in [Conexiones -> Hilos] /\ en \in Estados /\ bien \in BOOLEAN
          BY <1>a, <3>2 DEF TypeOK, Estados, EnMano
        <4>2. /\ hilo' \in [Conexiones -> Hilos]
              /\ \A d \in Conexiones \ {c} : hilo'[d] = hilo[d]
              /\ hilo'[c].en = en /\ hilo'[c].bien = bien /\ hilo'[c].sem = hilo[c].sem
              /\ hilo'[c].pid = hilo[c].pid /\ hilo'[c].con = hilo[c].con
          BY <3>3, <4>1, AlRecibir
        <4> QED
          BY <4>2 DEF Cambia, Conserva
      <3>7. Contacto(hilo[c])'
        BY <1>b, <3>4, <3>5, <3>6 DEF Contacto, Cambia, Conserva
      <3> QED
        BY <3>2, <3>6, <3>7 DEF Conserva
    <2>3. CASE PasarCompuerta(c)
      <3>1. Cambia(c, "manejar") /\ Conserva(c) /\ hilo'[c].bien = hilo[c].bien
        BY <1>a, <2>3, PasarCambia DEF PasarCompuerta
      <3>2. Contacto(hilo[c])'
        BY <1>a, <1>b, <2>3, <3>1 DEF PasarCompuerta, Contactos, Contacto, Cambia, Conserva
      <3> QED
        BY <3>1, <3>2 DEF Conserva
    <2> QED
      BY <2>1, <2>2, <2>3
  <1>3. PICK en \in {"recibir", "compuerta", "manejar"} :
          /\ Cambia(c, en) /\ hilo'[c].sem = hilo[c].sem
          /\ Contacto(hilo[c])'
    BY <1>2
  <1>4. Avance /\ Dicc' /\ Firmas' /\ Vivas' /\ Contactos'
    BY <1>b, <1>1, <1>3, UnHilo
  <1>5. Bajas'
    BY <1>b, <1>1, <1>3, MismasBajas DEF EnMano
  <1>6. Cuentas'
    BY <1>b, <1>1, <1>3, <1>4, CuentasIguales DEF Cambia
  <1> QED
    BY <1>4, <1>5, <1>6 DEF SInv

LEMMA SemManejar ==
  ASSUME IInv, SInv, Sano, NEW c \in Conexiones, ManejarExito(c) \/ ManejarFalla(c)
  PROVE  SInv'
  <1> USE DEF HiloSolo, semaforosIO
  <1>0. SUFFICES ASSUME Sano' PROVE SInv'
    BY DEF SInv
  <1>a. TypeOK /\ Firmas /\ Contactos /\ Bajas /\ UnPedidoALaVez
    BY DEF IInv, SInv
  <1>b. /\ UNCHANGED <<registro, viva, despacho, cola, instruccion_en_cola>>
        /\ hilo[c].en = "manejar" /\ Pasar(c, "inicio")
    BY <1>0 DEF ManejarExito, ManejarFalla, Sano
  <1>1. PICK s \in Conexiones : s = hilo[c].sem
    BY <1>b DEF IInv, Manos
  <1>2. Cambia(c, "inicio") /\ Conserva(c)
    BY <1>a, <1>b, PasarCambia
  <1>3. Contacto(hilo[c])'
    BY <1>2 DEF Contacto, Cambia
  <1>4. Avance /\ Dicc' /\ Firmas' /\ Vivas' /\ Contactos'
    BY <1>b, <1>2, <1>3, UnHilo
  <1>5. Cuentas'
    BY <1>b, <1>2, <1>4, CuentasIguales DEF Cambia
  <1>6. Tiene(c, s) /\ binario_io_libre[s] = 0 /\ \A d \in Conexiones : Tiene(d, s) => d = c
    BY <1>1, <1>a, <1>b DEF Tiene, EnMano, UnPedidoALaVez
  <1>7. \A d, t \in Conexiones : Tiene(d, t)' <=> Tiene(d, t) /\ d # c
    BY <1>2 DEF Tiene, Cambia, EnMano
  <1>8. s \notin Caidos /\ Muertas' = Muertas
    BY <1>6, <1>b DEF Caidos, Muertas, registro
  <1>9. Caidos \subseteq Conexiones /\ Caidos' \subseteq Conexiones
    BY DEF Caidos
  <1>10. CASE ManejarExito(c)
    <2>1. /\ UNCHANGED perdidos
          /\ binario_io_libre' = [binario_io_libre EXCEPT ![s] = @ + 1]
      BY <1>0, <1>1, <1>10 DEF ManejarExito, Sano
    <2>2. /\ binario_io_libre'[s] = 1
          /\ \A t \in Conexiones \ {s} : binario_io_libre'[t] = binario_io_libre[t]
      BY <1>6, <1>a, <2>1 DEF TypeOK
    <2>3. \A t \in Conexiones \ {s} : \A d \in Conexiones : Tiene(d, t)' <=> Tiene(d, t)
      BY <1>1, <1>7 DEF Tiene
    <2>4. s \notin Caidos'
      BY <2>2 DEF Caidos
    <2>5. \A t \in Conexiones \ {s} : t \in Caidos' <=> t \in Caidos
      BY <2>2, <2>3 DEF Caidos
    <2>6. Caidos' = Caidos
      BY <1>8, <1>9, <2>4, <2>5
    <2>7. Bajas'
      BY <1>8, <1>a, <2>1, <2>6 DEF Bajas
    <2> QED
      BY <1>4, <1>5, <2>7 DEF SInv
  <1>11. CASE ManejarFalla(c)
    <2>1. PICK p : perdidos' = perdidos \cup {p}
      BY <1>11 DEF ManejarFalla
    <2>2. UNCHANGED binario_io_libre /\ ~viva[s]
      BY <1>1, <1>11, <1>a DEF ManejarFalla, Contactos, Contacto
    <2>3. s \in Muertas
      BY <1>1, <1>a, <1>b, <2>2 DEF Firmas, DeNombre, Muertas
    <2>4. \A t \in Conexiones \ {s} : \A d \in Conexiones : Tiene(d, t)' <=> Tiene(d, t)
      BY <1>1, <1>7 DEF Tiene
    <2>5. s \in Caidos'
      BY <1>6, <1>7, <2>2 DEF Caidos
    <2>6. \A t \in Conexiones \ {s} : t \in Caidos' <=> t \in Caidos
      BY <2>2, <2>4 DEF Caidos
    <2>7. Caidos' = Caidos \cup {s}
      BY <1>9, <2>5, <2>6
    <2>8. IsFiniteSet(Caidos)
      BY <1>9, FinitosAssumption, FS_Subset
    <2>9. Cardinality(Caidos') = Cardinality(Caidos) + 1
      BY <1>8, <2>7, <2>8, FS_AddElement
    <2>10. IsFiniteSet(perdidos') /\ Cardinality(perdidos') <= Cardinality(perdidos) + 1
      <3>1. IsFiniteSet(perdidos) /\ Cardinality(perdidos) \in Nat
        BY <1>a, FS_CardinalityType DEF Bajas
      <3>2. /\ IsFiniteSet(perdidos \cup {p})
            /\ Cardinality(perdidos \cup {p})
               = IF p \in perdidos THEN Cardinality(perdidos) ELSE Cardinality(perdidos) + 1
        BY <3>1, FS_AddElement
      <3> QED
        BY <2>1, <3>1, <3>2
    <2>11. Cardinality(perdidos') <= Cardinality(Caidos')
      <3>1. /\ Cardinality(perdidos) \in Nat /\ Cardinality(perdidos') \in Nat
            /\ Cardinality(Caidos) \in Nat
        BY <1>a, <2>8, <2>10, FS_CardinalityType DEF Bajas
      <3>2. Cardinality(perdidos) <= Cardinality(Caidos)
        BY <1>a DEF Bajas
      <3> QED
        BY <2>9, <2>10, <3>1, <3>2
    <2>12. Bajas'
      BY <1>8, <1>a, <2>1, <2>3, <2>7, <2>10, <2>11 DEF Bajas
    <2> QED
      BY <1>4, <1>5, <2>12 DEF SInv
  <1> QED
    BY <1>10, <1>11

LEMMA PasoSem == IInv /\ SInv /\ [Next]_vars => SInv'
  <1> SUFFICES ASSUME IInv, SInv, [Next]_vars PROVE SInv'
    OBVIOUS
  <1>1. CASE UNCHANGED vars
    <2> USE <1>1 DEF vars, registro, diccionarios, semaforosIO, sockets, procesos, planificacion
    <2>1. CASE ~Sano
      BY <2>1 DEF SInv, Sano
    <2>2. CASE Sano
      <3>1. Avance
        BY AvanzaQuieto
      <3>2. Dicc'
        BY <2>2, <3>1, MismosDiccionarios
      <3>3. Vivas'
        BY <2>2 DEF SInv, Vivas
      <3>4. Firmas' /\ Contactos' /\ Bajas'
        BY <2>2, <3>1, SiguenIguales DEF HilosIguales
      <3>5. Cuentas'
        BY <2>2, <3>1, CuentasIguales
      <3> QED
        BY <3>2, <3>3, <3>4, <3>5 DEF SInv
    <2> QED
      BY <2>1, <2>2
  <1>2. CASE Next
    <2>1. Sano
      BY <1>2 DEF Next
    <2>2. ASSUME NEW c \in Conexiones, HiloIo(c) PROVE SInv'
      BY <2>1, <2>2, SemEspera, SemSacar, SemPedido, SemManejar DEF HiloIo
    <2> QED
      BY <1>2, <2>1, <2>2, SemCliente, SemAfuera, SemDespacho DEF Next
  <1> QED
    BY <1>1, <1>2

\* The invariant of the semaphores and of who talks to which module holds.
THEOREM SiempreSInv == Spec => []SInv
  BY SiempreIInv, InicioSem, PasoSem, PTL DEF Spec

\* instruccion_en_cola counts the queue of an interface and binario_io_libre
\* says whether it is busy, while one module has used its name; and each module
\* that dies takes one request with it at most, whatever the number of modules
\* that share a name, one after the other.
THEOREM SemaforosCuentan == Spec => []SemaforosIO
  <1>1. IInv /\ SInv => SemaforosIO
    <2> SUFFICES ASSUME IInv, SInv, Sano PROVE SemaforosIO
      BY DEF SemaforosIO
    <2>a. TypeOK /\ Firmas /\ Bajas /\ Cuentas /\ UnPedidoALaVez
      BY DEF IInv, SInv
    <2>1. Cardinality(perdidos) <= Cardinality(Muertas)
      <3>1. Muertas \subseteq Conexiones
        BY DEF Muertas
      <3>2. IsFiniteSet(Muertas) /\ IsFiniteSet(Caidos)
        BY <2>a, <3>1, FinitosAssumption, FS_Subset DEF Bajas
      <3>3. Cardinality(Caidos) <= Cardinality(Muertas)
        BY <2>a, <3>2, FS_Subset DEF Bajas
      <3>4. /\ Cardinality(Caidos) \in Nat /\ Cardinality(Muertas) \in Nat
            /\ Cardinality(perdidos) \in Nat
        BY <2>a, <3>2, FS_CardinalityType DEF Bajas
      <3>5. Cardinality(perdidos) <= Cardinality(Caidos)
        BY <2>a DEF Bajas
      <3> QED
        BY <3>3, <3>4, <3>5
    <2>2. ASSUME NEW c \in Conexiones, cliente[c] = "listo", ~Reusado(nombreDe[c])
          PROVE  /\ Cuenta(c)
                 /\ IF hilo[c].en \in {"sacar"} \cup EnMano THEN binario_io_libre[c] = 0
                    ELSE binario_io_libre[c] = 1 \/ (~viva[c] /\ perdidos # {})
      <3> DEFINE R == {d \in Conexiones : nombreDe[d] = nombreDe[c] /\ cliente[d] # "fuera"}
      <3>1. Sola(c)
        <4>1. IsFiniteSet(R) /\ c \in R
          BY <2>2, FinitosAssumption, FS_Subset
        <4>2. ~(Cardinality(R) > 1)
          BY <2>2 DEF Reusado
        <4>3. ASSUME NEW d \in R, d # c PROVE FALSE
          <5>1. IsFiniteSet({c}) /\ IsFiniteSet({c, d}) /\ Cardinality({c, d}) = 2
            <6>1. IsFiniteSet({c}) /\ Cardinality({c}) = 1
              BY FS_Singleton
            <6>2. {c, d} = {c} \cup {d} /\ d \notin {c}
              BY <4>3
            <6> HIDE DEF R
            <6> QED
              BY <6>1, <6>2, FS_AddElement
          <5>2. {c, d} \in SUBSET R
            BY <4>1
          <5> HIDE DEF R
          <5>3. Cardinality({c, d}) <= Cardinality(R) /\ Cardinality(R) \in Nat
            BY <4>1, <5>2, FS_Subset, FS_CardinalityType
          <5> QED
            BY <4>2, <5>1, <5>3
        <4>4. R \subseteq {c}
          BY <4>3
        <4> QED
          BY <4>4 DEF Sola
      <3>2. Cuenta(c)
        BY <2>a, <3>1 DEF Cuentas
      <3>3. \A d \in Conexiones : Tiene(d, c) => d = c
        <4> SUFFICES ASSUME NEW d \in Conexiones, Tiene(d, c) PROVE d = c
          OBVIOUS
        <4>1. cliente[d] = "listo"
          BY DEF Tiene, EnMano, IInv, Alta
        <4>2. nombreDe[c] = nombreDe[d]
          BY <2>a DEF Tiene, EnMano, Firmas, DeNombre
        <4> QED
          BY <3>1, <4>1, <4>2 DEF Sola
      <3>4. CASE hilo[c].en \in {"sacar"} \cup EnMano
        <4>1. hilo[c].sem \in Conexiones /\ DeNombre(hilo[c].sem, nombreDe[c])
          BY <2>a, <3>4 DEF Firmas, IInv, Manos, EnMano
        <4>2. hilo[c].sem = c
          BY <3>1, <4>1 DEF Sola, DeNombre
        <4>3. Tiene(c, c)
          BY <3>4, <4>2 DEF Tiene
        <4>4. binario_io_libre[c] = 0
          BY <2>a, <4>3 DEF UnPedidoALaVez
        <4> QED
          BY <3>2, <3>4, <4>4
      <3>5. CASE hilo[c].en \notin {"sacar"} \cup EnMano
        <4>1. ~Tiene(c, c)
          BY <3>5 DEF Tiene
        <4>2. binario_io_libre[c] \in Nat /\ binario_io_libre[c] <= 1
          BY <2>a DEF TypeOK, UnPedidoALaVez
        <4>3. CASE binario_io_libre[c] = 0
          <5>1. c \in Caidos
            BY <3>3, <4>1, <4>3 DEF Caidos
          <5>2. ~viva[c] /\ perdidos # {}
            BY <2>a, <5>1 DEF Bajas, Muertas
          <5> QED
            BY <3>2, <3>5, <5>2
        <4>4. CASE binario_io_libre[c] = 1
          BY <3>2, <3>5, <4>4
        <4> QED
          BY <4>2, <4>3, <4>4
      <3> QED
        BY <3>4, <3>5
    <2>3. SemaforosIO
      BY <2>a, <2>1, <2>2 DEF SemaforosIO, Cuenta
    <2> QED
      BY <2>3
  <1> QED
    BY <1>1, SiempreIInv, SiempreSInv, PTL

=============================================================================
