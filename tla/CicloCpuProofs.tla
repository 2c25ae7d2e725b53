--------------------------- MODULE CicloCpuProofs ---------------------------
(***************************************************************************)
(* Proofs about CicloCpu, for any processes, any programs and any number   *)
(* of interrupts, quanta and kills.                                        *)
(*                                                                         *)
(* A process in EXEC has at most one thing in flight: its PCB, the cycle   *)
(* of the CPU, one eviction, what recibir_dispatch does with it, or the    *)
(* post that ends it.  The token of the CPU and who may execute follow,    *)
(* and that whoever executes is watched by the quantum.                    *)
(***************************************************************************)
EXTENDS CicloCpu, Conteo, SequenceTheorems

-----------------------------------------------------------------------------
(* What recibir_dispatch may have left to do.                              *)

ListasIo == {<<"avisar", "bloquear", "soltar">>, <<"bloquear", "soltar">>,
             <<"avisar", "finalizar", "soltar">>, <<"finalizar", "soltar">>, <<"soltar">>}
ListasFin == {<<"listar", "avisar", "soltar">>, <<"avisar", "soltar">>,
              <<"finalizar", "avisar", "soltar">>}
ListasRecurso == {<<"RESOURCE_OK">>, <<"RESOURCE_BLOCKED", "bloquear", "avisar", "soltar">>,
                  <<"bloquear", "avisar", "soltar">>,
                  <<"RESOURCE_FAIL", "finalizar", "avisar", "soltar">>}
\* RESOURCE_FAIL of a WAIT frees the CPU before it ends the process.
ListasFalla == {<<"avisar", "soltar", "finalizar">>, <<"soltar", "finalizar">>, <<"finalizar">>}
ListasMuerte == {<<"matar", "avisar_muerte">>, <<"avisar_muerte">>}
Listas == ListasIo \cup ListasFin \cup ListasRecurso \cup ListasFalla \cup ListasMuerte
          \cup {<<"RESOURCE_FAIL", "avisar", "soltar", "finalizar">>}

Formas == tareas = <<>> \/ \E p \in Pids, l \in Listas : tareas = Pasos(p, l)

\* The CPU is freed already, and the process is still to be ended.
AlFinal == tareas # <<>> /\ \E p \in Pids, l \in ListasFalla : tareas = Pasos(p, l)
Saliente(p) == tareas = Pasos(p, <<"finalizar">>)

-----------------------------------------------------------------------------
(* Types, and what a step needs to keep them.                              *)

Manos ==
  /\ cpu.en # "libre" => cpu.pid \in Pids
  /\ corto = "arrancar" => arrancar < MAX_ARRANQUES
  /\ corto = "arrancar" \/ arrancar > 0 \/ reloj = "contar" => en_ejecucion \in Pids
  /\ "interruption" \in banderas => interrupcion.tipo # "ninguna"
  /\ "end_process" \in banderas => "input_output" \notin banderas
Tipos == TypeOK /\ Formas /\ Manos

-----------------------------------------------------------------------------
(* What is in flight for a process.                                        *)

Uno(b) == IF b THEN 1 ELSE 0
Reales == Motivos \ {"RESOURCE_BLOCKED"}
\* The tasks that change the state, and those that keep the process in EXEC.
EnLista == {"listar", "bloquear", "finalizar"}
DaVuelo == EnLista \cup {"RESOURCE_OK", "matar"}
De(tipos, p) == {Mensaje(t, p) : t \in tipos}
\* The CPU has the PCB of p and has not answered for it.
Activa(p) ==
  cpu.en = "ciclo" /\ cpu.pid = p /\ ~cpu.respondio /\ "input_output" \notin banderas
Trabaja(p) == Hay(DaVuelo) /\ Head(tareas).pid = p
Mandados(p) == Cuantos(aCpu, De({"PCB", "RESOURCE_OK"}, p))
Echados(p) == Cuantos(desalojos, De(Reales, p))
Condenas(p) == IF consola.pid = p THEN loko ELSE 0
EnVuelo(p) ==
  Mandados(p) + Uno(Activa(p)) + Echados(p) + Uno(Trabaja(p)) + Condenas(p)
Vuelo == \A p \in Pids : EnVuelo(p) <= Uno(estado[p] = "EXEC")

\* cola_procesos_ready has the processes in READY, once.
EnCola ==
  /\ \A j, k \in DOMAIN listos : listos[j] = listos[k] => j = k
  /\ \A p \in Pids : estado[p] = "READY" <=> \E k \in DOMAIN listos : listos[k] = p

Ocupa(p) == estado[p] = "EXEC" /\ ~Saliente(p)
Ficha ==
  /\ \A p \in Pids : Ocupa(p) => en_ejecucion = p
  /\ cpu_libre + Uno(\E p \in Pids : Ocupa(p)) + Uno(Hay({"soltar"}) /\ ~CambiaEstado) = 1

-----------------------------------------------------------------------------
(* One question of the CPU, one answer.                                    *)

Todos(tipos) == [tipo : tipos, pid : Pids]
Pedidos == {"WAIT", "SIGNAL"}
Preguntados == Cuantos(desalojos, Todos(Pedidos))
Contestados == Cuantos(aCpu, Todos(Respuestas))
Preguntas ==
  /\ Preguntados + Uno(Hay(Respuestas)) + Contestados = Uno(cpu.en = "recurso")
  /\ \A k \in DOMAIN desalojos : desalojos[k].tipo \in Pedidos => desalojos[k].pid = cpu.pid
  /\ Hay(Respuestas) => Head(tareas).pid = cpu.pid
  /\ \A k \in DOMAIN aCpu : aCpu[k].tipo \in Respuestas => aCpu[k].pid = cpu.pid
  /\ cpu.en = "recurso" /\ aCpu # <<>> => Head(aCpu).tipo \in Respuestas
  /\ cpu.respondio => banderas # {}

\* After a RESOURCE_FAIL the CPU answers for that PCB again.
Condenada ==
  \/ \E k \in DOMAIN aCpu : aCpu[k].tipo = "RESOURCE_FAIL"
  \/ cpu.en = "ciclo" /\ cpu.respondio /\ "end_process" \in banderas

-----------------------------------------------------------------------------
(* The console and its interrupts.                                         *)

Espera(p) == consola.en = "esperar" /\ consola.pid = p
Muerto(m) == m.tipo = "KILL_PROCESS" => estado[m.pid] = "EXIT" \/ Espera(m.pid)
Consolas ==
  /\ consola.en # "libre" => consola.pid \in Pids
  /\ Espera(consola.pid) /\ consola.vigente => estado[consola.pid] = "EXEC"
  /\ consola.en = "avisar" => estado[consola.pid] = "EXIT"
  /\ loko > 0 => consola.en = "esperar"
  /\ \A k \in DOMAIN desalojos : desalojos[k].tipo = "KILL_PROCESS" => Espera(desalojos[k].pid)
  /\ Hay({"matar"}) => Espera(Head(tareas).pid)
  /\ \A k \in DOMAIN canal : Muerto(canal[k])
  /\ interrupcion.tipo # "ninguna" => Muerto(interrupcion)
  /\ Hay({"avisar_muerte"}) =>
       \/ Hay({"matar"}) \/ estado[Head(tareas).pid] = "EXIT"
       \/ loko > 0 /\ consola.pid = Head(tareas).pid

Orden ==
  EnCola /\ Vuelo /\ Ficha /\ Preguntas /\ Consolas /\ (AlFinal => Condenada)
IInv == Tipos /\ (~quiebre => Orden)

-----------------------------------------------------------------------------
(* The timer.                                                              *)

\* The last interrupt that was sent.
Ultima == IF canal = <<>> THEN interrupcion ELSE canal[Len(canal)]
Vigilado(p) ==
  \/ corto = "arrancar" \/ arrancar > 0
  \/ reloj = "contar" /\ flag_cpu_libre = 0
  \/ Ultima.pid = p
\* p has the CPU, and nobody has answered for it yet.
Corre(p) ==
  \/ Activa(p)
  \/ \E k \in DOMAIN aCpu : aCpu[k] \in De({"PCB", "RESOURCE_OK"}, p)
  \/ \E k \in DOMAIN desalojos : desalojos[k] \in De(Pedidos, p)
  \/ Hay({"RESOURCE_OK"}) /\ Head(tareas).pid = p
QInv ==
  ~quiebre /\ ~tardio /\ ALGORITMO # "FIFO" =>
    \A p \in Pids : Corre(p) => Condenada \/ Vigilado(p)

-----------------------------------------------------------------------------
(* The lists of recibir_dispatch.                                          *)

HayEn(l, tipos) == \E k \in DOMAIN l : l[k] \in tipos

\* Head and Tail of the short lists that a reason gives.
LEMMA Colas ==
  /\ \A a : Head(<<a>>) = a /\ Tail(<<a>>) = <<>> /\ <<a>> # <<>>
  /\ \A a, b : Head(<<a, b>>) = a /\ Tail(<<a, b>>) = <<b>> /\ <<a, b>> # <<>>
  /\ \A a, b, c : Head(<<a, b, c>>) = a /\ Tail(<<a, b, c>>) = <<b, c>> /\ <<a, b, c>> # <<>>
  /\ \A a, b, c, d : /\ Head(<<a, b, c, d>>) = a /\ Tail(<<a, b, c, d>>) = <<b, c, d>>
                     /\ <<a, b, c, d>> # <<>>
  OBVIOUS

LEMMA Uplas ==
  /\ \A T : ~HayEn(<<>>, T)
  /\ \A a, T : HayEn(<<a>>, T) <=> a \in T
  /\ \A a, b, T : HayEn(<<a, b>>, T) <=> a \in T \/ b \in T
  /\ \A a, b, c, T : HayEn(<<a, b, c>>, T) <=> a \in T \/ b \in T \/ c \in T
  /\ \A a, b, c, d, T :
       HayEn(<<a, b, c, d>>, T) <=> a \in T \/ b \in T \/ c \in T \/ d \in T
  <1>0. \A T : ~HayEn(<<>>, T)
    BY DEF HayEn
  <1>1. \A a, T : HayEn(<<a>>, T) <=> a \in T
    <2> TAKE a, T
    <2>1. DOMAIN <<a>> = {1}
      OBVIOUS
    <2> QED
      BY <2>1 DEF HayEn
  <1>2. \A a, b, T : HayEn(<<a, b>>, T) <=> a \in T \/ b \in T
    <2> TAKE a, b, T
    <2>1. DOMAIN <<a, b>> = {1, 2}
      OBVIOUS
    <2> QED
      BY <2>1 DEF HayEn
  <1>3. \A a, b, c, T : HayEn(<<a, b, c>>, T) <=> a \in T \/ b \in T \/ c \in T
    <2> TAKE a, b, c, T
    <2>1. DOMAIN <<a, b, c>> = {1, 2, 3}
      OBVIOUS
    <2> QED
      BY <2>1 DEF HayEn
  <1>4. \A a, b, c, d, T :
          HayEn(<<a, b, c, d>>, T) <=> a \in T \/ b \in T \/ c \in T \/ d \in T
    <2> TAKE a, b, c, d, T
    <2>1. DOMAIN <<a, b, c, d>> = {1, 2, 3, 4}
      OBVIOUS
    <2> QED
      BY <2>1 DEF HayEn
  <1> QED
    BY <1>0, <1>1, <1>2, <1>3, <1>4

\* The first task of a list, and what it leaves.
QuedaBien(l) ==
  /\ l # <<>> /\ (Tail(l) = <<>> \/ Tail(l) \in Listas)
  /\ Head(l) = "avisar" => HayEn(l, {"soltar"})
  /\ Head(l) = "soltar" => /\ ~HayEn(Tail(l), {"soltar"})
                           /\ Tail(l) = <<>> \/ Tail(l) = <<"finalizar">>
  /\ Head(l) \in EnLista =>
       /\ ~HayEn(Tail(l), DaVuelo \cup Respuestas \cup {"avisar_muerte"})
       /\ HayEn(Tail(l), {"soltar"}) \/ l = <<"finalizar">>
  /\ Head(l) = "RESOURCE_OK" => Tail(l) = <<>>
  /\ Head(l) \in {"RESOURCE_BLOCKED", "RESOURCE_FAIL"} =>
       /\ HayEn(Tail(l), {"soltar"}) /\ HayEn(Tail(l), EnLista)
       /\ ~HayEn(Tail(l), Respuestas \cup {"matar", "avisar_muerte"})
  /\ Head(l) = "matar" => Tail(l) = <<"avisar_muerte">>
  /\ Head(l) = "avisar_muerte" => Tail(l) = <<>>

\* Whatever is first, the rest of a list of tasks is a list of tasks.
LEMMA Primera ==
  ASSUME NEW l \in Listas
  PROVE  QuedaBien(l)
  <1>1. CASE l \in ListasIo
    <2>1. QuedaBien(<<"avisar", "bloquear", "soltar">>)
      <3>1. <<"bloquear", "soltar">> \in Listas
        BY DEF Listas, ListasIo, ListasFin, ListasRecurso, ListasFalla, ListasMuerte
      <3> QED
        BY <3>1, Colas, Uplas DEF QuedaBien, EnLista, DaVuelo, Respuestas
    <2>2. QuedaBien(<<"bloquear", "soltar">>)
      <3>1. <<"soltar">> \in Listas
        BY DEF Listas, ListasIo, ListasFin, ListasRecurso, ListasFalla, ListasMuerte
      <3> QED
        BY <3>1, Colas, Uplas DEF QuedaBien, EnLista, DaVuelo, Respuestas
    <2>3. QuedaBien(<<"avisar", "finalizar", "soltar">>)
      <3>1. <<"finalizar", "soltar">> \in Listas
        BY DEF Listas, ListasIo, ListasFin, ListasRecurso, ListasFalla, ListasMuerte
      <3> QED
        BY <3>1, Colas, Uplas DEF QuedaBien, EnLista, DaVuelo, Respuestas
    <2>4. QuedaBien(<<"finalizar", "soltar">>)
      <3>1. <<"soltar">> \in Listas
        BY DEF Listas, ListasIo, ListasFin, ListasRecurso, ListasFalla, ListasMuerte
      <3> QED
        BY <3>1, Colas, Uplas DEF QuedaBien, EnLista, DaVuelo, Respuestas
    <2>5. QuedaBien(<<"soltar">>)
      BY Colas, Uplas DEF QuedaBien, EnLista, DaVuelo, Respuestas
    <2> QED
      BY <1>1, <2>1, <2>2, <2>3, <2>4, <2>5 DEF ListasIo
  <1>2. CASE l \in ListasFin
    <2>1. QuedaBien(<<"listar", "avisar", "soltar">>)
      <3>1. <<"avisar", "soltar">> \in Listas
        BY DEF Listas, ListasIo, ListasFin, ListasRecurso, ListasFalla, ListasMuerte
      <3> QED
        BY <3>1, Colas, Uplas DEF QuedaBien, EnLista, DaVuelo, Respuestas
    <2>2. QuedaBien(<<"avisar", "soltar">>)
      <3>1. <<"soltar">> \in Listas
        BY DEF Listas, ListasIo, ListasFin, ListasRecurso, ListasFalla, ListasMuerte
      <3> QED
        BY <3>1, Colas, Uplas DEF QuedaBien, EnLista, DaVuelo, Respuestas
    <2>3. QuedaBien(<<"finalizar", "avisar", "soltar">>)
      <3>1. <<"avisar", "soltar">> \in Listas
        BY DEF Listas, ListasIo, ListasFin, ListasRecurso, ListasFalla, ListasMuerte
      <3> QED
        BY <3>1, Colas, Uplas DEF QuedaBien, EnLista, DaVuelo, Respuestas
    <2> QED
      BY <1>2, <2>1, <2>2, <2>3 DEF ListasFin
  <1>3. CASE l \in ListasRecurso
    <2>1. QuedaBien(<<"RESOURCE_OK">>)
      BY Colas, Uplas DEF QuedaBien, EnLista, DaVuelo, Respuestas
    <2>2. QuedaBien(<<"RESOURCE_BLOCKED", "bloquear", "avisar", "soltar">>)
      <3>1. <<"bloquear", "avisar", "soltar">> \in Listas
        BY DEF Listas, ListasIo, ListasFin, ListasRecurso, ListasFalla, ListasMuerte
      <3> QED
        BY <3>1, Colas, Uplas DEF QuedaBien, EnLista, DaVuelo, Respuestas
    <2>3. QuedaBien(<<"bloquear", "avisar", "soltar">>)
      <3>1. <<"avisar", "soltar">> \in Listas
        BY DEF Listas, ListasIo, ListasFin, ListasRecurso, ListasFalla, ListasMuerte
      <3> QED
        BY <3>1, Colas, Uplas DEF QuedaBien, EnLista, DaVuelo, Respuestas
    <2>4. QuedaBien(<<"RESOURCE_FAIL", "finalizar", "avisar", "soltar">>)
      <3>1. <<"finalizar", "avisar", "soltar">> \in Listas
        BY DEF Listas, ListasIo, ListasFin, ListasRecurso, ListasFalla, ListasMuerte
      <3> QED
        BY <3>1, Colas, Uplas DEF QuedaBien, EnLista, DaVuelo, Respuestas
    <2> QED
      BY <1>3, <2>1, <2>2, <2>3, <2>4 DEF ListasRecurso
  <1>4. CASE l \in ListasFalla
    <2>1. QuedaBien(<<"avisar", "soltar", "finalizar">>)
      <3>1. <<"soltar", "finalizar">> \in Listas
        BY DEF Listas, ListasIo, ListasFin, ListasRecurso, ListasFalla, ListasMuerte
      <3> QED
        BY <3>1, Colas, Uplas DEF QuedaBien, EnLista, DaVuelo, Respuestas
    <2>2. QuedaBien(<<"soltar", "finalizar">>)
      <3>1. <<"finalizar">> \in Listas
        BY DEF Listas, ListasIo, ListasFin, ListasRecurso, ListasFalla, ListasMuerte
      <3> QED
        BY <3>1, Colas, Uplas DEF QuedaBien, EnLista, DaVuelo, Respuestas
    <2>3. QuedaBien(<<"finalizar">>)
      BY Colas, Uplas DEF QuedaBien, EnLista, DaVuelo, Respuestas
    <2> QED
      BY <1>4, <2>1, <2>2, <2>3 DEF ListasFalla
  <1>5. CASE l \in ListasMuerte
    <2>1. QuedaBien(<<"matar", "avisar_muerte">>)
      <3>1. <<"avisar_muerte">> \in Listas
        BY DEF Listas, ListasIo, ListasFin, ListasRecurso, ListasFalla, ListasMuerte
      <3> QED
        BY <3>1, Colas, Uplas DEF QuedaBien, EnLista, DaVuelo, Respuestas
    <2>2. QuedaBien(<<"avisar_muerte">>)
      BY Colas, Uplas DEF QuedaBien, EnLista, DaVuelo, Respuestas
    <2> QED
      BY <1>5, <2>1, <2>2 DEF ListasMuerte
  <1>6. CASE l = <<"RESOURCE_FAIL", "avisar", "soltar", "finalizar">>
    <2>1. <<"avisar", "soltar", "finalizar">> \in Listas
      BY DEF Listas, ListasFalla
    <2> QED
      BY <1>6, <2>1, Colas, Uplas DEF QuedaBien, EnLista, DaVuelo, Respuestas
  <1> QED
    BY <1>1, <1>2, <1>3, <1>4, <1>5, <1>6 DEF Listas
\* What a task in a list says of the rest of it.
DiceBien(l) ==
  /\ HayEn(l, {"listar"}) => HayEn(l, {"soltar"})
  /\ HayEn(l, EnLista) => HayEn(l, {"soltar"}) \/ l = <<"finalizar">>
  /\ HayEn(l, Respuestas) => Head(l) \in Respuestas
  /\ HayEn(l, {"RESOURCE_OK"}) => l = <<"RESOURCE_OK">>
  /\ HayEn(l, {"matar"}) => l = <<"matar", "avisar_muerte">>
  /\ HayEn(l, {"avisar_muerte"}) => l \in ListasMuerte
  /\ Tail(l) = <<"finalizar">> => l = <<"soltar", "finalizar">>
  /\ Tail(l) \in ListasFalla => l \in ListasFalla \/ Head(l) = "RESOURCE_FAIL"
  /\ l \in ListasFalla => ~HayEn(l, Respuestas \cup {"matar", "avisar_muerte"})

LEMMA Resto ==
  ASSUME NEW l \in Listas
  PROVE  DiceBien(l)
  <1>1. CASE l \in ListasIo
    <2>1. DiceBien(<<"avisar", "bloquear", "soltar">>)
      <3>1. <<"avisar", "bloquear", "soltar">> \notin ListasFalla
        BY DEF ListasFalla
      <3>3. <<"bloquear", "soltar">> \notin ListasFalla
        BY DEF ListasFalla
      <3> QED
        BY <3>1, <3>3, Colas, Uplas DEF DiceBien, EnLista, Respuestas
    <2>2. DiceBien(<<"bloquear", "soltar">>)
      <3>1. <<"bloquear", "soltar">> \notin ListasFalla
        BY DEF ListasFalla
      <3>3. <<"soltar">> \notin ListasFalla
        BY DEF ListasFalla
      <3> QED
        BY <3>1, <3>3, Colas, Uplas DEF DiceBien, EnLista, Respuestas
    <2>3. DiceBien(<<"avisar", "finalizar", "soltar">>)
      <3>1. <<"avisar", "finalizar", "soltar">> \notin ListasFalla
        BY DEF ListasFalla
      <3>3. <<"finalizar", "soltar">> \notin ListasFalla
        BY DEF ListasFalla
      <3> QED
        BY <3>1, <3>3, Colas, Uplas DEF DiceBien, EnLista, Respuestas
    <2>4. DiceBien(<<"finalizar", "soltar">>)
      <3>1. <<"finalizar", "soltar">> \notin ListasFalla
        BY DEF ListasFalla
      <3>3. <<"soltar">> \notin ListasFalla
        BY DEF ListasFalla
      <3> QED
        BY <3>1, <3>3, Colas, Uplas DEF DiceBien, EnLista, Respuestas
    <2>5. DiceBien(<<"soltar">>)
      <3>1. <<"soltar">> \notin ListasFalla
        BY DEF ListasFalla
      <3>3. <<>> \notin ListasFalla
        BY DEF ListasFalla
      <3> QED
        BY <3>1, <3>3, Colas, Uplas DEF DiceBien, EnLista, Respuestas
    <2> QED
      BY <1>1, <2>1, <2>2, <2>3, <2>4, <2>5 DEF ListasIo
  <1>2. CASE l \in ListasFin
    <2>1. DiceBien(<<"listar", "avisar", "soltar">>)
      <3>1. <<"listar", "avisar", "soltar">> \notin ListasFalla
        BY DEF ListasFalla
      <3>3. <<"avisar", "soltar">> \notin ListasFalla
        BY DEF ListasFalla
      <3> QED
        BY <3>1, <3>3, Colas, Uplas DEF DiceBien, EnLista, Respuestas
    <2>2. DiceBien(<<"avisar", "soltar">>)
      <3>1. <<"avisar", "soltar">> \notin ListasFalla
        BY DEF ListasFalla
      <3>3. <<"soltar">> \notin ListasFalla
        BY DEF ListasFalla
      <3> QED
        BY <3>1, <3>3, Colas, Uplas DEF DiceBien, EnLista, Respuestas
    <2>3. DiceBien(<<"finalizar", "avisar", "soltar">>)
      <3>1. <<"finalizar", "avisar", "soltar">> \notin ListasFalla
        BY DEF ListasFalla
      <3>3. <<"avisar", "soltar">> \notin ListasFalla
        BY DEF ListasFalla
      <3> QED
        BY <3>1, <3>3, Colas, Uplas DEF DiceBien, EnLista, Respuestas
    <2> QED
      BY <1>2, <2>1, <2>2, <2>3 DEF ListasFin
  <1>3. CASE l \in ListasRecurso
    <2>1. DiceBien(<<"RESOURCE_OK">>)
      <3>1. <<"RESOURCE_OK">> \notin ListasFalla
        BY DEF ListasFalla
      <3>3. <<>> \notin ListasFalla
        BY DEF ListasFalla
      <3> QED
        BY <3>1, <3>3, Colas, Uplas DEF DiceBien, EnLista, Respuestas
    <2>2. DiceBien(<<"RESOURCE_BLOCKED", "bloquear", "avisar", "soltar">>)
      <3>1. <<"RESOURCE_BLOCKED", "bloquear", "avisar", "soltar">> \notin ListasFalla
        BY DEF ListasFalla
      <3>3. <<"bloquear", "avisar", "soltar">> \notin ListasFalla
        BY DEF ListasFalla
      <3> QED
        BY <3>1, <3>3, Colas, Uplas DEF DiceBien, EnLista, Respuestas
    <2>3. DiceBien(<<"bloquear", "avisar", "soltar">>)
      <3>1. <<"bloquear", "avisar", "soltar">> \notin ListasFalla
        BY DEF ListasFalla
      <3>3. <<"avisar", "soltar">> \notin ListasFalla
        BY DEF ListasFalla
      <3> QED
        BY <3>1, <3>3, Colas, Uplas DEF DiceBien, EnLista, Respuestas
    <2>4. DiceBien(<<"RESOURCE_FAIL", "finalizar", "avisar", "soltar">>)
      <3>1. <<"RESOURCE_FAIL", "finalizar", "avisar", "soltar">> \notin ListasFalla
        BY DEF ListasFalla
      <3>3. <<"finalizar", "avisar", "soltar">> \notin ListasFalla
        BY DEF ListasFalla
      <3> QED
        BY <3>1, <3>3, Colas, Uplas DEF DiceBien, EnLista, Respuestas
    <2> QED
      BY <1>3, <2>1, <2>2, <2>3, <2>4 DEF ListasRecurso
  <1>4. CASE l \in ListasFalla
    <2>1. DiceBien(<<"avisar", "soltar", "finalizar">>)
      <3>1. <<"avisar", "soltar", "finalizar">> \in ListasFalla
        BY DEF ListasFalla
      <3> QED
        BY <3>1, Colas, Uplas DEF DiceBien, EnLista, Respuestas
    <2>2. DiceBien(<<"soltar", "finalizar">>)
      <3>1. <<"soltar", "finalizar">> \in ListasFalla
        BY DEF ListasFalla
      <3> QED
        BY <3>1, Colas, Uplas DEF DiceBien, EnLista, Respuestas
    <2>3. DiceBien(<<"finalizar">>)
      <3>1. <<"finalizar">> \in ListasFalla
        BY DEF ListasFalla
      <3> QED
        BY <3>1, Colas, Uplas DEF DiceBien, EnLista, Respuestas
    <2> QED
      BY <1>4, <2>1, <2>2, <2>3 DEF ListasFalla
  <1>5. CASE l \in ListasMuerte
    <2>1. DiceBien(<<"matar", "avisar_muerte">>)
      <3>1. <<"matar", "avisar_muerte">> \notin ListasFalla
        BY DEF ListasFalla
      <3>2. <<"matar", "avisar_muerte">> \in ListasMuerte
        BY DEF ListasMuerte
      <3>3. <<"avisar_muerte">> \notin ListasFalla
        BY DEF ListasFalla
      <3> QED
        BY <3>1, <3>2, <3>3, Colas, Uplas DEF DiceBien, EnLista, Respuestas
    <2>2. DiceBien(<<"avisar_muerte">>)
      <3>1. <<"avisar_muerte">> \notin ListasFalla
        BY DEF ListasFalla
      <3>2. <<"avisar_muerte">> \in ListasMuerte
        BY DEF ListasMuerte
      <3>3. <<>> \notin ListasFalla
        BY DEF ListasFalla
      <3> QED
        BY <3>1, <3>2, <3>3, Colas, Uplas DEF DiceBien, EnLista, Respuestas
    <2> QED
      BY <1>5, <2>1, <2>2 DEF ListasMuerte
  <1>6. CASE l = <<"RESOURCE_FAIL", "avisar", "soltar", "finalizar">>
    <2>1. <<"RESOURCE_FAIL", "avisar", "soltar", "finalizar">> \notin ListasFalla
      BY DEF ListasFalla
    <2>2. DiceBien(<<"RESOURCE_FAIL", "avisar", "soltar", "finalizar">>)
      BY <2>1, Colas, Uplas DEF DiceBien, EnLista, Respuestas
    <2> QED
      BY <1>6, <2>2
  <1> QED
    BY <1>1, <1>2, <1>3, <1>4, <1>5, <1>6 DEF Listas
Trabajos == Respuestas \cup {"avisar", "avisar_muerte", "soltar", "listar", "bloquear",
                            "finalizar", "matar"}
LEMMA Textos ==
  ASSUME NEW l \in Listas
  PROVE  l \in Seq(Trabajos)
  <1>1. /\ \A a \in Trabajos : <<a>> \in Seq(Trabajos)
        /\ \A a, b \in Trabajos : <<a, b>> \in Seq(Trabajos)
        /\ \A a, b, c \in Trabajos : <<a, b, c>> \in Seq(Trabajos)
        /\ \A a, b, c, d \in Trabajos : <<a, b, c, d>> \in Seq(Trabajos)
    OBVIOUS
  <1>2. l \in ListasIo => l \in Seq(Trabajos)
    BY <1>1 DEF ListasIo, Trabajos, Respuestas
  <1>3. l \in ListasFin => l \in Seq(Trabajos)
    BY <1>1 DEF ListasFin, Trabajos, Respuestas
  <1>4. l \in ListasRecurso => l \in Seq(Trabajos)
    BY <1>1 DEF ListasRecurso, Trabajos, Respuestas
  <1>5. l \in ListasFalla => l \in Seq(Trabajos)
    BY <1>1 DEF ListasFalla, Trabajos, Respuestas
  <1>6. l \in ListasMuerte => l \in Seq(Trabajos)
    BY <1>1 DEF ListasMuerte, Trabajos, Respuestas
  <1>7. l = <<"RESOURCE_FAIL", "avisar", "soltar", "finalizar">> => l \in Seq(Trabajos)
    BY <1>1 DEF Trabajos, Respuestas
  <1> QED
    BY <1>2, <1>3, <1>4, <1>5, <1>6, <1>7 DEF Listas

LEMMA PasosLista ==
  ASSUME NEW p, NEW l \in Seq(Trabajos)
  PROVE  /\ Pasos(p, l) \in Seq([tipo : Trabajos, pid : {p}])
         /\ Pasos(p, <<>>) = <<>>
         /\ Len(Pasos(p, l)) = Len(l)
         /\ \A k \in DOMAIN l : Pasos(p, l)[k] = Mensaje(l[k], p)
         /\ l # <<>> => /\ Pasos(p, l) # <<>> /\ Head(Pasos(p, l)) = Mensaje(Head(l), p)
                       /\ Tail(Pasos(p, l)) = Pasos(p, Tail(l))
  <1> DEFINE s == Pasos(p, l)
             n == Len(l)
             R == [tipo : Trabajos, pid : {p}]
  <1>1. n \in Nat /\ DOMAIN l = 1 .. n /\ \A k \in 1 .. n : l[k] \in Trabajos
    OBVIOUS
  <1>2. DOMAIN s = 1 .. n /\ \A k \in 1 .. n : s[k] = Mensaje(l[k], p)
    BY <1>1 DEF Pasos
  <1>3. \A k \in 1 .. n : s[k] \in R
    BY <1>1, <1>2 DEF Mensaje
  <1>4. s \in [1 .. n -> R]
    BY <1>1, <1>3 DEF Pasos, Mensaje
  <1>5. s \in Seq(R)
    <2>1. s \in UNION {[1 .. m -> R] : m \in Nat}
      BY <1>1, <1>4, Zenon
    <2> QED
      BY <2>1, SeqDef, Zenon
  <1>6. Len(s) = n
    BY <1>1, <1>2, <1>5
  <1>7. Pasos(p, <<>>) = <<>>
    BY DEF Pasos
  <1>8. ASSUME l # <<>>
        PROVE  /\ s # <<>> /\ Head(s) = Mensaje(Head(l), p)
               /\ Tail(s) = Pasos(p, Tail(l))
    <2>1. n > 0 /\ Head(l) = l[1] /\ Tail(l) \in Seq(Trabajos) /\ DOMAIN Tail(l) = 1 .. (n - 1)
          /\ \A k \in 1 .. (n - 1) : Tail(l)[k] = l[k + 1]
      BY <1>8
    <2> HIDE DEF s, R
    <2>2. s # <<>> /\ Head(s) = s[1] /\ Tail(s) \in Seq(R) /\ Len(Tail(s)) = n - 1
          /\ \A k \in 1 .. (n - 1) : Tail(s)[k] = s[k + 1]
      BY <1>5, <1>6, <2>1
    <2>3. \A k \in 1 .. (n - 1) : k + 1 \in 1 .. n
      BY <1>1
    <2>4. \A k \in 1 .. (n - 1) : Tail(s)[k] = Mensaje(Tail(l)[k], p)
      BY <1>2, <2>1, <2>2, <2>3
    <2>5. Tail(s) = [k \in 1 .. (n - 1) |-> Tail(s)[k]]
      BY <2>2, LenProperties
    <2>6. Tail(s) = Pasos(p, Tail(l))
      BY <2>1, <2>4, <2>5 DEF Pasos
    <2> QED
      BY <1>1, <1>2, <2>1, <2>2, <2>6
  <1> QED
    BY <1>1, <1>2, <1>5, <1>6, <1>7, <1>8
HayDe(t, tipos) == \E k \in DOMAIN t : t[k].tipo \in tipos

LEMMA ListaDe ==
  ASSUME NEW p \in Pids, NEW l \in Listas \cup {<<>>}, NEW t, t = Pasos(p, l)
  PROVE  /\ \A tipos : HayDe(t, tipos) <=> HayEn(l, tipos)
         /\ t \in Seq(Todos(Trabajos))
         /\ \A q \in Pids, m \in Listas : t = Pasos(q, m) <=> q = p /\ m = l
         /\ l # <<>> => t # <<>> /\ Head(t) = Mensaje(Head(l), p) /\ Tail(t) = Pasos(p, Tail(l))
         /\ l = <<>> => t = <<>>
  <1>1. l \in Seq(Trabajos)
    BY Textos, EmptySeq
  <1>2. /\ t \in Seq([tipo : Trabajos, pid : {p}]) /\ Len(t) = Len(l)
        /\ \A k \in DOMAIN l : t[k] = Mensaje(l[k], p)
        /\ l # <<>> => t # <<>> /\ Head(t) = Mensaje(Head(l), p) /\ Tail(t) = Pasos(p, Tail(l))
        /\ l = <<>> => t = <<>>
    BY <1>1, PasosLista
  <1>3. DOMAIN t = DOMAIN l
    BY <1>1, <1>2
  <1>4. \A tipos : HayDe(t, tipos) <=> HayEn(l, tipos)
    BY <1>2, <1>3 DEF HayDe, HayEn, Mensaje
  <1>5. t \in Seq(Todos(Trabajos))
    <2>1. [tipo : Trabajos, pid : {p}] \subseteq Todos(Trabajos)
      BY DEF Todos
    <2> QED
      BY <1>2, <2>1, SeqMonotonic
  <1>6. ASSUME NEW q \in Pids, NEW m \in Listas, t = Pasos(q, m) PROVE q = p /\ m = l
    <2>1. m \in Seq(Trabajos) /\ m # <<>>
      BY Textos, Primera DEF QuedaBien
    <2>2. Len(t) = Len(m) /\ \A k \in DOMAIN m : t[k] = Mensaje(m[k], q)
      <3>1. /\ Len(Pasos(q, m)) = Len(m)
            /\ \A k \in DOMAIN m : Pasos(q, m)[k] = Mensaje(m[k], q)
        BY <2>1, PasosLista
      <3> QED
        BY <1>6, <3>1
    <2>3. Len(l) = Len(m) /\ 1 \in DOMAIN l /\ DOMAIN l = DOMAIN m
      <3>1. Len(l) = Len(m)
        BY <1>2, <2>2
      <3>2. Len(m) \in Nat \ {0} /\ DOMAIN m = 1 .. Len(m)
        BY <2>1
      <3>3. DOMAIN l = 1 .. Len(l)
        BY <1>1, LenProperties
      <3> QED
        BY <3>1, <3>2, <3>3
    <2>4. \A k \in DOMAIN l : Mensaje(m[k], q) = Mensaje(l[k], p)
      BY <1>2, <2>2, <2>3
    <2>5. q = p /\ \A k \in DOMAIN l : m[k] = l[k]
      BY <2>3, <2>4 DEF Mensaje
    <2>6. m = l
      BY <1>1, <2>1, <2>3, <2>5, SeqEqual
    <2> QED
      BY <2>5, <2>6
  <1> QED
    BY <1>2, <1>4, <1>5, <1>6

\* What a list that starts says: the CPU is freed if the process changes state,
\* and a question has an answer.
EmpiezaBien(l, m) ==
  /\ l \in Listas /\ l \notin ListasFalla /\ l # <<"finalizar">>
  /\ HayEn(l, DaVuelo)
  /\ HayEn(l, {"soltar"}) <=> HayEn(l, EnLista)
  /\ HayEn(l, Respuestas) <=> m \in {"WAIT", "SIGNAL"}
  /\ HayEn(l, {"RESOURCE_OK"}) => m \in {"WAIT", "SIGNAL"}
  /\ HayEn(l, {"matar"}) <=> m = "KILL_PROCESS"
  /\ HayEn(l, {"avisar_muerte"}) => HayEn(l, {"matar"})

\* The tasks of an eviction, as a list, by its reason.
LEMMA Comienzos ==
  ASSUME NEW p \in Pids, NEW m \in Reales, NEW t \in TareasDe(p, m)
  PROVE  \E l \in Listas : t = Pasos(p, l) /\ EmpiezaBien(l, m)
  <1> USE DEF ListasIo, ListasFin, ListasRecurso, ListasFalla, ListasMuerte
  <1> DEFINE Bien(l, n) == l \in Listas /\ EmpiezaBien(l, n)
  <1>1. Bien(<<"avisar", "bloquear", "soltar">>, "OPERACION_IO")
    BY Uplas DEF EmpiezaBien, Listas, DaVuelo, EnLista, Respuestas
  <1>2. Bien(<<"avisar", "finalizar", "soltar">>, "OPERACION_IO")
    BY Uplas DEF EmpiezaBien, Listas, DaVuelo, EnLista, Respuestas
  <1>3. Bien(<<"listar", "avisar", "soltar">>, "FIN_CLOCK")
    BY Uplas DEF EmpiezaBien, Listas, DaVuelo, EnLista, Respuestas
  <1>4. Bien(<<"finalizar", "avisar", "soltar">>, "END_PROCESS")
    BY Uplas DEF EmpiezaBien, Listas, DaVuelo, EnLista, Respuestas
  <1>5. ASSUME NEW n \in {"WAIT", "SIGNAL"}
        PROVE  Bien(<<"RESOURCE_OK">>, n)
    BY Uplas DEF EmpiezaBien, Listas, DaVuelo, EnLista, Respuestas
  <1>6. Bien(<<"RESOURCE_BLOCKED", "bloquear", "avisar", "soltar">>, "WAIT")
    BY Uplas DEF EmpiezaBien, Listas, DaVuelo, EnLista, Respuestas
  <1>7. Bien(<<"RESOURCE_FAIL", "avisar", "soltar", "finalizar">>, "WAIT")
    BY Uplas DEF EmpiezaBien, Listas, DaVuelo, EnLista, Respuestas
  <1>8. Bien(<<"RESOURCE_FAIL", "finalizar", "avisar", "soltar">>, "SIGNAL")
    BY Uplas DEF EmpiezaBien, Listas, DaVuelo, EnLista, Respuestas
  <1>9. Bien(<<"matar", "avisar_muerte">>, "KILL_PROCESS")
    BY Uplas DEF EmpiezaBien, Listas, DaVuelo, EnLista, Respuestas
  <1>10. Bien(<<"finalizar", "soltar">>, "OUT_OF_MEMORY")
    BY Uplas DEF EmpiezaBien, Listas, DaVuelo, EnLista, Respuestas
  <1>11. \/ m = "OPERACION_IO" /\ t \in DesalojoIo(p)
         \/ m = "FIN_CLOCK" /\ t = DesalojoFinDeQuantum(p)
         \/ m = "END_PROCESS" /\ t = Pasos(p, <<"finalizar", "avisar", "soltar">>)
         \/ m = "WAIT" /\ t \in DesalojoWait(p)
         \/ m = "SIGNAL" /\ t \in DesalojoSignal(p)
         \/ m = "KILL_PROCESS" /\ t = Pasos(p, <<"matar", "avisar_muerte">>)
         \/ m = "OUT_OF_MEMORY" /\ t = Pasos(p, <<"finalizar", "soltar">>)
    BY DEF TareasDe, Reales, Motivos
  <1> HIDE DEF Bien
  <1>12. \E l : t = Pasos(p, l) /\ Bien(l, m)
    BY <1>1, <1>2, <1>3, <1>4, <1>5, <1>6, <1>7, <1>8, <1>9, <1>10, <1>11
       DEF DesalojoIo, DesalojoFinDeQuantum, DesalojoWait, DesalojoSignal, DesalojoConRecurso
  <1> QED
    BY <1>12 DEF Bien
-----------------------------------------------------------------------------
(* What each task of recibir_dispatch does to the list.                    *)

LEMMA HayCabeza ==
  ASSUME NEW l \in Listas, NEW tipos
  PROVE  HayEn(l, tipos) <=> Head(l) \in tipos \/ HayEn(Tail(l), tipos)
  <1>1. l \in Seq(Trabajos) /\ l # <<>>
    BY Textos, Primera DEF QuedaBien
  <1> DEFINE n == Len(l)
  <1>2. /\ n \in Nat \ {0} /\ DOMAIN l = 1 .. n /\ Head(l) = l[1]
        /\ DOMAIN Tail(l) = 1 .. (n - 1) /\ \A k \in 1 .. (n - 1) : Tail(l)[k] = l[k + 1]
    BY <1>1
  <1> HIDE DEF n
  <1>3. \A k \in 1 .. n : k = 1 \/ (k - 1 \in 1 .. (n - 1) /\ (k - 1) + 1 = k)
    BY <1>2
  <1>4. 1 \in 1 .. n /\ \A k \in 1 .. (n - 1) : k + 1 \in 1 .. n
    BY <1>2
  <1> QED
    BY <1>2, <1>3, <1>4 DEF HayEn

\* The list before and after its head is done.
Avance(p, l) ==
  /\ Tail(l) \in Listas \cup {<<>>} /\ Head(tareas) = Mensaje(Head(l), p)
  /\ tareas' = Pasos(p, Tail(l))
  /\ tareas' # <<>> <=> Tail(l) # <<>>
  /\ tareas' # <<>> => Head(tareas').pid = p
  /\ \A tipos : Hay(tipos) <=> HayEn(l, tipos)
  /\ \A tipos : Hay(tipos)' <=> HayEn(Tail(l), tipos)
  /\ \A q \in Pids : Saliente(q) <=> q = p /\ l = <<"finalizar">>
  /\ \A q \in Pids : Saliente(q)' <=> q = p /\ Tail(l) = <<"finalizar">>
  /\ AlFinal <=> l \in ListasFalla
  /\ AlFinal' <=> Tail(l) \in ListasFalla

\* recibir_dispatch does the first task and keeps the rest.
LEMMA Avanza ==
  ASSUME Formas, tareas # <<>>, tareas' = Tail(tareas)
  PROVE  \E p \in Pids, l \in Listas : Avance(p, l)
  <1>1. PICK p \in Pids, l \in Listas : tareas = Pasos(p, l)
    BY DEF Formas
  <1>2. l # <<>> /\ Tail(l) \in Listas \cup {<<>>}
    BY Primera DEF QuedaBien
  <1>3. /\ \A tipos : HayDe(tareas, tipos) <=> HayEn(l, tipos)
        /\ \A q \in Pids, m \in Listas : tareas = Pasos(q, m) <=> q = p /\ m = l
        /\ Head(tareas) = Mensaje(Head(l), p) /\ Tail(tareas) = Pasos(p, Tail(l))
    BY <1>1, <1>2, ListaDe
  <1>4. tareas' = Pasos(p, Tail(l))
    BY <1>3
  <1>5. /\ \A tipos : HayDe(tareas', tipos) <=> HayEn(Tail(l), tipos)
        /\ \A q \in Pids, m \in Listas : tareas' = Pasos(q, m) <=> q = p /\ m = Tail(l)
        /\ Tail(l) # <<>> => tareas' # <<>> /\ Head(tareas') = Mensaje(Head(Tail(l)), p)
        /\ Tail(l) = <<>> => tareas' = <<>>
    <2> DEFINE m == Tail(l)
               t == Pasos(p, m)
    <2>1. m \in Listas \cup {<<>>} /\ t = Pasos(p, m)
      BY <1>2
    <2> HIDE DEF m, t
    <2>2. /\ \A tipos : HayDe(t, tipos) <=> HayEn(m, tipos)
          /\ \A q \in Pids, k \in Listas : t = Pasos(q, k) <=> q = p /\ k = m
          /\ m # <<>> => t # <<>> /\ Head(t) = Mensaje(Head(m), p)
          /\ m = <<>> => t = <<>>
      BY <2>1, ListaDe
    <2> QED
      BY <1>4, <2>2 DEF m, t
  <1>6. ListasFalla \subseteq Listas /\ <<"finalizar">> \in Listas
    BY DEF Listas, ListasFalla
  <1>7. /\ \A tipos : Hay(tipos) <=> HayEn(l, tipos)
        /\ \A tipos : Hay(tipos)' <=> HayEn(Tail(l), tipos)
    BY <1>3, <1>5 DEF Hay, HayDe
  <1>8. /\ \A q \in Pids : Saliente(q) <=> q = p /\ l = <<"finalizar">>
        /\ \A q \in Pids : Saliente(q)' <=> q = p /\ Tail(l) = <<"finalizar">>
    BY <1>3, <1>5, <1>6 DEF Saliente
  <1>9. AlFinal <=> l \in ListasFalla
    BY <1>1, <1>3, <1>6 DEF AlFinal
  <1>10. AlFinal' <=> Tail(l) \in ListasFalla
    <2>1. <<>> \notin ListasFalla
      BY Primera, <1>6 DEF QuedaBien
    <2>2. ASSUME AlFinal' PROVE Tail(l) \in ListasFalla
      <3>1. PICK q \in Pids, m \in ListasFalla : tareas' = Pasos(q, m)
        BY <2>2 DEF AlFinal
      <3> QED
        BY <1>5, <1>6, <3>1
    <2>3. ASSUME Tail(l) \in ListasFalla PROVE AlFinal'
      <3>1. tareas' # <<>> /\ tareas' = Pasos(p, Tail(l))
        BY <1>4, <1>5, <2>1, <2>3
      <3> QED
        BY <2>3, <3>1 DEF AlFinal
    <2> QED
      BY <2>2, <2>3
  <1>11. (tareas' # <<>> => Head(tareas').pid = p) /\ (tareas' # <<>> <=> Tail(l) # <<>>)
    <2>1. \A x : Mensaje(x, p).pid = p
      BY DEF Mensaje
    <2>2. CASE Tail(l) = <<>>
      <3>1. tareas' = <<>>
        BY <1>5, <2>2
      <3> QED
        BY <2>2, <3>1
    <2>3. CASE Tail(l) # <<>>
      <3>1. tareas' # <<>> /\ Head(tareas') = Mensaje(Head(Tail(l)), p)
        BY <1>5, <2>3
      <3> QED
        BY <2>1, <2>3, <3>1
    <2> QED
      BY <2>2, <2>3
  <1>12. Avance(p, l)
    BY <1>2, <1>3, <1>4, <1>7, <1>8, <1>9, <1>10, <1>11 DEF Avance
  <1> QED
    BY <1>12

LEMMA Avanzan ==
  ASSUME NEW p \in Pids, NEW l \in Listas, Avance(p, l)
  PROVE  Formas'
  <1>1. tareas' = <<>> \/ \E m \in Listas : tareas' = Pasos(p, m)
    BY DEF Avance
  <1> QED
    BY <1>1 DEF Formas
LEMMA Incluyen ==
  ASSUME NEW l
  PROVE  /\ HayEn(l, DaVuelo) <=> \/ HayEn(l, EnLista) \/ HayEn(l, {"RESOURCE_OK"})
                                  \/ HayEn(l, {"matar"})
         /\ HayEn(l, {"RESOURCE_OK"}) => HayEn(l, Respuestas)
         /\ HayEn(l, DaVuelo) \/ HayEn(l, Respuestas) \/ HayEn(l, {"avisar_muerte"})
              => HayEn(l, DaVuelo \cup Respuestas \cup {"avisar_muerte"})
         /\ HayEn(l, Respuestas) \/ HayEn(l, {"matar"}) \/ HayEn(l, {"avisar_muerte"})
              => HayEn(l, Respuestas \cup {"matar", "avisar_muerte"})
  <1>1. \A A, B : A \subseteq B /\ HayEn(l, A) => HayEn(l, B)
    BY DEF HayEn
  <1>2. HayEn(l, DaVuelo) => \/ HayEn(l, EnLista) \/ HayEn(l, {"RESOURCE_OK"})
                             \/ HayEn(l, {"matar"})
    BY DEF HayEn, DaVuelo
  <1>3. /\ EnLista \subseteq DaVuelo /\ {"RESOURCE_OK"} \subseteq DaVuelo
        /\ {"matar"} \subseteq DaVuelo /\ {"RESOURCE_OK"} \subseteq Respuestas
    BY DEF DaVuelo, Respuestas
  <1>4. /\ DaVuelo \subseteq DaVuelo \cup Respuestas \cup {"avisar_muerte"}
        /\ Respuestas \subseteq DaVuelo \cup Respuestas \cup {"avisar_muerte"}
        /\ {"avisar_muerte"} \subseteq DaVuelo \cup Respuestas \cup {"avisar_muerte"}
        /\ Respuestas \subseteq Respuestas \cup {"matar", "avisar_muerte"}
        /\ {"matar"} \subseteq Respuestas \cup {"matar", "avisar_muerte"}
        /\ {"avisar_muerte"} \subseteq Respuestas \cup {"matar", "avisar_muerte"}
    OBVIOUS
  <1> QED
    BY <1>1, <1>2, <1>3, <1>4

\* Everything that the lists say, of a list that goes on.
Sigue(l) ==
  LET m == Tail(l) IN
  /\ HayEn(l, {"soltar"}) <=> Head(l) = "soltar" \/ HayEn(m, {"soltar"})
  /\ HayEn(l, EnLista) <=> Head(l) \in EnLista \/ HayEn(m, EnLista)
  /\ HayEn(l, Respuestas) <=> Head(l) \in Respuestas \/ HayEn(m, Respuestas)
  /\ HayEn(l, {"RESOURCE_OK"}) <=> Head(l) = "RESOURCE_OK" \/ HayEn(m, {"RESOURCE_OK"})
  /\ HayEn(l, {"matar"}) <=> Head(l) = "matar" \/ HayEn(m, {"matar"})
  /\ HayEn(l, {"avisar_muerte"}) <=> Head(l) = "avisar_muerte" \/ HayEn(m, {"avisar_muerte"})
  /\ HayEn(l, DaVuelo) <=> \/ HayEn(l, EnLista) \/ HayEn(l, {"RESOURCE_OK"})
                           \/ HayEn(l, {"matar"})
  /\ HayEn(m, DaVuelo) <=> \/ HayEn(m, EnLista) \/ HayEn(m, {"RESOURCE_OK"})
                           \/ HayEn(m, {"matar"})
  /\ HayEn(m, {"RESOURCE_OK"}) => HayEn(m, Respuestas)
  /\ Head(l) \in EnLista =>
       ~HayEn(m, DaVuelo) /\ ~HayEn(m, Respuestas) /\ ~HayEn(m, {"avisar_muerte"})
  /\ Head(l) \in {"RESOURCE_BLOCKED", "RESOURCE_FAIL"} =>
       ~HayEn(m, Respuestas) /\ ~HayEn(m, {"matar"}) /\ ~HayEn(m, {"avisar_muerte"})
  /\ m = <<>> => \A tipos : ~HayEn(m, tipos)
  /\ m # <<>> => DiceBien(m)
  /\ QuedaBien(l) /\ DiceBien(l)

LEMMA Siguen ==
  ASSUME NEW l \in Listas
  PROVE  Sigue(l)
  <1>1. /\ HayEn(l, {"soltar"}) <=> Head(l) = "soltar" \/ HayEn(Tail(l), {"soltar"})
        /\ HayEn(l, EnLista) <=> Head(l) \in EnLista \/ HayEn(Tail(l), EnLista)
        /\ HayEn(l, Respuestas) <=> Head(l) \in Respuestas \/ HayEn(Tail(l), Respuestas)
        /\ HayEn(l, {"RESOURCE_OK"}) <=> Head(l) = "RESOURCE_OK" \/ HayEn(Tail(l), {"RESOURCE_OK"})
        /\ HayEn(l, {"matar"}) <=> Head(l) = "matar" \/ HayEn(Tail(l), {"matar"})
        /\ HayEn(l, {"avisar_muerte"})
             <=> Head(l) = "avisar_muerte" \/ HayEn(Tail(l), {"avisar_muerte"})
    BY HayCabeza
  <1>2. QuedaBien(l) /\ DiceBien(l)
    BY Primera, Resto
  <1>3. Tail(l) # <<>> => DiceBien(Tail(l))
    BY <1>2, Resto DEF QuedaBien
  <1>4. Tail(l) = <<>> => \A tipos : ~HayEn(Tail(l), tipos)
    <2>1. ASSUME NEW t, t = <<>> PROVE \A tipos : ~HayEn(t, tipos)
      BY <2>1 DEF HayEn
    <2> QED
      BY <2>1
  <1>5. /\ HayEn(l, DaVuelo) <=> \/ HayEn(l, EnLista) \/ HayEn(l, {"RESOURCE_OK"})
                                 \/ HayEn(l, {"matar"})
        /\ HayEn(Tail(l), DaVuelo) <=> \/ HayEn(Tail(l), EnLista) \/ HayEn(Tail(l), {"RESOURCE_OK"})
                                       \/ HayEn(Tail(l), {"matar"})
        /\ HayEn(Tail(l), {"RESOURCE_OK"}) => HayEn(Tail(l), Respuestas)
    BY Incluyen
  <1>6. Head(l) \in EnLista => /\ ~HayEn(Tail(l), DaVuelo) /\ ~HayEn(Tail(l), Respuestas)
                               /\ ~HayEn(Tail(l), {"avisar_muerte"})
    BY <1>2, Incluyen DEF QuedaBien
  <1>7. Head(l) \in {"RESOURCE_BLOCKED", "RESOURCE_FAIL"} =>
          /\ ~HayEn(Tail(l), Respuestas) /\ ~HayEn(Tail(l), {"matar"})
          /\ ~HayEn(Tail(l), {"avisar_muerte"})
    BY <1>2, Incluyen DEF QuedaBien
  <1> QED
    BY <1>1, <1>2, <1>3, <1>4, <1>5, <1>6, <1>7 DEF Sigue

\* What a step leaves of the list as it was.
Igual(tipos) == Hay(tipos)' <=> Hay(tipos)
MismoTrabajo == \A p \in Pids : Trabaja(p)' <=> Trabaja(p)
SinSaliente == \A p \in Pids : ~Saliente(p) /\ ~Saliente(p)'

\* What each task changes of what is left to do: telling the timer,
LEMMA UnAviso ==
  ASSUME Formas, Tarea({"avisar", "avisar_muerte"})
  PROVE  /\ Formas' /\ DeTarea \in Pids /\ MismoTrabajo /\ SinSaliente /\ (AlFinal' => AlFinal)
         /\ Igual({"soltar"}) /\ Igual(EnLista) /\ Igual(Respuestas) /\ Igual({"RESOURCE_OK"})
         /\ Igual({"matar"}) /\ (Hay({"avisar_muerte"})' => Hay({"avisar_muerte"}))
         /\ Head(tareas).tipo = "avisar" => Hay({"soltar"})
         /\ Head(tareas).tipo = "avisar_muerte" => tareas' = <<>> /\ Hay({"avisar_muerte"})
                                                    /\ ~Hay({"matar"})
         /\ tareas' # <<>> => Head(tareas').pid = DeTarea
  <1>1. /\ tareas # <<>> /\ tareas' = Tail(tareas)
        /\ Head(tareas).tipo \in {"avisar", "avisar_muerte"}
    BY DEF Tarea
  <1>2. PICK p \in Pids, l \in Listas : Avance(p, l)
    BY <1>1, Avanza
  <1>3. Sigue(l)
    BY Siguen
  <1>4. Head(tareas) = Mensaje(Head(l), p) /\ Head(l) \in {"avisar", "avisar_muerte"}
    BY <1>1, <1>2 DEF Avance, Mensaje
  <1>5. DeTarea = p
    BY <1>4 DEF DeTarea, Mensaje
  <1>6. /\ Igual({"soltar"}) /\ Igual(EnLista) /\ Igual(Respuestas) /\ Igual({"RESOURCE_OK"})
        /\ Igual({"matar"}) /\ (Hay({"avisar_muerte"})' => Hay({"avisar_muerte"}))
        /\ Igual(DaVuelo)
    BY <1>2, <1>3, <1>4 DEF Avance, Sigue, Igual, EnLista, Respuestas
  <1>7. MismoTrabajo
    <2>1. Hay(DaVuelo)' => tareas' # <<>>
      BY <1>2, <1>3 DEF Avance, Sigue
    <2> QED
      BY <1>2, <1>5, <1>6, <2>1 DEF MismoTrabajo, Trabaja, Igual, Avance, DeTarea
  <1>8. SinSaliente
    <2>1. l # <<"finalizar">>
      BY <1>4, Colas
    <2>2. Tail(l) # <<"finalizar">>
      BY <1>3, <1>4, Colas DEF Sigue, DiceBien
    <2> QED
      BY <1>2, <2>1, <2>2 DEF Avance, SinSaliente
  <1>9. AlFinal' => AlFinal
    BY <1>2, <1>3, <1>4 DEF Avance, Sigue, DiceBien
  <1>10. /\ Head(tareas).tipo = "avisar" => Hay({"soltar"})
         /\ Head(tareas).tipo = "avisar_muerte" => tareas' = <<>> /\ Hay({"avisar_muerte"})
                                                    /\ ~Hay({"matar"})
    BY <1>2, <1>3, <1>4 DEF Avance, Sigue, QuedaBien, Mensaje
  <1>11. tareas' # <<>> => Head(tareas').pid = DeTarea
    BY <1>2, <1>5 DEF Avance
  <1> QED
    BY <1>2, <1>5, <1>6, <1>7, <1>8, <1>9, <1>10, <1>11, Avanzan
\* freeing the CPU,
LEMMA UnaSuelta ==
  ASSUME Formas, Tarea({"soltar"})
  PROVE  /\ Formas' /\ DeTarea \in Pids /\ MismoTrabajo /\ (AlFinal' => AlFinal)
         /\ Hay({"soltar"}) /\ ~Hay({"soltar"})'
         /\ Igual(EnLista) /\ Igual(Respuestas) /\ Igual({"RESOURCE_OK"})
         /\ Igual({"matar"}) /\ Igual({"avisar_muerte"})
         /\ \A p \in Pids : ~Saliente(p) /\ (Saliente(p)' <=> p = DeTarea /\ Hay(EnLista))
         /\ tareas' # <<>> => Head(tareas').pid = DeTarea
  <1>1. tareas # <<>> /\ tareas' = Tail(tareas) /\ Head(tareas).tipo = "soltar"
    BY DEF Tarea
  <1>2. PICK p \in Pids, l \in Listas : Avance(p, l)
    BY <1>1, Avanza
  <1>3. Sigue(l)
    BY Siguen
  <1>4. Head(tareas) = Mensaje(Head(l), p) /\ Head(l) = "soltar"
    BY <1>1, <1>2 DEF Avance, Mensaje
  <1>5. DeTarea = p
    BY <1>4 DEF DeTarea, Mensaje
  <1>6. /\ Igual(EnLista) /\ Igual(Respuestas) /\ Igual({"RESOURCE_OK"})
        /\ Igual({"matar"}) /\ Igual({"avisar_muerte"}) /\ Igual(DaVuelo)
        /\ Hay({"soltar"}) /\ ~Hay({"soltar"})'
    BY <1>2, <1>3, <1>4 DEF Avance, Sigue, Igual, EnLista, Respuestas, QuedaBien
  <1>7. MismoTrabajo
    <2>1. Hay(DaVuelo)' => tareas' # <<>>
      BY <1>2, <1>3 DEF Avance, Sigue
    <2> QED
      BY <1>2, <1>5, <1>6, <2>1 DEF MismoTrabajo, Trabaja, Igual, Avance, DeTarea
  <1>8. \A q \in Pids : ~Saliente(q) /\ (Saliente(q)' <=> q = DeTarea /\ Hay(EnLista))
    <2>1. l # <<"finalizar">>
      BY <1>4, Colas
    <2>2. Tail(l) = <<"finalizar">> <=> HayEn(Tail(l), EnLista)
      <3>1. Tail(l) = <<>> \/ Tail(l) = <<"finalizar">>
        BY <1>3, <1>4 DEF Sigue, QuedaBien
      <3>2. HayEn(<<"finalizar">>, EnLista) /\ ~HayEn(<<>>, EnLista)
        BY Uplas DEF EnLista
      <3> QED
        BY <3>1, <3>2
    <2>3. Hay(EnLista) <=> HayEn(Tail(l), EnLista)
      BY <1>2, <1>6 DEF Avance, Igual
    <2> QED
      BY <1>2, <1>5, <2>1, <2>2, <2>3 DEF Avance
  <1>9. AlFinal' => AlFinal
    BY <1>2, <1>3, <1>4 DEF Avance, Sigue, DiceBien
  <1>10. tareas' # <<>> => Head(tareas').pid = DeTarea
    BY <1>2, <1>5 DEF Avance
  <1> QED
    BY <1>2, <1>5, <1>6, <1>7, <1>8, <1>9, <1>10, Avanzan

\* changing the state of the process,
LEMMA UnCambio ==
  ASSUME Formas, Tarea(EnLista)
  PROVE  /\ Formas' /\ DeTarea \in Pids /\ Trabaja(DeTarea) /\ ~AlFinal'
         /\ Hay(EnLista) /\ ~Hay(EnLista)' /\ Igual({"soltar"})
         /\ ~Hay(Respuestas)' /\ ~Hay(Respuestas) /\ ~Hay({"RESOURCE_OK"})
         /\ ~Hay({"RESOURCE_OK"})' /\ ~Hay({"matar"})' /\ ~Hay({"avisar_muerte"})'
         /\ \A p \in Pids : ~Trabaja(p)' /\ ~Saliente(p)'
         /\ \A p \in Pids : Saliente(p) <=> p = DeTarea /\ ~Hay({"soltar"})
         /\ tareas' # <<>> => Head(tareas').pid = DeTarea
  <1>1. tareas # <<>> /\ tareas' = Tail(tareas) /\ Head(tareas).tipo \in EnLista
    BY DEF Tarea
  <1>2. PICK p \in Pids, l \in Listas : Avance(p, l)
    BY <1>1, Avanza
  <1>3. Sigue(l)
    BY Siguen
  <1>4. Head(tareas) = Mensaje(Head(l), p) /\ Head(l) \in EnLista
    BY <1>1, <1>2 DEF Avance, Mensaje
  <1>5. DeTarea = p
    BY <1>4 DEF DeTarea, Mensaje
  <1>6. /\ Hay(EnLista) /\ ~Hay(EnLista)' /\ Igual({"soltar"})
        /\ ~Hay(Respuestas)' /\ ~Hay(Respuestas) /\ ~Hay({"RESOURCE_OK"})
        /\ ~Hay({"RESOURCE_OK"})' /\ ~Hay({"matar"})' /\ ~Hay({"avisar_muerte"})'
        /\ ~Hay(DaVuelo)' /\ Hay(DaVuelo)
    BY <1>2, <1>3, <1>4 DEF Avance, Sigue, Igual, EnLista, Respuestas
  <1>7. \A q \in Pids : Saliente(q) <=> q = DeTarea /\ ~Hay({"soltar"})
    <2>1. l = <<"finalizar">> <=> ~HayEn(l, {"soltar"})
      BY <1>3, <1>4, Uplas DEF Sigue, QuedaBien
    <2> QED
      BY <1>2, <1>5, <2>1 DEF Avance
  <1>8. \A q \in Pids : ~Saliente(q)'
    <2>1. Tail(l) # <<"finalizar">>
      BY <1>3, <1>4, Colas DEF Sigue, DiceBien, EnLista
    <2> QED
      BY <1>2, <2>1 DEF Avance
  <1>9. ~AlFinal'
    <2>1. Tail(l) \notin ListasFalla
      <3>1. \A m \in ListasFalla : HayEn(m, EnLista)
        BY Uplas DEF ListasFalla, EnLista
      <3>2. ~HayEn(Tail(l), EnLista)
        BY <1>3, <1>4 DEF Sigue
      <3> QED
        BY <3>1, <3>2
    <2> QED
      BY <1>2, <2>1 DEF Avance
  <1>10. Trabaja(DeTarea) /\ \A q \in Pids : ~Trabaja(q)'
    BY <1>6 DEF Trabaja, DeTarea
  <1>11. tareas' # <<>> => Head(tareas').pid = DeTarea
    BY <1>2, <1>5 DEF Avance
  <1> QED
    BY <1>2, <1>5, <1>6, <1>7, <1>8, <1>9, <1>10, <1>11, Avanzan

\* answering the CPU,
LEMMA UnaRespuesta ==
  ASSUME Formas, Tarea(Respuestas)
  PROVE  /\ Formas' /\ DeTarea \in Pids /\ SinSaliente
         /\ AlFinal' => Head(tareas).tipo = "RESOURCE_FAIL"
         /\ Igual({"soltar"}) /\ Igual(EnLista) /\ Hay(Respuestas) /\ ~Hay(Respuestas)'
         /\ ~Hay({"RESOURCE_OK"})' /\ Igual({"matar"}) /\ Igual({"avisar_muerte"})
         /\ Hay({"RESOURCE_OK"}) <=> Head(tareas).tipo = "RESOURCE_OK"
         /\ Hay(EnLista) <=> Head(tareas).tipo # "RESOURCE_OK"
         /\ Hay({"soltar"}) <=> Head(tareas).tipo # "RESOURCE_OK"
         /\ Trabaja(DeTarea)
         /\ \A p \in Pids : Trabaja(p)' <=> p = DeTarea /\ Head(tareas).tipo # "RESOURCE_OK"
         /\ tareas' # <<>> => Head(tareas').pid = DeTarea
  <1>1. tareas # <<>> /\ tareas' = Tail(tareas) /\ Head(tareas).tipo \in Respuestas
    BY DEF Tarea
  <1>2. PICK p \in Pids, l \in Listas : Avance(p, l)
    BY <1>1, Avanza
  <1>3. Sigue(l)
    BY Siguen
  <1>4. /\ Head(tareas) = Mensaje(Head(l), p) /\ Head(l) = Head(tareas).tipo
        /\ Head(l) \in {"RESOURCE_OK", "RESOURCE_BLOCKED", "RESOURCE_FAIL"}
    BY <1>1, <1>2 DEF Avance, Mensaje, Respuestas
  <1>5. DeTarea = p
    BY <1>4 DEF DeTarea, Mensaje
  <1>6. /\ ~HayEn(Tail(l), Respuestas) /\ ~HayEn(Tail(l), {"matar"})
        /\ ~HayEn(Tail(l), {"avisar_muerte"})
        /\ HayEn(Tail(l), EnLista) <=> Head(l) # "RESOURCE_OK"
        /\ HayEn(Tail(l), {"soltar"}) <=> Head(l) # "RESOURCE_OK"
    BY <1>3, <1>4 DEF Sigue, QuedaBien
  <1>7. /\ Igual({"soltar"}) /\ Igual(EnLista) /\ Hay(Respuestas) /\ ~Hay(Respuestas)'
        /\ ~Hay({"RESOURCE_OK"})' /\ Igual({"matar"}) /\ Igual({"avisar_muerte"})
        /\ Hay({"RESOURCE_OK"}) <=> Head(l) = "RESOURCE_OK"
        /\ Hay(EnLista) <=> Head(l) # "RESOURCE_OK"
        /\ Hay({"soltar"}) <=> Head(l) # "RESOURCE_OK"
        /\ Hay(DaVuelo) /\ (Hay(DaVuelo)' <=> Head(l) # "RESOURCE_OK")
    BY <1>2, <1>3, <1>4, <1>6 DEF Avance, Sigue, Igual, EnLista, Respuestas
  <1>8. SinSaliente
    <2>1. l # <<"finalizar">>
      BY <1>4, Colas
    <2>2. Tail(l) # <<"finalizar">>
      BY <1>3, <1>4, Colas DEF Sigue, DiceBien
    <2> QED
      BY <1>2, <2>1, <2>2 DEF Avance, SinSaliente
  <1>9. AlFinal' => Head(l) = "RESOURCE_FAIL"
    <2>1. l \notin ListasFalla
      BY <1>4, Colas DEF ListasFalla
    <2> QED
      BY <1>2, <1>3, <2>1 DEF Avance, Sigue, DiceBien
  <1>10. /\ Trabaja(DeTarea)
         /\ \A q \in Pids : Trabaja(q)' <=> q = DeTarea /\ Head(l) # "RESOURCE_OK"
    <2>1. Hay(DaVuelo)' => tareas' # <<>>
      BY <1>2, <1>3 DEF Avance, Sigue
    <2> QED
      BY <1>2, <1>5, <1>7, <2>1 DEF Trabaja, Avance, DeTarea
  <1>11. tareas' # <<>> => Head(tareas').pid = DeTarea
    BY <1>2, <1>5 DEF Avance
  <1> QED
    BY <1>2, <1>4, <1>5, <1>7, <1>8, <1>9, <1>10, <1>11, Avanzan

\* posting podes_eliminar_loko.
LEMMA UnaMuerte ==
  ASSUME Formas, Tarea({"matar"})
  PROVE  /\ Formas' /\ DeTarea \in Pids /\ SinSaliente /\ ~AlFinal'
         /\ Igual({"soltar"}) /\ Igual(EnLista) /\ Igual(Respuestas) /\ Igual({"RESOURCE_OK"})
         /\ Hay({"matar"}) /\ ~Hay({"matar"})'
         /\ Trabaja(DeTarea) /\ \A p \in Pids : ~Trabaja(p)'
         /\ tareas' # <<>> => Head(tareas').pid = DeTarea
  <1>1. tareas # <<>> /\ tareas' = Tail(tareas) /\ Head(tareas).tipo = "matar"
    BY DEF Tarea
  <1>2. PICK p \in Pids, l \in Listas : Avance(p, l)
    BY <1>1, Avanza
  <1>3. Sigue(l)
    BY Siguen
  <1>4. /\ Head(tareas) = Mensaje(Head(l), p) /\ Head(l) = "matar"
        /\ Tail(l) = <<"avisar_muerte">>
    BY <1>1, <1>2, <1>3 DEF Avance, Mensaje, Sigue, QuedaBien
  <1>5. DeTarea = p
    BY <1>4 DEF DeTarea, Mensaje
  <1>6. \A tipos : HayEn(Tail(l), tipos) <=> "avisar_muerte" \in tipos
    <2>1. \A tipos : HayEn(<<"avisar_muerte">>, tipos) <=> "avisar_muerte" \in tipos
      BY Uplas
    <2> QED
      BY <1>4, <2>1
  <1>7. /\ ~HayEn(Tail(l), {"soltar"}) /\ ~HayEn(Tail(l), EnLista) /\ ~HayEn(Tail(l), Respuestas)
        /\ ~HayEn(Tail(l), {"RESOURCE_OK"}) /\ ~HayEn(Tail(l), {"matar"})
        /\ ~HayEn(Tail(l), DaVuelo)
    BY <1>6 DEF EnLista, Respuestas, DaVuelo
  <1>8. /\ Igual({"soltar"}) /\ Igual(EnLista) /\ Igual(Respuestas) /\ Igual({"RESOURCE_OK"})
        /\ Hay({"matar"}) /\ ~Hay({"matar"})' /\ Hay(DaVuelo) /\ ~Hay(DaVuelo)'
    BY <1>2, <1>3, <1>4, <1>7 DEF Avance, Sigue, Igual, EnLista, Respuestas
  <1>9. SinSaliente
    BY <1>2, <1>4, Colas DEF Avance, SinSaliente
  <1>10. ~AlFinal'
    <2>1. <<"avisar_muerte">> \notin ListasFalla
      BY DEF ListasFalla
    <2> QED
      BY <1>2, <1>4, <2>1 DEF Avance
  <1>11. Trabaja(DeTarea) /\ \A q \in Pids : ~Trabaja(q)'
    BY <1>8 DEF Trabaja, DeTarea
  <1>12. tareas' # <<>> => Head(tareas').pid = DeTarea
    BY <1>2, <1>5 DEF Avance
  <1> QED
    BY <1>2, <1>5, <1>8, <1>9, <1>10, <1>11, <1>12, Avanzan
\* recibir_dispatch takes an eviction.
LEMMA UnDesalojo ==
  ASSUME Formas, TypeOK, Recibir
  PROVE  LET m == Head(desalojos).tipo
             p == Head(desalojos).pid
         IN
         /\ Formas' /\ p \in Pids /\ m \in Motivos /\ tareas = <<>> /\ desalojos # <<>>
         /\ desalojos' = Tail(desalojos)
         /\ \A tipos : ~Hay(tipos)
         /\ ~AlFinal /\ ~AlFinal' /\ SinSaliente
         /\ \A q \in Pids : ~Trabaja(q) /\ (Trabaja(q)' <=> q = p /\ m # "RESOURCE_BLOCKED")
         /\ Hay({"soltar"})' <=> Hay(EnLista)'
         /\ Hay(Respuestas)' <=> m \in {"WAIT", "SIGNAL"}
         /\ Hay({"RESOURCE_OK"})' => m \in {"WAIT", "SIGNAL"}
         /\ Hay({"matar"})' <=> m = "KILL_PROCESS"
         /\ Hay({"avisar_muerte"})' => Hay({"matar"})'
         /\ tareas' # <<>> => Head(tareas').pid = p
  <1> DEFINE m == Head(desalojos).tipo
             p == Head(desalojos).pid
  <1>1. /\ tareas = <<>> /\ desalojos # <<>> /\ desalojos' = Tail(desalojos)
        /\ tareas' \in TareasDe(p, m)
    BY DEF Recibir
  <1>2. p \in Pids /\ m \in Motivos
    <2>1. desalojos \in Seq([tipo : Motivos, pid : Pids])
      BY DEF TypeOK
    <2>2. Head(desalojos) \in [tipo : Motivos, pid : Pids]
      BY <1>1, <2>1, HeadTailProperties
    <2> QED
      BY <2>2
  <1>3. <<>> \in Listas \cup {<<>>} /\ <<"finalizar">> \in Listas /\ ListasFalla \subseteq Listas
    BY DEF Listas, ListasFalla
  <1>4. \A q \in Pids, l \in Listas : tareas # Pasos(q, l)
    <2> SUFFICES ASSUME NEW q \in Pids, NEW l \in Listas, tareas = Pasos(q, l) PROVE FALSE
      OBVIOUS
    <2>1. l # <<>>
      BY Primera DEF QuedaBien
    <2>2. tareas # <<>>
      BY <2>1, ListaDe
    <2> QED
      BY <1>1, <2>2
  <1>5. ~AlFinal /\ \A q \in Pids : ~Saliente(q)
    BY <1>3, <1>4 DEF AlFinal, Saliente
  <1>6. \A tipos : ~Hay(tipos)
    BY <1>1 DEF Hay
  <1> HIDE DEF m, p
  <1>7. CASE m = "RESOURCE_BLOCKED"
    <2>1. tareas' = <<>>
      BY <1>1, <1>7 DEF TareasDe
    <2>2. \A tipos : ~Hay(tipos)'
      BY <2>1 DEF Hay
    <2>3. \A q \in Pids, l \in Listas : tareas' # Pasos(q, l)
      BY <1>1, <1>4, <2>1
    <2>4. ~AlFinal' /\ SinSaliente
      BY <1>3, <1>5, <2>3 DEF AlFinal, SinSaliente, Saliente
    <2>5. Formas'
      BY <2>1 DEF Formas
    <2> QED
      BY <1>1, <1>2, <1>5, <1>6, <1>7, <2>1, <2>2, <2>4, <2>5 DEF Trabaja, m, p
  <1>8. CASE m # "RESOURCE_BLOCKED"
    <2>1. m \in Reales
      BY <1>2, <1>8 DEF Reales
    <2>2. PICK l \in Listas : tareas' = Pasos(p, l) /\ EmpiezaBien(l, m)
      BY <1>1, <1>2, <2>1, Comienzos
    <2>3. l # <<>>
      BY Primera DEF QuedaBien
    <2>4. /\ \A tipos : HayDe(tareas', tipos) <=> HayEn(l, tipos)
          /\ \A q \in Pids, k \in Listas : tareas' = Pasos(q, k) <=> q = p /\ k = l
          /\ tareas' # <<>> /\ Head(tareas') = Mensaje(Head(l), p)
      <3> DEFINE t == Pasos(p, l)
      <3>1. t = Pasos(p, l)
        OBVIOUS
      <3> HIDE DEF t
      <3>2. /\ \A tipos : HayDe(t, tipos) <=> HayEn(l, tipos)
            /\ \A q \in Pids, k \in Listas : t = Pasos(q, k) <=> q = p /\ k = l
            /\ t # <<>> /\ Head(t) = Mensaje(Head(l), p)
        BY <1>2, <2>3, <3>1, ListaDe
      <3> QED
        BY <2>2, <3>2 DEF t
    <2>5. \A tipos : Hay(tipos)' <=> HayEn(l, tipos)
      BY <2>4 DEF Hay, HayDe
    <2>6. ~AlFinal' /\ SinSaliente
      BY <1>3, <1>5, <2>2, <2>4 DEF AlFinal, SinSaliente, Saliente, EmpiezaBien
    <2>7. Formas'
      BY <1>2, <2>2 DEF Formas
    <2>8. Head(tareas').pid = p
      BY <2>4 DEF Mensaje
    <2>9. \A q \in Pids : ~Trabaja(q) /\ (Trabaja(q)' <=> q = p)
      BY <1>6, <2>2, <2>5, <2>8 DEF Trabaja, EmpiezaBien
    <2> QED
      BY <1>1, <1>2, <1>5, <1>6, <1>8, <2>2, <2>5, <2>6, <2>7, <2>8, <2>9
         DEF EmpiezaBien, m, p
  <1> QED
    BY <1>7, <1>8
-----------------------------------------------------------------------------
(* Types.                                                                  *)

LEMMA TipoDeLista ==
  ASSUME NEW t, t = <<>> \/ \E p \in Pids, l \in Listas : t = Pasos(p, l)
  PROVE  t \in Seq(Todos(Trabajos))
  <1>1. CASE t = <<>>
    BY <1>1, EmptySeq
  <1>2. CASE \E p \in Pids, l \in Listas : t = Pasos(p, l)
    BY <1>2, ListaDe
  <1> QED
    BY <1>1, <1>2

LEMMA FormasQuietas ==
  ASSUME Formas, UNCHANGED tareas
  PROVE  Formas'
  BY DEF Formas

LEMMA InicioTipos == Init => Tipos
  <1> SUFFICES ASSUME Init PROVE Tipos
    OBVIOUS
  <1> USE DEF Init
  <1>1. TypeOK
    <2>1. estado \in [Pids -> Estados] /\ listos \in Seq(Pids)
      BY DEF Estados
    <2>2. /\ arrancar \in 0 .. MAX_ARRANQUES /\ finalizados \in 0 .. MAX_FINALIZAR
          /\ cpu_libre \in Nat /\ loko \in Nat
      BY CotasAssumption
    <2>3. /\ desalojos \in Seq([tipo : Motivos, pid : Pids])
          /\ tareas \in Seq([tipo : Respuestas \cup {"avisar", "avisar_muerte", "soltar", "listar",
                                                     "bloquear", "finalizar", "matar"}, pid : Pids])
          /\ aCpu \in Seq([tipo : Respuestas \cup {"PCB"}, pid : Pids])
          /\ canal \in Seq(Interrupciones)
      BY EmptySeq
    <2>4. /\ consola \in [en : {"libre", "esperar", "avisar"}, pid : Pids \cup {NULO},
                          vigente : BOOLEAN]
          /\ cpu \in [en : {"libre", "ciclo", "recurso"}, pid : Pids \cup {NULO},
                      respondio : BOOLEAN]
      OBVIOUS
    <2>5. banderas \subseteq Banderas /\ quiebre \in BOOLEAN /\ tardio \in BOOLEAN
      BY DEF Ninguna
    <2> QED
      BY <2>1, <2>2, <2>3, <2>4, <2>5 DEF TypeOK
  <1>2. Formas
    BY DEF Formas
  <1>3. Manos
    BY DEF Manos, Ninguna
  <1> QED
    BY <1>1, <1>2, <1>3 DEF Tipos

\* What a step may do to the CPU and to the messages, type by type.
LEMMA UnMensaje ==
  ASSUME TypeOK
  PROVE  /\ aCpu # <<>> => /\ Head(aCpu).tipo \in Respuestas \cup {"PCB"} /\ Head(aCpu).pid \in Pids
                           /\ Tail(aCpu) \in Seq([tipo : Respuestas \cup {"PCB"}, pid : Pids])
         /\ desalojos # <<>> => Tail(desalojos) \in Seq([tipo : Motivos, pid : Pids])
         /\ canal # <<>> => Head(canal) \in Interrupciones /\ Tail(canal) \in Seq(Interrupciones)
         /\ listos # <<>> => Head(listos) \in Pids /\ Tail(listos) \in Seq(Pids)
         /\ \A p \in Pids : Append(listos, p) \in Seq(Pids)
         /\ \A p \in Pids, t \in Motivos :
              /\ Mensaje(t, p) \in [tipo : Motivos, pid : Pids]
              /\ Append(desalojos, Mensaje(t, p)) \in Seq([tipo : Motivos, pid : Pids])
              /\ <<Mensaje(t, p)>> \in Seq([tipo : Motivos, pid : Pids])
         /\ \A p \in Pids, t \in Respuestas \cup {"PCB"} :
              Append(aCpu, Mensaje(t, p)) \in Seq([tipo : Respuestas \cup {"PCB"}, pid : Pids])
         /\ \A p \in Pids, t \in {"FIN_CLOCK", "KILL_PROCESS"} :
              Append(canal, Mensaje(t, p)) \in Seq(Interrupciones)
  <1> DEFINE A == [tipo : Respuestas \cup {"PCB"}, pid : Pids]
             D == [tipo : Motivos, pid : Pids]
  <1>1. aCpu \in Seq(A) /\ desalojos \in Seq(D) /\ canal \in Seq(Interrupciones)
        /\ listos \in Seq(Pids)
    BY DEF TypeOK
  <1>2. /\ \A p \in Pids, t \in Motivos : Mensaje(t, p) \in D
        /\ \A p \in Pids, t \in Respuestas \cup {"PCB"} : Mensaje(t, p) \in A
        /\ \A p \in Pids, t \in {"FIN_CLOCK", "KILL_PROCESS"} : Mensaje(t, p) \in Interrupciones
    BY DEF Mensaje, Interrupciones
  <1>3. \A m \in A : m.tipo \in Respuestas \cup {"PCB"} /\ m.pid \in Pids
    OBVIOUS
  <1> HIDE DEF A, D
  <1>4. aCpu # <<>> => Head(aCpu) \in A /\ Tail(aCpu) \in Seq(A)
    BY <1>1
  <1>5. /\ desalojos # <<>> => Tail(desalojos) \in Seq(D)
        /\ canal # <<>> => Head(canal) \in Interrupciones /\ Tail(canal) \in Seq(Interrupciones)
        /\ listos # <<>> => Head(listos) \in Pids /\ Tail(listos) \in Seq(Pids)
    BY <1>1
  <1>6. /\ \A p \in Pids : Append(listos, p) \in Seq(Pids)
        /\ \A m \in D : Append(desalojos, m) \in Seq(D) /\ <<m>> \in Seq(D)
        /\ \A m \in A : Append(aCpu, m) \in Seq(A)
        /\ \A m \in Interrupciones : Append(canal, m) \in Seq(Interrupciones)
    BY <1>1
  <1> QED
    BY <1>2, <1>3, <1>4, <1>5, <1>6 DEF A, D
\* Types, by who has the variable.
TipoPlan ==
  /\ estado \in [Pids -> Estados] /\ listos \in Seq(Pids)
  /\ cpu_libre \in Nat /\ corto \in {"esperar", "arrancar"} /\ en_ejecucion \in Pids \cup {NULO}
TipoReloj ==
  arrancar \in 0..MAX_ARRANQUES /\ reloj \in {"esperar", "contar"} /\ flag_cpu_libre \in {0, 1}
TipoDespacho ==
  desalojos \in Seq([tipo : Motivos, pid : Pids]) /\ tareas \in Seq(Todos(Trabajos))
TipoConsola ==
  /\ consola \in [en : {"libre", "esperar", "avisar"}, pid : Pids \cup {NULO}, vigente : BOOLEAN]
  /\ loko \in Nat /\ finalizados \in 0..MAX_FINALIZAR
TipoCpu ==
  /\ aCpu \in Seq([tipo : Respuestas \cup {"PCB"}, pid : Pids])
  /\ cpu \in [en : {"libre", "ciclo", "recurso"}, pid : Pids \cup {NULO}, respondio : BOOLEAN]
  /\ banderas \subseteq Banderas
TipoInt ==
  /\ canal \in Seq(Interrupciones)
  /\ interrupcion \in Interrupciones \cup {Mensaje("ninguna", NULO)}
TipoHistoria == quiebre \in BOOLEAN /\ tardio \in BOOLEAN

LEMMA PorPartes ==
  /\ TypeOK <=> /\ TipoPlan /\ TipoReloj /\ TipoDespacho /\ TipoConsola /\ TipoCpu /\ TipoInt
                /\ TipoHistoria
  /\ TypeOK' <=> /\ TipoPlan' /\ TipoReloj' /\ TipoDespacho' /\ TipoConsola' /\ TipoCpu' /\ TipoInt'
                 /\ TipoHistoria'
  BY DEF TypeOK, TipoPlan, TipoReloj, TipoDespacho, TipoConsola, TipoCpu, TipoInt, TipoHistoria,
         Todos, Trabajos

\* No step, not even one after which the model stops, breaks a type.
LEMMA PasoTipos ==
  ASSUME Tipos, [Next]_vars
  PROVE  Tipos'
  <1> USE DEF varsPlan, varsReloj, varsDespacho, varsConsola, varsCpu, varsInt, historia
  <1>0. /\ TipoPlan /\ TipoReloj /\ TipoDespacho /\ TipoConsola /\ TipoCpu /\ TipoInt
        /\ TipoHistoria /\ TypeOK /\ Formas /\ Manos
    BY PorPartes DEF Tipos
  <1>1. ASSUME NEW p \in Pids, ALaCola(p) PROVE Tipos'
    <2>1. Formas'
      <3>1. UNCHANGED tareas
        BY <1>1 DEF ALaCola, Cambiar
      <3> QED
        BY <1>0, <3>1, FormasQuietas
    <2>2. tareas' \in Seq(Todos(Trabajos))
      BY <2>1, TipoDeLista DEF Formas
    <2>3. TipoDespacho'
      BY <1>0, <1>1, <2>2, UnMensaje
         DEF TipoDespacho, TipoCpu, TipoInt, Manos, Motivos, ALaCola, Cambiar
    <2>4. TipoReloj' /\ TipoCpu' /\ TipoInt' /\ TipoHistoria'
      BY <1>0, <1>1 DEF TipoReloj, TipoCpu, TipoInt, TipoHistoria, ALaCola, Cambiar
    <2>5. TipoPlan'
      BY <1>0, <1>1, UnMensaje DEF TipoPlan, Estados, Manos, ALaCola, Cambiar
    <2>6. TipoConsola'
      BY <1>0, <1>1, UnMensaje DEF TipoConsola, Manos, ALaCola, Cambiar
    <2>7. Manos'
      BY <1>0, <1>1, UnMensaje DEF Manos, TipoPlan, TipoReloj, TipoCpu, ALaCola, Cambiar
    <2> QED
      BY <2>1, <2>3, <2>4, <2>5, <2>6, <2>7, PorPartes DEF Tipos
  <1>2. ASSUME NEW p \in Pids, Finalizar(p) PROVE Tipos'
    <2>1. Formas'
      <3>1. UNCHANGED tareas
        BY <1>2 DEF Finalizar, Mensaje
      <3> QED
        BY <1>0, <3>1, FormasQuietas
    <2>2. tareas' \in Seq(Todos(Trabajos))
      BY <2>1, TipoDeLista DEF Formas
    <2>3. TipoDespacho'
      BY <1>0, <1>2, <2>2, UnMensaje
         DEF TipoDespacho, TipoCpu, TipoInt, Manos, Motivos, Finalizar, Mensaje
    <2>4. TipoPlan' /\ TipoReloj' /\ TipoCpu' /\ TipoHistoria'
      BY <1>0, <1>2 DEF TipoPlan, TipoReloj, TipoCpu, TipoHistoria, Finalizar, Mensaje
    <2>5. TipoConsola'
      BY <1>0, <1>2, CotasAssumption DEF TipoConsola, Finalizar
    <2>6. TipoInt'
      BY <1>0, <1>2, UnMensaje DEF TipoInt, Manos, Finalizar, Mensaje
    <2>7. Manos'
      BY <1>0, <1>2, UnMensaje DEF Manos, TipoPlan, TipoReloj, TipoCpu, Finalizar, Mensaje
    <2> QED
      BY <2>1, <2>3, <2>4, <2>5, <2>6, <2>7, PorPartes DEF Tipos
  <1>3. CASE Despachar
    <2>1. Formas'
      <3>1. UNCHANGED tareas
        BY <1>3 DEF Despachar, Cambiar, Mensaje
      <3> QED
        BY <1>0, <3>1, FormasQuietas
    <2>2. tareas' \in Seq(Todos(Trabajos))
      BY <2>1, TipoDeLista DEF Formas
    <2>3. TipoDespacho'
      BY <1>0, <1>3, <2>2, UnMensaje
         DEF TipoDespacho, TipoCpu, TipoInt, Manos, Motivos, Despachar, Cambiar, Mensaje
    <2>4. TipoReloj' /\ TipoInt' /\ TipoHistoria'
      BY <1>0, <1>3 DEF TipoReloj, TipoInt, TipoHistoria, Despachar, Cambiar, Mensaje
    <2>5. TipoPlan'
      BY <1>0, <1>3, UnMensaje DEF TipoPlan, Estados, Manos, Despachar, Cambiar, Mensaje
    <2>6. TipoConsola'
      BY <1>0, <1>3, UnMensaje DEF TipoConsola, Manos, Despachar, Cambiar, Mensaje
    <2>7. TipoCpu'
      BY <1>0, <1>3, UnMensaje DEF TipoCpu, Banderas, Ninguna, Manos, Despachar, Cambiar, Mensaje
    <2>8. Manos'
      BY <1>0, <1>3, UnMensaje DEF Manos, TipoPlan, TipoReloj, TipoCpu, Despachar, Cambiar, Mensaje
    <2> QED
      BY <2>1, <2>3, <2>4, <2>5, <2>6, <2>7, <2>8, PorPartes DEF Tipos
  <1>4. CASE ArrancarQuantum
    <2>1. Formas'
      <3>1. UNCHANGED tareas
        BY <1>4 DEF ArrancarQuantum
      <3> QED
        BY <1>0, <3>1, FormasQuietas
    <2>2. tareas' \in Seq(Todos(Trabajos))
      BY <2>1, TipoDeLista DEF Formas
    <2>3. TipoDespacho'
      BY <1>0, <1>4, <2>2, UnMensaje
         DEF TipoDespacho, TipoCpu, TipoInt, Manos, Motivos, ArrancarQuantum
    <2>4. TipoConsola' /\ TipoCpu' /\ TipoInt' /\ TipoHistoria'
      BY <1>0, <1>4 DEF TipoConsola, TipoCpu, TipoInt, TipoHistoria, ArrancarQuantum
    <2>5. TipoPlan'
      BY <1>0, <1>4, UnMensaje DEF TipoPlan, Estados, Manos, ArrancarQuantum
    <2>6. TipoReloj'
      BY <1>0, <1>4, CotasAssumption DEF TipoReloj, Manos, ArrancarQuantum
    <2>7. Manos'
      BY <1>0, <1>4, UnMensaje DEF Manos, TipoPlan, TipoReloj, TipoCpu, ArrancarQuantum
    <2> QED
      BY <2>1, <2>3, <2>4, <2>5, <2>6, <2>7, PorPartes DEF Tipos
  <1>5. CASE TomarArranque
    <2>1. Formas'
      <3>1. UNCHANGED tareas
        BY <1>5 DEF TomarArranque, RelojSolo
      <3> QED
        BY <1>0, <3>1, FormasQuietas
    <2>2. tareas' \in Seq(Todos(Trabajos))
      BY <2>1, TipoDeLista DEF Formas
    <2>3. TipoDespacho'
      BY <1>0, <1>5, <2>2, UnMensaje
         DEF TipoDespacho, TipoCpu, TipoInt, Manos, Motivos, TomarArranque, RelojSolo
    <2>4. TipoPlan' /\ TipoConsola' /\ TipoCpu' /\ TipoInt' /\ TipoHistoria'
      BY <1>0, <1>5
         DEF TipoPlan, TipoConsola, TipoCpu, TipoInt, TipoHistoria, TomarArranque, RelojSolo
    <2>5. TipoReloj'
      BY <1>0, <1>5, CotasAssumption DEF TipoReloj, TomarArranque, RelojSolo
    <2>6. Manos'
      BY <1>0, <1>5, CotasAssumption DEF Manos, TipoReloj, TomarArranque, RelojSolo
    <2> QED
      BY <2>1, <2>3, <2>4, <2>5, <2>6, PorPartes DEF Tipos
  <1>6. CASE CpuLibreATiempo
    <2>1. Formas'
      <3>1. UNCHANGED tareas
        BY <1>6 DEF CpuLibreATiempo, RelojSolo
      <3> QED
        BY <1>0, <3>1, FormasQuietas
    <2>2. tareas' \in Seq(Todos(Trabajos))
      BY <2>1, TipoDeLista DEF Formas
    <2>3. TipoDespacho'
      BY <1>0, <1>6, <2>2, UnMensaje
         DEF TipoDespacho, TipoCpu, TipoInt, Manos, Motivos, CpuLibreATiempo, RelojSolo
    <2>4. TipoPlan' /\ TipoConsola' /\ TipoCpu' /\ TipoInt' /\ TipoHistoria'
      BY <1>0, <1>6
         DEF TipoPlan, TipoConsola, TipoCpu, TipoInt, TipoHistoria, CpuLibreATiempo, RelojSolo
    <2>5. TipoReloj'
      BY <1>0, <1>6, UnMensaje DEF TipoReloj, Manos, CpuLibreATiempo, RelojSolo
    <2>6. Manos'
      BY <1>0, <1>6, UnMensaje DEF Manos, TipoPlan, TipoReloj, TipoCpu, CpuLibreATiempo, RelojSolo
    <2> QED
      BY <2>1, <2>3, <2>4, <2>5, <2>6, PorPartes DEF Tipos
  <1>7. CASE Vencer
    <2>1. Formas'
      <3>1. UNCHANGED tareas
        BY <1>7 DEF Vencer, RelojSolo, Mensaje
      <3> QED
        BY <1>0, <3>1, FormasQuietas
    <2>2. tareas' \in Seq(Todos(Trabajos))
      BY <2>1, TipoDeLista DEF Formas
    <2>3. TipoDespacho'
      BY <1>0, <1>7, <2>2, UnMensaje
         DEF TipoDespacho, TipoCpu, TipoInt, Manos, Motivos, Vencer, RelojSolo, Mensaje
    <2>4. TipoPlan' /\ TipoConsola' /\ TipoCpu' /\ TipoHistoria'
      BY <1>0, <1>7 DEF TipoPlan, TipoConsola, TipoCpu, TipoHistoria, Vencer, RelojSolo, Mensaje
    <2>5. TipoReloj'
      BY <1>0, <1>7, UnMensaje DEF TipoReloj, Manos, Vencer, RelojSolo, Mensaje
    <2>6. TipoInt'
      BY <1>0, <1>7, UnMensaje DEF TipoInt, Manos, Vencer, RelojSolo, Mensaje
    <2>7. Manos'
      BY <1>0, <1>7, UnMensaje DEF Manos, TipoPlan, TipoReloj, TipoCpu, Vencer, RelojSolo, Mensaje
    <2> QED
      BY <2>1, <2>3, <2>4, <2>5, <2>6, <2>7, PorPartes DEF Tipos
  <1>8. CASE Recibir
    <2>1. Formas'
      BY <1>0, <1>8, UnDesalojo DEF Recibir, EnLista, Respuestas
    <2>2. tareas' \in Seq(Todos(Trabajos))
      BY <2>1, TipoDeLista DEF Formas
    <2>3. TipoDespacho'
      BY <1>0, <1>8, <2>2, UnMensaje DEF TipoDespacho, TipoCpu, TipoInt, Manos, Motivos, Recibir
    <2>4. TipoPlan' /\ TipoReloj' /\ TipoConsola' /\ TipoCpu' /\ TipoInt' /\ TipoHistoria'
      BY <1>0, <1>8 DEF TipoPlan, TipoReloj, TipoConsola, TipoCpu, TipoInt, TipoHistoria, Recibir
    <2>5. Manos'
      BY <1>0, <1>8, UnMensaje DEF Manos, TipoPlan, TipoReloj, TipoCpu, Recibir
    <2> QED
      BY <2>1, <2>3, <2>4, <2>5, PorPartes DEF Tipos
  <1>9. CASE Avisar
    <2>1. Formas'
      BY <1>0, <1>9, UnAviso DEF Avisar, EnLista, Respuestas
    <2>2. tareas' \in Seq(Todos(Trabajos))
      BY <2>1, TipoDeLista DEF Formas
    <2>3. TipoDespacho'
      BY <1>0, <1>9, <2>2, UnMensaje DEF TipoDespacho, TipoCpu, TipoInt, Manos, Motivos, Avisar
    <2>4. TipoPlan' /\ TipoConsola' /\ TipoCpu' /\ TipoInt'
      BY <1>0, <1>9 DEF TipoPlan, TipoConsola, TipoCpu, TipoInt, Avisar
    <2>5. TipoReloj'
      BY <1>0, <1>9, UnMensaje DEF TipoReloj, Manos, Avisar
    <2>6. TipoHistoria'
      BY <1>0, <1>9, UnMensaje DEF TipoHistoria, Manos, Avisar
    <2>7. Manos'
      BY <1>0, <1>9, UnMensaje DEF Manos, TipoPlan, TipoReloj, TipoCpu, Avisar
    <2> QED
      BY <2>1, <2>3, <2>4, <2>5, <2>6, <2>7, PorPartes DEF Tipos
  <1>10. CASE Soltar
    <2>1. Formas'
      BY <1>0, <1>10, UnaSuelta DEF Soltar, EnLista, Respuestas
    <2>2. tareas' \in Seq(Todos(Trabajos))
      BY <2>1, TipoDeLista DEF Formas
    <2>3. TipoDespacho'
      BY <1>0, <1>10, <2>2, UnMensaje DEF TipoDespacho, TipoCpu, TipoInt, Manos, Motivos, Soltar
    <2>4. TipoReloj' /\ TipoConsola' /\ TipoCpu' /\ TipoInt' /\ TipoHistoria'
      BY <1>0, <1>10 DEF TipoReloj, TipoConsola, TipoCpu, TipoInt, TipoHistoria, Soltar
    <2>5. TipoPlan'
      BY <1>0, <1>10, UnMensaje DEF TipoPlan, Estados, Manos, Soltar
    <2>6. Manos'
      BY <1>0, <1>10, UnMensaje DEF Manos, TipoPlan, TipoReloj, TipoCpu, Soltar
    <2> QED
      BY <2>1, <2>3, <2>4, <2>5, <2>6, PorPartes DEF Tipos
  <1>11. CASE Listar
    <2>1. Formas'
      BY <1>0, <1>11, UnCambio DEF Listar, Tarea, EnLista
    <2>2. tareas' \in Seq(Todos(Trabajos))
      BY <2>1, TipoDeLista DEF Formas
    <2>3. TipoDespacho'
      BY <1>0, <1>11, <2>2, UnMensaje
         DEF TipoDespacho, TipoCpu, TipoInt, Manos, Motivos, Listar, Cambiar
    <2>4. TipoReloj' /\ TipoCpu' /\ TipoInt' /\ TipoHistoria'
      BY <1>0, <1>11 DEF TipoReloj, TipoCpu, TipoInt, TipoHistoria, Listar, Cambiar
    <2>5. TipoPlan'
      <3>1. DeTarea \in Pids
        BY <1>0, <1>11, UnCambio DEF Listar, Tarea, EnLista
      <3> QED
        BY <1>0, <1>11, <3>1, UnMensaje DEF TipoPlan, Estados, Listar, Cambiar
    <2>6. TipoConsola'
      BY <1>0, <1>11, UnMensaje DEF TipoConsola, Manos, Listar, Cambiar
    <2>7. Manos'
      BY <1>0, <1>11, UnMensaje DEF Manos, TipoPlan, TipoReloj, TipoCpu, Listar, Cambiar
    <2> QED
      BY <2>1, <2>3, <2>4, <2>5, <2>6, <2>7, PorPartes DEF Tipos
  <1>12. CASE Retirar
    <2>1. Formas'
      BY <1>0, <1>12, UnCambio DEF Retirar, Tarea, EnLista
    <2>2. tareas' \in Seq(Todos(Trabajos))
      BY <2>1, TipoDeLista DEF Formas
    <2>3. TipoDespacho'
      BY <1>0, <1>12, <2>2, UnMensaje
         DEF TipoDespacho, TipoCpu, TipoInt, Manos, Motivos, Retirar, Cambiar
    <2>4. TipoReloj' /\ TipoCpu' /\ TipoInt' /\ TipoHistoria'
      BY <1>0, <1>12 DEF TipoReloj, TipoCpu, TipoInt, TipoHistoria, Retirar, Cambiar
    <2>5. TipoPlan'
      BY <1>0, <1>12, UnMensaje DEF TipoPlan, Estados, Manos, Retirar, Cambiar
    <2>6. TipoConsola'
      BY <1>0, <1>12, UnMensaje DEF TipoConsola, Manos, Retirar, Cambiar
    <2>7. Manos'
      BY <1>0, <1>12, UnMensaje DEF Manos, TipoPlan, TipoReloj, TipoCpu, Retirar, Cambiar
    <2> QED
      BY <2>1, <2>3, <2>4, <2>5, <2>6, <2>7, PorPartes DEF Tipos
  <1>13. CASE Responder
    <2>1. Formas'
      BY <1>0, <1>13, UnaRespuesta DEF Responder, EnLista, Respuestas
    <2>2. tareas' \in Seq(Todos(Trabajos))
      BY <2>1, TipoDeLista DEF Formas
    <2>3. TipoDespacho'
      BY <1>0, <1>13, <2>2, UnMensaje DEF TipoDespacho, TipoCpu, TipoInt, Manos, Motivos, Responder
    <2>4. TipoPlan' /\ TipoReloj' /\ TipoConsola' /\ TipoInt' /\ TipoHistoria'
      BY <1>0, <1>13 DEF TipoPlan, TipoReloj, TipoConsola, TipoInt, TipoHistoria, Responder
    <2>5. TipoCpu'
      <3>1. tareas # <<>> /\ Head(tareas).tipo \in Respuestas /\ aCpu' = Append(aCpu, Head(tareas))
        BY <1>13 DEF Responder, Tarea, Respuestas
      <3>2. Head(tareas) \in Todos(Trabajos)
        BY <1>0, <3>1, HeadTailProperties DEF TipoDespacho
      <3>3. Head(tareas) \in [tipo : Respuestas \cup {"PCB"}, pid : Pids]
        BY <3>1, <3>2 DEF Todos
      <3>4. aCpu' \in Seq([tipo : Respuestas \cup {"PCB"}, pid : Pids])
        <4> DEFINE A == [tipo : Respuestas \cup {"PCB"}, pid : Pids]
        <4>1. aCpu \in Seq(A) /\ Head(tareas) \in A
          BY <1>0, <3>3 DEF TipoCpu
        <4> HIDE DEF A
        <4>2. aCpu' \in Seq(A)
          BY <3>1, <4>1
        <4> QED
          BY <4>2 DEF A
      <3> QED
        BY <1>0, <1>13, <3>4 DEF TipoCpu, Responder
    <2>6. Manos'
      BY <1>0, <1>13, UnMensaje DEF Manos, TipoPlan, TipoReloj, TipoCpu, Responder
    <2> QED
      BY <2>1, <2>3, <2>4, <2>5, <2>6, PorPartes DEF Tipos
  <1>14. CASE Matar
    <2>1. Formas'
      BY <1>0, <1>14, UnaMuerte DEF Matar, EnLista, Respuestas
    <2>2. tareas' \in Seq(Todos(Trabajos))
      BY <2>1, TipoDeLista DEF Formas
    <2>3. TipoDespacho'
      BY <1>0, <1>14, <2>2, UnMensaje DEF TipoDespacho, TipoCpu, TipoInt, Manos, Motivos, Matar
    <2>4. TipoPlan' /\ TipoReloj' /\ TipoCpu' /\ TipoInt' /\ TipoHistoria'
      BY <1>0, <1>14 DEF TipoPlan, TipoReloj, TipoCpu, TipoInt, TipoHistoria, Matar
    <2>5. TipoConsola'
      BY <1>0, <1>14, UnMensaje DEF TipoConsola, Manos, Matar
    <2>6. Manos'
      BY <1>0, <1>14, UnMensaje DEF Manos, TipoPlan, TipoReloj, TipoCpu, Matar
    <2> QED
      BY <2>1, <2>3, <2>4, <2>5, <2>6, PorPartes DEF Tipos
  <1>15. CASE Finalizado
    <2>1. Formas'
      <3>1. UNCHANGED tareas
        BY <1>15 DEF Finalizado
      <3> QED
        BY <1>0, <3>1, FormasQuietas
    <2>2. tareas' \in Seq(Todos(Trabajos))
      BY <2>1, TipoDeLista DEF Formas
    <2>3. TipoDespacho'
      BY <1>0, <1>15, <2>2, UnMensaje DEF TipoDespacho, TipoCpu, TipoInt, Manos, Motivos, Finalizado
    <2>4. TipoReloj' /\ TipoCpu' /\ TipoInt'
      BY <1>0, <1>15 DEF TipoReloj, TipoCpu, TipoInt, Finalizado
    <2>5. TipoPlan'
      <3>1. estado' = [estado EXCEPT ![consola.pid] = "EXIT"] /\ cpu_libre' = cpu_libre + 1
            /\ UNCHANGED <<listos, corto, en_ejecucion>>
        BY <1>15 DEF Finalizado
      <3>2. estado' \in [Pids -> Estados]
        BY <1>0, <3>1 DEF TipoPlan, Estados
      <3> QED
        BY <1>0, <3>1, <3>2 DEF TipoPlan
    <2>6. TipoConsola'
      BY <1>0, <1>15, UnMensaje DEF TipoConsola, Manos, Finalizado
    <2>7. TipoHistoria'
      BY <1>0, <1>15, UnMensaje DEF TipoHistoria, Manos, Finalizado
    <2>8. Manos'
      BY <1>0, <1>15, UnMensaje DEF Manos, TipoPlan, TipoReloj, TipoCpu, Finalizado
    <2> QED
      BY <2>1, <2>3, <2>4, <2>5, <2>6, <2>7, <2>8, PorPartes DEF Tipos
  <1>16. CASE AvisarFinalizado
    <2>1. Formas'
      <3>1. UNCHANGED tareas
        BY <1>16 DEF AvisarFinalizado
      <3> QED
        BY <1>0, <3>1, FormasQuietas
    <2>2. tareas' \in Seq(Todos(Trabajos))
      BY <2>1, TipoDeLista DEF Formas
    <2>3. TipoDespacho'
      BY <1>0, <1>16, <2>2, UnMensaje
         DEF TipoDespacho, TipoCpu, TipoInt, Manos, Motivos, AvisarFinalizado
    <2>4. TipoPlan' /\ TipoCpu' /\ TipoInt'
      BY <1>0, <1>16 DEF TipoPlan, TipoCpu, TipoInt, AvisarFinalizado
    <2>5. TipoReloj'
      BY <1>0, <1>16, UnMensaje DEF TipoReloj, Manos, AvisarFinalizado
    <2>6. TipoConsola'
      BY <1>0, <1>16, UnMensaje DEF TipoConsola, Manos, AvisarFinalizado
    <2>7. TipoHistoria'
      BY <1>0, <1>16, UnMensaje DEF TipoHistoria, Manos, AvisarFinalizado
    <2>8. Manos'
      BY <1>0, <1>16, UnMensaje DEF Manos, TipoPlan, TipoReloj, TipoCpu, AvisarFinalizado
    <2> QED
      BY <2>1, <2>3, <2>4, <2>5, <2>6, <2>7, <2>8, PorPartes DEF Tipos
  <1>17. CASE RecibirInterrupcion
    <2>1. Formas'
      <3>1. UNCHANGED tareas
        BY <1>17 DEF RecibirInterrupcion, CpuSola
      <3> QED
        BY <1>0, <3>1, FormasQuietas
    <2>2. tareas' \in Seq(Todos(Trabajos))
      BY <2>1, TipoDeLista DEF Formas
    <2>3. TipoDespacho'
      BY <1>0, <1>17, <2>2, UnMensaje
         DEF TipoDespacho, TipoCpu, TipoInt, Manos, Motivos, RecibirInterrupcion, CpuSola
    <2>4. TipoPlan' /\ TipoReloj' /\ TipoConsola' /\ TipoCpu' /\ TipoHistoria'
      BY <1>0, <1>17
         DEF TipoPlan, TipoReloj, TipoConsola, TipoCpu, TipoHistoria, RecibirInterrupcion, CpuSola
    <2>5. TipoInt'
      BY <1>0, <1>17, UnMensaje DEF TipoInt, Manos, RecibirInterrupcion, CpuSola
    <2>6. Manos'
      BY <1>0, <1>17, UnMensaje DEF Manos, Interrupciones, RecibirInterrupcion, CpuSola
    <2> QED
      BY <2>1, <2>3, <2>4, <2>5, <2>6, PorPartes DEF Tipos
  <1>18. CASE TomarPcb
    <2>1. Formas'
      <3>1. UNCHANGED tareas
        BY <1>18 DEF TomarPcb, CpuSola
      <3> QED
        BY <1>0, <3>1, FormasQuietas
    <2>2. tareas' \in Seq(Todos(Trabajos))
      BY <2>1, TipoDeLista DEF Formas
    <2>3. TipoDespacho'
      BY <1>0, <1>18, <2>2, UnMensaje
         DEF TipoDespacho, TipoCpu, TipoInt, Manos, Motivos, TomarPcb, CpuSola
    <2>4. TipoPlan' /\ TipoReloj' /\ TipoConsola' /\ TipoInt' /\ TipoHistoria'
      BY <1>0, <1>18 DEF TipoPlan, TipoReloj, TipoConsola, TipoInt, TipoHistoria, TomarPcb, CpuSola
    <2>5. TipoCpu'
      BY <1>0, <1>18, UnMensaje DEF TipoCpu, Banderas, Ninguna, Manos, TomarPcb, CpuSola
    <2>6. Manos'
      BY <1>0, <1>18, UnMensaje DEF Manos, TipoPlan, TipoReloj, TipoCpu, TomarPcb, CpuSola
    <2> QED
      BY <2>1, <2>3, <2>4, <2>5, <2>6, PorPartes DEF Tipos
  <1>19. CASE Calculo
    <2>1. Formas'
      <3>1. UNCHANGED tareas
        BY <1>19 DEF Calculo, EnCiclo, ConInterrupcion, CheckInterrupt, CpuSola
      <3> QED
        BY <1>0, <3>1, FormasQuietas
    <2>2. tareas' \in Seq(Todos(Trabajos))
      BY <2>1, TipoDeLista DEF Formas
    <2>3. TipoDespacho'
      BY <1>0, <1>19, <2>2, UnMensaje
         DEF TipoDespacho, TipoCpu, TipoInt, Manos, Motivos, Calculo, EnCiclo, ConInterrupcion,
             CheckInterrupt, CpuSola
    <2>4. TipoPlan' /\ TipoReloj' /\ TipoConsola' /\ TipoInt' /\ TipoHistoria'
      BY <1>0, <1>19
         DEF TipoPlan, TipoReloj, TipoConsola, TipoInt, TipoHistoria, Calculo, EnCiclo,
             ConInterrupcion, CheckInterrupt, CpuSola
    <2>5. TipoCpu'
      BY <1>0, <1>19, UnMensaje
         DEF TipoCpu, Banderas, Ninguna, Manos, Calculo, EnCiclo, ConInterrupcion, CheckInterrupt,
             CpuSola
    <2>6. Manos'
      BY <1>0, <1>19 DEF Manos, Calculo, EnCiclo, ConInterrupcion, CheckInterrupt, CpuSola, Ninguna
    <2> QED
      BY <2>1, <2>3, <2>4, <2>5, <2>6, PorPartes DEF Tipos
  <1>20. CASE Exit
    <2>1. Formas'
      <3>1. UNCHANGED tareas
        BY <1>20 DEF Exit, EnCiclo, ConInterrupcion, CheckInterrupt, CpuSola
      <3> QED
        BY <1>0, <3>1, FormasQuietas
    <2>2. tareas' \in Seq(Todos(Trabajos))
      BY <2>1, TipoDeLista DEF Formas
    <2>3. TipoDespacho'
      BY <1>0, <1>20, <2>2, UnMensaje
         DEF TipoDespacho, TipoCpu, TipoInt, Manos, Motivos, Exit, EnCiclo, ConInterrupcion,
             CheckInterrupt, CpuSola
    <2>4. TipoPlan' /\ TipoReloj' /\ TipoConsola' /\ TipoInt' /\ TipoHistoria'
      BY <1>0, <1>20
         DEF TipoPlan, TipoReloj, TipoConsola, TipoInt, TipoHistoria, Exit, EnCiclo,
             ConInterrupcion, CheckInterrupt, CpuSola
    <2>5. TipoCpu'
      BY <1>0, <1>20, UnMensaje
         DEF TipoCpu, Banderas, Ninguna, Manos, Exit, EnCiclo, ConInterrupcion, CheckInterrupt,
             CpuSola
    <2>6. Manos'
      BY <1>0, <1>20, UnMensaje
         DEF Manos, TipoPlan, TipoReloj, TipoCpu, Exit, EnCiclo, ConInterrupcion, CheckInterrupt,
             CpuSola
    <2> QED
      BY <2>1, <2>3, <2>4, <2>5, <2>6, PorPartes DEF Tipos
  <1>21. CASE OperacionIo
    <2>1. Formas'
      <3>1. UNCHANGED tareas
        BY <1>21 DEF OperacionIo, EnCiclo, Enviar, Mensaje, ConInterrupcion, CheckInterrupt, CpuSola
      <3> QED
        BY <1>0, <3>1, FormasQuietas
    <2>2. tareas' \in Seq(Todos(Trabajos))
      BY <2>1, TipoDeLista DEF Formas
    <2>3. TipoDespacho'
      BY <1>0, <1>21, <2>2, UnMensaje
         DEF TipoDespacho, TipoCpu, TipoInt, Manos, Motivos, OperacionIo, EnCiclo, Enviar, Mensaje,
             ConInterrupcion, CheckInterrupt, CpuSola
    <2>4. TipoPlan' /\ TipoReloj' /\ TipoConsola' /\ TipoInt' /\ TipoHistoria'
      BY <1>0, <1>21
         DEF TipoPlan, TipoReloj, TipoConsola, TipoInt, TipoHistoria, OperacionIo, EnCiclo, Enviar,
             Mensaje, ConInterrupcion, CheckInterrupt, CpuSola
    <2>5. TipoCpu'
      BY <1>0, <1>21, UnMensaje
         DEF TipoCpu, Banderas, Ninguna, Manos, OperacionIo, EnCiclo, Enviar, Mensaje,
             ConInterrupcion, CheckInterrupt, CpuSola
    <2>6. Manos'
      BY <1>0, <1>21, UnMensaje
         DEF Manos, TipoPlan, TipoReloj, TipoCpu, OperacionIo, EnCiclo, Enviar, Mensaje,
             ConInterrupcion, CheckInterrupt, CpuSola
    <2> QED
      BY <2>1, <2>3, <2>4, <2>5, <2>6, PorPartes DEF Tipos
  <1>22. CASE ResizeFalla
    <2>1. Formas'
      <3>1. UNCHANGED tareas
        BY <1>22 DEF ResizeFalla, EnCiclo, Enviar, Mensaje, ConInterrupcion, CheckInterrupt, CpuSola
      <3> QED
        BY <1>0, <3>1, FormasQuietas
    <2>2. tareas' \in Seq(Todos(Trabajos))
      BY <2>1, TipoDeLista DEF Formas
    <2>3. TipoDespacho'
      BY <1>0, <1>22, <2>2, UnMensaje
         DEF TipoDespacho, TipoCpu, TipoInt, Manos, Motivos, ResizeFalla, EnCiclo, Enviar, Mensaje,
             ConInterrupcion, CheckInterrupt, CpuSola
    <2>4. TipoPlan' /\ TipoReloj' /\ TipoConsola' /\ TipoInt' /\ TipoHistoria'
      BY <1>0, <1>22
         DEF TipoPlan, TipoReloj, TipoConsola, TipoInt, TipoHistoria, ResizeFalla, EnCiclo, Enviar,
             Mensaje, ConInterrupcion, CheckInterrupt, CpuSola
    <2>5. TipoCpu'
      BY <1>0, <1>22, UnMensaje
         DEF TipoCpu, Banderas, Ninguna, Manos, ResizeFalla, EnCiclo, Enviar, Mensaje,
             ConInterrupcion, CheckInterrupt, CpuSola
    <2>6. Manos'
      BY <1>0, <1>22, UnMensaje
         DEF Manos, TipoPlan, TipoReloj, TipoCpu, ResizeFalla, EnCiclo, Enviar, Mensaje,
             ConInterrupcion, CheckInterrupt, CpuSola
    <2> QED
      BY <2>1, <2>3, <2>4, <2>5, <2>6, PorPartes DEF Tipos
  <1>23. CASE PedirRecurso("WAIT")
    <2>1. Formas'
      <3>1. UNCHANGED tareas
        BY <1>23 DEF PedirRecurso, EnCiclo, Enviar, Mensaje, CpuSola
      <3> QED
        BY <1>0, <3>1, FormasQuietas
    <2>2. tareas' \in Seq(Todos(Trabajos))
      BY <2>1, TipoDeLista DEF Formas
    <2>3. TipoDespacho'
      BY <1>0, <1>23, <2>2, UnMensaje
         DEF TipoDespacho, TipoCpu, TipoInt, Manos, Motivos, PedirRecurso, EnCiclo, Enviar, Mensaje,
             CpuSola
    <2>4. TipoPlan' /\ TipoReloj' /\ TipoConsola' /\ TipoInt' /\ TipoHistoria'
      BY <1>0, <1>23
         DEF TipoPlan, TipoReloj, TipoConsola, TipoInt, TipoHistoria, PedirRecurso, EnCiclo, Enviar,
             Mensaje, CpuSola
    <2>5. TipoCpu'
      BY <1>0, <1>23, UnMensaje
         DEF TipoCpu, Banderas, Ninguna, Manos, PedirRecurso, EnCiclo, Enviar, Mensaje, CpuSola
    <2>6. Manos'
      BY <1>0, <1>23, UnMensaje
         DEF Manos, TipoPlan, TipoReloj, TipoCpu, PedirRecurso, EnCiclo, Enviar, Mensaje, CpuSola
    <2> QED
      BY <2>1, <2>3, <2>4, <2>5, <2>6, PorPartes DEF Tipos
  <1>24. CASE PedirRecurso("SIGNAL")
    <2>1. Formas'
      <3>1. UNCHANGED tareas
        BY <1>24 DEF PedirRecurso, EnCiclo, Enviar, Mensaje, CpuSola
      <3> QED
        BY <1>0, <3>1, FormasQuietas
    <2>2. tareas' \in Seq(Todos(Trabajos))
      BY <2>1, TipoDeLista DEF Formas
    <2>3. TipoDespacho'
      BY <1>0, <1>24, <2>2, UnMensaje
         DEF TipoDespacho, TipoCpu, TipoInt, Manos, Motivos, PedirRecurso, EnCiclo, Enviar, Mensaje,
             CpuSola
    <2>4. TipoPlan' /\ TipoReloj' /\ TipoConsola' /\ TipoInt' /\ TipoHistoria'
      BY <1>0, <1>24
         DEF TipoPlan, TipoReloj, TipoConsola, TipoInt, TipoHistoria, PedirRecurso, EnCiclo, Enviar,
             Mensaje, CpuSola
    <2>5. TipoCpu'
      BY <1>0, <1>24, UnMensaje
         DEF TipoCpu, Banderas, Ninguna, Manos, PedirRecurso, EnCiclo, Enviar, Mensaje, CpuSola
    <2>6. Manos'
      BY <1>0, <1>24, UnMensaje
         DEF Manos, TipoPlan, TipoReloj, TipoCpu, PedirRecurso, EnCiclo, Enviar, Mensaje, CpuSola
    <2> QED
      BY <2>1, <2>3, <2>4, <2>5, <2>6, PorPartes DEF Tipos
  <1>25. CASE LeerRespuesta
    <2>1. Formas'
      <3>1. UNCHANGED tareas
        BY <1>25 DEF LeerRespuesta, ConInterrupcion, CheckInterrupt, CpuSola
      <3> QED
        BY <1>0, <3>1, FormasQuietas
    <2>2. tareas' \in Seq(Todos(Trabajos))
      BY <2>1, TipoDeLista DEF Formas
    <2>3. TipoDespacho'
      BY <1>0, <1>25, <2>2, UnMensaje
         DEF TipoDespacho, TipoCpu, TipoInt, Manos, Motivos, LeerRespuesta, ConInterrupcion,
             CheckInterrupt, CpuSola
    <2>4. TipoPlan' /\ TipoReloj' /\ TipoConsola' /\ TipoInt' /\ TipoHistoria'
      BY <1>0, <1>25
         DEF TipoPlan, TipoReloj, TipoConsola, TipoInt, TipoHistoria, LeerRespuesta,
             ConInterrupcion, CheckInterrupt, CpuSola
    <2>5. TipoCpu'
      BY <1>0, <1>25, UnMensaje
         DEF TipoCpu, Banderas, Ninguna, Manos, LeerRespuesta, ConInterrupcion, CheckInterrupt,
             CpuSola
    <2>6. Manos'
      <3> DEFINE r == Head(aCpu).tipo
                 b == CASE r = "RESOURCE_FAIL" -> {"end_process"}
                        [] r = "RESOURCE_BLOCKED" -> {"bloqueado"}
                        [] OTHER -> {}
      <3>1. /\ cpu' = [cpu EXCEPT !.en = "ciclo", !.respondio = (r # "RESOURCE_OK")]
            /\ banderas' = ConInterrupcion(b, cpu.pid) /\ cpu.en = "recurso" /\ aCpu # <<>>
            /\ UNCHANGED <<corto, arrancar, reloj, en_ejecucion, interrupcion>>
        BY <1>25 DEF LeerRespuesta, CpuSola
      <3>2. r \in Respuestas \cup {"PCB"}
        BY <1>0, <3>1, UnMensaje
      <3>3. banderas' \subseteq b \cup {"interruption"} /\ b \subseteq banderas'
            /\ ("interruption" \in banderas' => interrupcion.tipo # "ninguna")
        BY <3>1 DEF ConInterrupcion, CheckInterrupt
      <3>4. "input_output" \notin b
        OBVIOUS
      <3>5. cpu'.pid = cpu.pid
        BY <1>0, <3>1 DEF TipoCpu
      <3> QED
        BY <1>0, <3>1, <3>3, <3>4, <3>5 DEF Manos
    <2> QED
      BY <2>1, <2>3, <2>4, <2>5, <2>6, PorPartes DEF Tipos
  <1>26. CASE TerminarFin
    <2>1. Formas'
      <3>1. UNCHANGED tareas
        BY <1>26 DEF TerminarFin, Terminar, Mensaje, CpuSola
      <3> QED
        BY <1>0, <3>1, FormasQuietas
    <2>2. tareas' \in Seq(Todos(Trabajos))
      BY <2>1, TipoDeLista DEF Formas
    <2>3. TipoDespacho'
      BY <1>0, <1>26, <2>2, UnMensaje
         DEF TipoDespacho, TipoCpu, TipoInt, Manos, Motivos, TerminarFin, Terminar, Mensaje, CpuSola
    <2>4. TipoPlan' /\ TipoReloj' /\ TipoConsola' /\ TipoInt'
      BY <1>0, <1>26
         DEF TipoPlan, TipoReloj, TipoConsola, TipoInt, TerminarFin, Terminar, Mensaje, CpuSola
    <2>5. TipoCpu'
      BY <1>0, <1>26, UnMensaje
         DEF TipoCpu, Banderas, Ninguna, Manos, TerminarFin, Terminar, Mensaje, CpuSola
    <2>6. TipoHistoria'
      BY <1>0, <1>26, UnMensaje DEF TipoHistoria, Manos, TerminarFin, Terminar, Mensaje, CpuSola
    <2>7. Manos'
      BY <1>0, <1>26, UnMensaje
         DEF Manos, TipoPlan, TipoReloj, TipoCpu, TerminarFin, Terminar, Mensaje, CpuSola
    <2> QED
      BY <2>1, <2>3, <2>4, <2>5, <2>6, <2>7, PorPartes DEF Tipos
  <1>27. CASE AccionInterrupt
    <2>1. Formas'
      <3>1. UNCHANGED tareas
        BY <1>27 DEF AccionInterrupt, Terminar, Mensaje, CpuSola
      <3> QED
        BY <1>0, <3>1, FormasQuietas
    <2>2. tareas' \in Seq(Todos(Trabajos))
      BY <2>1, TipoDeLista DEF Formas
    <2>3. TipoDespacho'
      <3> DEFINE D == [tipo : Motivos, pid : Pids]
                 extra == IF "bloqueado" \in banderas
                          THEN <<Mensaje("RESOURCE_BLOCKED", cpu.pid)>> ELSE <<>>
      <3>1. cpu.pid \in Pids /\ interrupcion.tipo \in Motivos
        BY <1>0, <1>27
           DEF AccionInterrupt, Terminar, Manos, TipoInt, Interrupciones, Motivos, Mensaje
      <3>2. extra \in Seq(D)
        BY <1>0, <3>1, UnMensaje, EmptySeq DEF Motivos
      <3> HIDE DEF extra, D
      <3>3. desalojos' = desalojos \o (<<Mensaje(interrupcion.tipo, cpu.pid)>> \o extra)
        BY <1>27 DEF AccionInterrupt, Terminar, extra
      <3>4. desalojos \in Seq(D)
        BY <1>0 DEF TipoDespacho, D
      <3>5. <<Mensaje(interrupcion.tipo, cpu.pid)>> \in Seq(D)
        BY <1>0, <3>1, UnMensaje DEF D
      <3>6. desalojos' \in Seq(D)
        BY <3>2, <3>3, <3>4, <3>5, ConcatProperties
      <3> QED
        BY <2>2, <3>2, <3>3, <3>4, <3>6 DEF TipoDespacho, D
    <2>4. TipoPlan' /\ TipoReloj' /\ TipoConsola' /\ TipoInt'
      BY <1>0, <1>27
         DEF TipoPlan, TipoReloj, TipoConsola, TipoInt, AccionInterrupt, Terminar, Mensaje, CpuSola
    <2>5. TipoCpu'
      BY <1>0, <1>27, UnMensaje
         DEF TipoCpu, Banderas, Ninguna, Manos, AccionInterrupt, Terminar, Mensaje, CpuSola
    <2>6. TipoHistoria'
      BY <1>0, <1>27, UnMensaje DEF TipoHistoria, Manos, AccionInterrupt, Terminar, Mensaje, CpuSola
    <2>7. Manos'
      BY <1>0, <1>27, UnMensaje
         DEF Manos, TipoPlan, TipoReloj, TipoCpu, AccionInterrupt, Terminar, Mensaje, CpuSola
    <2> QED
      BY <2>1, <2>3, <2>4, <2>5, <2>6, <2>7, PorPartes DEF Tipos
  <1>28. CASE TerminarCallado
    <2>1. Formas'
      <3>1. UNCHANGED tareas
        BY <1>28 DEF TerminarCallado, Terminar, Mensaje, CpuSola
      <3> QED
        BY <1>0, <3>1, FormasQuietas
    <2>2. tareas' \in Seq(Todos(Trabajos))
      BY <2>1, TipoDeLista DEF Formas
    <2>3. TipoDespacho'
      <3> DEFINE D == [tipo : Motivos, pid : Pids]
                 extra == IF "bloqueado" \in banderas
                          THEN <<Mensaje("RESOURCE_BLOCKED", cpu.pid)>> ELSE <<>>
      <3>1. cpu.pid \in Pids
        BY <1>0, <1>28 DEF TerminarCallado, Terminar, Manos
      <3>2. extra \in Seq(D)
        BY <1>0, <3>1, UnMensaje, EmptySeq DEF Motivos
      <3> HIDE DEF extra, D
      <3>3. desalojos' = desalojos \o extra
        BY <1>28 DEF TerminarCallado, Terminar, extra
      <3>4. desalojos \in Seq(D)
        BY <1>0 DEF TipoDespacho, D
      <3>6. desalojos' \in Seq(D)
        BY <3>2, <3>3, <3>4, ConcatProperties
      <3> QED
        BY <2>2, <3>2, <3>3, <3>4, <3>6 DEF TipoDespacho, D
    <2>4. TipoPlan' /\ TipoReloj' /\ TipoConsola' /\ TipoInt'
      BY <1>0, <1>28
         DEF TipoPlan, TipoReloj, TipoConsola, TipoInt, TerminarCallado, Terminar, Mensaje, CpuSola
    <2>5. TipoCpu'
      BY <1>0, <1>28, UnMensaje
         DEF TipoCpu, Banderas, Ninguna, Manos, TerminarCallado, Terminar, Mensaje, CpuSola
    <2>6. TipoHistoria'
      BY <1>0, <1>28, UnMensaje DEF TipoHistoria, Manos, TerminarCallado, Terminar, Mensaje, CpuSola
    <2>7. Manos'
      BY <1>0, <1>28, UnMensaje
         DEF Manos, TipoPlan, TipoReloj, TipoCpu, TerminarCallado, Terminar, Mensaje, CpuSola
    <2> QED
      BY <2>1, <2>3, <2>4, <2>5, <2>6, <2>7, PorPartes DEF Tipos
  <1>29. CASE UNCHANGED vars
    <2>1. Formas'
      <3>1. UNCHANGED tareas
        BY <1>29 DEF vars
      <3> QED
        BY <1>0, <3>1, FormasQuietas
    <2>2. tareas' \in Seq(Todos(Trabajos))
      BY <2>1, TipoDeLista DEF Formas
    <2>3. TipoDespacho'
      BY <1>0, <1>29, <2>2, UnMensaje DEF TipoDespacho, TipoCpu, TipoInt, Manos, Motivos, vars
    <2>4. TipoPlan' /\ TipoReloj' /\ TipoConsola' /\ TipoCpu' /\ TipoInt' /\ TipoHistoria'
      BY <1>0, <1>29 DEF TipoPlan, TipoReloj, TipoConsola, TipoCpu, TipoInt, TipoHistoria, vars
    <2>5. Manos'
      BY <1>0, <1>29, UnMensaje DEF Manos, TipoPlan, TipoReloj, TipoCpu, vars
    <2> QED
      BY <2>1, <2>3, <2>4, <2>5, PorPartes DEF Tipos
  <1> QED
    BY <1>0, <1>1, <1>2, <1>3, <1>4, <1>5, <1>6, <1>7, <1>8, <1>9, <1>10, <1>11, <1>12, <1>13,
       <1>14, <1>15, <1>16, <1>17, <1>18, <1>19, <1>20, <1>21, <1>22, <1>23, <1>24, <1>25, <1>26,
       <1>27, <1>28, <1>29
       DEF Next, HiloCorto, HiloReloj, HiloDespacho, HiloConsola, HiloCpu, Ciclo
-----------------------------------------------------------------------------
(* How many messages there are, and what sending and receiving does.       *)

\* The counts are numbers, and positive when there is something to count.
LEMMA Contados ==
  ASSUME TypeOK
  PROVE  /\ \A p : Mandados(p) \in Nat /\ Echados(p) \in Nat /\ Condenas(p) \in Nat
         /\ Preguntados \in Nat /\ Contestados \in Nat
         /\ \A p : Mandados(p) > 0 <=> \E k \in DOMAIN aCpu : aCpu[k] \in De({"PCB", "RESOURCE_OK"}, p)
         /\ \A p : Echados(p) > 0 <=> \E k \in DOMAIN desalojos : desalojos[k] \in De(Reales, p)
         /\ Preguntados > 0 <=> \E k \in DOMAIN desalojos : desalojos[k] \in Todos(Pedidos)
         /\ Contestados > 0 <=> \E k \in DOMAIN aCpu : aCpu[k] \in Todos(Respuestas)
  <1> DEFINE A == [tipo : Respuestas \cup {"PCB"}, pid : Pids]
             D == [tipo : Motivos, pid : Pids]
  <1>1. aCpu \in Seq(A) /\ desalojos \in Seq(D) /\ loko \in Nat
    BY DEF TypeOK
  <1> HIDE DEF A, D
  <1>2. \A T : Cuantos(aCpu, T) \in Nat /\ Cuantos(desalojos, T) \in Nat
    BY <1>1, PosicionesFinitas
  <1>3. \A T : Cuantos(aCpu, T) > 0 <=> \E k \in DOMAIN aCpu : aCpu[k] \in T
    BY <1>1, CuantosPositivo
  <1>4. \A T : Cuantos(desalojos, T) > 0 <=> \E k \in DOMAIN desalojos : desalojos[k] \in T
    BY <1>1, CuantosPositivo
  <1>5. \A p : Mandados(p) \in Nat /\ Echados(p) \in Nat /\ Condenas(p) \in Nat
    BY <1>1, <1>2 DEF Mandados, Echados, Condenas
  <1>6. Preguntados \in Nat /\ Contestados \in Nat
    BY <1>2 DEF Preguntados, Contestados
  <1>7. \A p : Mandados(p) > 0 <=> \E k \in DOMAIN aCpu : aCpu[k] \in De({"PCB", "RESOURCE_OK"}, p)
    BY <1>3 DEF Mandados
  <1>8. \A p : Echados(p) > 0 <=> \E k \in DOMAIN desalojos : desalojos[k] \in De(Reales, p)
    BY <1>4 DEF Echados
  <1>9. Preguntados > 0 <=> \E k \in DOMAIN desalojos : desalojos[k] \in Todos(Pedidos)
    BY <1>4 DEF Preguntados
  <1>10. Contestados > 0 <=> \E k \in DOMAIN aCpu : aCpu[k] \in Todos(Respuestas)
    BY <1>3 DEF Contestados
  <1> QED
    BY <1>5, <1>6, <1>7, <1>8, <1>9, <1>10

LEMMA MensajeDe ==
  ASSUME NEW t, NEW p, NEW q, NEW S
  PROVE  /\ Mensaje(t, q) \in De(S, p) <=> t \in S /\ q = p
         /\ q \in Pids => (Mensaje(t, q) \in Todos(S) <=> t \in S)
         /\ Mensaje(t, q).tipo = t /\ Mensaje(t, q).pid = q
  BY DEF Mensaje, De, Todos

\* The CPU sends.
LEMMA Manda ==
  ASSUME TypeOK, NEW t \in Motivos, NEW q \in Pids, desalojos' = Append(desalojos, Mensaje(t, q))
  PROVE  /\ \A p : Echados(p)' = Echados(p) + Uno(t # "RESOURCE_BLOCKED" /\ p = q)
         /\ Preguntados' = Preguntados + Uno(t \in Pedidos)
         /\ \A k \in DOMAIN desalojos' : \/ k \in DOMAIN desalojos /\ desalojos'[k] = desalojos[k]
                                         \/ desalojos'[k] = Mensaje(t, q)
  <1> DEFINE D == [tipo : Motivos, pid : Pids]
             m == Mensaje(t, q)
  <1>1. desalojos \in Seq(D) /\ m \in D
    BY DEF TypeOK, Mensaje
  <1>2. \A p : m \in De(Reales, p) <=> t # "RESOURCE_BLOCKED" /\ p = q
    BY MensajeDe DEF Reales
  <1>3. m \in Todos(Pedidos) <=> t \in Pedidos
    BY MensajeDe
  <1> HIDE DEF D, m
  <1>4. desalojos' = Append(desalojos, m)
    BY DEF m
  <1>5. \A T : Cuantos(desalojos', T) = Cuantos(desalojos, T) + (IF m \in T THEN 1 ELSE 0)
    BY <1>1, <1>4, CuantosAppend
  <1>6. \A p : Echados(p)' = Echados(p) + Uno(t # "RESOURCE_BLOCKED" /\ p = q)
    BY <1>2, <1>5 DEF Echados, Uno
  <1>7. Preguntados' = Preguntados + Uno(t \in Pedidos)
    BY <1>3, <1>5 DEF Preguntados, Uno
  <1>8. \A k \in DOMAIN desalojos' : \/ k \in DOMAIN desalojos /\ desalojos'[k] = desalojos[k]
                                     \/ desalojos'[k] = m
    BY <1>1, <1>4
  <1> QED
    BY <1>6, <1>7, <1>8 DEF m

\* recibir_dispatch receives.
LEMMA Recibe ==
  ASSUME TypeOK, desalojos # <<>>, desalojos' = Tail(desalojos)
  PROVE  LET m == Head(desalojos) IN
         /\ m.tipo \in Motivos /\ m.pid \in Pids
         /\ \A p : Echados(p) = Echados(p)' + Uno(m.tipo # "RESOURCE_BLOCKED" /\ p = m.pid)
         /\ Preguntados = Preguntados' + Uno(m.tipo \in Pedidos)
         /\ \A k \in DOMAIN desalojos' :
              \E j \in DOMAIN desalojos : desalojos[j] = desalojos'[k]
         /\ \E j \in DOMAIN desalojos : desalojos[j] = m
  <1> DEFINE D == [tipo : Motivos, pid : Pids]
             m == Head(desalojos)
  <1>1. desalojos \in Seq(D)
    BY DEF TypeOK
  <1> HIDE DEF D
  <1>2. m \in D /\ \E j \in DOMAIN desalojos : desalojos[j] = m
    <2>1. 1 \in DOMAIN desalojos /\ desalojos[1] = Head(desalojos) /\ Head(desalojos) \in D
      BY <1>1
    <2> QED
      BY <2>1
  <1>3. \A T : Cuantos(desalojos, T) = Cuantos(desalojos', T) + (IF m \in T THEN 1 ELSE 0)
    BY <1>1, CuantosTail
  <1>4. \A k \in DOMAIN desalojos' : \E j \in DOMAIN desalojos : desalojos[j] = desalojos'[k]
    <2> TAKE k \in DOMAIN desalojos'
    <2>1. k + 1 \in DOMAIN desalojos /\ desalojos'[k] = desalojos[k + 1]
      BY <1>1
    <2> QED
      BY <2>1
  <1> HIDE DEF m
  <1>5. m.tipo \in Motivos /\ m.pid \in Pids /\ m = Mensaje(m.tipo, m.pid)
    BY <1>2 DEF D, Mensaje
  <1>6. \A p : m \in De(Reales, p) <=> m.tipo # "RESOURCE_BLOCKED" /\ p = m.pid
    <2> TAKE p
    <2>1. Mensaje(m.tipo, m.pid) \in De(Reales, p) <=> m.tipo \in Reales /\ m.pid = p
      BY MensajeDe
    <2> QED
      BY <1>5, <2>1 DEF Reales
  <1>7. m \in Todos(Pedidos) <=> m.tipo \in Pedidos
    BY <1>2, <1>5 DEF Todos, D, Mensaje
  <1>8. \A p : Echados(p) = Echados(p)' + Uno(m.tipo # "RESOURCE_BLOCKED" /\ p = m.pid)
    BY <1>3, <1>6 DEF Echados, Uno
  <1>9. Preguntados = Preguntados' + Uno(m.tipo \in Pedidos)
    BY <1>3, <1>7 DEF Preguntados, Uno
  <1> QED
    BY <1>2, <1>4, <1>5, <1>8, <1>9 DEF m

\* The kernel sends a PCB or an answer.
LEMMA Envia ==
  ASSUME TypeOK, NEW t \in Respuestas \cup {"PCB"}, NEW q \in Pids,
         aCpu' = Append(aCpu, Mensaje(t, q))
  PROVE  /\ \A p : Mandados(p)' = Mandados(p) + Uno(t \in {"PCB", "RESOURCE_OK"} /\ p = q)
         /\ Contestados' = Contestados + Uno(t \in Respuestas)
         /\ \A k \in DOMAIN aCpu' : \/ k \in DOMAIN aCpu /\ aCpu'[k] = aCpu[k]
                                    \/ aCpu'[k] = Mensaje(t, q)
         /\ \A k \in DOMAIN aCpu : k \in DOMAIN aCpu' /\ aCpu'[k] = aCpu[k]
         /\ \E k \in DOMAIN aCpu' : aCpu'[k] = Mensaje(t, q)
         /\ aCpu' # <<>> /\ Head(aCpu') = IF aCpu = <<>> THEN Mensaje(t, q) ELSE Head(aCpu)
  <1> DEFINE A == [tipo : Respuestas \cup {"PCB"}, pid : Pids]
             m == Mensaje(t, q)
  <1>1. aCpu \in Seq(A) /\ m \in A
    BY DEF TypeOK, Mensaje
  <1>2. \A p : m \in De({"PCB", "RESOURCE_OK"}, p) <=> t \in {"PCB", "RESOURCE_OK"} /\ p = q
    BY MensajeDe
  <1>3. m \in Todos(Respuestas) <=> t \in Respuestas
    BY MensajeDe
  <1> HIDE DEF A, m
  <1>4. aCpu' = Append(aCpu, m)
    BY DEF m
  <1>5. \A T : Cuantos(aCpu', T) = Cuantos(aCpu, T) + (IF m \in T THEN 1 ELSE 0)
    BY <1>1, <1>4, CuantosAppend
  <1>6. \A p : Mandados(p)' = Mandados(p) + Uno(t \in {"PCB", "RESOURCE_OK"} /\ p = q)
    BY <1>2, <1>5 DEF Mandados, Uno
  <1>7. Contestados' = Contestados + Uno(t \in Respuestas)
    BY <1>3, <1>5 DEF Contestados, Uno
  <1>8. \A k \in DOMAIN aCpu' : \/ k \in DOMAIN aCpu /\ aCpu'[k] = aCpu[k]
                                \/ aCpu'[k] = m
    BY <1>1, <1>4
  <1>9. \A k \in DOMAIN aCpu : k \in DOMAIN aCpu' /\ aCpu'[k] = aCpu[k]
    BY <1>1, <1>4
  <1>10. \E k \in DOMAIN aCpu' : aCpu'[k] = m
    <2>1. Len(aCpu) + 1 \in DOMAIN aCpu' /\ aCpu'[Len(aCpu) + 1] = m
      BY <1>1, <1>4
    <2> QED
      BY <2>1
  <1>11. aCpu' # <<>> /\ Head(aCpu') = IF aCpu = <<>> THEN m ELSE Head(aCpu)
    BY <1>1, <1>4
  <1> QED
    BY <1>6, <1>7, <1>8, <1>9, <1>10, <1>11 DEF m

\* The CPU receives.
LEMMA Atiende ==
  ASSUME TypeOK, aCpu # <<>>, aCpu' = Tail(aCpu)
  PROVE  LET m == Head(aCpu) IN
         /\ m.tipo \in Respuestas \cup {"PCB"} /\ m.pid \in Pids
         /\ \A p : Mandados(p) = Mandados(p)' + Uno(m.tipo \in {"PCB", "RESOURCE_OK"} /\ p = m.pid)
         /\ Contestados = Contestados' + Uno(m.tipo \in Respuestas)
         /\ \A k \in DOMAIN aCpu' : \E j \in DOMAIN aCpu : aCpu[j] = aCpu'[k]
         /\ \A j \in DOMAIN aCpu : aCpu[j] = m \/ \E k \in DOMAIN aCpu' : aCpu'[k] = aCpu[j]
         /\ \E j \in DOMAIN aCpu : aCpu[j] = m
  <1> DEFINE A == [tipo : Respuestas \cup {"PCB"}, pid : Pids]
             m == Head(aCpu)
  <1>1. aCpu \in Seq(A)
    BY DEF TypeOK
  <1> HIDE DEF A
  <1>2. m \in A /\ \E j \in DOMAIN aCpu : aCpu[j] = m
    <2>1. 1 \in DOMAIN aCpu /\ aCpu[1] = Head(aCpu) /\ Head(aCpu) \in A
      BY <1>1
    <2> QED
      BY <2>1
  <1>3. \A T : Cuantos(aCpu, T) = Cuantos(aCpu', T) + (IF m \in T THEN 1 ELSE 0)
    BY <1>1, CuantosTail
  <1>4. \A k \in DOMAIN aCpu' : \E j \in DOMAIN aCpu : aCpu[j] = aCpu'[k]
    <2> TAKE k \in DOMAIN aCpu'
    <2>1. k + 1 \in DOMAIN aCpu /\ aCpu'[k] = aCpu[k + 1]
      BY <1>1
    <2> QED
      BY <2>1
  <1>5. \A j \in DOMAIN aCpu : aCpu[j] = m \/ \E k \in DOMAIN aCpu' : aCpu'[k] = aCpu[j]
    <2> TAKE j \in DOMAIN aCpu
    <2>1. CASE j = 1
      BY <1>1, <2>1
    <2>2. CASE j # 1
      <3>1. j - 1 \in DOMAIN aCpu' /\ aCpu'[j - 1] = aCpu[j]
        BY <1>1, <2>2
      <3> QED
        BY <3>1
    <2> QED
      BY <2>1, <2>2
  <1> HIDE DEF m
  <1>6. m.tipo \in Respuestas \cup {"PCB"} /\ m.pid \in Pids /\ m = Mensaje(m.tipo, m.pid)
    BY <1>2 DEF A, Mensaje
  <1>7. \A p : m \in De({"PCB", "RESOURCE_OK"}, p)
                 <=> m.tipo \in {"PCB", "RESOURCE_OK"} /\ p = m.pid
    <2> TAKE p
    <2>1. Mensaje(m.tipo, m.pid) \in De({"PCB", "RESOURCE_OK"}, p)
            <=> m.tipo \in {"PCB", "RESOURCE_OK"} /\ m.pid = p
      BY MensajeDe
    <2> QED
      BY <1>6, <2>1
  <1>8. m \in Todos(Respuestas) <=> m.tipo \in Respuestas
    BY <1>2, <1>6 DEF Todos, A, Mensaje
  <1>9. \A p : Mandados(p) = Mandados(p)' + Uno(m.tipo \in {"PCB", "RESOURCE_OK"} /\ p = m.pid)
    BY <1>3, <1>7 DEF Mandados, Uno
  <1>10. Contestados = Contestados' + Uno(m.tipo \in Respuestas)
    BY <1>3, <1>8 DEF Contestados, Uno
  <1> QED
    BY <1>2, <1>4, <1>5, <1>6, <1>9, <1>10 DEF m
\* The CPU answers when its cycle ends, and a RESOURCE_BLOCKED may follow.
LEMMA Despide ==
  ASSUME TypeOK, NEW t \in Motivos, NEW q \in Pids,
         NEW e \in {<<>>, <<Mensaje("RESOURCE_BLOCKED", q)>>},
         desalojos' = desalojos \o (<<Mensaje(t, q)>> \o e)
  PROVE  /\ \A p : Echados(p)' = Echados(p) + Uno(t # "RESOURCE_BLOCKED" /\ p = q)
         /\ Preguntados' = Preguntados + Uno(t \in Pedidos)
         /\ \A k \in DOMAIN desalojos' : \/ k \in DOMAIN desalojos /\ desalojos'[k] = desalojos[k]
                                         \/ desalojos'[k] = Mensaje(t, q)
                                         \/ desalojos'[k] = Mensaje("RESOURCE_BLOCKED", q)
  <1> DEFINE D == [tipo : Motivos, pid : Pids]
             m == Mensaje(t, q)
             b == Mensaje("RESOURCE_BLOCKED", q)
             s == Append(desalojos, m)
  <1>1. desalojos \in Seq(D) /\ m \in D /\ b \in D
    BY DEF TypeOK, Mensaje, Motivos
  <1>2. /\ \A p : m \in De(Reales, p) <=> t # "RESOURCE_BLOCKED" /\ p = q
        /\ \A p : b \notin De(Reales, p)
    BY MensajeDe DEF Reales
  <1>3. (m \in Todos(Pedidos) <=> t \in Pedidos) /\ b \notin Todos(Pedidos)
    <2>1. "RESOURCE_BLOCKED" \notin Pedidos
      BY DEF Pedidos
    <2> QED
      BY <2>1, MensajeDe
  <1> HIDE DEF D, m, b
  <1>4. /\ s \in Seq(D) /\ s = desalojos \o <<m>>
        /\ <<m>> \in Seq(D) /\ <<b>> \in Seq(D)
        /\ Append(s, b) = s \o <<b>>
    <2>1. <<m>> \in Seq(D) /\ <<b>> \in Seq(D)
      BY <1>1
    <2>2. s \in Seq(D) /\ s = desalojos \o <<m>>
      BY <1>1, AppendIsConcat
    <2> HIDE DEF s
    <2> QED
      BY <1>1, <2>1, <2>2, AppendIsConcat
  <1>5. desalojos' = s \/ desalojos' = Append(s, b)
    <2>1. CASE e = <<>>
      <3>1. <<m>> \o e = <<m>>
        BY <1>4, <2>1, ConcatEmptySeq
      <3> QED
        BY <1>4, <3>1 DEF m
    <2>2. CASE e = <<b>>
      <3>1. (desalojos \o <<m>>) \o <<b>> = desalojos \o (<<m>> \o <<b>>)
        BY <1>1, <1>4, ConcatAssociative
      <3> QED
        BY <1>4, <2>2, <3>1 DEF m
    <2> QED
      BY <2>1, <2>2 DEF b
  <1>6. \A T : Cuantos(s, T) = Cuantos(desalojos, T) + (IF m \in T THEN 1 ELSE 0)
    BY <1>1, CuantosAppend
  <1>7. /\ \A k \in DOMAIN s : \/ k \in DOMAIN desalojos /\ s[k] = desalojos[k]
                               \/ s[k] = m
    BY <1>1
  <1> HIDE DEF s
  <1>8. \A T : Cuantos(Append(s, b), T) = Cuantos(s, T) + (IF b \in T THEN 1 ELSE 0)
    BY <1>1, <1>4, CuantosAppend
  <1>9. /\ \A k \in DOMAIN Append(s, b) : \/ k \in DOMAIN s /\ Append(s, b)[k] = s[k]
                                          \/ Append(s, b)[k] = b
    BY <1>1, <1>4
  <1>10. \A T : b \notin T => Cuantos(Append(s, b), T) = Cuantos(s, T)
    <2>1. \A T : Cuantos(s, T) \in Nat
      BY <1>4, PosicionesFinitas
    <2> QED
      BY <1>8, <2>1
  <1>11. \A T : b \notin T => Cuantos(desalojos', T) = Cuantos(desalojos, T) + (IF m \in T THEN 1 ELSE 0)
    BY <1>5, <1>6, <1>10
  <1>12. \A p : Echados(p)' = Echados(p) + Uno(t # "RESOURCE_BLOCKED" /\ p = q)
    BY <1>2, <1>11 DEF Echados, Uno
  <1>13. Preguntados' = Preguntados + Uno(t \in Pedidos)
    BY <1>3, <1>11 DEF Preguntados, Uno
  <1>14. \A k \in DOMAIN desalojos' : \/ k \in DOMAIN desalojos /\ desalojos'[k] = desalojos[k]
                                      \/ desalojos'[k] = m \/ desalojos'[k] = b
    BY <1>5, <1>7, <1>9
  <1> QED
    BY <1>12, <1>13, <1>14 DEF m, b

\* Or only that, or nothing.
LEMMA Calla ==
  ASSUME TypeOK, NEW q \in Pids, NEW e \in {<<>>, <<Mensaje("RESOURCE_BLOCKED", q)>>},
         desalojos' = desalojos \o e
  PROVE  /\ \A p : Echados(p)' = Echados(p)
         /\ Preguntados' = Preguntados
         /\ \A k \in DOMAIN desalojos' : \/ k \in DOMAIN desalojos /\ desalojos'[k] = desalojos[k]
                                         \/ desalojos'[k] = Mensaje("RESOURCE_BLOCKED", q)
  <1> DEFINE D == [tipo : Motivos, pid : Pids]
             b == Mensaje("RESOURCE_BLOCKED", q)
  <1>1. desalojos \in Seq(D) /\ b \in D
    BY DEF TypeOK, Mensaje, Motivos
  <1>2. CASE e = <<>>
    <2>1. desalojos' = desalojos
      BY <1>1, <1>2, ConcatEmptySeq
    <2> QED
      BY <2>1 DEF Echados, Preguntados
  <1>3. CASE e = <<b>>
    <2>1. desalojos' = Append(desalojos, b)
      <3> HIDE DEF D, b
      <3>1. Append(desalojos, b) = desalojos \o <<b>>
        BY <1>1, AppendIsConcat
      <3> QED
        BY <1>3, <3>1
    <2>2. "RESOURCE_BLOCKED" \in Motivos /\ "RESOURCE_BLOCKED" \notin Pedidos
      BY DEF Motivos, Pedidos
    <2>3. /\ \A p : Echados(p)' = Echados(p) + Uno("RESOURCE_BLOCKED" # "RESOURCE_BLOCKED" /\ p = q)
          /\ Preguntados' = Preguntados + Uno("RESOURCE_BLOCKED" \in Pedidos)
          /\ \A k \in DOMAIN desalojos' : \/ k \in DOMAIN desalojos /\ desalojos'[k] = desalojos[k]
                                          \/ desalojos'[k] = b
      BY <2>1, <2>2, Manda
    <2>4. (\A p : Echados(p) \in Nat) /\ Preguntados \in Nat
      BY Contados
    <2>5. (\A p : Echados(p)' = Echados(p)) /\ Preguntados' = Preguntados
      BY <2>2, <2>3, <2>4 DEF Uno
    <2> QED
      BY <2>3, <2>5
  <1> QED
    BY <1>2, <1>3

-----------------------------------------------------------------------------
(* What the counts say.                                                    *)

\* Whatever is in flight for a process is the only thing that is.
LEMMA Unico ==
  ASSUME TypeOK, Vuelo, NEW p \in Pids
  PROVE  /\ Mandados(p) > 0 => /\ estado[p] = "EXEC" /\ Mandados(p) = 1 /\ ~Activa(p)
                               /\ Echados(p) = 0 /\ ~Trabaja(p) /\ Condenas(p) = 0
         /\ Activa(p) => /\ estado[p] = "EXEC" /\ Mandados(p) = 0
                         /\ Echados(p) = 0 /\ ~Trabaja(p) /\ Condenas(p) = 0
         /\ Echados(p) > 0 => /\ estado[p] = "EXEC" /\ Mandados(p) = 0 /\ ~Activa(p)
                              /\ Echados(p) = 1 /\ ~Trabaja(p) /\ Condenas(p) = 0
         /\ Trabaja(p) => /\ estado[p] = "EXEC" /\ Mandados(p) = 0 /\ ~Activa(p)
                          /\ Echados(p) = 0 /\ Condenas(p) = 0
         /\ Condenas(p) > 0 => /\ estado[p] = "EXEC" /\ Mandados(p) = 0 /\ ~Activa(p)
                               /\ Echados(p) = 0 /\ ~Trabaja(p) /\ Condenas(p) = 1
         /\ estado[p] # "EXEC" => /\ Mandados(p) = 0 /\ ~Activa(p) /\ Echados(p) = 0
                                  /\ ~Trabaja(p) /\ Condenas(p) = 0
  <1>1. Mandados(p) \in Nat /\ Echados(p) \in Nat /\ Condenas(p) \in Nat
    BY Contados
  <1>2. Mandados(p) + Uno(Activa(p)) + Echados(p) + Uno(Trabaja(p)) + Condenas(p)
          <= Uno(estado[p] = "EXEC")
    BY DEF Vuelo, EnVuelo
  <1>3. /\ Uno(Activa(p)) = IF Activa(p) THEN 1 ELSE 0
        /\ Uno(Trabaja(p)) = IF Trabaja(p) THEN 1 ELSE 0
        /\ Uno(estado[p] = "EXEC") = IF estado[p] = "EXEC" THEN 1 ELSE 0
    BY DEF Uno
  <1> QED
    BY <1>1, <1>2, <1>3

\* A process that is about to be ended has recibir_dispatch on it.
LEMMA SalienteTrabaja ==
  ASSUME NEW p \in Pids, Saliente(p)
  PROVE  Trabaja(p) /\ Hay(EnLista) /\ ~Hay({"soltar"}) /\ ~Hay(Respuestas)
  <1>1. <<"finalizar">> \in Listas \cup {<<>>} /\ <<"finalizar">> # <<>>
    BY Colas DEF Listas, ListasFalla
  <1> DEFINE l == <<"finalizar">>
             t == Pasos(p, l)
  <1>2. t = Pasos(p, l)
    OBVIOUS
  <1> HIDE DEF t
  <1>3. (\A tipos : HayDe(t, tipos) <=> HayEn(l, tipos)) /\ Head(t) = Mensaje("finalizar", p)
    BY <1>1, <1>2, ListaDe, Colas
  <1>4. tareas = t
    BY <1>2 DEF Saliente
  <1>5. HayEn(l, DaVuelo) /\ HayEn(l, EnLista) /\ ~HayEn(l, {"soltar"}) /\ ~HayEn(l, Respuestas)
    BY Uplas DEF DaVuelo, EnLista, Respuestas
  <1> QED
    BY <1>3, <1>4, <1>5 DEF Hay, HayDe, Trabaja, Mensaje

\* recibir_dispatch has an answer to give, about a process that works.
LEMMA RespuestaPendiente ==
  ASSUME Formas, Hay(Respuestas)
  PROVE  Head(tareas).pid \in Pids /\ Trabaja(Head(tareas).pid)
  <1>1. tareas # <<>>
    BY DEF Hay
  <1>2. PICK p \in Pids, l \in Listas : tareas = Pasos(p, l)
    BY <1>1 DEF Formas
  <1>3. QuedaBien(l) /\ DiceBien(l) /\ Sigue(l) /\ l # <<>>
    BY Primera, Resto, Siguen DEF QuedaBien
  <1>4. (\A tipos : HayDe(tareas, tipos) <=> HayEn(l, tipos)) /\ Head(tareas) = Mensaje(Head(l), p)
    BY <1>2, <1>3, ListaDe
  <1>5. HayEn(l, Respuestas)
    BY <1>4 DEF Hay, HayDe
  <1>6. Head(l) \in {"RESOURCE_OK", "RESOURCE_BLOCKED", "RESOURCE_FAIL"}
    BY <1>3, <1>5 DEF DiceBien, Respuestas
  <1>7. HayEn(l, {"RESOURCE_OK"}) \/ HayEn(l, EnLista)
    BY <1>3, <1>6 DEF Sigue, QuedaBien
  <1>8. HayEn(l, DaVuelo)
    BY <1>3, <1>7 DEF Sigue
  <1> QED
    BY <1>2, <1>4, <1>8 DEF Hay, HayDe, Trabaja, Mensaje

\* What the CPU works on has the CPU.
LEMMA Ocupado ==
  ASSUME Tipos, Orden, NEW p \in Pids,
         Mandados(p) > 0 \/ Activa(p) \/ Echados(p) > 0 \/ Condenas(p) > 0
           \/ (Trabaja(p) /\ ~Saliente(p))
  PROVE  Ocupa(p) /\ en_ejecucion = p /\ cpu_libre = 0
  <1>1. TypeOK /\ Vuelo /\ Ficha
    BY DEF Tipos, Orden
  <1>2. estado[p] = "EXEC" /\ ~Saliente(p)
    BY <1>1, Unico, SalienteTrabaja
  <1>3. Ocupa(p) /\ en_ejecucion = p
    BY <1>1, <1>2 DEF Ocupa, Ficha
  <1>4. cpu_libre \in Nat /\ cpu_libre + Uno(TRUE) + Uno(Hay({"soltar"}) /\ ~CambiaEstado) = 1
    <2>1. (\E q \in Pids : Ocupa(q)) <=> TRUE
      BY <1>3
    <2> QED
      BY <1>1, <2>1 DEF TypeOK, Ficha
  <1> QED
    BY <1>3, <1>4 DEF Uno
-----------------------------------------------------------------------------
(* cola_procesos_ready.                                                    *)

LEMMA ColaQuieta ==
  ASSUME EnCola, UNCHANGED <<listos, estado>>
  PROVE  EnCola'
  BY DEF EnCola

LEMMA ColaCrece ==
  ASSUME TypeOK, EnCola, NEW q \in Pids, estado[q] # "READY",
         listos' = Append(listos, q), estado' = [estado EXCEPT ![q] = "READY"]
  PROVE  EnCola'
  <1>1. listos \in Seq(Pids) /\ estado \in [Pids -> Estados]
    BY DEF TypeOK
  <1> DEFINE n == Len(listos)
  <1>2. /\ n \in Nat /\ DOMAIN listos = 1 .. n /\ DOMAIN listos' = 1 .. (n + 1)
        /\ listos'[n + 1] = q /\ \A k \in 1 .. n : listos'[k] = listos[k] /\ listos[k] \in Pids
    BY <1>1
  <1>3. /\ estado'[q] = "READY" /\ \A p \in Pids \ {q} : estado'[p] = estado[p]
    BY <1>1
  <1>4. \A k \in 1 .. n : listos[k] # q
    BY <1>2 DEF EnCola
  <1> HIDE DEF n
  <1>5. \A k \in 1 .. (n + 1) : k \in 1 .. n \/ k = n + 1
    BY <1>2
  <1>6. n + 1 \in 1 .. (n + 1) /\ \A k \in 1 .. n : k \in 1 .. (n + 1)
    BY <1>2
  <1>7. \A j, k \in DOMAIN listos' : listos'[j] = listos'[k] => j = k
    BY <1>2, <1>4, <1>5 DEF EnCola
  <1>8. ASSUME NEW p \in Pids
        PROVE  estado'[p] = "READY" <=> \E k \in DOMAIN listos' : listos'[k] = p
    <2>1. CASE p = q
      BY <1>2, <1>3, <1>6, <2>1
    <2>2. CASE p # q
      <3>1. estado[p] = "READY" <=> \E k \in 1 .. n : listos[k] = p
        BY <1>2 DEF EnCola
      <3> QED
        BY <1>2, <1>3, <1>5, <1>6, <2>2, <3>1
    <2> QED
      BY <2>1, <2>2
  <1> QED
    BY <1>7, <1>8 DEF EnCola

LEMMA ColaAtiende ==
  ASSUME TypeOK, EnCola, listos # <<>>, listos' = Tail(listos),
         estado' = [estado EXCEPT ![Head(listos)] = "EXEC"]
  PROVE  EnCola' /\ Head(listos) \in Pids /\ estado[Head(listos)] = "READY"
  <1>1. listos \in Seq(Pids) /\ estado \in [Pids -> Estados]
    BY DEF TypeOK
  <1> DEFINE n == Len(listos)
             q == Head(listos)
  <1>2. /\ n \in Nat \ {0} /\ DOMAIN listos = 1 .. n /\ DOMAIN listos' = 1 .. (n - 1)
        /\ listos[1] = q /\ q \in Pids /\ \A k \in 1 .. (n - 1) : listos'[k] = listos[k + 1]
    BY <1>1
  <1>3. /\ estado'[q] = "EXEC" /\ \A p \in Pids \ {q} : estado'[p] = estado[p]
    BY <1>1, <1>2
  <1> HIDE DEF n, q
  <1>4. /\ 1 \in 1 .. n /\ \A k \in 1 .. (n - 1) : k + 1 \in 1 .. n /\ k + 1 # 1
        /\ \A k \in 1 .. n : k = 1 \/ (k - 1 \in 1 .. (n - 1) /\ (k - 1) + 1 = k)
    BY <1>2
  <1>5. estado[q] = "READY"
    BY <1>2, <1>4 DEF EnCola
  <1>6. \A j, k \in DOMAIN listos' : listos'[j] = listos'[k] => j = k
    <2> TAKE j, k \in DOMAIN listos'
    <2>1. listos'[j] = listos'[k] => j + 1 = k + 1
      BY <1>2, <1>4 DEF EnCola
    <2> QED
      BY <1>2, <2>1
  <1>7. ASSUME NEW p \in Pids
        PROVE  estado'[p] = "READY" <=> \E k \in DOMAIN listos' : listos'[k] = p
    <2>0. estado[p] = "READY" <=> \E k \in 1 .. n : listos[k] = p
      BY <1>2 DEF EnCola
    <2>1. CASE p = q
      <3>1. \A k \in 1 .. (n - 1) : listos[k + 1] # q
        BY <1>2, <1>4 DEF EnCola
      <3> QED
        BY <1>2, <1>3, <2>1, <3>1
    <2>2. CASE p # q
      <3>1. ASSUME NEW k \in 1 .. n, listos[k] = p PROVE \E j \in 1 .. (n - 1) : listos'[j] = p
        <4>1. k - 1 \in 1 .. (n - 1) /\ (k - 1) + 1 = k
          BY <1>2, <1>4, <2>2, <3>1
        <4> QED
          BY <1>2, <3>1, <4>1
      <3>2. ASSUME NEW j \in 1 .. (n - 1), listos'[j] = p PROVE \E k \in 1 .. n : listos[k] = p
        BY <1>2, <1>4, <3>2
      <3> QED
        BY <1>2, <1>3, <2>0, <2>2, <3>1, <3>2
    <2> QED
      BY <2>1, <2>2
  <1> QED
    BY <1>2, <1>5, <1>6, <1>7 DEF EnCola, q

LEMMA ColaAjena ==
  ASSUME TypeOK, EnCola, NEW q \in Pids, estado[q] # "READY", NEW e, e # "READY",
         estado' = [estado EXCEPT ![q] = e], listos' = listos
  PROVE  EnCola'
  <1>1. estado \in [Pids -> Estados]
    BY DEF TypeOK
  <1>2. \A p \in Pids : estado'[p] = "READY" <=> estado[p] = "READY"
    BY <1>1
  <1> QED
    BY <1>2 DEF EnCola


\* Each step keeps the ready queue in agreement with the states.
LEMMA PasoCola ==
  ASSUME Tipos, Orden, ~quiebre, Next, ~quiebre'
  PROVE  EnCola'
  <1> USE DEF varsPlan, varsReloj, varsDespacho, varsConsola, varsCpu, varsInt, historia
  <1>0. TypeOK /\ Formas /\ Manos /\ EnCola /\ Vuelo /\ Ficha /\ Preguntas /\ Consolas
    BY DEF Tipos, Orden
  <1>1. ASSUME NEW p \in Pids, ALaCola(p) PROVE EnCola'
    <2>1. estado[p] # "READY" /\ listos' = Append(listos, p) /\ estado' = [estado EXCEPT ![p] = "READY"]
      BY <1>1 DEF ALaCola, Cambiar
    <2> QED
      BY <1>0, <2>1, ColaCrece
  <1>2. ASSUME NEW p \in Pids, Finalizar(p) PROVE EnCola'
    <2>1. UNCHANGED <<listos, estado>>
      BY <1>2 DEF Finalizar, Mensaje
    <2> QED
      BY <1>0, <2>1, ColaQuieta DEF Orden
  <1>3. CASE Despachar
    <2>1. /\ listos # <<>> /\ listos' = Tail(listos)
          /\ estado' = [estado EXCEPT ![Head(listos)] = "EXEC"]
      BY <1>3 DEF Despachar, Cambiar, Mensaje
    <2> QED
      BY <1>0, <2>1, ColaAtiende
  <1>4. CASE ArrancarQuantum
    <2>1. UNCHANGED <<listos, estado>>
      BY <1>4 DEF ArrancarQuantum
    <2> QED
      BY <1>0, <2>1, ColaQuieta DEF Orden
  <1>5. CASE TomarArranque
    <2>1. UNCHANGED <<listos, estado>>
      BY <1>5 DEF TomarArranque, RelojSolo
    <2> QED
      BY <1>0, <2>1, ColaQuieta DEF Orden
  <1>6. CASE CpuLibreATiempo
    <2>1. UNCHANGED <<listos, estado>>
      BY <1>6 DEF CpuLibreATiempo, RelojSolo
    <2> QED
      BY <1>0, <2>1, ColaQuieta DEF Orden
  <1>7. CASE Vencer
    <2>1. UNCHANGED <<listos, estado>>
      BY <1>7 DEF Vencer, RelojSolo, Mensaje
    <2> QED
      BY <1>0, <2>1, ColaQuieta DEF Orden
  <1>8. CASE Recibir
    <2>1. UNCHANGED <<listos, estado>>
      BY <1>8 DEF Recibir
    <2> QED
      BY <1>0, <2>1, ColaQuieta DEF Orden
  <1>9. CASE Avisar
    <2>1. UNCHANGED <<listos, estado>>
      BY <1>9 DEF Avisar
    <2> QED
      BY <1>0, <2>1, ColaQuieta DEF Orden
  <1>10. CASE Soltar
    <2>1. UNCHANGED <<listos, estado>>
      BY <1>10 DEF Soltar
    <2> QED
      BY <1>0, <2>1, ColaQuieta DEF Orden
  <1>11. CASE Listar
    <2>1. Tarea(EnLista)
      BY <1>11 DEF Listar, Tarea, EnLista
    <2>2. DeTarea \in Pids /\ estado[DeTarea] = "EXEC"
      BY <1>0, <2>1, UnCambio, Unico
    <2>3. listos' = Append(listos, DeTarea) /\ estado' = [estado EXCEPT ![DeTarea] = "READY"]
      BY <1>11 DEF Listar, Cambiar
    <2> HIDE DEF DeTarea
    <2> QED
      BY <1>0, <2>2, <2>3, ColaCrece
  <1>12. CASE Retirar
    <2>1. Tarea(EnLista)
      BY <1>12 DEF Retirar, Tarea, EnLista
    <2>2. DeTarea \in Pids /\ estado[DeTarea] = "EXEC"
      BY <1>0, <2>1, UnCambio, Unico
    <2> DEFINE e == IF Head(tareas).tipo = "bloquear" THEN "BLOCKED" ELSE "EXIT"
    <2>3. e # "READY" /\ estado' = [estado EXCEPT ![DeTarea] = e] /\ listos' = listos
      BY <1>12 DEF Retirar, Cambiar
    <2> HIDE DEF e
    <2> QED
      BY <1>0, <2>2, <2>3, ColaAjena
  <1>13. CASE Responder
    <2>1. UNCHANGED <<listos, estado>>
      BY <1>13 DEF Responder
    <2> QED
      BY <1>0, <2>1, ColaQuieta DEF Orden
  <1>14. CASE Matar
    <2>1. UNCHANGED <<listos, estado>>
      BY <1>14 DEF Matar
    <2> QED
      BY <1>0, <2>1, ColaQuieta DEF Orden
  <1>15. CASE Finalizado
    <2>1. /\ estado' = [estado EXCEPT ![consola.pid] = "EXIT"] /\ listos' = listos
          /\ consola.en = "esperar" /\ loko > 0
      BY <1>15 DEF Finalizado
    <2>2. consola.pid \in Pids /\ Condenas(consola.pid) > 0
      BY <1>0, <2>1 DEF Consolas, Condenas
    <2>3. estado[consola.pid] # "READY"
      BY <1>0, <2>2, Unico
    <2> QED
      BY <1>0, <2>1, <2>2, <2>3, ColaAjena
  <1>16. CASE AvisarFinalizado
    <2>1. UNCHANGED <<listos, estado>>
      BY <1>16 DEF AvisarFinalizado
    <2> QED
      BY <1>0, <2>1, ColaQuieta DEF Orden
  <1>17. CASE RecibirInterrupcion
    <2>1. UNCHANGED <<listos, estado>>
      BY <1>17 DEF RecibirInterrupcion, CpuSola
    <2> QED
      BY <1>0, <2>1, ColaQuieta DEF Orden
  <1>18. CASE TomarPcb
    <2>1. UNCHANGED <<listos, estado>>
      BY <1>18 DEF TomarPcb, CpuSola
    <2> QED
      BY <1>0, <2>1, ColaQuieta DEF Orden
  <1>19. CASE Calculo
    <2>1. UNCHANGED <<listos, estado>>
      BY <1>19 DEF Calculo, EnCiclo, ConInterrupcion, CheckInterrupt, CpuSola
    <2> QED
      BY <1>0, <2>1, ColaQuieta DEF Orden
  <1>20. CASE Exit
    <2>1. UNCHANGED <<listos, estado>>
      BY <1>20 DEF Exit, EnCiclo, ConInterrupcion, CheckInterrupt, CpuSola
    <2> QED
      BY <1>0, <2>1, ColaQuieta DEF Orden
  <1>21. CASE OperacionIo
    <2>1. UNCHANGED <<listos, estado>>
      BY <1>21 DEF OperacionIo, EnCiclo, Enviar, Mensaje, ConInterrupcion, CheckInterrupt, CpuSola
    <2> QED
      BY <1>0, <2>1, ColaQuieta DEF Orden
  <1>22. CASE ResizeFalla
    <2>1. UNCHANGED <<listos, estado>>
      BY <1>22 DEF ResizeFalla, EnCiclo, Enviar, Mensaje, ConInterrupcion, CheckInterrupt, CpuSola
    <2> QED
      BY <1>0, <2>1, ColaQuieta DEF Orden
  <1>23. CASE PedirRecurso("WAIT")
    <2>1. UNCHANGED <<listos, estado>>
      BY <1>23 DEF PedirRecurso, EnCiclo, Enviar, Mensaje, CpuSola
    <2> QED
      BY <1>0, <2>1, ColaQuieta DEF Orden
  <1>24. CASE PedirRecurso("SIGNAL")
    <2>1. UNCHANGED <<listos, estado>>
      BY <1>24 DEF PedirRecurso, EnCiclo, Enviar, Mensaje, CpuSola
    <2> QED
      BY <1>0, <2>1, ColaQuieta DEF Orden
  <1>25. CASE LeerRespuesta
    <2>1. UNCHANGED <<listos, estado>>
      BY <1>25 DEF LeerRespuesta, ConInterrupcion, CheckInterrupt, CpuSola
    <2> QED
      BY <1>0, <2>1, ColaQuieta DEF Orden
  <1>26. CASE TerminarFin
    <2>1. UNCHANGED <<listos, estado>>
      BY <1>26 DEF TerminarFin, Terminar, Mensaje, CpuSola
    <2> QED
      BY <1>0, <2>1, ColaQuieta DEF Orden
  <1>27. CASE AccionInterrupt
    <2>1. UNCHANGED <<listos, estado>>
      BY <1>27 DEF AccionInterrupt, Terminar, Mensaje, CpuSola
    <2> QED
      BY <1>0, <2>1, ColaQuieta DEF Orden
  <1>28. CASE TerminarCallado
    <2>1. UNCHANGED <<listos, estado>>
      BY <1>28 DEF TerminarCallado, Terminar, Mensaje, CpuSola
    <2> QED
      BY <1>0, <2>1, ColaQuieta DEF Orden
  <1> QED
    BY <1>0, <1>1, <1>2, <1>3, <1>4, <1>5, <1>6, <1>7, <1>8, <1>9, <1>10, <1>11, <1>12, <1>13,
       <1>14, <1>15, <1>16, <1>17, <1>18, <1>19, <1>20, <1>21, <1>22, <1>23, <1>24, <1>25, <1>26,
       <1>27, <1>28
       DEF Next, HiloCorto, HiloReloj, HiloDespacho, HiloConsola, HiloCpu, Ciclo
-----------------------------------------------------------------------------
(* What is in flight.                                                      *)

LEMMA VueloQuieto ==
  ASSUME Vuelo, UNCHANGED <<estado, aCpu, cpu, banderas, desalojos, tareas, consola, loko>>
  PROVE  Vuelo'
  BY DEF Vuelo, EnVuelo, Mandados, Activa, Echados, Trabaja, Hay, Condenas

\* What stays the same, piece by piece.
LEMMA Quietos ==
  ASSUME NEW p
  PROVE  /\ UNCHANGED aCpu => Mandados(p)' = Mandados(p)
         /\ UNCHANGED <<cpu, banderas>> => (Activa(p)' <=> Activa(p))
         /\ UNCHANGED desalojos => Echados(p)' = Echados(p)
         /\ UNCHANGED tareas => (Trabaja(p)' <=> Trabaja(p))
         /\ UNCHANGED loko /\ consola'.pid = consola.pid => Condenas(p)' = Condenas(p)
  BY DEF Mandados, Activa, Echados, Trabaja, Hay, Condenas

\* Uno of a condition that may be of the next state.
Peso(b) == IF b THEN 1 ELSE 0

LEMMA PorPieza ==
  ASSUME NEW p
  PROVE  /\ EnVuelo(p) = Mandados(p) + Peso(Activa(p)) + Echados(p) + Peso(Trabaja(p)) + Condenas(p)
         /\ EnVuelo(p)' = Mandados(p)' + Peso(Activa(p)') + Echados(p)' + Peso(Trabaja(p)')
                            + Condenas(p)'
         /\ Uno(estado[p] = "EXEC") = Peso(estado[p] = "EXEC")
         /\ Uno(estado[p] = "EXEC")' = Peso(estado'[p] = "EXEC")
  BY DEF EnVuelo, Uno, Peso

LEMMA ContadosLuego ==
  ASSUME TypeOK'
  PROVE  /\ \A p : Mandados(p)' \in Nat /\ Echados(p)' \in Nat /\ Condenas(p)' \in Nat
         /\ Preguntados' \in Nat /\ Contestados' \in Nat
  <1> DEFINE A == [tipo : Respuestas \cup {"PCB"}, pid : Pids]
             D == [tipo : Motivos, pid : Pids]
  <1>1. aCpu' \in Seq(A) /\ desalojos' \in Seq(D) /\ loko' \in Nat
    BY DEF TypeOK
  <1> HIDE DEF A, D
  <1>2. \A T : Cuantos(aCpu', T) \in Nat /\ Cuantos(desalojos', T) \in Nat
    BY <1>1, PosicionesFinitas
  <1> QED
    BY <1>1, <1>2 DEF Mandados, Echados, Condenas, Preguntados, Contestados

LEMMA Balance ==
  ASSUME TypeOK, TypeOK', Vuelo,
         \A p \in Pids :
           /\ estado'[p] = "EXEC" <=> estado[p] = "EXEC"
           /\ Mandados(p)' + Peso(Activa(p)') + Echados(p)' + Peso(Trabaja(p)') + Condenas(p)'
                <= Mandados(p) + Peso(Activa(p)) + Echados(p) + Peso(Trabaja(p)) + Condenas(p)
  PROVE  Vuelo'
  <1> SUFFICES ASSUME NEW p \in Pids PROVE EnVuelo(p)' <= Uno(estado[p] = "EXEC")'
    BY DEF Vuelo
  <1>1. EnVuelo(p) <= Uno(estado[p] = "EXEC")
    BY DEF Vuelo
  <1>2. /\ Mandados(p) \in Nat /\ Echados(p) \in Nat /\ Condenas(p) \in Nat
        /\ Mandados(p)' \in Nat /\ Echados(p)' \in Nat /\ Condenas(p)' \in Nat
    BY Contados, ContadosLuego
  <1>3. /\ Peso(Activa(p)) \in {0, 1} /\ Peso(Trabaja(p)) \in {0, 1}
        /\ Peso(Activa(p)') \in {0, 1} /\ Peso(Trabaja(p)') \in {0, 1}
        /\ Peso(estado[p] = "EXEC") = Peso(estado'[p] = "EXEC")
        /\ Peso(estado[p] = "EXEC") \in {0, 1}
    BY DEF Peso
  <1> QED
    BY <1>1, <1>2, <1>3, PorPieza
LEMMA Suma ==
  ASSUME \A p \in Pids :
           Mandados(p)' + Peso(Activa(p)') + Echados(p)' + Peso(Trabaja(p)') + Condenas(p)'
             <= Peso(estado'[p] = "EXEC")
  PROVE  Vuelo'
  <1> SUFFICES ASSUME NEW p \in Pids PROVE EnVuelo(p)' <= Uno(estado[p] = "EXEC")'
    BY DEF Vuelo
  <1> QED
    BY PorPieza

LEMMA SumaVieja ==
  ASSUME TypeOK, Vuelo, NEW p \in Pids
  PROVE  /\ Mandados(p) + Peso(Activa(p)) + Echados(p) + Peso(Trabaja(p)) + Condenas(p)
              <= Peso(estado[p] = "EXEC")
         /\ Mandados(p) \in Nat /\ Echados(p) \in Nat /\ Condenas(p) \in Nat
         /\ Peso(Activa(p)) \in {0, 1} /\ Peso(Trabaja(p)) \in {0, 1}
  <1>1. EnVuelo(p) <= Uno(estado[p] = "EXEC")
    BY DEF Vuelo
  <1>2. Mandados(p) \in Nat /\ Echados(p) \in Nat /\ Condenas(p) \in Nat
    BY Contados
  <1>3. Peso(Activa(p)) \in {0, 1} /\ Peso(Trabaja(p)) \in {0, 1}
    BY DEF Peso
  <1> QED
    BY <1>1, <1>2, <1>3, PorPieza


\* Each step keeps at most one thing in flight for each process.
LEMMA PasoVuelo ==
  ASSUME Tipos, Orden, ~quiebre, Next, ~quiebre'
  PROVE  Vuelo'
  <1> USE DEF varsPlan, varsReloj, varsDespacho, varsConsola, varsCpu, varsInt, historia
  <1>0. TypeOK /\ Formas /\ Manos /\ EnCola /\ Vuelo /\ Ficha /\ Preguntas /\ Consolas
    BY DEF Tipos, Orden
  <1>a. TypeOK'
    BY PasoTipos DEF Tipos
  <1>1. ASSUME NEW p \in Pids, ALaCola(p) PROVE Vuelo'
    <2>1. /\ UNCHANGED <<aCpu, cpu, banderas, desalojos, tareas, loko>> /\ consola'.pid = consola.pid
          /\ \A r \in Pids : estado'[r] = "EXEC" <=> estado[r] = "EXEC"
      BY <1>0, <1>1 DEF TypeOK, ALaCola, Cambiar
    <2>2. \A r : /\ Mandados(r)' = Mandados(r) /\ (Activa(r)' <=> Activa(r)) /\ Echados(r)' = Echados(r)
                /\ (Trabaja(r)' <=> Trabaja(r)) /\ Condenas(r)' = Condenas(r)
      BY <2>1, Quietos
    <2>3. \A r \in Pids :
           Mandados(r)' + Peso(Activa(r)') + Echados(r)' + Peso(Trabaja(r)') + Condenas(r)'
             <= Mandados(r) + Peso(Activa(r)) + Echados(r) + Peso(Trabaja(r)) + Condenas(r)
      BY <1>0, <2>2, Contados DEF Peso, Uno
    <2> QED
      BY <1>0, <1>a, <2>1, <2>3, Balance
  <1>2. ASSUME NEW p \in Pids, Finalizar(p) PROVE Vuelo'
    <2>1. /\ UNCHANGED <<aCpu, cpu, banderas, desalojos, tareas>> /\ loko = 0 /\ loko' = 0
          /\ \A r \in Pids : estado'[r] = "EXEC" <=> estado[r] = "EXEC"
      BY <1>0, <1>2 DEF TypeOK, Consolas, Finalizar, Mensaje
    <2>2. \A r : /\ Mandados(r)' = Mandados(r) /\ (Activa(r)' <=> Activa(r)) /\ Echados(r)' = Echados(r)
                /\ (Trabaja(r)' <=> Trabaja(r)) /\ Condenas(r)' = Condenas(r)
      BY <2>1, Quietos DEF Condenas
    <2>3. \A r \in Pids :
           Mandados(r)' + Peso(Activa(r)') + Echados(r)' + Peso(Trabaja(r)') + Condenas(r)'
             <= Mandados(r) + Peso(Activa(r)) + Echados(r) + Peso(Trabaja(r)) + Condenas(r)
      BY <1>0, <2>2, Contados DEF Peso, Uno
    <2> QED
      BY <1>0, <1>a, <2>1, <2>3, Balance
  <1>3. CASE Despachar
    <2> DEFINE q == Head(listos)
    <2>1. /\ UNCHANGED <<cpu, banderas, desalojos, tareas, loko>> /\ consola'.pid = consola.pid
          /\ aCpu' = Append(aCpu, Mensaje("PCB", q)) /\ estado' = [estado EXCEPT ![q] = "EXEC"]
          /\ listos # <<>> /\ listos' = Tail(listos)
      BY <1>0, <1>3 DEF TypeOK, Despachar, Cambiar, Mensaje
    <2>2. q \in Pids /\ estado[q] = "READY"
      BY <1>0, <2>1, ColaAtiende
    <2> HIDE DEF q
    <2>3. \A r : Mandados(r)' = Mandados(r) + Uno("PCB" \in {"PCB", "RESOURCE_OK"} /\ r = q)
      BY <1>0, <2>1, <2>2, Envia
    <2>4. \A r : /\ (Activa(r)' <=> Activa(r)) /\ Echados(r)' = Echados(r)
                /\ (Trabaja(r)' <=> Trabaja(r)) /\ Condenas(r)' = Condenas(r)
      BY <2>1, Quietos
    <2>5. estado'[q] = "EXEC" /\ \A r \in Pids \ {q} : estado'[r] = estado[r]
      BY <1>0, <2>1, <2>2 DEF TypeOK
    <2>6. ASSUME NEW r \in Pids
          PROVE  Mandados(r)' + Peso(Activa(r)') + Echados(r)' + Peso(Trabaja(r)') + Condenas(r)'
                   <= Peso(estado'[r] = "EXEC")
      <3>1. CASE r = q
        <4>1. Mandados(q) = 0 /\ ~Activa(q) /\ Echados(q) = 0 /\ ~Trabaja(q) /\ Condenas(q) = 0
          BY <1>0, <2>2, Unico
        <4> QED
          BY <2>3, <2>4, <2>5, <3>1, <4>1 DEF Peso, Uno
      <3>2. CASE r # q
        <4>1. Mandados(r)' = Mandados(r)
          BY <1>0, <2>3, <3>2, Contados DEF Uno
        <4>2. Peso(Activa(r)') = Peso(Activa(r)) /\ Peso(Trabaja(r)') = Peso(Trabaja(r))
          BY <2>4 DEF Peso
        <4> QED
          BY <1>0, <2>4, <2>5, <3>2, <4>1, <4>2, SumaVieja
      <3> QED
        BY <3>1, <3>2
    <2> QED
      BY <2>6, Suma
  <1>4. CASE ArrancarQuantum
    <2>1. UNCHANGED <<estado, aCpu, cpu, banderas, desalojos, tareas, consola, loko>>
      BY <1>4 DEF ArrancarQuantum
    <2> QED
      BY <1>0, <2>1, VueloQuieto DEF Orden
  <1>5. CASE TomarArranque
    <2>1. UNCHANGED <<estado, aCpu, cpu, banderas, desalojos, tareas, consola, loko>>
      BY <1>5 DEF TomarArranque, RelojSolo
    <2> QED
      BY <1>0, <2>1, VueloQuieto DEF Orden
  <1>6. CASE CpuLibreATiempo
    <2>1. UNCHANGED <<estado, aCpu, cpu, banderas, desalojos, tareas, consola, loko>>
      BY <1>6 DEF CpuLibreATiempo, RelojSolo
    <2> QED
      BY <1>0, <2>1, VueloQuieto DEF Orden
  <1>7. CASE Vencer
    <2>1. UNCHANGED <<estado, aCpu, cpu, banderas, desalojos, tareas, consola, loko>>
      BY <1>7 DEF Vencer, RelojSolo, Mensaje
    <2> QED
      BY <1>0, <2>1, VueloQuieto DEF Orden
  <1>8. CASE Recibir
    <2>1. /\ UNCHANGED <<aCpu, cpu, banderas, loko, consola>>
          /\ \A r \in Pids : estado'[r] = "EXEC" <=> estado[r] = "EXEC"
      BY <1>8 DEF Recibir
    <2> DEFINE m == Head(desalojos)
    <2>2. \A r \in Pids : ~Trabaja(r) /\ (Trabaja(r)' <=> r = m.pid /\ m.tipo # "RESOURCE_BLOCKED")
      BY <1>0, <1>8, UnDesalojo
    <2>3. desalojos # <<>> /\ desalojos' = Tail(desalojos)
      BY <1>8 DEF Recibir
    <2>4. \A r : Echados(r) = Echados(r)' + Uno(m.tipo # "RESOURCE_BLOCKED" /\ r = m.pid)
      BY <1>0, <2>3, Recibe
    <2> HIDE DEF m
    <2>5. \A r : /\ Mandados(r)' = Mandados(r) /\ (Activa(r)' <=> Activa(r))
                /\ Condenas(r)' = Condenas(r)
      BY <2>1, Quietos
    <2>6. \A r \in Pids :
           Mandados(r)' + Peso(Activa(r)') + Echados(r)' + Peso(Trabaja(r)') + Condenas(r)'
             <= Mandados(r) + Peso(Activa(r)) + Echados(r) + Peso(Trabaja(r)) + Condenas(r)
      BY <1>0, <1>a, <2>2, <2>4, <2>5, ContadosLuego, Contados DEF Peso, Uno
    <2> QED
      BY <1>0, <1>a, <2>1, <2>6, Balance
  <1>9. CASE Avisar
    <2>1. /\ UNCHANGED <<aCpu, cpu, banderas, desalojos, loko, consola>>
          /\ \A r \in Pids : estado'[r] = "EXEC" <=> estado[r] = "EXEC"
      BY <1>9 DEF Avisar
    <2>2. \A r \in Pids : Trabaja(r)' <=> Trabaja(r)
      BY <1>0, <1>9, UnAviso DEF Avisar, MismoTrabajo
    <2>3. \A r : /\ Mandados(r)' = Mandados(r) /\ (Activa(r)' <=> Activa(r)) /\ Echados(r)' = Echados(r)
                /\ Condenas(r)' = Condenas(r)
      BY <2>1, Quietos
    <2>4. \A r \in Pids :
           Mandados(r)' + Peso(Activa(r)') + Echados(r)' + Peso(Trabaja(r)') + Condenas(r)'
             <= Mandados(r) + Peso(Activa(r)) + Echados(r) + Peso(Trabaja(r)) + Condenas(r)
      BY <1>0, <2>2, <2>3, Contados DEF Peso, Uno
    <2> QED
      BY <1>0, <1>a, <2>1, <2>4, Balance
  <1>10. CASE Soltar
    <2>1. /\ UNCHANGED <<aCpu, cpu, banderas, desalojos, loko, consola>>
          /\ \A r \in Pids : estado'[r] = "EXEC" <=> estado[r] = "EXEC"
      BY <1>10 DEF Soltar
    <2>2. \A r \in Pids : Trabaja(r)' <=> Trabaja(r)
      BY <1>0, <1>10, UnaSuelta DEF Soltar, MismoTrabajo
    <2>3. \A r : /\ Mandados(r)' = Mandados(r) /\ (Activa(r)' <=> Activa(r)) /\ Echados(r)' = Echados(r)
                /\ Condenas(r)' = Condenas(r)
      BY <2>1, Quietos
    <2>4. \A r \in Pids :
           Mandados(r)' + Peso(Activa(r)') + Echados(r)' + Peso(Trabaja(r)') + Condenas(r)'
             <= Mandados(r) + Peso(Activa(r)) + Echados(r) + Peso(Trabaja(r)) + Condenas(r)
      BY <1>0, <2>2, <2>3, Contados DEF Peso, Uno
    <2> QED
      BY <1>0, <1>a, <2>1, <2>4, Balance
  <1>11. CASE Listar
    <2>1. Tarea(EnLista)
      BY <1>11 DEF Listar, Tarea, EnLista
    <2> DEFINE q == DeTarea
    <2>2. q \in Pids /\ Trabaja(q) /\ \A r \in Pids : ~Trabaja(r)'
      BY <1>0, <2>1, UnCambio
    <2>3. /\ UNCHANGED <<aCpu, cpu, banderas, desalojos, loko>> /\ consola'.pid = consola.pid
          /\ \A r \in Pids \ {q} : estado'[r] = estado[r]
      BY <1>0, <2>2, <1>11 DEF TypeOK, Listar, Cambiar
    <2> HIDE DEF q
    <2>4. \A r : /\ Mandados(r)' = Mandados(r) /\ (Activa(r)' <=> Activa(r)) /\ Echados(r)' = Echados(r)
                /\ Condenas(r)' = Condenas(r)
      BY <2>3, Quietos
    <2>5. ASSUME NEW r \in Pids
          PROVE  Mandados(r)' + Peso(Activa(r)') + Echados(r)' + Peso(Trabaja(r)') + Condenas(r)'
                   <= Peso(estado'[r] = "EXEC")
      <3>1. CASE r = q
        <4>1. Mandados(q) = 0 /\ ~Activa(q) /\ Echados(q) = 0 /\ Condenas(q) = 0
          BY <1>0, <2>2, Unico
        <4> QED
          BY <2>2, <2>4, <3>1, <4>1 DEF Peso
      <3>2. CASE r # q
        <4>1. Peso(Activa(r)') = Peso(Activa(r)) /\ Peso(Trabaja(r)') = 0
          BY <2>2, <2>4 DEF Peso
        <4>2. Peso(estado'[r] = "EXEC") = Peso(estado[r] = "EXEC") /\ Peso(estado[r] = "EXEC") \in {0, 1}
          BY <2>3, <3>2 DEF Peso
        <4> QED
          BY <1>0, <2>3, <2>4, <4>1, <4>2, SumaVieja
      <3> QED
        BY <3>1, <3>2
    <2> QED
      BY <2>5, Suma
  <1>12. CASE Retirar
    <2>1. Tarea(EnLista)
      BY <1>12 DEF Retirar, Tarea, EnLista
    <2> DEFINE q == DeTarea
    <2>2. q \in Pids /\ Trabaja(q) /\ \A r \in Pids : ~Trabaja(r)'
      BY <1>0, <2>1, UnCambio
    <2>3. /\ UNCHANGED <<aCpu, cpu, banderas, desalojos, loko>> /\ consola'.pid = consola.pid
          /\ \A r \in Pids \ {q} : estado'[r] = estado[r]
      BY <1>0, <2>2, <1>12 DEF TypeOK, Retirar, Cambiar
    <2> HIDE DEF q
    <2>4. \A r : /\ Mandados(r)' = Mandados(r) /\ (Activa(r)' <=> Activa(r)) /\ Echados(r)' = Echados(r)
                /\ Condenas(r)' = Condenas(r)
      BY <2>3, Quietos
    <2>5. ASSUME NEW r \in Pids
          PROVE  Mandados(r)' + Peso(Activa(r)') + Echados(r)' + Peso(Trabaja(r)') + Condenas(r)'
                   <= Peso(estado'[r] = "EXEC")
      <3>1. CASE r = q
        <4>1. Mandados(q) = 0 /\ ~Activa(q) /\ Echados(q) = 0 /\ Condenas(q) = 0
          BY <1>0, <2>2, Unico
        <4> QED
          BY <2>2, <2>4, <3>1, <4>1 DEF Peso
      <3>2. CASE r # q
        <4>1. Peso(Activa(r)') = Peso(Activa(r)) /\ Peso(Trabaja(r)') = 0
          BY <2>2, <2>4 DEF Peso
        <4>2. Peso(estado'[r] = "EXEC") = Peso(estado[r] = "EXEC") /\ Peso(estado[r] = "EXEC") \in {0, 1}
          BY <2>3, <3>2 DEF Peso
        <4> QED
          BY <1>0, <2>3, <2>4, <4>1, <4>2, SumaVieja
      <3> QED
        BY <3>1, <3>2
    <2> QED
      BY <2>5, Suma
  <1>13. CASE Responder
    <2>1. Tarea(Respuestas)
      BY <1>13 DEF Responder, Tarea, Respuestas
    <2>2. /\ UNCHANGED <<cpu, banderas, desalojos, loko, consola>>
          /\ \A r \in Pids : estado'[r] = "EXEC" <=> estado[r] = "EXEC"
      BY <1>13 DEF Responder
    <2> DEFINE q == DeTarea
               t == Head(tareas).tipo
    <2>3. /\ q \in Pids /\ Trabaja(q) /\ \A r \in Pids : Trabaja(r)' <=> r = q /\ t # "RESOURCE_OK"
      BY <1>0, <2>1, UnaRespuesta
    <2>4. t \in Respuestas /\ Head(tareas) = Mensaje(t, q)
      <3>1. tareas # <<>> /\ Head(tareas).tipo \in Respuestas
        BY <2>1 DEF Tarea
      <3>2. tareas \in Seq(Todos(Trabajos))
        BY <1>0, TipoDeLista DEF Formas
      <3>3. Head(tareas) \in Todos(Trabajos)
        BY <3>1, <3>2, HeadTailProperties
      <3> QED
        BY <3>1, <3>3 DEF Todos, Mensaje, DeTarea
    <2>5. aCpu' = Append(aCpu, Mensaje(t, q))
      BY <1>13, <2>4 DEF Responder
    <2> HIDE DEF q, t
    <2>6. \A r : Mandados(r)' = Mandados(r) + Uno(t \in {"PCB", "RESOURCE_OK"} /\ r = q)
      BY <1>0, <2>3, <2>4, <2>5, Envia
    <2>7. t \in {"PCB", "RESOURCE_OK"} <=> t = "RESOURCE_OK"
      BY <2>4 DEF Respuestas
    <2>8. \A r : /\ (Activa(r)' <=> Activa(r)) /\ Echados(r)' = Echados(r)
                /\ Condenas(r)' = Condenas(r)
      BY <2>2, Quietos
    <2>9. \A r \in Pids :
           Mandados(r)' + Peso(Activa(r)') + Echados(r)' + Peso(Trabaja(r)') + Condenas(r)'
             <= Mandados(r) + Peso(Activa(r)) + Echados(r) + Peso(Trabaja(r)) + Condenas(r)
      BY <1>0, <2>3, <2>6, <2>7, <2>8, Contados DEF Peso, Uno
    <2> QED
      BY <1>0, <1>a, <2>2, <2>9, Balance
  <1>14. CASE Matar
    <2>1. /\ UNCHANGED <<aCpu, cpu, banderas, desalojos, consola>> /\ loko' = loko + 1
          /\ \A r \in Pids : estado'[r] = "EXEC" <=> estado[r] = "EXEC"
      BY <1>14 DEF Matar
    <2> DEFINE q == DeTarea
    <2>2. q \in Pids /\ Trabaja(q) /\ Hay({"matar"}) /\ \A r \in Pids : ~Trabaja(r)'
      BY <1>0, <1>14, UnaMuerte DEF Matar
    <2>3. consola.pid = q
      BY <1>0, <2>2 DEF Consolas, Espera, DeTarea
    <2> HIDE DEF q
    <2>4. \A r : /\ Mandados(r)' = Mandados(r) /\ (Activa(r)' <=> Activa(r)) /\ Echados(r)' = Echados(r)
                /\ Condenas(r)' = Condenas(r) + Uno(r = q)
      BY <1>0, <2>1, <2>3, Quietos DEF Condenas, Uno, TypeOK
    <2>5. \A r \in Pids :
           Mandados(r)' + Peso(Activa(r)') + Echados(r)' + Peso(Trabaja(r)') + Condenas(r)'
             <= Mandados(r) + Peso(Activa(r)) + Echados(r) + Peso(Trabaja(r)) + Condenas(r)
      BY <1>0, <2>2, <2>4, Contados DEF Peso, Uno
    <2> QED
      BY <1>0, <1>a, <2>1, <2>5, Balance
  <1>15. CASE Finalizado
    <2> DEFINE c == consola.pid
    <2>1. /\ UNCHANGED <<aCpu, cpu, banderas, desalojos, tareas>> /\ loko' = loko - 1 /\ loko > 0
          /\ consola.en = "esperar" /\ estado' = [estado EXCEPT ![c] = "EXIT"]
      BY <1>15 DEF Finalizado
    <2>2. c \in Pids /\ Condenas(c) > 0
      BY <1>0, <2>1 DEF Consolas, Condenas
    <2>3. /\ Mandados(c) = 0 /\ ~Activa(c) /\ Echados(c) = 0 /\ ~Trabaja(c) /\ Condenas(c) = 1
      BY <1>0, <2>2, Unico
    <2>4. loko' = 0
      BY <2>1, <2>3 DEF Condenas
    <2>5. \A r : /\ Mandados(r)' = Mandados(r) /\ (Activa(r)' <=> Activa(r)) /\ Echados(r)' = Echados(r)
                /\ (Trabaja(r)' <=> Trabaja(r)) /\ Condenas(r)' = 0
      BY <2>1, <2>4, Quietos DEF Condenas
    <2>6. \A r \in Pids \ {c} : estado'[r] = estado[r]
      BY <1>0, <2>1, <2>2 DEF TypeOK
    <2> HIDE DEF c
    <2>7. ASSUME NEW r \in Pids
          PROVE  Mandados(r)' + Peso(Activa(r)') + Echados(r)' + Peso(Trabaja(r)') + Condenas(r)'
                   <= Peso(estado'[r] = "EXEC")
      <3>1. CASE r = c
        BY <2>3, <2>5, <3>1 DEF Peso
      <3>2. CASE r # c
        <4>1. Peso(Activa(r)') = Peso(Activa(r)) /\ Peso(Trabaja(r)') = Peso(Trabaja(r))
          BY <2>5 DEF Peso
        <4>2. Peso(estado'[r] = "EXEC") = Peso(estado[r] = "EXEC") /\ Peso(estado[r] = "EXEC") \in {0, 1}
          BY <2>6, <3>2 DEF Peso
        <4> QED
          BY <1>0, <2>5, <2>6, <4>1, <4>2, SumaVieja
      <3> QED
        BY <3>1, <3>2
    <2> QED
      BY <2>7, Suma
  <1>16. CASE AvisarFinalizado
    <2>1. /\ UNCHANGED <<aCpu, cpu, banderas, desalojos, tareas>> /\ loko = 0 /\ loko' = 0
          /\ \A r \in Pids : estado'[r] = "EXEC" <=> estado[r] = "EXEC"
      BY <1>0, <1>16 DEF TypeOK, Consolas, AvisarFinalizado
    <2>2. \A r : /\ Mandados(r)' = Mandados(r) /\ (Activa(r)' <=> Activa(r)) /\ Echados(r)' = Echados(r)
                /\ (Trabaja(r)' <=> Trabaja(r)) /\ Condenas(r)' = Condenas(r)
      BY <2>1, Quietos DEF Condenas
    <2>3. \A r \in Pids :
           Mandados(r)' + Peso(Activa(r)') + Echados(r)' + Peso(Trabaja(r)') + Condenas(r)'
             <= Mandados(r) + Peso(Activa(r)) + Echados(r) + Peso(Trabaja(r)) + Condenas(r)
      BY <1>0, <2>2, Contados DEF Peso, Uno
    <2> QED
      BY <1>0, <1>a, <2>1, <2>3, Balance
  <1>17. CASE RecibirInterrupcion
    <2>1. UNCHANGED <<estado, aCpu, cpu, banderas, desalojos, tareas, consola, loko>>
      BY <1>17 DEF RecibirInterrupcion, CpuSola
    <2> QED
      BY <1>0, <2>1, VueloQuieto DEF Orden
  <1>18. CASE TomarPcb
    <2>1. /\ UNCHANGED <<desalojos, tareas, consola, loko>>
          /\ \A r \in Pids : estado'[r] = "EXEC" <=> estado[r] = "EXEC"
      BY <1>18 DEF TomarPcb, CpuSola
    <2> DEFINE m == Head(aCpu)
    <2>2. aCpu # <<>> /\ aCpu' = Tail(aCpu) /\ m.tipo = "PCB"
      BY <1>18 DEF TomarPcb, CpuSola
    <2>3. /\ m.pid \in Pids
          /\ \A r : Mandados(r) = Mandados(r)' + Uno(m.tipo \in {"PCB", "RESOURCE_OK"} /\ r = m.pid)
      BY <1>0, <2>2, Atiende
    <2>4. \A r : ~Activa(r) /\ (Activa(r)' <=> r = m.pid)
      BY <1>18 DEF Activa, TomarPcb, CpuSola
    <2> HIDE DEF m
    <2>5. \A r : /\ Echados(r)' = Echados(r) /\ (Trabaja(r)' <=> Trabaja(r))
                /\ Condenas(r)' = Condenas(r)
      BY <2>1, Quietos
    <2>6. \A r \in Pids :
           Mandados(r)' + Peso(Activa(r)') + Echados(r)' + Peso(Trabaja(r)') + Condenas(r)'
             <= Mandados(r) + Peso(Activa(r)) + Echados(r) + Peso(Trabaja(r)) + Condenas(r)
      BY <1>0, <1>a, <2>2, <2>3, <2>4, <2>5, ContadosLuego, Contados DEF Peso, Uno
    <2> QED
      BY <1>0, <1>a, <2>1, <2>6, Balance
  <1>19. CASE Calculo
    <2>1. /\ UNCHANGED <<aCpu, desalojos, tareas, consola, loko>>
          /\ \A r \in Pids : estado'[r] = "EXEC" <=> estado[r] = "EXEC"
      BY <1>19 DEF Calculo, EnCiclo, ConInterrupcion, CheckInterrupt, CpuSola
    <2>2. \A r : Activa(r)' <=> Activa(r)
      BY <1>19 DEF Activa, Ninguna, Calculo, EnCiclo, ConInterrupcion, CheckInterrupt, CpuSola
    <2>3. \A r : /\ Mandados(r)' = Mandados(r) /\ Echados(r)' = Echados(r)
                /\ (Trabaja(r)' <=> Trabaja(r)) /\ Condenas(r)' = Condenas(r)
      BY <2>1, Quietos
    <2>4. \A r \in Pids :
           Mandados(r)' + Peso(Activa(r)') + Echados(r)' + Peso(Trabaja(r)') + Condenas(r)'
             <= Mandados(r) + Peso(Activa(r)) + Echados(r) + Peso(Trabaja(r)) + Condenas(r)
      BY <1>0, <2>2, <2>3, Contados DEF Peso, Uno
    <2> QED
      BY <1>0, <1>a, <2>1, <2>4, Balance
  <1>20. CASE Exit
    <2>1. /\ UNCHANGED <<aCpu, desalojos, tareas, consola, loko>>
          /\ \A r \in Pids : estado'[r] = "EXEC" <=> estado[r] = "EXEC"
      BY <1>20 DEF Exit, EnCiclo, ConInterrupcion, CheckInterrupt, CpuSola
    <2>2. \A r : Activa(r)' <=> Activa(r)
      BY <1>20 DEF Activa, Ninguna, Exit, EnCiclo, ConInterrupcion, CheckInterrupt, CpuSola
    <2>3. \A r : /\ Mandados(r)' = Mandados(r) /\ Echados(r)' = Echados(r)
                /\ (Trabaja(r)' <=> Trabaja(r)) /\ Condenas(r)' = Condenas(r)
      BY <2>1, Quietos
    <2>4. \A r \in Pids :
           Mandados(r)' + Peso(Activa(r)') + Echados(r)' + Peso(Trabaja(r)') + Condenas(r)'
             <= Mandados(r) + Peso(Activa(r)) + Echados(r) + Peso(Trabaja(r)) + Condenas(r)
      BY <1>0, <2>2, <2>3, Contados DEF Peso, Uno
    <2> QED
      BY <1>0, <1>a, <2>1, <2>4, Balance
  <1>21. CASE OperacionIo
    <2>1. /\ UNCHANGED <<aCpu, tareas, consola, loko>>
          /\ \A r \in Pids : estado'[r] = "EXEC" <=> estado[r] = "EXEC"
      BY <1>21 DEF OperacionIo, EnCiclo, Enviar, Mensaje, ConInterrupcion, CheckInterrupt, CpuSola
    <2> DEFINE q == cpu.pid
    <2>2. q \in Pids /\ desalojos' = Append(desalojos, Mensaje("OPERACION_IO", q)) /\ "OPERACION_IO" \in Motivos
      BY <1>0, <1>21
         DEF Manos, Motivos, OperacionIo, EnCiclo, Enviar, Mensaje, ConInterrupcion, CheckInterrupt,
             CpuSola
    <2>3. \A r : Echados(r)' = Echados(r) + Uno("OPERACION_IO" # "RESOURCE_BLOCKED" /\ r = q)
      BY <1>0, <2>2, Manda
    <2>4. \A r : (Activa(r) <=> r = q) /\ ~Activa(r)'
      <3>1. ~cpu.respondio /\ cpu.en = "ciclo" /\ banderas = {}
        BY <1>0, <1>21
           DEF Preguntas, Ninguna, OperacionIo, EnCiclo, Enviar, Mensaje, ConInterrupcion,
               CheckInterrupt, CpuSola
      <3>2. \A r : ~Activa(r)'
        BY <1>0, <1>21
           DEF Activa, TypeOK, OperacionIo, EnCiclo, Enviar, Mensaje, ConInterrupcion,
               CheckInterrupt, CpuSola
      <3> QED
        BY <3>1, <3>2 DEF Activa
    <2> HIDE DEF q
    <2>5. \A r : /\ Mandados(r)' = Mandados(r) /\ (Trabaja(r)' <=> Trabaja(r))
                /\ Condenas(r)' = Condenas(r)
      BY <2>1, Quietos
    <2>6. \A r \in Pids :
           Mandados(r)' + Peso(Activa(r)') + Echados(r)' + Peso(Trabaja(r)') + Condenas(r)'
             <= Mandados(r) + Peso(Activa(r)) + Echados(r) + Peso(Trabaja(r)) + Condenas(r)
      BY <1>0, <2>3, <2>4, <2>5, Contados DEF Peso, Uno
    <2> QED
      BY <1>0, <1>a, <2>1, <2>6, Balance
  <1>22. CASE ResizeFalla
    <2>1. /\ UNCHANGED <<aCpu, tareas, consola, loko>>
          /\ \A r \in Pids : estado'[r] = "EXEC" <=> estado[r] = "EXEC"
      BY <1>22 DEF ResizeFalla, EnCiclo, Enviar, Mensaje, ConInterrupcion, CheckInterrupt, CpuSola
    <2> DEFINE q == cpu.pid
    <2>2. q \in Pids /\ desalojos' = Append(desalojos, Mensaje("OUT_OF_MEMORY", q)) /\ "OUT_OF_MEMORY" \in Motivos
      BY <1>0, <1>22
         DEF Manos, Motivos, ResizeFalla, EnCiclo, Enviar, Mensaje, ConInterrupcion, CheckInterrupt,
             CpuSola
    <2>3. \A r : Echados(r)' = Echados(r) + Uno("OUT_OF_MEMORY" # "RESOURCE_BLOCKED" /\ r = q)
      BY <1>0, <2>2, Manda
    <2>4. \A r : (Activa(r) <=> r = q) /\ ~Activa(r)'
      <3>1. ~cpu.respondio /\ cpu.en = "ciclo" /\ banderas = {}
        BY <1>0, <1>22
           DEF Preguntas, Ninguna, ResizeFalla, EnCiclo, Enviar, Mensaje, ConInterrupcion,
               CheckInterrupt, CpuSola
      <3>2. \A r : ~Activa(r)'
        BY <1>0, <1>22
           DEF Activa, TypeOK, ResizeFalla, EnCiclo, Enviar, Mensaje, ConInterrupcion,
               CheckInterrupt, CpuSola
      <3> QED
        BY <3>1, <3>2 DEF Activa
    <2> HIDE DEF q
    <2>5. \A r : /\ Mandados(r)' = Mandados(r) /\ (Trabaja(r)' <=> Trabaja(r))
                /\ Condenas(r)' = Condenas(r)
      BY <2>1, Quietos
    <2>6. \A r \in Pids :
           Mandados(r)' + Peso(Activa(r)') + Echados(r)' + Peso(Trabaja(r)') + Condenas(r)'
             <= Mandados(r) + Peso(Activa(r)) + Echados(r) + Peso(Trabaja(r)) + Condenas(r)
      BY <1>0, <2>3, <2>4, <2>5, Contados DEF Peso, Uno
    <2> QED
      BY <1>0, <1>a, <2>1, <2>6, Balance
  <1>23. CASE PedirRecurso("WAIT")
    <2>1. /\ UNCHANGED <<aCpu, tareas, consola, loko>>
          /\ \A r \in Pids : estado'[r] = "EXEC" <=> estado[r] = "EXEC"
      BY <1>23 DEF PedirRecurso, EnCiclo, Enviar, Mensaje, CpuSola
    <2> DEFINE q == cpu.pid
    <2>2. q \in Pids /\ desalojos' = Append(desalojos, Mensaje("WAIT", q)) /\ "WAIT" \in Motivos
      BY <1>0, <1>23 DEF Manos, Motivos, PedirRecurso, EnCiclo, Enviar, Mensaje, CpuSola
    <2>3. \A r : Echados(r)' = Echados(r) + Uno("WAIT" # "RESOURCE_BLOCKED" /\ r = q)
      BY <1>0, <2>2, Manda
    <2>4. \A r : (Activa(r) <=> r = q) /\ ~Activa(r)'
      <3>1. ~cpu.respondio /\ cpu.en = "ciclo" /\ banderas = {}
        BY <1>0, <1>23 DEF Preguntas, Ninguna, PedirRecurso, EnCiclo, Enviar, Mensaje, CpuSola
      <3>2. \A r : ~Activa(r)'
        BY <1>0, <1>23 DEF Activa, TypeOK, PedirRecurso, EnCiclo, Enviar, Mensaje, CpuSola
      <3> QED
        BY <3>1, <3>2 DEF Activa
    <2> HIDE DEF q
    <2>5. \A r : /\ Mandados(r)' = Mandados(r) /\ (Trabaja(r)' <=> Trabaja(r))
                /\ Condenas(r)' = Condenas(r)
      BY <2>1, Quietos
    <2>6. \A r \in Pids :
           Mandados(r)' + Peso(Activa(r)') + Echados(r)' + Peso(Trabaja(r)') + Condenas(r)'
             <= Mandados(r) + Peso(Activa(r)) + Echados(r) + Peso(Trabaja(r)) + Condenas(r)
      BY <1>0, <2>3, <2>4, <2>5, Contados DEF Peso, Uno
    <2> QED
      BY <1>0, <1>a, <2>1, <2>6, Balance
  <1>24. CASE PedirRecurso("SIGNAL")
    <2>1. /\ UNCHANGED <<aCpu, tareas, consola, loko>>
          /\ \A r \in Pids : estado'[r] = "EXEC" <=> estado[r] = "EXEC"
      BY <1>24 DEF PedirRecurso, EnCiclo, Enviar, Mensaje, CpuSola
    <2> DEFINE q == cpu.pid
    <2>2. q \in Pids /\ desalojos' = Append(desalojos, Mensaje("SIGNAL", q)) /\ "SIGNAL" \in Motivos
      BY <1>0, <1>24 DEF Manos, Motivos, PedirRecurso, EnCiclo, Enviar, Mensaje, CpuSola
    <2>3. \A r : Echados(r)' = Echados(r) + Uno("SIGNAL" # "RESOURCE_BLOCKED" /\ r = q)
      BY <1>0, <2>2, Manda
    <2>4. \A r : (Activa(r) <=> r = q) /\ ~Activa(r)'
      <3>1. ~cpu.respondio /\ cpu.en = "ciclo" /\ banderas = {}
        BY <1>0, <1>24 DEF Preguntas, Ninguna, PedirRecurso, EnCiclo, Enviar, Mensaje, CpuSola
      <3>2. \A r : ~Activa(r)'
        BY <1>0, <1>24 DEF Activa, TypeOK, PedirRecurso, EnCiclo, Enviar, Mensaje, CpuSola
      <3> QED
        BY <3>1, <3>2 DEF Activa
    <2> HIDE DEF q
    <2>5. \A r : /\ Mandados(r)' = Mandados(r) /\ (Trabaja(r)' <=> Trabaja(r))
                /\ Condenas(r)' = Condenas(r)
      BY <2>1, Quietos
    <2>6. \A r \in Pids :
           Mandados(r)' + Peso(Activa(r)') + Echados(r)' + Peso(Trabaja(r)') + Condenas(r)'
             <= Mandados(r) + Peso(Activa(r)) + Echados(r) + Peso(Trabaja(r)) + Condenas(r)
      BY <1>0, <2>3, <2>4, <2>5, Contados DEF Peso, Uno
    <2> QED
      BY <1>0, <1>a, <2>1, <2>6, Balance
  <1>25. CASE LeerRespuesta
    <2>1. /\ UNCHANGED <<desalojos, tareas, consola, loko>>
          /\ \A r \in Pids : estado'[r] = "EXEC" <=> estado[r] = "EXEC"
      BY <1>25 DEF LeerRespuesta, ConInterrupcion, CheckInterrupt, CpuSola
    <2> DEFINE m == Head(aCpu)
    <2>2. aCpu # <<>> /\ aCpu' = Tail(aCpu) /\ cpu.en = "recurso"
      BY <1>25 DEF LeerRespuesta, ConInterrupcion, CheckInterrupt, CpuSola
    <2>3. /\ m.pid \in Pids /\ \E j \in DOMAIN aCpu : aCpu[j] = m
          /\ \A r : Mandados(r) = Mandados(r)' + Uno(m.tipo \in {"PCB", "RESOURCE_OK"} /\ r = m.pid)
      BY <1>0, <2>2, Atiende
    <2>4. m.tipo \in Respuestas /\ m.pid = cpu.pid
      BY <1>0, <2>2, <2>3 DEF Preguntas
    <2>5. m.tipo \in {"PCB", "RESOURCE_OK"} <=> m.tipo = "RESOURCE_OK"
      BY <2>4 DEF Respuestas
    <2>6. \A r : ~Activa(r) /\ (Activa(r)' <=> r = m.pid /\ m.tipo = "RESOURCE_OK")
      <3>1. /\ cpu'.en = "ciclo" /\ cpu'.pid = cpu.pid
            /\ cpu'.respondio <=> m.tipo # "RESOURCE_OK"
        BY <1>0, <1>25 DEF TypeOK, LeerRespuesta
      <3>2. "input_output" \notin banderas'
        BY <1>25 DEF LeerRespuesta, ConInterrupcion, CheckInterrupt, CpuSola
      <3> QED
        BY <2>2, <2>4, <3>1, <3>2 DEF Activa
    <2> HIDE DEF m
    <2>7. \A r : /\ Echados(r)' = Echados(r) /\ (Trabaja(r)' <=> Trabaja(r))
                /\ Condenas(r)' = Condenas(r)
      BY <2>1, Quietos
    <2>8. \A r \in Pids :
           Mandados(r)' + Peso(Activa(r)') + Echados(r)' + Peso(Trabaja(r)') + Condenas(r)'
             <= Mandados(r) + Peso(Activa(r)) + Echados(r) + Peso(Trabaja(r)) + Condenas(r)
      BY <1>0, <1>a, <2>3, <2>5, <2>6, <2>7, ContadosLuego, Contados DEF Peso, Uno
    <2> QED
      BY <1>0, <1>a, <2>1, <2>8, Balance
  <1>26. CASE TerminarFin
    <2>1. /\ UNCHANGED <<aCpu, tareas, consola, loko>>
          /\ \A r \in Pids : estado'[r] = "EXEC" <=> estado[r] = "EXEC"
      BY <1>26 DEF TerminarFin, Terminar, Mensaje, CpuSola
    <2> DEFINE q == cpu.pid
    <2>2. q \in Pids /\ "END_PROCESS" \in Motivos
      BY <1>0, <1>26 DEF Manos, Motivos, TerminarFin, Terminar, Mensaje, CpuSola
    <2>3. desalojos' = Append(desalojos, Mensaje("END_PROCESS", q))
      <3>1. /\ desalojos \in Seq([tipo : Motivos, pid : Pids])
            /\ Mensaje("END_PROCESS", q) \in [tipo : Motivos, pid : Pids]
        BY <1>0, <2>2 DEF TypeOK, Mensaje
      <3>2. desalojos' = desalojos \o <<Mensaje("END_PROCESS", q)>>
        BY <1>26 DEF TerminarFin, Terminar
      <3> QED
        BY <3>1, <3>2, AppendIsConcat
    <2>4. \A r : Echados(r)' = Echados(r) + Uno("END_PROCESS" # "RESOURCE_BLOCKED" /\ r = q)
      BY <1>0, <2>2, <2>3, Manda
    <2>5. \A r : ~Activa(r)' /\ (Activa(r) <=> r = q)
      BY <1>0, <1>26 DEF Activa, Manos, TerminarFin, Terminar, Mensaje, CpuSola
    <2> HIDE DEF q
    <2>6. \A r : /\ Mandados(r)' = Mandados(r) /\ (Trabaja(r)' <=> Trabaja(r))
                /\ Condenas(r)' = Condenas(r)
      BY <2>1, Quietos
    <2>7. \A r \in Pids :
           Mandados(r)' + Peso(Activa(r)') + Echados(r)' + Peso(Trabaja(r)') + Condenas(r)'
             <= Mandados(r) + Peso(Activa(r)) + Echados(r) + Peso(Trabaja(r)) + Condenas(r)
      BY <1>0, <2>4, <2>5, <2>6, Contados DEF Peso, Uno
    <2> QED
      BY <1>0, <1>a, <2>1, <2>7, Balance
  <1>27. CASE AccionInterrupt
    <2>1. /\ UNCHANGED <<aCpu, tareas, consola, loko>>
          /\ \A r \in Pids : estado'[r] = "EXEC" <=> estado[r] = "EXEC"
      BY <1>27 DEF AccionInterrupt, Terminar, Mensaje, CpuSola
    <2> DEFINE q == cpu.pid
    <2>2. q \in Pids /\ interrupcion.tipo \in Reales
      BY <1>0, <1>27
         DEF Manos, TypeOK, Interrupciones, Reales, Motivos, AccionInterrupt, Terminar, Mensaje,
             CpuSola
    <2> DEFINE e == IF "bloqueado" \in banderas THEN <<Mensaje("RESOURCE_BLOCKED", q)>> ELSE <<>>
    <2>3. e \in {<<>>, <<Mensaje("RESOURCE_BLOCKED", q)>>}
      OBVIOUS
    <2>4. desalojos' = desalojos \o (<<Mensaje(interrupcion.tipo, q)>> \o e)
      BY <1>27 DEF AccionInterrupt, Terminar
    <2> HIDE DEF e
    <2>5. interrupcion.tipo \in Motivos /\ interrupcion.tipo # "RESOURCE_BLOCKED"
      BY <2>2 DEF Reales
    <2>6. \A r : Echados(r)' = Echados(r) + Uno(interrupcion.tipo # "RESOURCE_BLOCKED" /\ r = q)
      BY <1>0, <2>2, <2>3, <2>4, <2>5, Despide
    <2>7. \A r : ~Activa(r)' /\ (Activa(r) <=> r = q)
      BY <1>0, <1>27 DEF Activa, Manos, AccionInterrupt, Terminar, Mensaje, CpuSola
    <2> HIDE DEF q
    <2>8. \A r : /\ Mandados(r)' = Mandados(r) /\ (Trabaja(r)' <=> Trabaja(r))
                /\ Condenas(r)' = Condenas(r)
      BY <2>1, Quietos
    <2>9. \A r \in Pids :
           Mandados(r)' + Peso(Activa(r)') + Echados(r)' + Peso(Trabaja(r)') + Condenas(r)'
             <= Mandados(r) + Peso(Activa(r)) + Echados(r) + Peso(Trabaja(r)) + Condenas(r)
      BY <1>0, <2>5, <2>6, <2>7, <2>8, Contados DEF Peso, Uno
    <2> QED
      BY <1>0, <1>a, <2>1, <2>9, Balance
  <1>28. CASE TerminarCallado
    <2>1. /\ UNCHANGED <<aCpu, tareas, consola, loko>>
          /\ \A r \in Pids : estado'[r] = "EXEC" <=> estado[r] = "EXEC"
      BY <1>28 DEF TerminarCallado, Terminar, Mensaje, CpuSola
    <2> DEFINE q == cpu.pid
    <2>2. q \in Pids
      BY <1>0, <1>28 DEF Manos, TerminarCallado, Terminar, Mensaje, CpuSola
    <2> DEFINE e == IF "bloqueado" \in banderas THEN <<Mensaje("RESOURCE_BLOCKED", q)>> ELSE <<>>
    <2>3. e \in {<<>>, <<Mensaje("RESOURCE_BLOCKED", q)>>}
      OBVIOUS
    <2>4. desalojos' = desalojos \o e
      BY <1>28 DEF TerminarCallado, Terminar
    <2> HIDE DEF e
    <2>5. \A r : Echados(r)' = Echados(r)
      BY <1>0, <2>2, <2>3, <2>4, Calla
    <2>6. \A r : ~Activa(r)'
      BY <1>0, <1>28 DEF Activa, Manos, TerminarCallado, Terminar, Mensaje, CpuSola
    <2> HIDE DEF q
    <2>7. \A r : /\ Mandados(r)' = Mandados(r) /\ (Trabaja(r)' <=> Trabaja(r))
                /\ Condenas(r)' = Condenas(r)
      BY <2>1, Quietos
    <2>8. \A r \in Pids :
           Mandados(r)' + Peso(Activa(r)') + Echados(r)' + Peso(Trabaja(r)') + Condenas(r)'
             <= Mandados(r) + Peso(Activa(r)) + Echados(r) + Peso(Trabaja(r)) + Condenas(r)
      BY <1>0, <2>5, <2>6, <2>7, Contados DEF Peso, Uno
    <2> QED
      BY <1>0, <1>a, <2>1, <2>8, Balance
  <1> QED
    BY <1>0, <1>1, <1>2, <1>3, <1>4, <1>5, <1>6, <1>7, <1>8, <1>9, <1>10, <1>11, <1>12, <1>13,
       <1>14, <1>15, <1>16, <1>17, <1>18, <1>19, <1>20, <1>21, <1>22, <1>23, <1>24, <1>25, <1>26,
       <1>27, <1>28
       DEF Next, HiloCorto, HiloReloj, HiloDespacho, HiloConsola, HiloCpu, Ciclo
-----------------------------------------------------------------------------
(* The token of the CPU.                                                   *)

LEMMA FichaQuieta ==
  ASSUME Ficha, UNCHANGED <<estado, tareas, en_ejecucion, cpu_libre>>
  PROVE  Ficha'
  BY DEF Ficha, Ocupa, Saliente, Hay, CambiaEstado

Tomada == \E p \in Pids : Ocupa(p)
Suelta == Hay({"soltar"}) /\ ~Hay(EnLista)

LEMMA FichaDe ==
  /\ Ficha <=> /\ \A p \in Pids : Ocupa(p) => en_ejecucion = p
               /\ cpu_libre + Peso(Tomada) + Peso(Suelta) = 1
  /\ Ficha' <=> /\ \A p \in Pids : Ocupa(p)' => en_ejecucion' = p
                /\ cpu_libre' + Peso(Tomada') + Peso(Suelta') = 1
  <1>1. CambiaEstado <=> Hay(EnLista)
    BY DEF CambiaEstado, EnLista
  <1>2. CambiaEstado' <=> Hay(EnLista)'
    BY DEF CambiaEstado, EnLista, Hay
  <1>3. /\ Uno(\E p \in Pids : Ocupa(p)) = Peso(Tomada)
        /\ Uno(\E p \in Pids : Ocupa(p))' = Peso(Tomada')
        /\ Uno(Hay({"soltar"}) /\ ~CambiaEstado) = Peso(Suelta)
        /\ Uno(Hay({"soltar"}) /\ ~CambiaEstado)' = Peso(Suelta')
    BY <1>1, <1>2 DEF Uno, Peso, Tomada, Suelta
  <1> QED
    BY <1>3 DEF Ficha

LEMMA FichaIgual ==
  ASSUME Ficha, \A p \in Pids : Ocupa(p)' <=> Ocupa(p),
         UNCHANGED <<en_ejecucion, cpu_libre>>, Suelta' <=> Suelta
  PROVE  Ficha'
  <1>1. Tomada' <=> Tomada
    BY DEF Tomada
  <1>2. Peso(Tomada') = Peso(Tomada) /\ Peso(Suelta') = Peso(Suelta)
    BY <1>1 DEF Peso
  <1> QED
    BY <1>2, FichaDe


\* Each step keeps the CPU given once.
LEMMA PasoFicha ==
  ASSUME Tipos, Orden, ~quiebre, Next, ~quiebre'
  PROVE  Ficha'
  <1> USE DEF varsPlan, varsReloj, varsDespacho, varsConsola, varsCpu, varsInt, historia
  <1>0. TypeOK /\ Formas /\ Manos /\ EnCola /\ Vuelo /\ Ficha /\ Preguntas /\ Consolas
    BY DEF Tipos, Orden
  <1>1. ASSUME NEW p \in Pids, ALaCola(p) PROVE Ficha'
    <2>1. /\ UNCHANGED <<tareas, en_ejecucion, cpu_libre>>
          /\ \A r \in Pids : estado'[r] = "EXEC" <=> estado[r] = "EXEC"
      BY <1>0, <1>1 DEF TypeOK, ALaCola, Cambiar
    <2>2. (\A r \in Pids : Ocupa(r)' <=> Ocupa(r)) /\ (Suelta' <=> Suelta)
      BY <2>1 DEF Ocupa, Saliente, Suelta, Hay
    <2> QED
      BY <1>0, <2>1, <2>2, FichaIgual
  <1>2. ASSUME NEW p \in Pids, Finalizar(p) PROVE Ficha'
    <2>1. UNCHANGED <<estado, tareas, en_ejecucion, cpu_libre>>
      BY <1>2 DEF Finalizar, Mensaje
    <2> QED
      BY <1>0, <2>1, FichaQuieta DEF Orden
  <1>3. CASE Despachar
    <2>0. /\ UNCHANGED tareas /\ estado' = [estado EXCEPT ![Head(listos)] = "EXEC"]
          /\ en_ejecucion' = Head(listos) /\ cpu_libre' = cpu_libre - 1 /\ cpu_libre > 0
          /\ listos # <<>> /\ listos' = Tail(listos)
      BY <1>3 DEF Despachar, Cambiar, Mensaje
    <2>2. PICK q \in Pids : q = Head(listos) /\ estado[q] = "READY"
      BY <1>0, <2>0, ColaAtiende
    <2>1. /\ UNCHANGED tareas /\ estado' = [estado EXCEPT ![q] = "EXEC"]
          /\ en_ejecucion' = q /\ cpu_libre' = cpu_libre - 1 /\ cpu_libre > 0
      BY <2>0, <2>2
    <2>3. estado'[q] = "EXEC" /\ \A r \in Pids \ {q} : estado'[r] = estado[r]
      BY <1>0, <2>1, <2>2 DEF TypeOK
    <2>4. cpu_libre = 1 /\ ~Tomada /\ ~Suelta
      BY <1>0, <2>1, FichaDe DEF Peso, TypeOK
    <2>5. \A r \in Pids : (Saliente(r)' <=> Saliente(r)) /\ (Saliente(r) => estado[r] = "EXEC")
      BY <1>0, <2>1, SalienteTrabaja, Unico DEF Saliente
    <2>6. Ocupa(q)' /\ \A r \in Pids \ {q} : ~Ocupa(r)'
      BY <2>2, <2>3, <2>4, <2>5 DEF Ocupa, Tomada
    <2>7. Tomada' /\ ~Suelta'
      BY <2>1, <2>2, <2>4, <2>6 DEF Tomada, Suelta, Hay
    <2> QED
      BY <2>1, <2>4, <2>6, <2>7, FichaDe DEF Peso
  <1>4. CASE ArrancarQuantum
    <2>1. UNCHANGED <<estado, tareas, en_ejecucion, cpu_libre>>
      BY <1>4 DEF ArrancarQuantum
    <2> QED
      BY <1>0, <2>1, FichaQuieta DEF Orden
  <1>5. CASE TomarArranque
    <2>1. UNCHANGED <<estado, tareas, en_ejecucion, cpu_libre>>
      BY <1>5 DEF TomarArranque, RelojSolo
    <2> QED
      BY <1>0, <2>1, FichaQuieta DEF Orden
  <1>6. CASE CpuLibreATiempo
    <2>1. UNCHANGED <<estado, tareas, en_ejecucion, cpu_libre>>
      BY <1>6 DEF CpuLibreATiempo, RelojSolo
    <2> QED
      BY <1>0, <2>1, FichaQuieta DEF Orden
  <1>7. CASE Vencer
    <2>1. UNCHANGED <<estado, tareas, en_ejecucion, cpu_libre>>
      BY <1>7 DEF Vencer, RelojSolo, Mensaje
    <2> QED
      BY <1>0, <2>1, FichaQuieta DEF Orden
  <1>8. CASE Recibir
    <2>1. UNCHANGED <<estado, en_ejecucion, cpu_libre>>
      BY <1>8 DEF Recibir
    <2>2. SinSaliente /\ ~Suelta /\ ~Suelta'
      BY <1>0, <1>8, UnDesalojo DEF Suelta
    <2>3. \A r \in Pids : Ocupa(r)' <=> Ocupa(r)
      BY <2>1, <2>2 DEF Ocupa, SinSaliente
    <2> QED
      BY <1>0, <2>1, <2>2, <2>3, FichaIgual
  <1>9. CASE Avisar
    <2>1. UNCHANGED <<estado, en_ejecucion, cpu_libre>> /\ Tarea({"avisar", "avisar_muerte"})
      BY <1>9 DEF Tarea, Respuestas, Avisar
    <2>2. SinSaliente /\ Igual({"soltar"}) /\ Igual(EnLista)
      BY <1>0, <2>1, UnAviso
    <2>3. (\A r \in Pids : Ocupa(r)' <=> Ocupa(r)) /\ (Suelta' <=> Suelta)
      BY <2>1, <2>2 DEF Ocupa, SinSaliente, Suelta, Igual
    <2> QED
      BY <1>0, <2>1, <2>3, FichaIgual
  <1>10. CASE Soltar
    <2>1. UNCHANGED <<estado, en_ejecucion>> /\ cpu_libre' = cpu_libre + 1 /\ Tarea({"soltar"})
      BY <1>10 DEF Tarea, Soltar
    <2> DEFINE q == DeTarea
    <2>2. /\ q \in Pids /\ Hay({"soltar"}) /\ ~Hay({"soltar"})'
          /\ \A r \in Pids : ~Saliente(r) /\ (Saliente(r)' <=> r = q /\ Hay(EnLista))
      BY <1>0, <2>1, UnaSuelta
    <2> HIDE DEF q
    <2>3. ~Suelta'
      BY <2>2 DEF Suelta
    <2>4. CASE Hay(EnLista)
      <3>1. Trabaja(q)
        BY <2>4 DEF Trabaja, Hay, EnLista, DaVuelo, DeTarea, q
      <3>2. Ocupa(q) /\ en_ejecucion = q /\ cpu_libre = 0
        BY <2>2, <3>1, Ocupado
      <3>3. \A r \in Pids : Ocupa(r) => r = q
        BY <1>0, <3>2 DEF Ficha
      <3>4. \A r \in Pids : ~Ocupa(r)'
        BY <2>1, <2>2, <2>4, <3>3 DEF Ocupa
      <3>5. ~Tomada'
        BY <3>4 DEF Tomada
      <3> QED
        BY <2>1, <2>3, <3>2, <3>4, <3>5, FichaDe DEF Peso
    <2>5. CASE ~Hay(EnLista)
      <3>1. Suelta
        BY <2>2, <2>5 DEF Suelta
      <3>2. \A r \in Pids : Ocupa(r)' <=> Ocupa(r)
        BY <2>1, <2>2, <2>5 DEF Ocupa
      <3>3. Tomada' <=> Tomada
        BY <3>2 DEF Tomada
      <3>4. cpu_libre = 0 /\ ~Tomada
        BY <1>0, <3>1, FichaDe DEF Peso, TypeOK
      <3>5. \A r \in Pids : ~Ocupa(r)'
        BY <3>2, <3>4 DEF Tomada
      <3> QED
        BY <2>1, <2>3, <3>3, <3>4, <3>5, FichaDe DEF Peso
    <2> QED
      BY <2>4, <2>5
  <1>11. CASE Listar
    <2>1. UNCHANGED <<en_ejecucion, cpu_libre>> /\ Tarea(EnLista)
      BY <1>11 DEF Tarea, EnLista, Listar, Cambiar
    <2>2. PICK q \in Pids :
          /\ q = DeTarea /\ Trabaja(q) /\ Hay(EnLista) /\ ~Hay(EnLista)' /\ Igual({"soltar"})
          /\ \A r \in Pids : ~Saliente(r)' /\ (Saliente(r) <=> r = q /\ ~Hay({"soltar"}))
      BY <1>0, <2>1, UnCambio
    <2>3. estado'[q] # "EXEC" /\ \A r \in Pids \ {q} : estado'[r] = estado[r]
      BY <1>0, <2>2, <1>11 DEF TypeOK, Listar, Cambiar
    <2>4. estado[q] = "EXEC"
      BY <1>0, <2>2, Unico
    <2>5. ~Ocupa(q)' /\ \A r \in Pids \ {q} : Ocupa(r)' <=> Ocupa(r)
      BY <2>2, <2>3 DEF Ocupa
    <2>6. ~Suelta /\ (Suelta' <=> Hay({"soltar"}))
      BY <2>2 DEF Suelta, Igual
    <2>7. CASE Hay({"soltar"})
      <3>1. Ocupa(q) /\ en_ejecucion = q /\ cpu_libre = 0
        BY <2>2, <2>7, Ocupado
      <3>2. \A r \in Pids : ~Ocupa(r)'
        BY <1>0, <2>5, <3>1 DEF Ficha
      <3>3. ~Tomada'
        BY <3>2 DEF Tomada
      <3> QED
        BY <2>1, <2>6, <2>7, <3>1, <3>2, <3>3, FichaDe DEF Peso
    <2>8. CASE ~Hay({"soltar"})
      <3>1. ~Ocupa(q)
        BY <2>2, <2>8 DEF Ocupa
      <3>2. \A r \in Pids : Ocupa(r)' <=> Ocupa(r)
        BY <2>5, <3>1
      <3> QED
        BY <1>0, <2>1, <2>6, <2>8, <3>2, FichaIgual
    <2> QED
      BY <2>7, <2>8
  <1>12. CASE Retirar
    <2>1. UNCHANGED <<en_ejecucion, cpu_libre>> /\ Tarea(EnLista)
      BY <1>12 DEF Tarea, EnLista, Retirar, Cambiar
    <2>2. PICK q \in Pids :
          /\ q = DeTarea /\ Trabaja(q) /\ Hay(EnLista) /\ ~Hay(EnLista)' /\ Igual({"soltar"})
          /\ \A r \in Pids : ~Saliente(r)' /\ (Saliente(r) <=> r = q /\ ~Hay({"soltar"}))
      BY <1>0, <2>1, UnCambio
    <2>3. estado'[q] # "EXEC" /\ \A r \in Pids \ {q} : estado'[r] = estado[r]
      BY <1>0, <2>2, <1>12 DEF TypeOK, Retirar, Cambiar
    <2>4. estado[q] = "EXEC"
      BY <1>0, <2>2, Unico
    <2>5. ~Ocupa(q)' /\ \A r \in Pids \ {q} : Ocupa(r)' <=> Ocupa(r)
      BY <2>2, <2>3 DEF Ocupa
    <2>6. ~Suelta /\ (Suelta' <=> Hay({"soltar"}))
      BY <2>2 DEF Suelta, Igual
    <2>7. CASE Hay({"soltar"})
      <3>1. Ocupa(q) /\ en_ejecucion = q /\ cpu_libre = 0
        BY <2>2, <2>7, Ocupado
      <3>2. \A r \in Pids : ~Ocupa(r)'
        BY <1>0, <2>5, <3>1 DEF Ficha
      <3>3. ~Tomada'
        BY <3>2 DEF Tomada
      <3> QED
        BY <2>1, <2>6, <2>7, <3>1, <3>2, <3>3, FichaDe DEF Peso
    <2>8. CASE ~Hay({"soltar"})
      <3>1. ~Ocupa(q)
        BY <2>2, <2>8 DEF Ocupa
      <3>2. \A r \in Pids : Ocupa(r)' <=> Ocupa(r)
        BY <2>5, <3>1
      <3> QED
        BY <1>0, <2>1, <2>6, <2>8, <3>2, FichaIgual
    <2> QED
      BY <2>7, <2>8
  <1>13. CASE Responder
    <2>1. UNCHANGED <<estado, en_ejecucion, cpu_libre>> /\ Tarea(Respuestas)
      BY <1>13 DEF Tarea, Respuestas, Responder
    <2>2. SinSaliente /\ Igual({"soltar"}) /\ Igual(EnLista)
      BY <1>0, <2>1, UnaRespuesta
    <2>3. (\A r \in Pids : Ocupa(r)' <=> Ocupa(r)) /\ (Suelta' <=> Suelta)
      BY <2>1, <2>2 DEF Ocupa, SinSaliente, Suelta, Igual
    <2> QED
      BY <1>0, <2>1, <2>3, FichaIgual
  <1>14. CASE Matar
    <2>1. UNCHANGED <<estado, en_ejecucion, cpu_libre>> /\ Tarea({"matar"})
      BY <1>14 DEF Tarea, Respuestas, Matar
    <2>2. SinSaliente /\ Igual({"soltar"}) /\ Igual(EnLista)
      BY <1>0, <2>1, UnaMuerte
    <2>3. (\A r \in Pids : Ocupa(r)' <=> Ocupa(r)) /\ (Suelta' <=> Suelta)
      BY <2>1, <2>2 DEF Ocupa, SinSaliente, Suelta, Igual
    <2> QED
      BY <1>0, <2>1, <2>3, FichaIgual
  <1>15. CASE Finalizado
    <2> DEFINE c == consola.pid
    <2>1. /\ UNCHANGED <<tareas, en_ejecucion>> /\ loko > 0 /\ cpu_libre' = cpu_libre + 1
          /\ consola.en = "esperar" /\ estado' = [estado EXCEPT ![c] = "EXIT"]
      BY <1>15 DEF Finalizado
    <2>2. c \in Pids /\ Condenas(c) > 0
      BY <1>0, <2>1 DEF Consolas, Condenas
    <2> HIDE DEF c
    <2>3. Ocupa(c) /\ en_ejecucion = c /\ cpu_libre = 0
      BY <2>2, Ocupado
    <2>4. estado'[c] = "EXIT" /\ \A r \in Pids \ {c} : estado'[r] = estado[r]
      BY <1>0, <2>1, <2>2 DEF TypeOK
    <2>5. \A r \in Pids : ~Ocupa(r)'
      BY <1>0, <2>1, <2>3, <2>4 DEF Ocupa, Saliente, Ficha
    <2>6. ~Tomada' /\ ~Suelta /\ ~Suelta'
      <3>1. Tomada
        BY <2>2, <2>3 DEF Tomada
      <3>2. ~Suelta
        BY <1>0, <2>3, <3>1, FichaDe DEF Peso
      <3> QED
        BY <2>1, <2>5, <3>2 DEF Tomada, Suelta, Hay
    <2> QED
      BY <2>1, <2>3, <2>5, <2>6, FichaDe DEF Peso
  <1>16. CASE AvisarFinalizado
    <2>1. UNCHANGED <<estado, tareas, en_ejecucion, cpu_libre>>
      BY <1>16 DEF AvisarFinalizado
    <2> QED
      BY <1>0, <2>1, FichaQuieta DEF Orden
  <1>17. CASE RecibirInterrupcion
    <2>1. UNCHANGED <<estado, tareas, en_ejecucion, cpu_libre>>
      BY <1>17 DEF RecibirInterrupcion, CpuSola
    <2> QED
      BY <1>0, <2>1, FichaQuieta DEF Orden
  <1>18. CASE TomarPcb
    <2>1. UNCHANGED <<estado, tareas, en_ejecucion, cpu_libre>>
      BY <1>18 DEF TomarPcb, CpuSola
    <2> QED
      BY <1>0, <2>1, FichaQuieta DEF Orden
  <1>19. CASE Calculo
    <2>1. UNCHANGED <<estado, tareas, en_ejecucion, cpu_libre>>
      BY <1>19 DEF Calculo, EnCiclo, ConInterrupcion, CheckInterrupt, CpuSola
    <2> QED
      BY <1>0, <2>1, FichaQuieta DEF Orden
  <1>20. CASE Exit
    <2>1. UNCHANGED <<estado, tareas, en_ejecucion, cpu_libre>>
      BY <1>20 DEF Exit, EnCiclo, ConInterrupcion, CheckInterrupt, CpuSola
    <2> QED
      BY <1>0, <2>1, FichaQuieta DEF Orden
  <1>21. CASE OperacionIo
    <2>1. UNCHANGED <<estado, tareas, en_ejecucion, cpu_libre>>
      BY <1>21 DEF OperacionIo, EnCiclo, Enviar, Mensaje, ConInterrupcion, CheckInterrupt, CpuSola
    <2> QED
      BY <1>0, <2>1, FichaQuieta DEF Orden
  <1>22. CASE ResizeFalla
    <2>1. UNCHANGED <<estado, tareas, en_ejecucion, cpu_libre>>
      BY <1>22 DEF ResizeFalla, EnCiclo, Enviar, Mensaje, ConInterrupcion, CheckInterrupt, CpuSola
    <2> QED
      BY <1>0, <2>1, FichaQuieta DEF Orden
  <1>23. CASE PedirRecurso("WAIT")
    <2>1. UNCHANGED <<estado, tareas, en_ejecucion, cpu_libre>>
      BY <1>23 DEF PedirRecurso, EnCiclo, Enviar, Mensaje, CpuSola
    <2> QED
      BY <1>0, <2>1, FichaQuieta DEF Orden
  <1>24. CASE PedirRecurso("SIGNAL")
    <2>1. UNCHANGED <<estado, tareas, en_ejecucion, cpu_libre>>
      BY <1>24 DEF PedirRecurso, EnCiclo, Enviar, Mensaje, CpuSola
    <2> QED
      BY <1>0, <2>1, FichaQuieta DEF Orden
  <1>25. CASE LeerRespuesta
    <2>1. UNCHANGED <<estado, tareas, en_ejecucion, cpu_libre>>
      BY <1>25 DEF LeerRespuesta, ConInterrupcion, CheckInterrupt, CpuSola
    <2> QED
      BY <1>0, <2>1, FichaQuieta DEF Orden
  <1>26. CASE TerminarFin
    <2>1. UNCHANGED <<estado, tareas, en_ejecucion, cpu_libre>>
      BY <1>26 DEF TerminarFin, Terminar, Mensaje, CpuSola
    <2> QED
      BY <1>0, <2>1, FichaQuieta DEF Orden
  <1>27. CASE AccionInterrupt
    <2>1. UNCHANGED <<estado, tareas, en_ejecucion, cpu_libre>>
      BY <1>27 DEF AccionInterrupt, Terminar, Mensaje, CpuSola
    <2> QED
      BY <1>0, <2>1, FichaQuieta DEF Orden
  <1>28. CASE TerminarCallado
    <2>1. UNCHANGED <<estado, tareas, en_ejecucion, cpu_libre>>
      BY <1>28 DEF TerminarCallado, Terminar, Mensaje, CpuSola
    <2> QED
      BY <1>0, <2>1, FichaQuieta DEF Orden
  <1> QED
    BY <1>0, <1>1, <1>2, <1>3, <1>4, <1>5, <1>6, <1>7, <1>8, <1>9, <1>10, <1>11, <1>12, <1>13,
       <1>14, <1>15, <1>16, <1>17, <1>18, <1>19, <1>20, <1>21, <1>22, <1>23, <1>24, <1>25, <1>26,
       <1>27, <1>28
       DEF Next, HiloCorto, HiloReloj, HiloDespacho, HiloConsola, HiloCpu, Ciclo
-----------------------------------------------------------------------------
(* Questions and answers.                                                  *)

LEMMA PreguntasQuietas ==
  ASSUME Preguntas, UNCHANGED <<desalojos, tareas, aCpu, cpu, banderas>>
  PROVE  Preguntas'
  BY DEF Preguntas, Preguntados, Contestados, Hay

LEMMA PreguntasDe ==
  /\ Preguntas => Preguntados + Peso(Hay(Respuestas)) + Contestados = Peso(cpu.en = "recurso")
  /\ /\ Preguntados' + Peso(Hay(Respuestas)') + Contestados' = Peso(cpu'.en = "recurso")
     /\ \A k \in DOMAIN desalojos' : desalojos'[k].tipo \in Pedidos => desalojos'[k].pid = cpu'.pid
     /\ Hay(Respuestas)' => Head(tareas').pid = cpu'.pid
     /\ \A k \in DOMAIN aCpu' : aCpu'[k].tipo \in Respuestas => aCpu'[k].pid = cpu'.pid
     /\ cpu'.en = "recurso" /\ aCpu' # <<>> => Head(aCpu').tipo \in Respuestas
     /\ cpu'.respondio => banderas' # {}
     => Preguntas'
  <1>1. /\ Uno(Hay(Respuestas)) = Peso(Hay(Respuestas))
        /\ Uno(Hay(Respuestas))' = Peso(Hay(Respuestas)')
        /\ Uno(cpu.en = "recurso") = Peso(cpu.en = "recurso")
        /\ Uno(cpu.en = "recurso")' = Peso(cpu'.en = "recurso")
    BY DEF Uno, Peso
  <1> QED
    BY <1>1 DEF Preguntas

\* Every question and every answer that there is, is counted.
LEMMA Contadas ==
  ASSUME TypeOK
  PROVE  /\ \A k \in DOMAIN desalojos : desalojos[k].tipo \in Pedidos => Preguntados > 0
         /\ \A k \in DOMAIN aCpu : aCpu[k].tipo \in Respuestas => Contestados > 0
         /\ \A k \in DOMAIN desalojos : /\ desalojos[k].pid \in Pids
                                        /\ desalojos[k].tipo \in Reales => Echados(desalojos[k].pid) > 0
         /\ \A k \in DOMAIN aCpu : /\ aCpu[k].pid \in Pids /\ aCpu[k].tipo \in Respuestas \cup {"PCB"}
                                   /\ aCpu[k].tipo \in {"PCB", "RESOURCE_OK"} => Mandados(aCpu[k].pid) > 0
  <1> DEFINE A == [tipo : Respuestas \cup {"PCB"}, pid : Pids]
             D == [tipo : Motivos, pid : Pids]
  <1>1. aCpu \in Seq(A) /\ desalojos \in Seq(D)
    BY DEF TypeOK
  <1>2. (\A k \in DOMAIN aCpu : aCpu[k] \in A) /\ (\A k \in DOMAIN desalojos : desalojos[k] \in D)
    <2> HIDE DEF A, D
    <2> QED
      BY <1>1
  <1>3. \A m \in D : /\ m.tipo \in Pedidos => m \in Todos(Pedidos)
                     /\ m.pid \in Pids
    BY DEF Todos
  <1>4. \A m \in A : /\ m.tipo \in Respuestas => m \in Todos(Respuestas)
                     /\ m.pid \in Pids /\ m.tipo \in Respuestas \cup {"PCB"}
    BY DEF Todos
  <1>5. \A m \in D : m.tipo \in Reales => m \in De(Reales, m.pid)
    BY DEF De, Mensaje
  <1>6. \A m \in A : m.tipo \in {"PCB", "RESOURCE_OK"} => m \in De({"PCB", "RESOURCE_OK"}, m.pid)
    BY DEF De, Mensaje
  <1> HIDE DEF A, D
  <1>7. /\ Preguntados > 0 <=> \E k \in DOMAIN desalojos : desalojos[k] \in Todos(Pedidos)
        /\ Contestados > 0 <=> \E k \in DOMAIN aCpu : aCpu[k] \in Todos(Respuestas)
        /\ \A p : Mandados(p) > 0 <=> \E k \in DOMAIN aCpu : aCpu[k] \in De({"PCB", "RESOURCE_OK"}, p)
        /\ \A p : Echados(p) > 0 <=> \E k \in DOMAIN desalojos : desalojos[k] \in De(Reales, p)
    BY Contados
  <1> QED
    BY <1>2, <1>3, <1>4, <1>5, <1>6, <1>7

LEMMA NadieLuego ==
  ASSUME TypeOK', Preguntados' = 0, Contestados' = 0
  PROVE  /\ \A k \in DOMAIN desalojos' : desalojos'[k].tipo \notin Pedidos
         /\ \A k \in DOMAIN aCpu' : aCpu'[k].tipo \notin Respuestas
  <1> DEFINE A == [tipo : Respuestas \cup {"PCB"}, pid : Pids]
             D == [tipo : Motivos, pid : Pids]
  <1>1. aCpu' \in Seq(A) /\ desalojos' \in Seq(D)
    BY DEF TypeOK
  <1>2. /\ \A m \in D : m.tipo \in Pedidos => m \in Todos(Pedidos)
        /\ \A m \in A : m.tipo \in Respuestas => m \in Todos(Respuestas)
    BY DEF Todos
  <1> HIDE DEF A, D
  <1>3. (\A k \in DOMAIN aCpu' : aCpu'[k] \in A) /\ (\A k \in DOMAIN desalojos' : desalojos'[k] \in D)
    BY <1>1
  <1>4. /\ \A T : Cuantos(desalojos', T) > 0 <=> \E k \in DOMAIN desalojos' : desalojos'[k] \in T
        /\ \A T : Cuantos(aCpu', T) > 0 <=> \E k \in DOMAIN aCpu' : aCpu'[k] \in T
    BY <1>1, CuantosPositivo
  <1>5. Cuantos(desalojos', Todos(Pedidos)) = 0 /\ Cuantos(aCpu', Todos(Respuestas)) = 0
    BY DEF Preguntados, Contestados
  <1> QED
    BY <1>2, <1>3, <1>4, <1>5

LEMMA Callada ==
  ASSUME TypeOK, Preguntas, cpu.en # "recurso"
  PROVE  /\ Preguntados = 0 /\ ~Hay(Respuestas) /\ Contestados = 0
         /\ \A k \in DOMAIN aCpu : aCpu[k].tipo = "PCB"
  <1>1. Preguntados \in Nat /\ Contestados \in Nat
    BY Contados
  <1>2. Preguntados = 0 /\ ~Hay(Respuestas) /\ Contestados = 0
    BY <1>1, PreguntasDe DEF Peso
  <1> QED
    BY <1>2, Contadas

LEMMA QuedaCallada ==
  ASSUME TypeOK', cpu'.en # "recurso", Preguntados' = 0, ~Hay(Respuestas)', Contestados' = 0,
         cpu'.respondio => banderas' # {}
  PROVE  Preguntas'
  BY NadieLuego, PreguntasDe DEF Peso

\* Who asks has the CPU.
LEMMA PreguntaOcupa ==
  ASSUME Tipos, Orden, cpu.en = "recurso", aCpu = <<>>
  PROVE  cpu_libre = 0
  <1>1. TypeOK /\ Formas /\ Preguntas
    BY DEF Tipos, Orden
  <1>2. Preguntados \in Nat /\ Contestados \in Nat
    BY <1>1, Contados
  <1>3. Preguntados > 0 \/ Hay(Respuestas) \/ Contestados > 0
    BY <1>1, <1>2, PreguntasDe DEF Peso
  <1>4. CASE Preguntados > 0
    <2>1. PICK k \in DOMAIN desalojos : desalojos[k] \in Todos(Pedidos)
      BY <1>1, <1>4, Contados
    <2>2. desalojos[k].tipo \in Reales
      BY <2>1 DEF Todos, Pedidos, Reales, Motivos
    <2>3. desalojos[k].pid \in Pids /\ Echados(desalojos[k].pid) > 0
      BY <1>1, <2>2, Contadas
    <2> QED
      BY <2>3, Ocupado
  <1>5. CASE Hay(Respuestas)
    <2>1. Head(tareas).pid \in Pids /\ Trabaja(Head(tareas).pid)
      BY <1>1, <1>5, RespuestaPendiente
    <2>2. ~Saliente(Head(tareas).pid)
      BY <1>5, <2>1, SalienteTrabaja
    <2> QED
      BY <2>1, <2>2, Ocupado
  <1>6. CASE Contestados > 0
    <2>1. \E k \in DOMAIN aCpu : aCpu[k] \in Todos(Respuestas)
      BY <1>1, <1>6, Contados
    <2> QED
      BY <2>1
  <1> QED
    BY <1>3, <1>4, <1>5, <1>6

\* Nothing waits for the CPU while it works.
LEMMA CpuSinCola ==
  ASSUME Tipos, Orden, cpu.pid \in Pids, Activa(cpu.pid)
  PROVE  aCpu = <<>>
  <1>1. TypeOK /\ Vuelo /\ Preguntas /\ cpu.en = "ciclo"
    BY DEF Tipos, Orden, Activa
  <1>2. SUFFICES ASSUME aCpu # <<>> PROVE FALSE
    OBVIOUS
  <1>3. 1 \in DOMAIN aCpu
    BY <1>1, <1>2 DEF TypeOK
  <1>4. aCpu[1].tipo = "PCB"
    BY <1>1, <1>3, Callada
  <1>5. aCpu[1].pid \in Pids /\ Mandados(aCpu[1].pid) > 0
    BY <1>1, <1>3, <1>4, Contadas
  <1>6. en_ejecucion = aCpu[1].pid /\ en_ejecucion = cpu.pid
    BY <1>5, Ocupado
  <1>7. Mandados(cpu.pid) = 0
    BY <1>1, Unico
  <1> QED
    BY <1>5, <1>6, <1>7
\* Each step keeps one question and one answer.
LEMMA PasoPreguntas ==
  ASSUME Tipos, Orden, ~quiebre, Next, ~quiebre'
  PROVE  Preguntas'
  <1> USE DEF varsPlan, varsReloj, varsDespacho, varsConsola, varsCpu, varsInt, historia
  <1>0. TypeOK /\ Formas /\ Manos /\ EnCola /\ Vuelo /\ Ficha /\ Preguntas /\ Consolas
    BY DEF Tipos, Orden
  <1>a. TypeOK'
    BY PasoTipos DEF Tipos
  <1>1. ASSUME NEW p \in Pids, ALaCola(p) PROVE Preguntas'
    <2>1. UNCHANGED <<desalojos, tareas, aCpu, cpu, banderas>>
      BY <1>1 DEF ALaCola, Cambiar
    <2> QED
      BY <1>0, <2>1, PreguntasQuietas DEF Orden
  <1>2. ASSUME NEW p \in Pids, Finalizar(p) PROVE Preguntas'
    <2>1. UNCHANGED <<desalojos, tareas, aCpu, cpu, banderas>>
      BY <1>2 DEF Finalizar, Mensaje
    <2> QED
      BY <1>0, <2>1, PreguntasQuietas DEF Orden
  <1>3. CASE Despachar
    <2>0. /\ aCpu' = Append(aCpu, Mensaje("PCB", Head(listos))) /\ listos # <<>> /\ cpu_libre > 0
          /\ UNCHANGED <<desalojos, tareas, cpu, banderas>>
      BY <1>3 DEF Despachar, Cambiar, Mensaje
    <2>1. PICK q \in Pids : q = Head(listos)
      BY <1>0, <2>0, UnMensaje
    <2>2. /\ Contestados' = Contestados + Uno("PCB" \in Respuestas)
          /\ \A k \in DOMAIN aCpu' : \/ k \in DOMAIN aCpu /\ aCpu'[k] = aCpu[k]
                                     \/ aCpu'[k] = Mensaje("PCB", q)
          /\ Head(aCpu') = IF aCpu = <<>> THEN Mensaje("PCB", q) ELSE Head(aCpu)
      BY <1>0, <2>0, <2>1, Envia
    <2>3. "PCB" \notin Respuestas
      BY DEF Respuestas
    <2>4. Contestados' = Contestados /\ Preguntados' = Preguntados /\ (Hay(Respuestas)' <=> Hay(Respuestas))
      BY <1>0, <2>0, <2>2, <2>3, Contados DEF Uno, Preguntados, Hay
    <2>5. cpu.en = "recurso" => aCpu # <<>>
      BY <2>0, PreguntaOcupa
    <2>6. Preguntados' + Peso(Hay(Respuestas)') + Contestados' = Peso(cpu'.en = "recurso")
      BY <1>0, <2>0, <2>4, PreguntasDe DEF Peso
    <2>7. Mensaje("PCB", q).tipo = "PCB"
      BY MensajeDe
    <2>8. \A k \in DOMAIN aCpu' : aCpu'[k].tipo \in Respuestas => aCpu'[k].pid = cpu'.pid
      BY <1>0, <2>0, <2>2, <2>3, <2>7 DEF Preguntas
    <2>9. cpu'.en = "recurso" => Head(aCpu').tipo \in Respuestas
      BY <1>0, <2>0, <2>2, <2>5 DEF Preguntas
    <2>10. \A k \in DOMAIN desalojos' : desalojos'[k].tipo \in Pedidos => desalojos'[k].pid = cpu'.pid
      BY <1>0, <2>0 DEF Preguntas
    <2>11. (Hay(Respuestas)' => Head(tareas').pid = cpu'.pid) /\ (cpu'.respondio => banderas' # {})
      BY <1>0, <2>0, <2>4 DEF Preguntas
    <2> QED
      BY <2>6, <2>8, <2>9, <2>10, <2>11, PreguntasDe
  <1>4. CASE ArrancarQuantum
    <2>1. UNCHANGED <<desalojos, tareas, aCpu, cpu, banderas>>
      BY <1>4 DEF ArrancarQuantum
    <2> QED
      BY <1>0, <2>1, PreguntasQuietas DEF Orden
  <1>5. CASE TomarArranque
    <2>1. UNCHANGED <<desalojos, tareas, aCpu, cpu, banderas>>
      BY <1>5 DEF TomarArranque, RelojSolo
    <2> QED
      BY <1>0, <2>1, PreguntasQuietas DEF Orden
  <1>6. CASE CpuLibreATiempo
    <2>1. UNCHANGED <<desalojos, tareas, aCpu, cpu, banderas>>
      BY <1>6 DEF CpuLibreATiempo, RelojSolo
    <2> QED
      BY <1>0, <2>1, PreguntasQuietas DEF Orden
  <1>7. CASE Vencer
    <2>1. UNCHANGED <<desalojos, tareas, aCpu, cpu, banderas>>
      BY <1>7 DEF Vencer, RelojSolo, Mensaje
    <2> QED
      BY <1>0, <2>1, PreguntasQuietas DEF Orden
  <1>8. CASE Recibir
    <2>0. UNCHANGED <<aCpu, cpu, banderas>> /\ desalojos # <<>> /\ desalojos' = Tail(desalojos)
      BY <1>8 DEF Recibir
    <2> DEFINE m == Head(desalojos)
    <2>1. /\ ~Hay(Respuestas) /\ (Hay(Respuestas)' <=> m.tipo \in Pedidos)
          /\ tareas' # <<>> => Head(tareas').pid = m.pid
      BY <1>0, <1>8, UnDesalojo DEF Pedidos
    <2>2. /\ Preguntados = Preguntados' + Uno(m.tipo \in Pedidos)
          /\ \A k \in DOMAIN desalojos' : \E j \in DOMAIN desalojos : desalojos[j] = desalojos'[k]
          /\ \E j \in DOMAIN desalojos : desalojos[j] = m
      BY <1>0, <2>0, Recibe
    <2>3. m.tipo \in Pedidos => m.pid = cpu.pid
      BY <1>0, <2>2 DEF Preguntas
    <2> HIDE DEF m
    <2>4. Contestados' = Contestados
      BY <2>0 DEF Contestados
    <2>5. Preguntados' + Peso(Hay(Respuestas)') + Contestados' = Peso(cpu'.en = "recurso")
      BY <1>0, <1>a, <2>0, <2>1, <2>2, <2>4, PreguntasDe, Contados, ContadosLuego DEF Peso, Uno
    <2>6. Hay(Respuestas)' => tareas' # <<>>
      BY DEF Hay
    <2> QED
      BY <1>0, <2>0, <2>1, <2>2, <2>3, <2>5, <2>6, PreguntasDe DEF Preguntas
  <1>9. CASE Avisar
    <2>1. UNCHANGED <<desalojos, aCpu, cpu, banderas>> /\ Tarea({"avisar", "avisar_muerte"})
      BY <1>9 DEF Tarea, Avisar
    <2>2. Igual(Respuestas) /\ (tareas' # <<>> => Head(tareas').pid = DeTarea)
      BY <1>0, <2>1, UnAviso
    <2>3. (Hay(Respuestas)' => tareas' # <<>>) /\ (Hay(Respuestas)' <=> Hay(Respuestas))
      BY <2>2 DEF Hay, Igual
    <2>4. Contestados' = Contestados /\ Preguntados' = Preguntados
      BY <2>1 DEF Contestados, Preguntados
    <2>5. Preguntados' + Peso(Hay(Respuestas)') + Contestados' = Peso(cpu'.en = "recurso")
      BY <1>0, <2>1, <2>3, <2>4, PreguntasDe DEF Peso
    <2> QED
      BY <1>0, <2>1, <2>2, <2>3, <2>5, PreguntasDe DEF Preguntas, DeTarea
  <1>10. CASE Soltar
    <2>1. UNCHANGED <<desalojos, aCpu, cpu, banderas>> /\ Tarea({"soltar"})
      BY <1>10 DEF Tarea, Soltar
    <2>2. Igual(Respuestas) /\ (tareas' # <<>> => Head(tareas').pid = DeTarea)
      BY <1>0, <2>1, UnaSuelta
    <2>3. (Hay(Respuestas)' => tareas' # <<>>) /\ (Hay(Respuestas)' <=> Hay(Respuestas))
      BY <2>2 DEF Hay, Igual
    <2>4. Contestados' = Contestados /\ Preguntados' = Preguntados
      BY <2>1 DEF Contestados, Preguntados
    <2>5. Preguntados' + Peso(Hay(Respuestas)') + Contestados' = Peso(cpu'.en = "recurso")
      BY <1>0, <2>1, <2>3, <2>4, PreguntasDe DEF Peso
    <2> QED
      BY <1>0, <2>1, <2>2, <2>3, <2>5, PreguntasDe DEF Preguntas, DeTarea
  <1>11. CASE Listar
    <2>1. UNCHANGED <<desalojos, aCpu, cpu, banderas>> /\ Tarea(EnLista)
      BY <1>11 DEF Tarea, EnLista, Listar, Cambiar
    <2>2. ~Hay(Respuestas) /\ ~Hay(Respuestas)'
      BY <1>0, <2>1, UnCambio
    <2>3. Contestados' = Contestados /\ Preguntados' = Preguntados
      BY <2>1 DEF Contestados, Preguntados
    <2>4. Preguntados' + Peso(Hay(Respuestas)') + Contestados' = Peso(cpu'.en = "recurso")
      BY <1>0, <2>1, <2>2, <2>3, PreguntasDe DEF Peso
    <2> QED
      BY <1>0, <2>1, <2>2, <2>4, PreguntasDe DEF Preguntas
  <1>12. CASE Retirar
    <2>1. UNCHANGED <<desalojos, aCpu, cpu, banderas>> /\ Tarea(EnLista)
      BY <1>12 DEF Tarea, EnLista, Retirar, Cambiar
    <2>2. ~Hay(Respuestas) /\ ~Hay(Respuestas)'
      BY <1>0, <2>1, UnCambio
    <2>3. Contestados' = Contestados /\ Preguntados' = Preguntados
      BY <2>1 DEF Contestados, Preguntados
    <2>4. Preguntados' + Peso(Hay(Respuestas)') + Contestados' = Peso(cpu'.en = "recurso")
      BY <1>0, <2>1, <2>2, <2>3, PreguntasDe DEF Peso
    <2> QED
      BY <1>0, <2>1, <2>2, <2>4, PreguntasDe DEF Preguntas
  <1>13. CASE Responder
    <2>1. UNCHANGED <<desalojos, cpu, banderas>> /\ Tarea(Respuestas)
      BY <1>13 DEF Tarea, Respuestas, Responder
    <2>2. /\ DeTarea \in Pids /\ Hay(Respuestas) /\ ~Hay(Respuestas)'
      BY <1>0, <2>1, UnaRespuesta
    <2> DEFINE t == Head(tareas).tipo
    <2>3. /\ t \in Respuestas /\ Head(tareas) = Mensaje(t, DeTarea)
      <3>1. tareas # <<>> /\ Head(tareas).tipo \in Respuestas
        BY <2>1 DEF Tarea
      <3>2. tareas \in Seq(Todos(Trabajos))
        BY <1>0, TipoDeLista DEF Formas
      <3>3. Head(tareas) \in Todos(Trabajos)
        BY <3>1, <3>2, HeadTailProperties
      <3> QED
        BY <3>1, <3>3 DEF Todos, Mensaje, DeTarea
    <2>4. PICK q \in Pids : q = DeTarea
      BY <2>2
    <2>5. aCpu' = Append(aCpu, Mensaje(t, q))
      BY <1>13, <2>3, <2>4 DEF Responder
    <2> HIDE DEF t
    <2>6. /\ Contestados' = Contestados + Uno(t \in Respuestas)
          /\ \A k \in DOMAIN aCpu' : \/ k \in DOMAIN aCpu /\ aCpu'[k] = aCpu[k]
                                     \/ aCpu'[k] = Mensaje(t, q)
          /\ Head(aCpu') = IF aCpu = <<>> THEN Mensaje(t, q) ELSE Head(aCpu)
      BY <1>0, <2>3, <2>5, Envia
    <2>7. q = cpu.pid
      BY <1>0, <2>2, <2>4 DEF Preguntas, DeTarea
    <2>8. Preguntados' = Preguntados
      BY <2>1 DEF Preguntados
    <2>9. Preguntados' + Peso(Hay(Respuestas)') + Contestados' = Peso(cpu'.en = "recurso")
      BY <1>0, <2>1, <2>2, <2>3, <2>6, <2>8, PreguntasDe, Contados DEF Peso, Uno
    <2>10. Mensaje(t, q).tipo = t /\ Mensaje(t, q).pid = q
      BY MensajeDe
    <2> QED
      BY <1>0, <2>1, <2>2, <2>3, <2>6, <2>7, <2>9, <2>10, PreguntasDe DEF Preguntas
  <1>14. CASE Matar
    <2>1. UNCHANGED <<desalojos, aCpu, cpu, banderas>> /\ Tarea({"matar"})
      BY <1>14 DEF Tarea, Matar
    <2>2. Igual(Respuestas) /\ (tareas' # <<>> => Head(tareas').pid = DeTarea)
      BY <1>0, <2>1, UnaMuerte
    <2>3. (Hay(Respuestas)' => tareas' # <<>>) /\ (Hay(Respuestas)' <=> Hay(Respuestas))
      BY <2>2 DEF Hay, Igual
    <2>4. Contestados' = Contestados /\ Preguntados' = Preguntados
      BY <2>1 DEF Contestados, Preguntados
    <2>5. Preguntados' + Peso(Hay(Respuestas)') + Contestados' = Peso(cpu'.en = "recurso")
      BY <1>0, <2>1, <2>3, <2>4, PreguntasDe DEF Peso
    <2> QED
      BY <1>0, <2>1, <2>2, <2>3, <2>5, PreguntasDe DEF Preguntas, DeTarea
  <1>15. CASE Finalizado
    <2>1. UNCHANGED <<desalojos, tareas, aCpu, cpu, banderas>>
      BY <1>15 DEF Finalizado
    <2> QED
      BY <1>0, <2>1, PreguntasQuietas DEF Orden
  <1>16. CASE AvisarFinalizado
    <2>1. UNCHANGED <<desalojos, tareas, aCpu, cpu, banderas>>
      BY <1>16 DEF AvisarFinalizado
    <2> QED
      BY <1>0, <2>1, PreguntasQuietas DEF Orden
  <1>17. CASE RecibirInterrupcion
    <2>1. UNCHANGED <<desalojos, tareas, aCpu, cpu, banderas>>
      BY <1>17 DEF RecibirInterrupcion, CpuSola
    <2> QED
      BY <1>0, <2>1, PreguntasQuietas DEF Orden
  <1>18. CASE TomarPcb
    <2>1. /\ cpu.en = "libre" /\ cpu'.en = "ciclo" /\ ~cpu'.respondio /\ UNCHANGED <<desalojos, tareas>>
          /\ aCpu # <<>> /\ aCpu' = Tail(aCpu)
      BY <1>18 DEF TomarPcb, CpuSola
    <2>2. Preguntados = 0 /\ ~Hay(Respuestas) /\ Contestados = 0
      BY <1>0, <2>1, Callada
    <2>3. Contestados = Contestados' + Uno(Head(aCpu).tipo \in Respuestas)
      BY <1>0, <2>1, Atiende
    <2>4. Preguntados' = 0 /\ ~Hay(Respuestas)' /\ Contestados' = 0
      BY <1>a, <2>1, <2>2, <2>3, ContadosLuego DEF Preguntados, Hay, Uno
    <2> QED
      BY <1>a, <2>1, <2>4, QuedaCallada
  <1>19. CASE Calculo
    <2>1. cpu.en = "ciclo" /\ banderas = {} /\ UNCHANGED <<desalojos, tareas, aCpu, cpu>>
      BY <1>19 DEF Ninguna, Calculo, EnCiclo, ConInterrupcion, CheckInterrupt, CpuSola
    <2>2. Preguntados = 0 /\ ~Hay(Respuestas) /\ Contestados = 0
      BY <1>0, <2>1, Callada
    <2>3. Preguntados' = 0 /\ ~Hay(Respuestas)' /\ Contestados' = 0
      BY <2>1, <2>2 DEF Preguntados, Hay, Contestados
    <2>4. ~cpu'.respondio /\ cpu'.en # "recurso"
      BY <1>0, <2>1 DEF Preguntas
    <2> QED
      BY <1>a, <2>3, <2>4, QuedaCallada
  <1>20. CASE Exit
    <2>1. cpu.en = "ciclo" /\ banderas = {} /\ UNCHANGED <<desalojos, tareas, aCpu, cpu>>
      BY <1>20 DEF Ninguna, Exit, EnCiclo, ConInterrupcion, CheckInterrupt, CpuSola
    <2>2. Preguntados = 0 /\ ~Hay(Respuestas) /\ Contestados = 0
      BY <1>0, <2>1, Callada
    <2>3. Preguntados' = 0 /\ ~Hay(Respuestas)' /\ Contestados' = 0
      BY <2>1, <2>2 DEF Preguntados, Hay, Contestados
    <2>4. ~cpu'.respondio /\ cpu'.en # "recurso"
      BY <1>0, <2>1 DEF Preguntas
    <2> QED
      BY <1>a, <2>3, <2>4, QuedaCallada
  <1>21. CASE OperacionIo
    <2>1. /\ cpu.en = "ciclo" /\ cpu.pid \in Pids /\ UNCHANGED <<tareas, aCpu>> /\ banderas' # {}
          /\ desalojos' = Append(desalojos, Mensaje("OPERACION_IO", cpu.pid)) /\ cpu'.en # "recurso"
      BY <1>0, <1>21
         DEF Manos, TypeOK, OperacionIo, EnCiclo, Enviar, Mensaje, ConInterrupcion, CheckInterrupt,
             CpuSola
    <2>2. Preguntados = 0 /\ ~Hay(Respuestas) /\ Contestados = 0
      BY <1>0, <2>1, Callada
    <2>3. "OPERACION_IO" \in Motivos /\ "OPERACION_IO" \notin Pedidos
      BY DEF Motivos, Pedidos
    <2>4. Preguntados' = Preguntados + Uno("OPERACION_IO" \in Pedidos)
      BY <1>0, <2>1, <2>3, Manda
    <2>5. Preguntados' = 0 /\ ~Hay(Respuestas)' /\ Contestados' = 0
      BY <2>1, <2>2, <2>3, <2>4 DEF Uno, Hay, Contestados
    <2> QED
      BY <1>a, <2>1, <2>5, QuedaCallada
  <1>22. CASE ResizeFalla
    <2>1. /\ cpu.en = "ciclo" /\ cpu.pid \in Pids /\ UNCHANGED <<tareas, aCpu>> /\ banderas' # {}
          /\ desalojos' = Append(desalojos, Mensaje("OUT_OF_MEMORY", cpu.pid)) /\ cpu'.en # "recurso"
      BY <1>0, <1>22
         DEF Manos, TypeOK, ResizeFalla, EnCiclo, Enviar, Mensaje, ConInterrupcion, CheckInterrupt,
             CpuSola
    <2>2. Preguntados = 0 /\ ~Hay(Respuestas) /\ Contestados = 0
      BY <1>0, <2>1, Callada
    <2>3. "OUT_OF_MEMORY" \in Motivos /\ "OUT_OF_MEMORY" \notin Pedidos
      BY DEF Motivos, Pedidos
    <2>4. Preguntados' = Preguntados + Uno("OUT_OF_MEMORY" \in Pedidos)
      BY <1>0, <2>1, <2>3, Manda
    <2>5. Preguntados' = 0 /\ ~Hay(Respuestas)' /\ Contestados' = 0
      BY <2>1, <2>2, <2>3, <2>4 DEF Uno, Hay, Contestados
    <2> QED
      BY <1>a, <2>1, <2>5, QuedaCallada
  <1>23. CASE PedirRecurso("WAIT")
    <2>1. /\ cpu.en = "ciclo" /\ cpu.pid \in Pids /\ UNCHANGED <<tareas, aCpu, banderas>> /\ banderas = {}
          /\ desalojos' = Append(desalojos, Mensaje("WAIT", cpu.pid))
          /\ cpu'.en = "recurso" /\ cpu'.pid = cpu.pid /\ cpu'.respondio = cpu.respondio
      BY <1>0, <1>23 DEF Manos, TypeOK, Ninguna, PedirRecurso, EnCiclo, Enviar, Mensaje, CpuSola
    <2>2. Preguntados = 0 /\ ~Hay(Respuestas) /\ Contestados = 0
      BY <1>0, <2>1, Callada
    <2>3. "WAIT" \in Motivos /\ "WAIT" \in Pedidos
      BY DEF Motivos, Pedidos
    <2>4. /\ Preguntados' = Preguntados + Uno("WAIT" \in Pedidos)
          /\ \A k \in DOMAIN desalojos' : \/ k \in DOMAIN desalojos /\ desalojos'[k] = desalojos[k]
                                          \/ desalojos'[k] = Mensaje("WAIT", cpu.pid)
      BY <1>0, <2>1, <2>3, Manda
    <2>5. Preguntados' = 1 /\ ~Hay(Respuestas)' /\ Contestados' = 0
      BY <2>1, <2>2, <2>3, <2>4 DEF Uno, Hay, Contestados
    <2>6. ~cpu.respondio
      BY <1>0, <2>1 DEF Preguntas
    <2>7. aCpu = <<>>
      <3>1. Activa(cpu.pid)
        BY <2>1, <2>6 DEF Activa
      <3> QED
        BY <2>1, <3>1, CpuSinCola
    <2>8. Preguntados' + Peso(Hay(Respuestas)') + Contestados' = Peso(cpu'.en = "recurso")
      BY <2>1, <2>5 DEF Peso
    <2>9. \A k \in DOMAIN desalojos' : desalojos'[k].pid = cpu'.pid \/ desalojos'[k].tipo \notin Pedidos
      BY <1>0, <2>1, <2>4 DEF Preguntas, Mensaje
    <2> QED
      BY <1>0, <2>1, <2>5, <2>6, <2>7, <2>8, <2>9, PreguntasDe
  <1>24. CASE PedirRecurso("SIGNAL")
    <2>1. /\ cpu.en = "ciclo" /\ cpu.pid \in Pids /\ UNCHANGED <<tareas, aCpu, banderas>> /\ banderas = {}
          /\ desalojos' = Append(desalojos, Mensaje("SIGNAL", cpu.pid))
          /\ cpu'.en = "recurso" /\ cpu'.pid = cpu.pid /\ cpu'.respondio = cpu.respondio
      BY <1>0, <1>24 DEF Manos, TypeOK, Ninguna, PedirRecurso, EnCiclo, Enviar, Mensaje, CpuSola
    <2>2. Preguntados = 0 /\ ~Hay(Respuestas) /\ Contestados = 0
      BY <1>0, <2>1, Callada
    <2>3. "SIGNAL" \in Motivos /\ "SIGNAL" \in Pedidos
      BY DEF Motivos, Pedidos
    <2>4. /\ Preguntados' = Preguntados + Uno("SIGNAL" \in Pedidos)
          /\ \A k \in DOMAIN desalojos' : \/ k \in DOMAIN desalojos /\ desalojos'[k] = desalojos[k]
                                          \/ desalojos'[k] = Mensaje("SIGNAL", cpu.pid)
      BY <1>0, <2>1, <2>3, Manda
    <2>5. Preguntados' = 1 /\ ~Hay(Respuestas)' /\ Contestados' = 0
      BY <2>1, <2>2, <2>3, <2>4 DEF Uno, Hay, Contestados
    <2>6. ~cpu.respondio
      BY <1>0, <2>1 DEF Preguntas
    <2>7. aCpu = <<>>
      <3>1. Activa(cpu.pid)
        BY <2>1, <2>6 DEF Activa
      <3> QED
        BY <2>1, <3>1, CpuSinCola
    <2>8. Preguntados' + Peso(Hay(Respuestas)') + Contestados' = Peso(cpu'.en = "recurso")
      BY <2>1, <2>5 DEF Peso
    <2>9. \A k \in DOMAIN desalojos' : desalojos'[k].pid = cpu'.pid \/ desalojos'[k].tipo \notin Pedidos
      BY <1>0, <2>1, <2>4 DEF Preguntas, Mensaje
    <2> QED
      BY <1>0, <2>1, <2>5, <2>6, <2>7, <2>8, <2>9, PreguntasDe
  <1>25. CASE LeerRespuesta
    <2> DEFINE m == Head(aCpu)
    <2>1. /\ cpu.en = "recurso" /\ aCpu # <<>> /\ aCpu' = Tail(aCpu) /\ UNCHANGED <<desalojos, tareas>>
          /\ cpu'.en = "ciclo" /\ cpu'.respondio = (m.tipo # "RESOURCE_OK")
      BY <1>0, <1>25 DEF TypeOK, LeerRespuesta, ConInterrupcion, CheckInterrupt, CpuSola
    <2>2. m.tipo \in Respuestas
      BY <1>0, <2>1 DEF Preguntas
    <2>3. Contestados = Contestados' + Uno(m.tipo \in Respuestas)
      BY <1>0, <2>1, Atiende
    <2>4. cpu'.respondio => banderas' # {}
      BY <2>1, <2>2, <1>25 DEF Respuestas, LeerRespuesta, ConInterrupcion, CheckInterrupt, CpuSola
    <2>5. Preguntados' = Preguntados /\ (Hay(Respuestas)' <=> Hay(Respuestas))
      BY <2>1 DEF Preguntados, Hay
    <2> HIDE DEF m
    <2>6. Preguntados' = 0 /\ ~Hay(Respuestas)' /\ Contestados' = 0
      BY <1>0, <1>a, <2>1, <2>2, <2>3, <2>5, PreguntasDe, Contados, ContadosLuego DEF Uno, Peso
    <2> QED
      BY <1>a, <2>1, <2>4, <2>6, QuedaCallada
  <1>26. CASE TerminarFin
    <2> DEFINE q == cpu.pid
    <2>1. /\ cpu.en = "ciclo" /\ q \in Pids /\ UNCHANGED <<tareas, aCpu>>
          /\ cpu'.en # "recurso" /\ ~cpu'.respondio
      BY <1>0, <1>26 DEF Manos, TerminarFin, Terminar, Mensaje, CpuSola
    <2>2. Preguntados = 0 /\ ~Hay(Respuestas) /\ Contestados = 0
      BY <1>0, <2>1, Callada
    <2>3. desalojos' = Append(desalojos, Mensaje("END_PROCESS", q))
      <3>1. /\ desalojos \in Seq([tipo : Motivos, pid : Pids])
            /\ Mensaje("END_PROCESS", q) \in [tipo : Motivos, pid : Pids]
        BY <1>0, <2>1 DEF TypeOK, Mensaje, Motivos
      <3>2. desalojos' = desalojos \o <<Mensaje("END_PROCESS", q)>>
        BY <1>26 DEF TerminarFin, Terminar
      <3> QED
        BY <3>1, <3>2, AppendIsConcat
    <2>4. "END_PROCESS" \in Motivos /\ "END_PROCESS" \notin Pedidos
      BY DEF Motivos, Pedidos
    <2>5. Preguntados' = Preguntados + Uno("END_PROCESS" \in Pedidos)
      BY <1>0, <2>1, <2>3, <2>4, Manda
    <2>7. Preguntados' = 0
      BY <2>2, <2>4, <2>5 DEF Uno
    <2> HIDE DEF q
    <2>8. ~Hay(Respuestas)' /\ Contestados' = 0
      BY <2>1, <2>2 DEF Hay, Contestados
    <2> QED
      BY <1>a, <2>1, <2>7, <2>8, QuedaCallada
  <1>27. CASE AccionInterrupt
    <2> DEFINE q == cpu.pid
    <2>1. /\ cpu.en = "ciclo" /\ q \in Pids /\ UNCHANGED <<tareas, aCpu>>
          /\ cpu'.en # "recurso" /\ ~cpu'.respondio
      BY <1>0, <1>27 DEF Manos, AccionInterrupt, Terminar, Mensaje, CpuSola
    <2>2. Preguntados = 0 /\ ~Hay(Respuestas) /\ Contestados = 0
      BY <1>0, <2>1, Callada
    <2> DEFINE e == IF "bloqueado" \in banderas THEN <<Mensaje("RESOURCE_BLOCKED", q)>> ELSE <<>>
    <2>3. e \in {<<>>, <<Mensaje("RESOURCE_BLOCKED", q)>>}
      OBVIOUS
    <2>4. desalojos' = desalojos \o (<<Mensaje(interrupcion.tipo, q)>> \o e)
      BY <1>27 DEF AccionInterrupt, Terminar
    <2> HIDE DEF e
    <2>5. interrupcion.tipo \in Motivos /\ interrupcion.tipo \notin Pedidos
      BY <1>0, <1>27
         DEF Manos, TypeOK, Interrupciones, Motivos, Pedidos, AccionInterrupt, Terminar, Mensaje,
             CpuSola
    <2>6. Preguntados' = Preguntados + Uno(interrupcion.tipo \in Pedidos)
      BY <1>0, <2>1, <2>3, <2>4, <2>5, Despide
    <2>7. Preguntados' = 0
      BY <2>2, <2>5, <2>6 DEF Uno
    <2> HIDE DEF q
    <2>8. ~Hay(Respuestas)' /\ Contestados' = 0
      BY <2>1, <2>2 DEF Hay, Contestados
    <2> QED
      BY <1>a, <2>1, <2>7, <2>8, QuedaCallada
  <1>28. CASE TerminarCallado
    <2> DEFINE q == cpu.pid
    <2>1. /\ cpu.en = "ciclo" /\ q \in Pids /\ UNCHANGED <<tareas, aCpu>>
          /\ cpu'.en # "recurso" /\ ~cpu'.respondio
      BY <1>0, <1>28 DEF Manos, TerminarCallado, Terminar, Mensaje, CpuSola
    <2>2. Preguntados = 0 /\ ~Hay(Respuestas) /\ Contestados = 0
      BY <1>0, <2>1, Callada
    <2> DEFINE e == IF "bloqueado" \in banderas THEN <<Mensaje("RESOURCE_BLOCKED", q)>> ELSE <<>>
    <2>3. e \in {<<>>, <<Mensaje("RESOURCE_BLOCKED", q)>>}
      OBVIOUS
    <2>4. desalojos' = desalojos \o e
      BY <1>28 DEF TerminarCallado, Terminar
    <2> HIDE DEF e
    <2>7. Preguntados' = 0
      BY <1>0, <2>1, <2>2, <2>3, <2>4, Calla
    <2> HIDE DEF q
    <2>8. ~Hay(Respuestas)' /\ Contestados' = 0
      BY <2>1, <2>2 DEF Hay, Contestados
    <2> QED
      BY <1>a, <2>1, <2>7, <2>8, QuedaCallada
  <1> QED
    BY <1>0, <1>1, <1>2, <1>3, <1>4, <1>5, <1>6, <1>7, <1>8, <1>9, <1>10, <1>11, <1>12, <1>13,
       <1>14, <1>15, <1>16, <1>17, <1>18, <1>19, <1>20, <1>21, <1>22, <1>23, <1>24, <1>25, <1>26,
       <1>27, <1>28
       DEF Next, HiloCorto, HiloReloj, HiloDespacho, HiloConsola, HiloCpu, Ciclo
-----------------------------------------------------------------------------
(* The console.                                                            *)

LEMMA ConsolasQuietas ==
  ASSUME Consolas, UNCHANGED <<consola, estado, loko, desalojos, tareas, canal, interrupcion>>
  PROVE  Consolas'
  BY DEF Consolas, Espera, Muerto, Hay

\* Consolas, by what each part is about.
Ficticia ==
  /\ consola.en # "libre" => consola.pid \in Pids
  /\ Espera(consola.pid) /\ consola.vigente => estado[consola.pid] = "EXEC"
  /\ consola.en = "avisar" => estado[consola.pid] = "EXIT"
  /\ loko > 0 => consola.en = "esperar"
Condenados ==
  /\ \A k \in DOMAIN desalojos : desalojos[k].tipo = "KILL_PROCESS" => Espera(desalojos[k].pid)
  /\ Hay({"matar"}) => Espera(Head(tareas).pid)
Cartas ==
  /\ \A k \in DOMAIN canal : Muerto(canal[k])
  /\ interrupcion.tipo # "ninguna" => Muerto(interrupcion)
Difunto ==
  Hay({"avisar_muerte"}) =>
    \/ Hay({"matar"}) \/ estado[Head(tareas).pid] = "EXIT"
    \/ loko > 0 /\ consola.pid = Head(tareas).pid

LEMMA ConsolasDe ==
  /\ Consolas <=> Ficticia /\ Condenados /\ Cartas /\ Difunto
  /\ Consolas' <=> Ficticia' /\ Condenados' /\ Cartas' /\ Difunto'
  BY DEF Consolas, Ficticia, Condenados, Cartas, Difunto

\* A process that ended, or is waited for, stays so.
LEMMA CartasSiguen ==
  ASSUME TypeOK, Cartas, UNCHANGED <<canal, interrupcion>>,
         \A p \in Pids : estado[p] = "EXIT" \/ Espera(p) => estado'[p] = "EXIT" \/ Espera(p)'
  PROVE  Cartas'
  <1>1. canal \in Seq(Interrupciones) /\ interrupcion \in Interrupciones \cup {Mensaje("ninguna", NULO)}
    BY DEF TypeOK
  <1>2. (\A k \in DOMAIN canal : canal[k] \in Interrupciones) /\ \A m \in Interrupciones : m.pid \in Pids
    <2>1. \A k \in DOMAIN canal : canal[k] \in Interrupciones
      BY <1>1
    <2>2. \A m \in Interrupciones : m.pid \in Pids
      BY DEF Interrupciones
    <2> QED
      BY <2>1, <2>2
  <1>3. \A m \in Interrupciones : Muerto(m) => (m.tipo = "KILL_PROCESS" =>
                                                 estado'[m.pid] = "EXIT" \/ Espera(m.pid)')
    BY <1>2 DEF Muerto
  <1>4. \A k \in DOMAIN canal' : Muerto(canal[k])'
    <2> TAKE k \in DOMAIN canal'
    <2>1. PICK m \in Interrupciones : m = canal[k] /\ m = canal'[k] /\ Muerto(m)
      BY <1>2 DEF Cartas
    <2>2. m.tipo = "KILL_PROCESS" => estado'[m.pid] = "EXIT" \/ Espera(m.pid)'
      BY <1>3, <2>1
    <2> QED
      BY <2>1, <2>2 DEF Muerto, Espera
  <1>5. ASSUME interrupcion'.tipo # "ninguna" PROVE Muerto(interrupcion)'
    <2>1. PICK m \in Interrupciones : m = interrupcion /\ m = interrupcion' /\ Muerto(m)
      BY <1>1, <1>5 DEF Cartas, Mensaje
    <2>2. m.tipo = "KILL_PROCESS" => estado'[m.pid] = "EXIT" \/ Espera(m.pid)'
      BY <1>3, <2>1
    <2> QED
      BY <2>1, <2>2 DEF Muerto, Espera
  <1> QED
    BY <1>4, <1>5 DEF Cartas

LEMMA CabezaDe ==
  ASSUME TypeOK, NEW tipos, Hay(tipos)
  PROVE  tareas # <<>> /\ Head(tareas).pid \in Pids
  <1> DEFINE R == [tipo : Respuestas \cup {"avisar", "avisar_muerte", "soltar", "listar",
                                           "bloquear", "finalizar", "matar"}, pid : Pids]
  <1>1. tareas \in Seq(R) /\ tareas # <<>>
    BY DEF TypeOK, Hay
  <1>2. \A m \in R : m.pid \in Pids
    OBVIOUS
  <1> HIDE DEF R
  <1>3. Head(tareas) \in R
    BY <1>1, HeadTailProperties
  <1> QED
    BY <1>1, <1>2, <1>3

\* A process that has not ended changes state.
LEMMA Mudanza ==
  ASSUME TypeOK, Consolas, NEW q \in Pids, NEW e \in Estados, estado[q] # "EXIT",
         estado' = [estado EXCEPT ![q] = e],
         consola' = IF consola.pid = q THEN [consola EXCEPT !.vigente = FALSE] ELSE consola,
         UNCHANGED <<loko, desalojos, canal, interrupcion>>,
         \/ UNCHANGED tareas
         \/ ~Hay({"matar"})' /\ ~Hay({"avisar_muerte"})'
  PROVE  Consolas'
  <1>1. /\ estado'[q] = e /\ \A p \in Pids \ {q} : estado'[p] = estado[p]
        /\ consola'.en = consola.en /\ consola'.pid = consola.pid
        /\ consola.pid = q => ~consola'.vigente
        /\ consola.pid # q => consola' = consola
    BY DEF TypeOK
  <1>2. Ficticia /\ Condenados /\ Cartas /\ Difunto
    BY ConsolasDe
  <1>3. \A p : Espera(p)' <=> Espera(p)
    BY <1>1 DEF Espera
  <1>4. Ficticia'
    <2>1. Espera(consola.pid)' /\ consola'.vigente => estado'[consola'.pid] = "EXEC"
      <3>1. CASE consola.pid = q
        BY <1>1, <3>1
      <3>2. CASE consola.pid # q
        BY <1>1, <1>2, <3>2 DEF Ficticia, Espera
      <3> QED
        BY <3>1, <3>2
    <2>2. consola'.en = "avisar" => estado'[consola'.pid] = "EXIT"
      BY <1>1, <1>2 DEF Ficticia
    <2> QED
      BY <1>1, <1>2, <2>1, <2>2 DEF Ficticia
  <1>5. Condenados'
    <2>1. Hay({"matar"})' => Hay({"matar"}) /\ UNCHANGED tareas
      BY DEF Hay
    <2>2. Hay({"matar"})' => Espera(Head(tareas).pid)'
      BY <1>1, <1>2, <2>1 DEF Condenados, Espera
    <2>3. \A k \in DOMAIN desalojos' :
            desalojos'[k].tipo = "KILL_PROCESS" => Espera(desalojos[k].pid)'
      BY <1>1, <1>2 DEF Condenados, Espera
    <2> QED
      BY <2>2, <2>3 DEF Condenados
  <1>6. Cartas'
    BY <1>1, <1>2, <1>3, CartasSiguen
  <1>7. Difunto'
    <2>1. Hay({"avisar_muerte"})' => Hay({"avisar_muerte"}) /\ UNCHANGED tareas
      BY DEF Hay
    <2>2. Hay({"avisar_muerte"})' => (Hay({"matar"}) => Hay({"matar"})')
      BY <2>1 DEF Hay
    <2>3. ASSUME Hay({"avisar_muerte"})', estado[Head(tareas).pid] = "EXIT",
                 Head(tareas).pid \in Pids
          PROVE  estado'[Head(tareas).pid] = "EXIT"
      BY <1>1, <2>3
    <2>4. Hay({"avisar_muerte"}) => Head(tareas).pid \in Pids
      BY CabezaDe
    <2> QED
      BY <1>1, <1>2, <2>1, <2>2, <2>3, <2>4 DEF Difunto
  <1> QED
    BY <1>4, <1>5, <1>6, <1>7, ConsolasDe

\* recibir_dispatch goes on with the same process.
LEMMA Prosigue ==
  ASSUME Consolas, UNCHANGED <<consola, estado, loko, desalojos, canal, interrupcion>>,
         Hay({"matar"})' <=> Hay({"matar"}),
         Hay({"avisar_muerte"})' => Hay({"avisar_muerte"}),
         tareas' # <<>> => Head(tareas').pid = Head(tareas).pid
  PROVE  Consolas'
  <1>1. Ficticia /\ Condenados /\ Cartas /\ Difunto
    BY ConsolasDe
  <1>2. \A tipos : Hay(tipos)' => tareas' # <<>>
    BY DEF Hay
  <1>3. Ficticia' /\ Cartas'
    BY <1>1 DEF Ficticia, Cartas, Espera, Muerto
  <1>4. Condenados'
    BY <1>1, <1>2 DEF Condenados, Espera
  <1>5. Difunto'
    BY <1>1, <1>2 DEF Difunto
  <1> QED
    BY <1>3, <1>4, <1>5, ConsolasDe

\* The CPU sends, and kills nobody that is not waited for.
LEMMA Mandado ==
  ASSUME Consolas, UNCHANGED <<consola, estado, loko, tareas, canal, interrupcion>>,
         \A k \in DOMAIN desalojos' : \/ k \in DOMAIN desalojos /\ desalojos'[k] = desalojos[k]
                                      \/ desalojos'[k].tipo # "KILL_PROCESS"
                                      \/ Espera(desalojos'[k].pid)
  PROVE  Consolas'
  <1>1. Ficticia /\ Condenados /\ Cartas /\ Difunto
    BY ConsolasDe
  <1>2. Ficticia' /\ Cartas' /\ Difunto'
    BY <1>1 DEF Ficticia, Cartas, Espera, Muerto, Difunto, Hay
  <1>3. Hay({"matar"})' => Espera(Head(tareas).pid)'
    BY <1>1 DEF Condenados, Espera, Hay
  <1>4. ASSUME NEW k \in DOMAIN desalojos', desalojos'[k].tipo = "KILL_PROCESS"
        PROVE  Espera(desalojos[k].pid)'
    <2>1. Espera(desalojos'[k].pid)
      BY <1>1, <1>4 DEF Condenados
    <2> QED
      BY <2>1 DEF Espera
  <1>5. Condenados'
    BY <1>3, <1>4 DEF Condenados
  <1> QED
    BY <1>2, <1>5, ConsolasDe
\* Each step keeps what the console and its interrupts say of the states.
LEMMA PasoConsolas ==
  ASSUME Tipos, Orden, ~quiebre, Next, ~quiebre'
  PROVE  Consolas'
  <1> USE DEF varsPlan, varsReloj, varsDespacho, varsConsola, varsCpu, varsInt, historia
  <1>0. TypeOK /\ Formas /\ Manos /\ EnCola /\ Vuelo /\ Ficha /\ Preguntas /\ Consolas
    BY DEF Tipos, Orden
  <1>1. ASSUME NEW p \in Pids, ALaCola(p) PROVE Consolas'
    <2>1. /\ estado[p] # "EXIT" /\ estado' = [estado EXCEPT ![p] = "READY"]
          /\ consola' = IF consola.pid = p THEN [consola EXCEPT !.vigente = FALSE] ELSE consola
          /\ UNCHANGED <<loko, desalojos, tareas, canal, interrupcion>>
      BY <1>1 DEF ALaCola, Cambiar
    <2>2. "READY" \in Estados
      BY DEF Estados
    <2> QED
      BY <1>0, <2>1, <2>2, Mudanza
  <1>2. ASSUME NEW p \in Pids, Finalizar(p) PROVE Consolas'
    <2>1. /\ consola.en = "libre" /\ estado[p] = "EXEC" /\ canal' = Append(canal, Mensaje("KILL_PROCESS", p))
          /\ consola' = [en |-> "esperar", pid |-> p, vigente |-> TRUE]
          /\ UNCHANGED <<estado, loko, desalojos, tareas, interrupcion>>
      BY <1>2 DEF Finalizar, Mensaje
    <2>2. Ficticia /\ Condenados /\ Cartas /\ Difunto
      BY <1>0, ConsolasDe
    <2>3. Espera(p)' /\ \A r : ~Espera(r)
      BY <2>1 DEF Espera
    <2>4. Ficticia'
      BY <2>1 DEF Ficticia, Espera
    <2>5. Condenados'
      <3>1. (\A k \in DOMAIN desalojos : desalojos[k].tipo # "KILL_PROCESS") /\ ~Hay({"matar"})
        BY <2>2, <2>3 DEF Condenados
      <3> QED
        BY <2>1, <3>1 DEF Condenados, Hay
    <2>6. Cartas'
      <3>1. canal \in Seq(Interrupciones)
        BY <1>0 DEF TypeOK
      <3>2. \A k \in DOMAIN canal' : \/ k \in DOMAIN canal /\ canal'[k] = canal[k]
                                    \/ canal'[k] = Mensaje("KILL_PROCESS", p)
        BY <2>1, <3>1
      <3>3. \A m : Muerto(m) => (m.tipo = "KILL_PROCESS" => estado'[m.pid] = "EXIT")
        BY <2>1, <2>3 DEF Muerto
      <3>4. ASSUME NEW k \in DOMAIN canal' PROVE Muerto(canal[k])'
        <4>1. CASE k \in DOMAIN canal /\ canal'[k] = canal[k]
          BY <2>2, <3>3, <4>1 DEF Cartas, Muerto
        <4>2. CASE canal'[k] = Mensaje("KILL_PROCESS", p)
          BY <2>3, <4>2 DEF Muerto, Mensaje, Espera
        <4> QED
          BY <3>2, <4>1, <4>2
      <3>5. interrupcion'.tipo # "ninguna" => Muerto(interrupcion)'
        BY <2>1, <2>2, <3>3 DEF Cartas, Muerto
      <3> QED
        BY <3>4, <3>5 DEF Cartas
    <2>7. Difunto'
      <3>1. ~(loko > 0) /\ ~Hay({"matar"})
        BY <2>1, <2>2, <2>3 DEF Ficticia, Condenados
      <3> QED
        BY <2>1, <2>2, <3>1 DEF Difunto, Hay
    <2> QED
      BY <2>4, <2>5, <2>6, <2>7, ConsolasDe
  <1>3. CASE Despachar
    <2>1. /\ listos # <<>> /\ listos' = Tail(listos) /\ estado' = [estado EXCEPT ![Head(listos)] = "EXEC"]
          /\ consola' = IF consola.pid = Head(listos) THEN [consola EXCEPT !.vigente = FALSE] ELSE consola
          /\ UNCHANGED <<loko, desalojos, tareas, canal, interrupcion>>
      BY <1>3 DEF Despachar, Cambiar, Mensaje
    <2>2. PICK q \in Pids : q = Head(listos) /\ estado[q] = "READY"
      BY <1>0, <2>1, ColaAtiende
    <2>3. "EXEC" \in Estados
      BY DEF Estados
    <2>4. /\ estado' = [estado EXCEPT ![q] = "EXEC"] /\ estado[q] # "EXIT"
          /\ consola' = IF consola.pid = q THEN [consola EXCEPT !.vigente = FALSE] ELSE consola
      BY <2>1, <2>2
    <2> QED
      BY <1>0, <2>1, <2>3, <2>4, Mudanza
  <1>4. CASE ArrancarQuantum
    <2>1. UNCHANGED <<consola, estado, loko, desalojos, tareas, canal, interrupcion>>
      BY <1>4 DEF ArrancarQuantum
    <2> QED
      BY <1>0, <2>1, ConsolasQuietas DEF Orden
  <1>5. CASE TomarArranque
    <2>1. UNCHANGED <<consola, estado, loko, desalojos, tareas, canal, interrupcion>>
      BY <1>5 DEF TomarArranque, RelojSolo
    <2> QED
      BY <1>0, <2>1, ConsolasQuietas DEF Orden
  <1>6. CASE CpuLibreATiempo
    <2>1. UNCHANGED <<consola, estado, loko, desalojos, tareas, canal, interrupcion>>
      BY <1>6 DEF CpuLibreATiempo, RelojSolo
    <2> QED
      BY <1>0, <2>1, ConsolasQuietas DEF Orden
  <1>7. CASE Vencer
    <2>1. /\ canal' = Append(canal, Mensaje("FIN_CLOCK", en_ejecucion))
          /\ UNCHANGED <<consola, estado, loko, desalojos, tareas, interrupcion>>
      BY <1>7 DEF Vencer, RelojSolo, Mensaje
    <2>2. Ficticia /\ Condenados /\ Cartas /\ Difunto
      BY <1>0, ConsolasDe
    <2>3. canal \in Seq(Interrupciones)
      BY <1>0 DEF TypeOK
    <2>4. \A k \in DOMAIN canal' : \/ k \in DOMAIN canal /\ canal'[k] = canal[k]
                                  \/ canal'[k] = Mensaje("FIN_CLOCK", en_ejecucion)
      BY <2>1, <2>3
    <2>5. \A k \in DOMAIN canal' : Muerto(canal[k])'
      BY <2>1, <2>2, <2>4 DEF Cartas, Muerto, Mensaje, Espera
    <2>6. Cartas'
      BY <2>1, <2>2, <2>5 DEF Cartas, Muerto, Espera
    <2>7. Ficticia' /\ Condenados' /\ Difunto'
      BY <2>1, <2>2 DEF Ficticia, Condenados, Difunto, Espera, Hay
    <2> QED
      BY <2>6, <2>7, ConsolasDe
  <1>8. CASE Recibir
    <2> DEFINE m == Head(desalojos)
    <2>1. /\ UNCHANGED <<consola, estado, loko, canal, interrupcion>>
          /\ desalojos # <<>> /\ desalojos' = Tail(desalojos)
      BY <1>8 DEF Recibir
    <2>2. Ficticia /\ Condenados /\ Cartas /\ Difunto
      BY <1>0, ConsolasDe
    <2>3. /\ Hay({"matar"})' <=> m.tipo = "KILL_PROCESS"
          /\ Hay({"avisar_muerte"})' => Hay({"matar"})'
          /\ tareas' # <<>> => Head(tareas').pid = m.pid
      BY <1>0, <1>8, UnDesalojo
    <2>4. /\ \A k \in DOMAIN desalojos' : \E j \in DOMAIN desalojos : desalojos[j] = desalojos'[k]
          /\ \E j \in DOMAIN desalojos : desalojos[j] = m
      BY <1>0, <2>1, Recibe
    <2>5. m.tipo = "KILL_PROCESS" => Espera(m.pid)
      BY <2>2, <2>4 DEF Condenados
    <2> HIDE DEF m
    <2>6. Ficticia' /\ Cartas'
      BY <2>1, <2>2 DEF Ficticia, Cartas, Muerto, Espera
    <2>7. Hay({"matar"})' => Espera(Head(tareas).pid)'
      <3>1. Hay({"matar"})' => tareas' # <<>>
        BY DEF Hay
      <3> QED
        BY <2>1, <2>3, <2>5, <3>1 DEF Espera
    <2>8. \A k \in DOMAIN desalojos' : desalojos'[k].tipo = "KILL_PROCESS" => Espera(desalojos[k].pid)'
      BY <2>1, <2>2, <2>4 DEF Condenados, Espera
    <2>9. Condenados' /\ Difunto'
      BY <2>3, <2>7, <2>8 DEF Condenados, Difunto
    <2> QED
      BY <2>6, <2>9, ConsolasDe
  <1>9. CASE Avisar
    <2>1. UNCHANGED <<consola, estado, loko, desalojos, canal, interrupcion>> /\ Tarea({"avisar", "avisar_muerte"})
      BY <1>9 DEF Tarea, Respuestas, Avisar
    <2>2. /\ Igual({"matar"}) /\ (Hay({"avisar_muerte"})' => Hay({"avisar_muerte"}))
          /\ tareas' # <<>> => Head(tareas').pid = DeTarea
      BY <1>0, <2>1, UnAviso DEF Igual
    <2> QED
      BY <1>0, <2>1, <2>2, Prosigue DEF Igual, DeTarea
  <1>10. CASE Soltar
    <2>1. UNCHANGED <<consola, estado, loko, desalojos, canal, interrupcion>> /\ Tarea({"soltar"})
      BY <1>10 DEF Tarea, Respuestas, Soltar
    <2>2. /\ Igual({"matar"}) /\ (Hay({"avisar_muerte"})' => Hay({"avisar_muerte"}))
          /\ tareas' # <<>> => Head(tareas').pid = DeTarea
      BY <1>0, <2>1, UnaSuelta DEF Igual
    <2> QED
      BY <1>0, <2>1, <2>2, Prosigue DEF Igual, DeTarea
  <1>11. CASE Listar
    <2>1. Tarea(EnLista) /\ UNCHANGED <<loko, desalojos, canal, interrupcion>>
      BY <1>11 DEF Tarea, EnLista, Listar, Cambiar
    <2>2. PICK q \in Pids : q = DeTarea /\ Trabaja(q) /\ ~Hay({"matar"})' /\ ~Hay({"avisar_muerte"})'
      BY <1>0, <2>1, UnCambio
    <2>3. PICK e : e = "READY"
      OBVIOUS
    <2>4. /\ estado' = [estado EXCEPT ![q] = e]
          /\ consola' = IF consola.pid = q THEN [consola EXCEPT !.vigente = FALSE] ELSE consola
      BY <1>11, <2>2, <2>3 DEF Listar, Cambiar
    <2>5. e \in Estados
      BY <2>3 DEF Estados
    <2>6. estado[q] # "EXIT"
      BY <1>0, <2>2, Unico
    <2> QED
      BY <1>0, <2>1, <2>2, <2>4, <2>5, <2>6, Mudanza
  <1>12. CASE Retirar
    <2>1. Tarea(EnLista) /\ UNCHANGED <<loko, desalojos, canal, interrupcion>>
      BY <1>12 DEF Tarea, EnLista, Retirar, Cambiar
    <2>2. PICK q \in Pids : q = DeTarea /\ Trabaja(q) /\ ~Hay({"matar"})' /\ ~Hay({"avisar_muerte"})'
      BY <1>0, <2>1, UnCambio
    <2>3. PICK e : e = IF Head(tareas).tipo = "bloquear" THEN "BLOCKED" ELSE "EXIT"
      OBVIOUS
    <2>4. /\ estado' = [estado EXCEPT ![q] = e]
          /\ consola' = IF consola.pid = q THEN [consola EXCEPT !.vigente = FALSE] ELSE consola
      BY <1>12, <2>2, <2>3 DEF Retirar, Cambiar
    <2>5. e \in Estados
      BY <2>3 DEF Estados
    <2>6. estado[q] # "EXIT"
      BY <1>0, <2>2, Unico
    <2> QED
      BY <1>0, <2>1, <2>2, <2>4, <2>5, <2>6, Mudanza
  <1>13. CASE Responder
    <2>1. UNCHANGED <<consola, estado, loko, desalojos, canal, interrupcion>> /\ Tarea(Respuestas)
      BY <1>13 DEF Tarea, Respuestas, Responder
    <2>2. /\ Igual({"matar"}) /\ (Hay({"avisar_muerte"})' => Hay({"avisar_muerte"}))
          /\ tareas' # <<>> => Head(tareas').pid = DeTarea
      BY <1>0, <2>1, UnaRespuesta DEF Igual
    <2> QED
      BY <1>0, <2>1, <2>2, Prosigue DEF Igual, DeTarea
  <1>14. CASE Matar
    <2>1. UNCHANGED <<consola, estado, desalojos, canal, interrupcion>> /\ loko' = loko + 1 /\ Tarea({"matar"})
      BY <1>14 DEF Tarea, Matar
    <2>2. Ficticia /\ Condenados /\ Cartas /\ Difunto
      BY <1>0, ConsolasDe
    <2>3. /\ Hay({"matar"}) /\ ~Hay({"matar"})' /\ (tareas' # <<>> => Head(tareas').pid = DeTarea)
      BY <1>0, <2>1, UnaMuerte
    <2>4. Espera(DeTarea)
      BY <2>2, <2>3 DEF Condenados, DeTarea
    <2>5. Ficticia' /\ Cartas'
      BY <2>1, <2>2, <2>4 DEF Ficticia, Cartas, Muerto, Espera
    <2>6. Condenados'
      BY <2>1, <2>2, <2>3 DEF Condenados, Espera
    <2>7. Difunto'
      <3>1. Hay({"avisar_muerte"})' => tareas' # <<>>
        BY DEF Hay
      <3>2. loko' > 0
        BY <1>0, <2>1 DEF TypeOK
      <3> QED
        BY <2>1, <2>3, <2>4, <3>1, <3>2 DEF Difunto, Espera
    <2> QED
      BY <2>5, <2>6, <2>7, ConsolasDe
  <1>15. CASE Finalizado
    <2>0. /\ UNCHANGED <<tareas, desalojos, canal, interrupcion>> /\ loko > 0 /\ loko' = loko - 1
          /\ consola.en = "esperar" /\ estado' = [estado EXCEPT ![consola.pid] = "EXIT"]
          /\ consola'.en = "avisar" /\ consola'.pid = consola.pid
      BY <1>0, <1>15 DEF TypeOK, Finalizado
    <2>1. Ficticia /\ Condenados /\ Cartas /\ Difunto
      BY <1>0, ConsolasDe
    <2>2. PICK c \in Pids : c = consola.pid
      BY <2>0, <2>1 DEF Ficticia
    <2>3. Condenas(c) > 0
      BY <2>0, <2>2 DEF Condenas
    <2>4. Echados(c) = 0 /\ ~Trabaja(c) /\ Condenas(c) = 1
      BY <1>0, <2>3, Unico
    <2>5. loko' = 0
      BY <2>0, <2>2, <2>4 DEF Condenas
    <2>6. estado'[c] = "EXIT" /\ \A r \in Pids \ {c} : estado'[r] = estado[r]
      BY <1>0, <2>0, <2>2 DEF TypeOK
    <2>7. \A r : Espera(r) <=> r = c
      BY <2>0, <2>2 DEF Espera
    <2>8. Ficticia'
      BY <2>0, <2>2, <2>5, <2>6 DEF Ficticia, Espera
    <2>9. \A k \in DOMAIN desalojos : desalojos[k].tipo # "KILL_PROCESS"
      <3> SUFFICES ASSUME NEW k \in DOMAIN desalojos, desalojos[k].tipo = "KILL_PROCESS" PROVE FALSE
        OBVIOUS
      <3>1. desalojos[k].pid = c
        BY <2>1, <2>7 DEF Condenados
      <3>2. desalojos[k].tipo \in Reales
        BY DEF Reales, Motivos
      <3>3. Echados(c) > 0
        BY <1>0, <3>1, <3>2, Contadas
      <3> QED
        BY <2>4, <3>3
    <2>10. ~Hay({"matar"})
      <3> SUFFICES ASSUME Hay({"matar"}) PROVE FALSE
        OBVIOUS
      <3>1. Head(tareas).pid = c /\ Hay(DaVuelo)
        BY <2>1, <2>7 DEF Condenados, Hay, DaVuelo
      <3> QED
        BY <2>4, <3>1 DEF Trabaja
    <2>11. Condenados'
      BY <2>0, <2>9, <2>10 DEF Condenados, Hay
    <2>12. Cartas'
      BY <1>0, <2>0, <2>1, <2>6, <2>7, CartasSiguen
    <2>13. Difunto'
      <3>1. Hay({"avisar_muerte"}) => Head(tareas).pid \in Pids
        BY <1>0, CabezaDe
      <3>2. Hay({"avisar_muerte"}) => estado'[Head(tareas).pid] = "EXIT"
        BY <2>1, <2>2, <2>6, <2>10, <3>1 DEF Difunto
      <3> QED
        BY <2>0, <3>2 DEF Difunto, Hay
    <2> QED
      BY <2>8, <2>11, <2>12, <2>13, ConsolasDe
  <1>16. CASE AvisarFinalizado
    <2>1. /\ UNCHANGED <<estado, loko, tareas, desalojos, canal, interrupcion>>
          /\ consola.en = "avisar" /\ consola'.en = "libre"
      BY <1>16 DEF AvisarFinalizado
    <2>2. Ficticia /\ Condenados /\ Cartas /\ Difunto
      BY <1>0, ConsolasDe
    <2>3. \A r : ~Espera(r)
      BY <2>1 DEF Espera
    <2>4. ~(loko > 0)
      BY <2>1, <2>2 DEF Ficticia
    <2>5. Ficticia'
      BY <2>1, <2>4 DEF Ficticia, Espera
    <2>6. Condenados'
      BY <2>1, <2>2, <2>3 DEF Condenados, Hay
    <2>7. Cartas'
      BY <1>0, <2>1, <2>2, <2>3, CartasSiguen
    <2>8. Difunto'
      BY <2>1, <2>2, <2>4 DEF Difunto, Hay
    <2> QED
      BY <2>5, <2>6, <2>7, <2>8, ConsolasDe
  <1>17. CASE RecibirInterrupcion
    <2>1. /\ canal # <<>> /\ interrupcion' = Head(canal) /\ canal' = Tail(canal)
          /\ UNCHANGED <<consola, estado, loko, desalojos, tareas>>
      BY <1>17 DEF RecibirInterrupcion, CpuSola
    <2>2. Ficticia /\ Condenados /\ Cartas /\ Difunto
      BY <1>0, ConsolasDe
    <2>3. canal \in Seq(Interrupciones)
      BY <1>0 DEF TypeOK
    <2>4. /\ 1 \in DOMAIN canal /\ interrupcion' = canal[1]
          /\ \A k \in DOMAIN canal' : k + 1 \in DOMAIN canal /\ canal'[k] = canal[k + 1]
      BY <2>1, <2>3
    <2>5. /\ \A k \in DOMAIN canal' : Muerto(canal[k])'
          /\ Muerto(interrupcion)'
      BY <2>1, <2>2, <2>4 DEF Cartas, Muerto, Espera
    <2>6. Cartas'
      BY <2>5 DEF Cartas
    <2>7. Ficticia' /\ Condenados' /\ Difunto'
      BY <2>1, <2>2 DEF Ficticia, Condenados, Difunto, Espera, Hay
    <2> QED
      BY <2>6, <2>7, ConsolasDe
  <1>18. CASE TomarPcb
    <2>1. UNCHANGED <<consola, estado, loko, desalojos, tareas, canal, interrupcion>>
      BY <1>18 DEF TomarPcb, CpuSola
    <2> QED
      BY <1>0, <2>1, ConsolasQuietas DEF Orden
  <1>19. CASE Calculo
    <2>1. UNCHANGED <<consola, estado, loko, desalojos, tareas, canal, interrupcion>>
      BY <1>19 DEF Calculo, EnCiclo, ConInterrupcion, CheckInterrupt, CpuSola
    <2> QED
      BY <1>0, <2>1, ConsolasQuietas DEF Orden
  <1>20. CASE Exit
    <2>1. UNCHANGED <<consola, estado, loko, desalojos, tareas, canal, interrupcion>>
      BY <1>20 DEF Exit, EnCiclo, ConInterrupcion, CheckInterrupt, CpuSola
    <2> QED
      BY <1>0, <2>1, ConsolasQuietas DEF Orden
  <1>21. CASE OperacionIo
    <2>1. /\ UNCHANGED <<consola, estado, loko, tareas, canal, interrupcion>> /\ cpu.pid \in Pids
          /\ desalojos' = Append(desalojos, Mensaje("OPERACION_IO", cpu.pid)) /\ "OPERACION_IO" \in Motivos
      BY <1>0, <1>21
         DEF Manos, Motivos, OperacionIo, EnCiclo, Enviar, Mensaje, ConInterrupcion, CheckInterrupt,
             CpuSola
    <2>2. \A k \in DOMAIN desalojos' : \/ k \in DOMAIN desalojos /\ desalojos'[k] = desalojos[k]
                                      \/ desalojos'[k] = Mensaje("OPERACION_IO", cpu.pid)
      BY <1>0, <2>1, Manda
    <2>3. Mensaje("OPERACION_IO", cpu.pid).tipo # "KILL_PROCESS"
      BY DEF Mensaje
    <2> QED
      BY <1>0, <2>1, <2>2, <2>3, Mandado
  <1>22. CASE ResizeFalla
    <2>1. /\ UNCHANGED <<consola, estado, loko, tareas, canal, interrupcion>> /\ cpu.pid \in Pids
          /\ desalojos' = Append(desalojos, Mensaje("OUT_OF_MEMORY", cpu.pid)) /\ "OUT_OF_MEMORY" \in Motivos
      BY <1>0, <1>22
         DEF Manos, Motivos, ResizeFalla, EnCiclo, Enviar, Mensaje, ConInterrupcion, CheckInterrupt,
             CpuSola
    <2>2. \A k \in DOMAIN desalojos' : \/ k \in DOMAIN desalojos /\ desalojos'[k] = desalojos[k]
                                      \/ desalojos'[k] = Mensaje("OUT_OF_MEMORY", cpu.pid)
      BY <1>0, <2>1, Manda
    <2>3. Mensaje("OUT_OF_MEMORY", cpu.pid).tipo # "KILL_PROCESS"
      BY DEF Mensaje
    <2> QED
      BY <1>0, <2>1, <2>2, <2>3, Mandado
  <1>23. CASE PedirRecurso("WAIT")
    <2>1. /\ UNCHANGED <<consola, estado, loko, tareas, canal, interrupcion>> /\ cpu.pid \in Pids
          /\ desalojos' = Append(desalojos, Mensaje("WAIT", cpu.pid)) /\ "WAIT" \in Motivos
      BY <1>0, <1>23 DEF Manos, Motivos, PedirRecurso, EnCiclo, Enviar, Mensaje, CpuSola
    <2>2. \A k \in DOMAIN desalojos' : \/ k \in DOMAIN desalojos /\ desalojos'[k] = desalojos[k]
                                      \/ desalojos'[k] = Mensaje("WAIT", cpu.pid)
      BY <1>0, <2>1, Manda
    <2>3. Mensaje("WAIT", cpu.pid).tipo # "KILL_PROCESS"
      BY DEF Mensaje
    <2> QED
      BY <1>0, <2>1, <2>2, <2>3, Mandado
  <1>24. CASE PedirRecurso("SIGNAL")
    <2>1. /\ UNCHANGED <<consola, estado, loko, tareas, canal, interrupcion>> /\ cpu.pid \in Pids
          /\ desalojos' = Append(desalojos, Mensaje("SIGNAL", cpu.pid)) /\ "SIGNAL" \in Motivos
      BY <1>0, <1>24 DEF Manos, Motivos, PedirRecurso, EnCiclo, Enviar, Mensaje, CpuSola
    <2>2. \A k \in DOMAIN desalojos' : \/ k \in DOMAIN desalojos /\ desalojos'[k] = desalojos[k]
                                      \/ desalojos'[k] = Mensaje("SIGNAL", cpu.pid)
      BY <1>0, <2>1, Manda
    <2>3. Mensaje("SIGNAL", cpu.pid).tipo # "KILL_PROCESS"
      BY DEF Mensaje
    <2> QED
      BY <1>0, <2>1, <2>2, <2>3, Mandado
  <1>25. CASE LeerRespuesta
    <2>1. UNCHANGED <<consola, estado, loko, desalojos, tareas, canal, interrupcion>>
      BY <1>25 DEF LeerRespuesta, ConInterrupcion, CheckInterrupt, CpuSola
    <2> QED
      BY <1>0, <2>1, ConsolasQuietas DEF Orden
  <1>26. CASE TerminarFin
    <2> DEFINE q == cpu.pid
    <2>1. /\ UNCHANGED <<consola, estado, loko, tareas, canal, interrupcion>> /\ q \in Pids
      BY <1>0, <1>26 DEF Manos, TerminarFin, Terminar, Mensaje, CpuSola
    <2>3. desalojos' = Append(desalojos, Mensaje("END_PROCESS", q)) /\ "END_PROCESS" \in Motivos
      <3>1. /\ desalojos \in Seq([tipo : Motivos, pid : Pids])
            /\ Mensaje("END_PROCESS", q) \in [tipo : Motivos, pid : Pids]
        BY <1>0, <2>1 DEF TypeOK, Mensaje, Motivos
      <3>2. desalojos' = desalojos \o <<Mensaje("END_PROCESS", q)>>
        BY <1>26 DEF TerminarFin, Terminar
      <3>3. "END_PROCESS" \in Motivos
        BY DEF Motivos
      <3> QED
        BY <3>1, <3>2, <3>3, AppendIsConcat
    <2>4. \A k \in DOMAIN desalojos' : \/ k \in DOMAIN desalojos /\ desalojos'[k] = desalojos[k]
                                      \/ desalojos'[k] = Mensaje("END_PROCESS", q)
      BY <1>0, <2>1, <2>3, Manda
    <2>5. Mensaje("END_PROCESS", q).tipo # "KILL_PROCESS"
      BY DEF Mensaje
    <2> QED
      BY <1>0, <2>1, <2>4, <2>5, Mandado
  <1>27. CASE AccionInterrupt
    <2> DEFINE q == cpu.pid
    <2>1. /\ UNCHANGED <<consola, estado, loko, tareas, canal, interrupcion>> /\ q \in Pids
      BY <1>0, <1>27 DEF Manos, AccionInterrupt, Terminar, Mensaje, CpuSola
    <2> DEFINE e == IF "bloqueado" \in banderas THEN <<Mensaje("RESOURCE_BLOCKED", q)>> ELSE <<>>
    <2>3. e \in {<<>>, <<Mensaje("RESOURCE_BLOCKED", q)>>}
      OBVIOUS
    <2>4. desalojos' = desalojos \o (<<Mensaje(interrupcion.tipo, q)>> \o e)
      BY <1>27 DEF AccionInterrupt, Terminar
    <2> HIDE DEF e
    <2>5. Mensaje("RESOURCE_BLOCKED", q).tipo # "KILL_PROCESS"
      BY DEF Mensaje
    <2>6. interrupcion.tipo \in Motivos /\ interrupcion.tipo # "ninguna"
      BY <1>0, <1>27
         DEF Manos, TypeOK, Interrupciones, Motivos, AccionInterrupt, Terminar, Mensaje, CpuSola
    <2> DEFINE t == interrupcion.tipo
    <2>12. TypeOK /\ q \in Pids /\ t \in Motivos
      BY <1>0, <2>1, <2>6
    <2>10. desalojos' = desalojos \o (<<Mensaje(t, q)>> \o e)
      BY <2>4
    <2> HIDE DEF t, q
    <2>11. \A k \in DOMAIN desalojos' : \/ k \in DOMAIN desalojos /\ desalojos'[k] = desalojos[k]
                                       \/ desalojos'[k] = Mensaje(t, q)
                                       \/ desalojos'[k] = Mensaje("RESOURCE_BLOCKED", q)
      BY <2>3, <2>12, <2>10, Despide
    <2> USE DEF t, q
    <2>7. \A k \in DOMAIN desalojos' : \/ k \in DOMAIN desalojos /\ desalojos'[k] = desalojos[k]
                                      \/ desalojos'[k] = Mensaje(interrupcion.tipo, q)
                                      \/ desalojos'[k] = Mensaje("RESOURCE_BLOCKED", q)
      BY <2>11
    <2>8. interrupcion.tipo = "KILL_PROCESS" => Espera(q)
      <3>1. ~cpu.respondio /\ (interrupcion.tipo = "KILL_PROCESS" => interrupcion.pid = q)
        BY <1>27 DEF AccionInterrupt, Terminar, Mensaje, CpuSola
      <3>2. Activa(q)
        BY <1>27, <3>1 DEF Activa, AccionInterrupt, Terminar, Mensaje, CpuSola
      <3>3. estado[q] = "EXEC"
        BY <1>0, <2>1, <3>2, Unico
      <3>4. Muerto(interrupcion)
        BY <1>0, <2>6 DEF Consolas
      <3> QED
        BY <3>1, <3>3, <3>4 DEF Muerto
    <2>9. Mensaje(interrupcion.tipo, q).tipo = interrupcion.tipo /\ Mensaje(interrupcion.tipo, q).pid = q
      BY MensajeDe
    <2> HIDE DEF q
    <2> QED
      BY <1>0, <2>1, <2>5, <2>7, <2>8, <2>9, Mandado
  <1>28. CASE TerminarCallado
    <2> DEFINE q == cpu.pid
    <2>1. /\ UNCHANGED <<consola, estado, loko, tareas, canal, interrupcion>> /\ q \in Pids
      BY <1>0, <1>28 DEF Manos, TerminarCallado, Terminar, Mensaje, CpuSola
    <2> DEFINE e == IF "bloqueado" \in banderas THEN <<Mensaje("RESOURCE_BLOCKED", q)>> ELSE <<>>
    <2>3. e \in {<<>>, <<Mensaje("RESOURCE_BLOCKED", q)>>}
      OBVIOUS
    <2>4. desalojos' = desalojos \o e
      BY <1>28 DEF TerminarCallado, Terminar
    <2> HIDE DEF e
    <2>5. Mensaje("RESOURCE_BLOCKED", q).tipo # "KILL_PROCESS"
      BY DEF Mensaje
    <2>7. \A k \in DOMAIN desalojos' : \/ k \in DOMAIN desalojos /\ desalojos'[k] = desalojos[k]
                                      \/ desalojos'[k] = Mensaje("RESOURCE_BLOCKED", q)
      BY <1>0, <2>1, <2>3, <2>4, Calla
    <2> QED
      BY <1>0, <2>1, <2>5, <2>7, Mandado
  <1> QED
    BY <1>0, <1>1, <1>2, <1>3, <1>4, <1>5, <1>6, <1>7, <1>8, <1>9, <1>10, <1>11, <1>12, <1>13,
       <1>14, <1>15, <1>16, <1>17, <1>18, <1>19, <1>20, <1>21, <1>22, <1>23, <1>24, <1>25, <1>26,
       <1>27, <1>28
       DEF Next, HiloCorto, HiloReloj, HiloDespacho, HiloConsola, HiloCpu, Ciclo
-----------------------------------------------------------------------------
(* A process that is ended after its CPU was freed.                        *)

LEMMA CabezaRespuesta ==
  ASSUME Formas, Tarea(Respuestas)
  PROVE  \E q \in Pids, t \in Respuestas : q = DeTarea /\ Head(tareas) = Mensaje(t, q)
  <1>1. tareas # <<>> /\ Head(tareas).tipo \in Respuestas
    BY DEF Tarea
  <1>2. tareas \in Seq(Todos(Trabajos))
    BY TipoDeLista DEF Formas
  <1>3. Head(tareas) \in Todos(Trabajos)
    BY <1>1, <1>2, HeadTailProperties
  <1> QED
    BY <1>1, <1>3 DEF Todos, Mensaje, DeTarea

\* Once condemned, until the CPU answers twice.
LEMMA PasoCondena ==
  ASSUME Tipos, Orden, ~quiebre, Next, ~quiebre'
  PROVE  Condenada => Condenada'
  <1> USE DEF varsPlan, varsReloj, varsDespacho, varsConsola, varsCpu, varsInt, historia
  <1>0. TypeOK /\ Formas /\ Manos /\ EnCola /\ Vuelo /\ Ficha /\ Preguntas /\ Consolas
    BY DEF Tipos, Orden
  <1>1. ASSUME NEW p \in Pids, ALaCola(p) PROVE Condenada => Condenada'
    <2>1. UNCHANGED <<aCpu, cpu, banderas>>
      BY <1>1 DEF ALaCola, Cambiar
    <2> QED
      BY <2>1 DEF Condenada
  <1>2. ASSUME NEW p \in Pids, Finalizar(p) PROVE Condenada => Condenada'
    <2>1. UNCHANGED <<aCpu, cpu, banderas>>
      BY <1>2 DEF Finalizar, Mensaje
    <2> QED
      BY <2>1 DEF Condenada
  <1>3. CASE Despachar
    <2>1. /\ listos # <<>> /\ aCpu' = Append(aCpu, Mensaje("PCB", Head(listos)))
          /\ UNCHANGED <<cpu, banderas>>
      BY <1>3 DEF Despachar, Cambiar, Mensaje
    <2>2. PICK q \in Pids : q = Head(listos)
      BY <1>0, <2>1, UnMensaje
    <2>3. \A k \in DOMAIN aCpu : k \in DOMAIN aCpu' /\ aCpu'[k] = aCpu[k]
      BY <1>0, <2>1, <2>2, Envia
    <2> QED
      BY <2>1, <2>3 DEF Condenada
  <1>4. CASE ArrancarQuantum
    <2>1. UNCHANGED <<aCpu, cpu, banderas>>
      BY <1>4 DEF ArrancarQuantum
    <2> QED
      BY <2>1 DEF Condenada
  <1>5. CASE TomarArranque
    <2>1. UNCHANGED <<aCpu, cpu, banderas>>
      BY <1>5 DEF TomarArranque, RelojSolo
    <2> QED
      BY <2>1 DEF Condenada
  <1>6. CASE CpuLibreATiempo
    <2>1. UNCHANGED <<aCpu, cpu, banderas>>
      BY <1>6 DEF CpuLibreATiempo, RelojSolo
    <2> QED
      BY <2>1 DEF Condenada
  <1>7. CASE Vencer
    <2>1. UNCHANGED <<aCpu, cpu, banderas>>
      BY <1>7 DEF Vencer, RelojSolo, Mensaje
    <2> QED
      BY <2>1 DEF Condenada
  <1>8. CASE Recibir
    <2>1. UNCHANGED <<aCpu, cpu, banderas>>
      BY <1>8 DEF Recibir
    <2> QED
      BY <2>1 DEF Condenada
  <1>9. CASE Avisar
    <2>1. UNCHANGED <<aCpu, cpu, banderas>>
      BY <1>9 DEF Avisar
    <2> QED
      BY <2>1 DEF Condenada
  <1>10. CASE Soltar
    <2>1. UNCHANGED <<aCpu, cpu, banderas>>
      BY <1>10 DEF Soltar
    <2> QED
      BY <2>1 DEF Condenada
  <1>11. CASE Listar
    <2>1. UNCHANGED <<aCpu, cpu, banderas>>
      BY <1>11 DEF Listar, Cambiar
    <2> QED
      BY <2>1 DEF Condenada
  <1>12. CASE Retirar
    <2>1. UNCHANGED <<aCpu, cpu, banderas>>
      BY <1>12 DEF Retirar, Cambiar
    <2> QED
      BY <2>1 DEF Condenada
  <1>13. CASE Responder
    <2>1. UNCHANGED <<cpu, banderas>> /\ Tarea(Respuestas)
      BY <1>13 DEF Tarea, Respuestas, Responder
    <2>2. PICK q \in Pids, t \in Respuestas : Head(tareas) = Mensaje(t, q)
      BY <1>0, <2>1, CabezaRespuesta
    <2>3. aCpu' = Append(aCpu, Mensaje(t, q))
      BY <1>13, <2>2 DEF Responder
    <2>4. \A k \in DOMAIN aCpu : k \in DOMAIN aCpu' /\ aCpu'[k] = aCpu[k]
      BY <1>0, <2>2, <2>3, Envia
    <2> QED
      BY <2>1, <2>4 DEF Condenada
  <1>14. CASE Matar
    <2>1. UNCHANGED <<aCpu, cpu, banderas>>
      BY <1>14 DEF Matar
    <2> QED
      BY <2>1 DEF Condenada
  <1>15. CASE Finalizado
    <2>1. UNCHANGED <<aCpu, cpu, banderas>>
      BY <1>15 DEF Finalizado
    <2> QED
      BY <2>1 DEF Condenada
  <1>16. CASE AvisarFinalizado
    <2>1. UNCHANGED <<aCpu, cpu, banderas>>
      BY <1>16 DEF AvisarFinalizado
    <2> QED
      BY <2>1 DEF Condenada
  <1>17. CASE RecibirInterrupcion
    <2>1. UNCHANGED <<aCpu, cpu, banderas>>
      BY <1>17 DEF RecibirInterrupcion, CpuSola
    <2> QED
      BY <2>1 DEF Condenada
  <1>18. CASE TomarPcb
    <2>1. aCpu # <<>> /\ Head(aCpu).tipo = "PCB" /\ aCpu' = Tail(aCpu) /\ cpu.en = "libre"
      BY <1>18 DEF TomarPcb, CpuSola
    <2>2. \A j \in DOMAIN aCpu : aCpu[j] = Head(aCpu) \/ \E k \in DOMAIN aCpu' : aCpu'[k] = aCpu[j]
      BY <1>0, <2>1, Atiende
    <2> QED
      BY <2>1, <2>2 DEF Condenada
  <1>19. CASE Calculo
    <2>1. UNCHANGED aCpu /\ banderas = {}
      BY <1>19 DEF Ninguna, Calculo, EnCiclo, ConInterrupcion, CheckInterrupt, CpuSola
    <2> QED
      BY <2>1 DEF Condenada
  <1>20. CASE Exit
    <2>1. UNCHANGED aCpu /\ banderas = {}
      BY <1>20 DEF Ninguna, Exit, EnCiclo, ConInterrupcion, CheckInterrupt, CpuSola
    <2> QED
      BY <2>1 DEF Condenada
  <1>21. CASE OperacionIo
    <2>1. UNCHANGED aCpu /\ banderas = {}
      BY <1>21
         DEF Ninguna, OperacionIo, EnCiclo, Enviar, Mensaje, ConInterrupcion, CheckInterrupt,
             CpuSola
    <2> QED
      BY <2>1 DEF Condenada
  <1>22. CASE ResizeFalla
    <2>1. UNCHANGED aCpu /\ banderas = {}
      BY <1>22
         DEF Ninguna, ResizeFalla, EnCiclo, Enviar, Mensaje, ConInterrupcion, CheckInterrupt,
             CpuSola
    <2> QED
      BY <2>1 DEF Condenada
  <1>23. CASE PedirRecurso("WAIT")
    <2>1. UNCHANGED aCpu /\ banderas = {}
      BY <1>23 DEF Ninguna, PedirRecurso, EnCiclo, Enviar, Mensaje, CpuSola
    <2> QED
      BY <2>1 DEF Condenada
  <1>24. CASE PedirRecurso("SIGNAL")
    <2>1. UNCHANGED aCpu /\ banderas = {}
      BY <1>24 DEF Ninguna, PedirRecurso, EnCiclo, Enviar, Mensaje, CpuSola
    <2> QED
      BY <2>1 DEF Condenada
  <1>25. CASE LeerRespuesta
    <2>1. /\ aCpu # <<>> /\ aCpu' = Tail(aCpu) /\ cpu.en = "recurso" /\ cpu'.en = "ciclo"
          /\ cpu'.respondio = (Head(aCpu).tipo # "RESOURCE_OK")
          /\ Head(aCpu).tipo = "RESOURCE_FAIL" => "end_process" \in banderas'
      BY <1>0, <1>25 DEF TypeOK, LeerRespuesta, ConInterrupcion, CheckInterrupt, CpuSola
    <2>2. \A j \in DOMAIN aCpu : aCpu[j] = Head(aCpu) \/ \E k \in DOMAIN aCpu' : aCpu'[k] = aCpu[j]
      BY <1>0, <2>1, Atiende
    <2> QED
      BY <2>1, <2>2 DEF Condenada
  <1>26. CASE TerminarFin
    <2>1. UNCHANGED aCpu /\ ~cpu.respondio
      BY <1>26 DEF TerminarFin, Terminar, Mensaje, CpuSola
    <2> QED
      BY <2>1 DEF Condenada
  <1>27. CASE AccionInterrupt
    <2>1. UNCHANGED aCpu /\ "end_process" \notin banderas
      BY <1>27 DEF AccionInterrupt, Terminar, Mensaje, CpuSola
    <2> QED
      BY <2>1 DEF Condenada
  <1>28. CASE TerminarCallado
    <2>1. UNCHANGED aCpu /\ "end_process" \notin banderas
      BY <1>28 DEF TerminarCallado, Terminar, Mensaje, CpuSola
    <2> QED
      BY <2>1 DEF Condenada
  <1> QED
    BY <1>0, <1>1, <1>2, <1>3, <1>4, <1>5, <1>6, <1>7, <1>8, <1>9, <1>10, <1>11, <1>12, <1>13,
       <1>14, <1>15, <1>16, <1>17, <1>18, <1>19, <1>20, <1>21, <1>22, <1>23, <1>24, <1>25, <1>26,
       <1>27, <1>28
       DEF Next, HiloCorto, HiloReloj, HiloDespacho, HiloConsola, HiloCpu, Ciclo

\* Each step keeps condemned the CPU that was freed before its process ended.
LEMMA PasoFinal ==
  ASSUME Tipos, Orden, ~quiebre, Next, ~quiebre'
  PROVE  (AlFinal => Condenada)'
  <1> USE DEF varsPlan, varsReloj, varsDespacho, varsConsola, varsCpu, varsInt, historia
  <1>0. TypeOK /\ Formas /\ (AlFinal => Condenada)
    BY DEF Tipos, Orden
  <1>1. Condenada => Condenada'
    BY PasoCondena
  <1>2. CASE UNCHANGED tareas
    BY <1>0, <1>1, <1>2 DEF AlFinal
  <1>3. CASE Recibir
    BY <1>0, <1>3, UnDesalojo
  <1>4. CASE Avisar
    <2>1. Tarea({"avisar", "avisar_muerte"})
      BY <1>4 DEF Avisar
    <2> QED
      BY <1>0, <1>1, <2>1, UnAviso
  <1>5. CASE Soltar
    <2>1. Tarea({"soltar"})
      BY <1>5 DEF Soltar
    <2> QED
      BY <1>0, <1>1, <2>1, UnaSuelta
  <1>6. CASE Listar \/ Retirar
    <2>1. Tarea(EnLista)
      BY <1>6 DEF Listar, Retirar, Tarea, EnLista
    <2> QED
      BY <1>0, <2>1, UnCambio
  <1>7. CASE Matar
    <2>1. Tarea({"matar"})
      BY <1>7 DEF Matar
    <2> QED
      BY <1>0, <2>1, UnaMuerte
  <1>8. CASE Responder
    <2>1. Tarea(Respuestas)
      BY <1>8 DEF Responder, Tarea, Respuestas
    <2>2. PICK q \in Pids, t \in Respuestas : Head(tareas) = Mensaje(t, q)
      BY <1>0, <2>1, CabezaRespuesta
    <2>3. aCpu' = Append(aCpu, Mensaje(t, q))
      BY <1>8, <2>2 DEF Responder
    <2>4. \E k \in DOMAIN aCpu' : aCpu'[k] = Mensaje(t, q)
      BY <1>0, <2>2, <2>3, Envia
    <2>5. AlFinal' => Mensaje(t, q).tipo = "RESOURCE_FAIL"
      BY <1>0, <2>1, <2>2, UnaRespuesta
    <2> QED
      BY <2>4, <2>5 DEF Condenada
  <1>9. CASE \E p \in Pids : ALaCola(p) \/ Finalizar(p)
    BY <1>2, <1>9 DEF ALaCola, Finalizar
  <1>10. CASE HiloCorto \/ HiloReloj \/ HiloConsola
    BY <1>2, <1>10 DEF HiloCorto, HiloReloj, HiloConsola, Despachar, ArrancarQuantum, TomarArranque,
                       CpuLibreATiempo, Vencer, RelojSolo, Finalizado, AvisarFinalizado
  <1>11. CASE RecibirInterrupcion \/ HiloCpu
    BY <1>2, <1>11
       DEF RecibirInterrupcion, HiloCpu, CpuSola, Ciclo, TomarPcb, Calculo, Exit, OperacionIo,
                       ResizeFalla, PedirRecurso, LeerRespuesta, TerminarFin, AccionInterrupt,
                       TerminarCallado, Terminar
  <1> QED
    BY <1>3, <1>4, <1>5, <1>6, <1>7, <1>8, <1>9, <1>10, <1>11 DEF Next, HiloDespacho
-----------------------------------------------------------------------------
(* The inductive invariant.                                                *)

LEMMA InicioOrden == Init => Orden
  <1> SUFFICES ASSUME Init PROVE Orden
    OBVIOUS
  <1>1. /\ tareas = <<>> /\ listos = <<>> /\ desalojos = <<>> /\ aCpu = <<>> /\ canal = <<>>
        /\ estado = [p \in Pids |-> "NEW"] /\ cpu_libre = 1 /\ loko = 0
        /\ consola = [en |-> "libre", pid |-> NULO, vigente |-> TRUE]
        /\ cpu = [en |-> "libre", pid |-> NULO, respondio |-> FALSE]
        /\ interrupcion.tipo = "ninguna"
    BY DEF Init, Mensaje
  <1>2. \A tipos : ~Hay(tipos)
    BY <1>1 DEF Hay
  <1>3. /\ \A p : Mandados(p) = 0 /\ Echados(p) = 0
        /\ Preguntados = 0 /\ Contestados = 0
    BY <1>1, CuantosVacia DEF Mandados, Echados, Preguntados, Contestados
  <1>4. EnCola
    BY <1>1 DEF EnCola
  <1>5. Vuelo
    BY <1>1, <1>2, <1>3 DEF Vuelo, EnVuelo, Activa, Trabaja, Condenas, Uno
  <1>6. Ficha
    <2>1. \A p \in Pids : ~Ocupa(p)
      BY <1>1 DEF Ocupa
    <2> QED
      BY <1>1, <1>2, <2>1 DEF Ficha, Uno
  <1>7. Preguntas
    BY <1>1, <1>2, <1>3 DEF Preguntas, Uno
  <1>8. Consolas
    BY <1>1, <1>2 DEF Consolas, Espera
  <1>9. ~AlFinal
    BY <1>1 DEF AlFinal
  <1> QED
    BY <1>4, <1>5, <1>6, <1>7, <1>8, <1>9 DEF Orden

\* A stuttering step keeps all of them.
LEMMA OrdenQuieto ==
  ASSUME Orden, UNCHANGED vars
  PROVE  Orden'
  <1> USE DEF vars, varsPlan, varsReloj, varsDespacho, varsConsola, varsCpu, varsInt
  <1>1. EnCola'
    BY ColaQuieta DEF Orden
  <1>2. Vuelo'
    BY VueloQuieto DEF Orden
  <1>3. Ficha'
    BY FichaQuieta DEF Orden
  <1>4. Preguntas'
    BY PreguntasQuietas DEF Orden
  <1>5. Consolas'
    BY ConsolasQuietas DEF Orden
  <1>6. (AlFinal => Condenada)'
    BY DEF Orden, AlFinal, Condenada
  <1> QED
    BY <1>1, <1>2, <1>3, <1>4, <1>5, <1>6 DEF Orden

\* Types always hold, and order until kernel and CPU lose track of a PCB.
THEOREM Inductivo == Spec => []IInv
  <1>1. Init => IInv
    BY InicioTipos, InicioOrden DEF IInv
  <1>2. ASSUME IInv, [Next]_vars PROVE IInv'
    <2>1. Tipos /\ Tipos'
      BY <1>2, PasoTipos DEF IInv
    <2>2. ASSUME ~quiebre' PROVE Orden'
      <3>1. CASE Next
        <4>1. Orden /\ ~quiebre
          BY <1>2, <3>1 DEF IInv, Next
        <4> QED
          BY <2>1, <2>2, <3>1, <4>1, PasoCola, PasoVuelo, PasoFicha, PasoPreguntas, PasoConsolas,
             PasoFinal
             DEF Orden
      <3>2. CASE UNCHANGED vars
        <4>1. Orden
          BY <1>2, <2>2, <3>2 DEF IInv, vars, historia
        <4> QED
          BY <3>2, <4>1, OrdenQuieto
      <3> QED
        BY <1>2, <3>1, <3>2
    <2> QED
      BY <2>1, <2>2 DEF IInv
  <1> QED
    BY <1>1, <1>2, PTL DEF Spec

\* Every variable keeps the values that its type gives it, however PCBs,
\* evictions, answers and interrupts cross between kernel and CPU.
THEOREM TiposDelCiclo == Spec => []TypeOK
  <1>1. IInv => TypeOK
    BY DEF IInv, Tipos
  <1> QED
    BY <1>1, Inductivo, PTL
-----------------------------------------------------------------------------
(* The token of the CPU.                                                   *)

PorEchar == \E p \in Pids : Saliente(p)

\* Who is still in EXEC though the CPU was freed is the one to be ended.
LEMMA HaySaliente ==
  ASSUME Formas
  PROVE  /\ (\E p \in Pids : Saliente(p)) <=> CambiaEstado /\ ~Hay({"soltar"}) /\ ~Hay({"listar"})
         /\ CambiaEstado /\ ~Hay({"soltar"}) => \E p \in Pids : Saliente(p)
         /\ \A p, q \in Pids : Saliente(p) /\ Saliente(q) => p = q
  <1>1. CambiaEstado <=> Hay(EnLista)
    BY DEF CambiaEstado, EnLista
  <1>2. Hay({"listar"}) => Hay({"soltar"})
    <2>1. CASE tareas = <<>>
      BY <2>1 DEF Hay
    <2>2. CASE \E p \in Pids, l \in Listas : tareas = Pasos(p, l)
      <3>1. PICK p \in Pids, l \in Listas : tareas = Pasos(p, l)
        BY <2>2
      <3>2. \A tipos : HayDe(tareas, tipos) <=> HayEn(l, tipos)
        BY <3>1, ListaDe
      <3>3. HayEn(l, {"listar"}) => HayEn(l, {"soltar"})
        BY Resto DEF DiceBien
      <3> QED
        BY <3>2, <3>3 DEF Hay, HayDe
    <2> QED
      BY <2>1, <2>2 DEF Formas
  <1>3. ASSUME Hay(EnLista), ~Hay({"soltar"}) PROVE \E p \in Pids : Saliente(p)
    <2>1. tareas # <<>>
      BY <1>3 DEF Hay
    <2>2. PICK p \in Pids, l \in Listas : tareas = Pasos(p, l)
      BY <2>1 DEF Formas
    <2>3. \A tipos : HayDe(tareas, tipos) <=> HayEn(l, tipos)
      BY <2>2, ListaDe
    <2>4. HayEn(l, EnLista) /\ ~HayEn(l, {"soltar"})
      BY <1>3, <2>3 DEF Hay, HayDe
    <2>5. l = <<"finalizar">>
      BY <2>4, Resto DEF DiceBien
    <2> QED
      BY <2>2, <2>5 DEF Saliente
  <1>4. \A p \in Pids : Saliente(p) => Hay(EnLista) /\ ~Hay({"soltar"})
    BY SalienteTrabaja
  <1>5. \A p, q \in Pids : Saliente(p) /\ Saliente(q) => p = q
    BY SalienteTrabaja DEF Trabaja
  <1> QED
    BY <1>1, <1>2, <1>3, <1>4, <1>5

\* In EXEC are who has the CPU and who is still to be ended.
LEMMA CuantosEnExec ==
  ASSUME Tipos, Orden
  PROVE  Cardinality(EnExec) = Peso(Tomada) + Peso(PorEchar)
  <1>1. Formas /\ TypeOK /\ Vuelo /\ Ficha
    BY DEF Tipos, Orden
  <1>2. \A p \in Pids : Saliente(p) => estado[p] = "EXEC" /\ ~Ocupa(p)
    BY <1>1, SalienteTrabaja, Unico DEF Ocupa
  <1>3. \A p \in Pids : estado[p] = "EXEC" <=> Ocupa(p) \/ Saliente(p)
    BY <1>2 DEF Ocupa
  <1>4. \A p, q \in Pids : Ocupa(p) /\ Ocupa(q) => p = q
    BY <1>1 DEF Ficha
  <1>5. \A p, q \in Pids : Saliente(p) /\ Saliente(q) => p = q
    BY <1>1, HaySaliente
  <1>6. CASE ~Tomada /\ ~PorEchar
    <2>1. EnExec = {}
      BY <1>3, <1>6 DEF EnExec, Tomada, PorEchar
    <2> QED
      BY <1>6, <2>1, FS_EmptySet DEF Peso
  <1>7. CASE Tomada /\ ~PorEchar
    <2>1. PICK a \in Pids : Ocupa(a)
      BY <1>7 DEF Tomada
    <2>2. EnExec = {a}
      BY <1>3, <1>4, <1>7, <2>1 DEF EnExec, PorEchar
    <2>3. Peso(Tomada) = 1 /\ Peso(PorEchar) = 0
      BY <1>7 DEF Peso
    <2>4. Cardinality({a}) = 1
      BY FS_Singleton
    <2> QED
      BY <2>2, <2>3, <2>4
  <1>8. CASE ~Tomada /\ PorEchar
    <2>1. PICK b \in Pids : Saliente(b)
      BY <1>8 DEF PorEchar
    <2>2. EnExec = {b}
      BY <1>3, <1>5, <1>8, <2>1 DEF EnExec, Tomada
    <2>3. Peso(Tomada) = 0 /\ Peso(PorEchar) = 1
      BY <1>8 DEF Peso
    <2>4. Cardinality({b}) = 1
      BY FS_Singleton
    <2> QED
      BY <2>2, <2>3, <2>4
  <1>9. CASE Tomada /\ PorEchar
    <2>1. PICK a \in Pids : Ocupa(a)
      BY <1>9 DEF Tomada
    <2>2. PICK b \in Pids : Saliente(b)
      BY <1>9 DEF PorEchar
    <2>3. EnExec = {a} \cup {b} /\ b \notin {a}
      BY <1>2, <1>3, <1>4, <1>5, <2>1, <2>2 DEF EnExec
    <2>4. IsFiniteSet({a}) /\ Cardinality({a}) = 1
      BY FS_Singleton
    <2>5. Cardinality({a} \cup {b}) = 1 + 1
      BY <2>3, <2>4, FS_AddElement
    <2>6. Peso(Tomada) = 1 /\ Peso(PorEchar) = 1
      BY <1>9 DEF Peso
    <2> QED
      BY <2>3, <2>5, <2>6
  <1> QED
    BY <1>6, <1>7, <1>8, <1>9

\* Only who has the CPU executes.
LEMMA EjecutaOcupa ==
  ASSUME Tipos, Orden, NEW p \in Pids, Ejecuta(p)
  PROVE  Activa(p) /\ estado[p] = "EXEC" /\ en_ejecucion = p
  <1>1. ~cpu.respondio
    BY DEF Orden, Preguntas, Ejecuta, Ninguna
  <1>2. Activa(p)
    BY <1>1 DEF Activa, Ejecuta, Ninguna
  <1> QED
    BY <1>2, Ocupado DEF Ocupa

LEMMA FichaDaToken ==
  ASSUME Tipos, Orden
  PROVE  TokenCpu
  <1>1. Formas /\ TypeOK /\ Ficha
    BY DEF Tipos, Orden
  <1>2. cpu_libre + Peso(Tomada) + Peso(Suelta) = 1
    BY <1>1, FichaDe
  <1>3. Cardinality(EnExec) = Peso(Tomada) + Peso(PorEchar)
    BY CuantosEnExec
  <1>4. Bit(Hay({"soltar"}) /\ ~CambiaEstado) = Peso(Suelta)
    <2>1. CambiaEstado <=> Hay(EnLista)
      BY DEF CambiaEstado, EnLista
    <2> QED
      BY <2>1 DEF Bit, Peso, Suelta
  <1>5. Bit(CambiaEstado /\ ~Hay({"soltar"}) /\ ~Hay({"listar"})) = Peso(PorEchar)
    BY <1>1, HaySaliente DEF Bit, Peso, PorEchar
  <1>6. /\ cpu_libre \in Nat
        /\ Peso(Tomada) \in {0, 1} /\ Peso(Suelta) \in {0, 1}
        /\ Peso(PorEchar) \in {0, 1}
    BY <1>1 DEF TypeOK, Peso
  <1>7. cpu_libre + Cardinality(EnExec) + Bit(Hay({"soltar"}) /\ ~CambiaEstado)
          - Bit(CambiaEstado /\ ~Hay({"soltar"}) /\ ~Hay({"listar"})) = 1
    <2> DEFINE t == Peso(Tomada)
               s == Peso(Suelta)
               f == Peso(PorEchar)
               c == Cardinality(EnExec)
    <2>1. cpu_libre + t + s = 1 /\ c = t + f /\ cpu_libre \in Nat /\ t \in {0, 1} /\ s \in {0, 1}
          /\ f \in {0, 1}
      BY <1>2, <1>3, <1>6
    <2> HIDE DEF t, s, f, c
    <2>2. cpu_libre + c + s - f = 1
      BY <2>1
    <2> QED
      BY <1>4, <1>5, <2>2 DEF t, s, f, c
  <1>8. \A p \in Pids : Ejecuta(p) => estado[p] = "EXEC" /\ en_ejecucion = p
    BY EjecutaOcupa
  <1> QED
    BY <1>7, <1>8 DEF TokenCpu

\* While kernel and CPU agree on the PCBs, there is one CPU to give, and only
\* the process that the kernel believes in execution executes: for any
\* programs, and however evictions, answers and PCBs cross on the connection.
THEOREM FichaUnica == Spec => []TokenCpu
  <1>1. IInv => TokenCpu
    <2>1. quiebre => TokenCpu
      BY DEF TokenCpu
    <2> QED
      BY <2>1, FichaDaToken DEF IInv
  <1> QED
    BY <1>1, Inductivo, PTL
-----------------------------------------------------------------------------
(* The quantum: whoever has the CPU is watched.                            *)

LEMMA MensajeEs ==
  ASSUME NEW T, NEW m \in [tipo : T, pid : Pids]
  PROVE  m = Mensaje(m.tipo, m.pid)
  BY DEF Mensaje

\* Who runs has the CPU, and one piece in flight.
LEMMA CorreOcupa ==
  ASSUME Tipos, Orden, NEW p \in Pids, Corre(p)
  PROVE  /\ Ocupa(p) /\ en_ejecucion = p /\ cpu_libre = 0
         /\ Mandados(p) > 0 \/ Activa(p) \/ Echados(p) > 0 \/ (Hay({"RESOURCE_OK"}) /\ Trabaja(p))
  <1>1. TypeOK
    BY DEF Tipos
  <1>2. CASE \E k \in DOMAIN aCpu : aCpu[k] \in De({"PCB", "RESOURCE_OK"}, p)
    <2>1. Mandados(p) > 0
      BY <1>1, <1>2, Contados
    <2> QED
      BY <2>1, Ocupado
  <1>3. CASE Activa(p)
    BY <1>3, Ocupado
  <1>4. CASE \E k \in DOMAIN desalojos : desalojos[k] \in De(Pedidos, p)
    <2>1. De(Pedidos, p) \subseteq De(Reales, p)
      BY DEF De, Pedidos, Reales, Motivos
    <2>2. \E k \in DOMAIN desalojos : desalojos[k] \in De(Reales, p)
      BY <1>4, <2>1
    <2>3. Echados(p) > 0
      BY <1>1, <2>2, Contados
    <2> QED
      BY <2>3, Ocupado
  <1>5. CASE Hay({"RESOURCE_OK"}) /\ Head(tareas).pid = p
    <2>1. Hay(DaVuelo) /\ Hay(Respuestas)
      BY <1>5 DEF Hay, DaVuelo, Respuestas
    <2>2. Trabaja(p) /\ ~Saliente(p)
      BY <1>5, <2>1, SalienteTrabaja DEF Trabaja
    <2> QED
      BY <1>5, <2>2, Ocupado
  <1> QED
    BY <1>2, <1>3, <1>4, <1>5 DEF Corre

LEMMA CorreIgual ==
  ASSUME NEW p, UNCHANGED <<aCpu, cpu, banderas, desalojos>>,
         Hay({"RESOURCE_OK"})' /\ Head(tareas').pid = p => Hay({"RESOURCE_OK"}) /\ Head(tareas).pid = p
  PROVE  Corre(p)' => Corre(p)
  BY DEF Corre, Activa

\* The CPU asks for a resource only for the process that it runs.
LEMMA CorreAlMandar ==
  ASSUME NEW p, UNCHANGED <<aCpu, tareas>>, Activa(p)' => Activa(p),
         \A k \in DOMAIN desalojos' :
           \/ k \in DOMAIN desalojos /\ desalojos'[k] = desalojos[k]
           \/ desalojos'[k].tipo \notin Pedidos
           \/ desalojos'[k].pid = p => Activa(p)
  PROVE  Corre(p)' => Corre(p)
  <1>1. \A m : m \in De(Pedidos, p) => m.tipo \in Pedidos /\ m.pid = p
    BY DEF De, Mensaje
  <1>2. Hay({"RESOURCE_OK"})' <=> Hay({"RESOURCE_OK"})
    BY DEF Hay
  <1>3. CASE Activa(p)'
    BY <1>3 DEF Corre
  <1>4. CASE \E k \in DOMAIN desalojos' : desalojos'[k] \in De(Pedidos, p)
    <2>1. PICK k \in DOMAIN desalojos' : desalojos'[k] \in De(Pedidos, p)
      BY <1>4
    <2>2. desalojos'[k].tipo \in Pedidos /\ desalojos'[k].pid = p
      BY <1>1, <2>1
    <2>3. Activa(p) \/ (k \in DOMAIN desalojos /\ desalojos'[k] = desalojos[k])
      BY <2>2
    <2> QED
      BY <2>1, <2>3 DEF Corre
  <1> QED
    BY <1>2, <1>3, <1>4 DEF Corre

\* Only a dispatch gives the CPU.
LEMMA PasoCorre ==
  ASSUME Tipos, Orden, ~quiebre, Next, ~quiebre'
  PROVE  \A q \in Pids : Corre(q)' => Corre(q) \/ Despachar
  <1> USE DEF varsPlan, varsReloj, varsDespacho, varsConsola, varsCpu, varsInt, historia
  <1>0. TypeOK /\ Formas /\ Manos /\ EnCola /\ Vuelo /\ Ficha /\ Preguntas /\ Consolas
    BY DEF Tipos, Orden
  <1>1. ASSUME NEW p \in Pids, ALaCola(p) PROVE \A q \in Pids : Corre(q)' => Corre(q) \/ Despachar
    <2>1. UNCHANGED <<aCpu, cpu, banderas, desalojos, tareas>>
      BY <1>1 DEF ALaCola, Cambiar
    <2> QED
      BY <2>1 DEF Corre, Activa, Hay
  <1>2. ASSUME NEW p \in Pids, Finalizar(p) PROVE \A q \in Pids : Corre(q)' => Corre(q) \/ Despachar
    <2>1. UNCHANGED <<aCpu, cpu, banderas, desalojos, tareas>>
      BY <1>2 DEF Finalizar, Mensaje
    <2> QED
      BY <2>1 DEF Corre, Activa, Hay
  <1>3. CASE Despachar
    BY <1>3
  <1>4. CASE ArrancarQuantum
    <2>1. UNCHANGED <<aCpu, cpu, banderas, desalojos, tareas>>
      BY <1>4 DEF ArrancarQuantum
    <2> QED
      BY <2>1 DEF Corre, Activa, Hay
  <1>5. CASE TomarArranque
    <2>1. UNCHANGED <<aCpu, cpu, banderas, desalojos, tareas>>
      BY <1>5 DEF TomarArranque, RelojSolo
    <2> QED
      BY <2>1 DEF Corre, Activa, Hay
  <1>6. CASE CpuLibreATiempo
    <2>1. UNCHANGED <<aCpu, cpu, banderas, desalojos, tareas>>
      BY <1>6 DEF CpuLibreATiempo, RelojSolo
    <2> QED
      BY <2>1 DEF Corre, Activa, Hay
  <1>7. CASE Vencer
    <2>1. UNCHANGED <<aCpu, cpu, banderas, desalojos, tareas>>
      BY <1>7 DEF Vencer, RelojSolo, Mensaje
    <2> QED
      BY <2>1 DEF Corre, Activa, Hay
  <1>8. CASE Recibir
    <2>0. UNCHANGED <<aCpu, cpu, banderas>> /\ desalojos # <<>> /\ desalojos' = Tail(desalojos)
      BY <1>8 DEF Recibir
    <2> DEFINE m == Head(desalojos)
    <2>1. /\ Hay({"RESOURCE_OK"})' => m.tipo \in Pedidos
          /\ tareas' # <<>> => Head(tareas').pid = m.pid
      BY <1>0, <1>8, UnDesalojo DEF Pedidos
    <2>2. /\ m.tipo \in Motivos /\ m.pid \in Pids
          /\ \A k \in DOMAIN desalojos' : \E j \in DOMAIN desalojos : desalojos[j] = desalojos'[k]
          /\ \E j \in DOMAIN desalojos : desalojos[j] = m
      BY <1>0, <2>0, Recibe
    <2>3. m = Mensaje(m.tipo, m.pid)
      <3>1. desalojos \in Seq([tipo : Motivos, pid : Pids])
        BY <1>0 DEF TypeOK
      <3> QED
        BY <2>0, <3>1, HeadTailProperties, MensajeEs
    <2> HIDE DEF m
    <2>4. Hay({"RESOURCE_OK"})' => tareas' # <<>>
      BY DEF Hay
    <2>5. ASSUME NEW q \in Pids, Corre(q)' PROVE Corre(q)
      <3>1. CASE Hay({"RESOURCE_OK"})' /\ Head(tareas').pid = q
        <4>1. m.pid = q /\ m.tipo \in Pedidos
          BY <2>1, <2>4, <3>1
        <4>2. m \in De(Pedidos, q)
          BY <2>3, <4>1 DEF De
        <4> QED
          BY <2>2, <4>2 DEF Corre
      <3>2. CASE \E k \in DOMAIN desalojos' : desalojos'[k] \in De(Pedidos, q)
        BY <2>2, <3>2 DEF Corre
      <3> QED
        BY <2>0, <2>5, <3>1, <3>2 DEF Corre, Activa
    <2> QED
      BY <2>5
  <1>9. CASE Avisar
    <2>1. UNCHANGED <<desalojos, aCpu, cpu, banderas>> /\ Tarea({"avisar", "avisar_muerte"})
      BY <1>9 DEF Tarea, Avisar
    <2>2. Igual({"RESOURCE_OK"}) /\ (tareas' # <<>> => Head(tareas').pid = DeTarea)
      BY <1>0, <2>1, UnAviso
    <2>3. (Hay({"RESOURCE_OK"})' => tareas' # <<>>) /\ (Hay({"RESOURCE_OK"})' <=> Hay({"RESOURCE_OK"}))
      BY <2>2 DEF Hay, Igual
    <2> QED
      BY <2>1, <2>2, <2>3, CorreIgual DEF DeTarea
  <1>10. CASE Soltar
    <2>1. UNCHANGED <<desalojos, aCpu, cpu, banderas>> /\ Tarea({"soltar"})
      BY <1>10 DEF Tarea, Soltar
    <2>2. Igual({"RESOURCE_OK"}) /\ (tareas' # <<>> => Head(tareas').pid = DeTarea)
      BY <1>0, <2>1, UnaSuelta
    <2>3. (Hay({"RESOURCE_OK"})' => tareas' # <<>>) /\ (Hay({"RESOURCE_OK"})' <=> Hay({"RESOURCE_OK"}))
      BY <2>2 DEF Hay, Igual
    <2> QED
      BY <2>1, <2>2, <2>3, CorreIgual DEF DeTarea
  <1>11. CASE Listar
    <2>1. UNCHANGED <<desalojos, aCpu, cpu, banderas>> /\ Tarea(EnLista)
      BY <1>11 DEF Tarea, EnLista, Listar, Cambiar
    <2>2. ~Hay({"RESOURCE_OK"})'
      BY <1>0, <2>1, UnCambio
    <2> QED
      BY <2>1, <2>2, CorreIgual
  <1>12. CASE Retirar
    <2>1. UNCHANGED <<desalojos, aCpu, cpu, banderas>> /\ Tarea(EnLista)
      BY <1>12 DEF Tarea, EnLista, Retirar, Cambiar
    <2>2. ~Hay({"RESOURCE_OK"})'
      BY <1>0, <2>1, UnCambio
    <2> QED
      BY <2>1, <2>2, CorreIgual
  <1>13. CASE Responder
    <2>1. UNCHANGED <<desalojos, cpu, banderas>> /\ Tarea(Respuestas)
      BY <1>13 DEF Tarea, Respuestas, Responder
    <2>2. PICK r \in Pids, t \in Respuestas : r = DeTarea /\ Head(tareas) = Mensaje(t, r)
      BY <1>0, <2>1, CabezaRespuesta
    <2>3. aCpu' = Append(aCpu, Mensaje(t, r))
      BY <1>13, <2>2 DEF Responder
    <2>4. \A k \in DOMAIN aCpu' : \/ k \in DOMAIN aCpu /\ aCpu'[k] = aCpu[k]
                                 \/ aCpu'[k] = Mensaje(t, r)
      BY <1>0, <2>2, <2>3, Envia
    <2>5. ~Hay({"RESOURCE_OK"})' /\ (Hay({"RESOURCE_OK"}) <=> Head(tareas).tipo = "RESOURCE_OK")
      BY <1>0, <2>1, UnaRespuesta
    <2>6. Head(tareas).tipo = t /\ Head(tareas).pid = r /\ t # "PCB"
      BY <2>2 DEF Mensaje, Respuestas
    <2>7. ASSUME NEW q \in Pids, Corre(q)' PROVE Corre(q)
      <3>1. CASE \E k \in DOMAIN aCpu' : aCpu'[k] \in De({"PCB", "RESOURCE_OK"}, q)
        <4>1. PICK k \in DOMAIN aCpu' : aCpu'[k] \in De({"PCB", "RESOURCE_OK"}, q)
          BY <3>1
        <4>2. CASE aCpu'[k] = Mensaje(t, r)
          <5>1. t \in {"PCB", "RESOURCE_OK"} /\ r = q
            BY <4>1, <4>2, MensajeDe
          <5>2. Hay({"RESOURCE_OK"}) /\ Head(tareas).pid = q
            BY <2>5, <2>6, <5>1
          <5> QED
            BY <5>2 DEF Corre
        <4> QED
          BY <2>4, <4>1, <4>2 DEF Corre
      <3> QED
        BY <2>1, <2>5, <2>7, <3>1 DEF Corre, Activa
    <2> QED
      BY <2>7
  <1>14. CASE Matar
    <2>1. UNCHANGED <<desalojos, aCpu, cpu, banderas>> /\ Tarea({"matar"})
      BY <1>14 DEF Tarea, Matar
    <2>2. Igual({"RESOURCE_OK"}) /\ (tareas' # <<>> => Head(tareas').pid = DeTarea)
      BY <1>0, <2>1, UnaMuerte
    <2>3. (Hay({"RESOURCE_OK"})' => tareas' # <<>>) /\ (Hay({"RESOURCE_OK"})' <=> Hay({"RESOURCE_OK"}))
      BY <2>2 DEF Hay, Igual
    <2> QED
      BY <2>1, <2>2, <2>3, CorreIgual DEF DeTarea
  <1>15. CASE Finalizado
    <2>1. UNCHANGED <<aCpu, cpu, banderas, desalojos, tareas>>
      BY <1>15 DEF Finalizado
    <2> QED
      BY <2>1 DEF Corre, Activa, Hay
  <1>16. CASE AvisarFinalizado
    <2>1. UNCHANGED <<aCpu, cpu, banderas, desalojos, tareas>>
      BY <1>16 DEF AvisarFinalizado
    <2> QED
      BY <2>1 DEF Corre, Activa, Hay
  <1>17. CASE RecibirInterrupcion
    <2>1. UNCHANGED <<aCpu, cpu, banderas, desalojos, tareas>>
      BY <1>17 DEF RecibirInterrupcion, CpuSola
    <2> QED
      BY <2>1 DEF Corre, Activa, Hay
  <1>18. CASE TomarPcb
    <2>1. /\ aCpu # <<>> /\ Head(aCpu).tipo = "PCB" /\ aCpu' = Tail(aCpu) /\ UNCHANGED <<desalojos, tareas>>
          /\ cpu' = [en |-> "ciclo", pid |-> Head(aCpu).pid, respondio |-> FALSE]
      BY <1>18 DEF TomarPcb, CpuSola
    <2>2. /\ \A k \in DOMAIN aCpu' : \E j \in DOMAIN aCpu : aCpu[j] = aCpu'[k]
          /\ \E j \in DOMAIN aCpu : aCpu[j] = Head(aCpu)
      BY <1>0, <2>1, Atiende
    <2>3. Head(aCpu) \in De({"PCB", "RESOURCE_OK"}, Head(aCpu).pid)
      <3>1. aCpu \in Seq([tipo : Respuestas \cup {"PCB"}, pid : Pids])
        BY <1>0 DEF TypeOK
      <3>2. Head(aCpu) = Mensaje(Head(aCpu).tipo, Head(aCpu).pid)
        BY <2>1, <3>1, HeadTailProperties, MensajeEs
      <3> QED
        BY <2>1, <3>2 DEF De
    <2>4. Hay({"RESOURCE_OK"})' <=> Hay({"RESOURCE_OK"})
      BY <2>1 DEF Hay
    <2>5. \A q : Activa(q)' => q = Head(aCpu).pid
      BY <2>1 DEF Activa
    <2> QED
      BY <2>1, <2>2, <2>3, <2>4, <2>5 DEF Corre
  <1>19. CASE Calculo
    <2>1. banderas = {} /\ UNCHANGED <<desalojos, tareas, aCpu, cpu>>
      BY <1>19 DEF Ninguna, Calculo, EnCiclo, ConInterrupcion, CheckInterrupt, CpuSola
    <2>2. \A q \in Pids : Activa(q)' => Activa(q)
      BY <2>1 DEF Activa
    <2> QED
      BY <2>1, <2>2, CorreAlMandar
  <1>20. CASE Exit
    <2>1. banderas = {} /\ UNCHANGED <<desalojos, tareas, aCpu, cpu>>
      BY <1>20 DEF Ninguna, Exit, EnCiclo, ConInterrupcion, CheckInterrupt, CpuSola
    <2>2. \A q \in Pids : Activa(q)' => Activa(q)
      BY <2>1 DEF Activa
    <2> QED
      BY <2>1, <2>2, CorreAlMandar
  <1>21. CASE OperacionIo
    <2>1. /\ UNCHANGED <<tareas, aCpu>> /\ cpu.pid \in Pids /\ cpu.en = "ciclo" /\ banderas = {}
          /\ desalojos' = Append(desalojos, Mensaje("OPERACION_IO", cpu.pid)) /\ "OPERACION_IO" \in Motivos
      BY <1>0, <1>21
         DEF Manos, Motivos, Ninguna, OperacionIo, EnCiclo, Enviar, Mensaje, ConInterrupcion,
             CheckInterrupt, CpuSola
    <2>2. \A k \in DOMAIN desalojos' : \/ k \in DOMAIN desalojos /\ desalojos'[k] = desalojos[k]
                                      \/ desalojos'[k] = Mensaje("OPERACION_IO", cpu.pid)
      BY <1>0, <2>1, Manda
    <2>3. "input_output" \in banderas'
      BY <1>0, <1>21
         DEF TypeOK, OperacionIo, EnCiclo, Enviar, Mensaje, ConInterrupcion, CheckInterrupt, CpuSola
    <2>4. \A q \in Pids : ~Activa(q)'
      BY <2>3 DEF Activa
    <2>5. Mensaje("OPERACION_IO", cpu.pid).tipo \notin Pedidos
      BY DEF Mensaje, Pedidos
    <2>6. ASSUME NEW q \in Pids, NEW k \in DOMAIN desalojos'
          PROVE  \/ k \in DOMAIN desalojos /\ desalojos'[k] = desalojos[k]
                 \/ desalojos'[k].tipo \notin Pedidos
                 \/ desalojos'[k].pid = q => Activa(q)
      BY <2>2, <2>5
    <2> QED
      BY <2>1, <2>4, <2>6, CorreAlMandar
  <1>22. CASE ResizeFalla
    <2>1. /\ UNCHANGED <<tareas, aCpu>> /\ cpu.pid \in Pids /\ cpu.en = "ciclo" /\ banderas = {}
          /\ desalojos' = Append(desalojos, Mensaje("OUT_OF_MEMORY", cpu.pid)) /\ "OUT_OF_MEMORY" \in Motivos
      BY <1>0, <1>22
         DEF Manos, Motivos, Ninguna, ResizeFalla, EnCiclo, Enviar, Mensaje, ConInterrupcion,
             CheckInterrupt, CpuSola
    <2>2. \A k \in DOMAIN desalojos' : \/ k \in DOMAIN desalojos /\ desalojos'[k] = desalojos[k]
                                      \/ desalojos'[k] = Mensaje("OUT_OF_MEMORY", cpu.pid)
      BY <1>0, <2>1, Manda
    <2>3. cpu'.respondio
      BY <1>0, <1>22
         DEF TypeOK, ResizeFalla, EnCiclo, Enviar, Mensaje, ConInterrupcion, CheckInterrupt, CpuSola
    <2>4. \A q \in Pids : ~Activa(q)'
      BY <2>3 DEF Activa
    <2>5. Mensaje("OUT_OF_MEMORY", cpu.pid).tipo \notin Pedidos
      BY DEF Mensaje, Pedidos
    <2>6. ASSUME NEW q \in Pids, NEW k \in DOMAIN desalojos'
          PROVE  \/ k \in DOMAIN desalojos /\ desalojos'[k] = desalojos[k]
                 \/ desalojos'[k].tipo \notin Pedidos
                 \/ desalojos'[k].pid = q => Activa(q)
      BY <2>2, <2>5
    <2> QED
      BY <2>1, <2>4, <2>6, CorreAlMandar
  <1>23. CASE PedirRecurso("WAIT")
    <2>1. /\ UNCHANGED <<tareas, aCpu>> /\ cpu.pid \in Pids /\ cpu.en = "ciclo" /\ banderas = {}
          /\ desalojos' = Append(desalojos, Mensaje("WAIT", cpu.pid)) /\ "WAIT" \in Motivos
      BY <1>0, <1>23 DEF Manos, Motivos, Ninguna, PedirRecurso, EnCiclo, Enviar, Mensaje, CpuSola
    <2>2. \A k \in DOMAIN desalojos' : \/ k \in DOMAIN desalojos /\ desalojos'[k] = desalojos[k]
                                      \/ desalojos'[k] = Mensaje("WAIT", cpu.pid)
      BY <1>0, <2>1, Manda
    <2>3. cpu'.en = "recurso"
      BY <1>0, <1>23 DEF TypeOK, PedirRecurso, EnCiclo, Enviar, Mensaje, CpuSola
    <2>4. \A q \in Pids : ~Activa(q)'
      BY <2>3 DEF Activa
    <2>5. Activa(cpu.pid) /\ Mensaje("WAIT", cpu.pid).pid = cpu.pid
      BY <1>0, <2>1 DEF Preguntas, Activa, Mensaje
    <2>6. ASSUME NEW q \in Pids, NEW k \in DOMAIN desalojos'
          PROVE  \/ k \in DOMAIN desalojos /\ desalojos'[k] = desalojos[k]
                 \/ desalojos'[k].tipo \notin Pedidos
                 \/ desalojos'[k].pid = q => Activa(q)
      BY <2>2, <2>5
    <2> QED
      BY <2>1, <2>4, <2>6, CorreAlMandar
  <1>24. CASE PedirRecurso("SIGNAL")
    <2>1. /\ UNCHANGED <<tareas, aCpu>> /\ cpu.pid \in Pids /\ cpu.en = "ciclo" /\ banderas = {}
          /\ desalojos' = Append(desalojos, Mensaje("SIGNAL", cpu.pid)) /\ "SIGNAL" \in Motivos
      BY <1>0, <1>24 DEF Manos, Motivos, Ninguna, PedirRecurso, EnCiclo, Enviar, Mensaje, CpuSola
    <2>2. \A k \in DOMAIN desalojos' : \/ k \in DOMAIN desalojos /\ desalojos'[k] = desalojos[k]
                                      \/ desalojos'[k] = Mensaje("SIGNAL", cpu.pid)
      BY <1>0, <2>1, Manda
    <2>3. cpu'.en = "recurso"
      BY <1>0, <1>24 DEF TypeOK, PedirRecurso, EnCiclo, Enviar, Mensaje, CpuSola
    <2>4. \A q \in Pids : ~Activa(q)'
      BY <2>3 DEF Activa
    <2>5. Activa(cpu.pid) /\ Mensaje("SIGNAL", cpu.pid).pid = cpu.pid
      BY <1>0, <2>1 DEF Preguntas, Activa, Mensaje
    <2>6. ASSUME NEW q \in Pids, NEW k \in DOMAIN desalojos'
          PROVE  \/ k \in DOMAIN desalojos /\ desalojos'[k] = desalojos[k]
                 \/ desalojos'[k].tipo \notin Pedidos
                 \/ desalojos'[k].pid = q => Activa(q)
      BY <2>2, <2>5
    <2> QED
      BY <2>1, <2>4, <2>6, CorreAlMandar
  <1>25. CASE LeerRespuesta
    <2>1. /\ aCpu # <<>> /\ aCpu' = Tail(aCpu) /\ UNCHANGED <<desalojos, tareas>> /\ cpu.en = "recurso"
          /\ cpu'.pid = cpu.pid /\ cpu'.respondio = (Head(aCpu).tipo # "RESOURCE_OK")
      BY <1>0, <1>25 DEF TypeOK, LeerRespuesta, ConInterrupcion, CheckInterrupt, CpuSola
    <2>2. /\ \A k \in DOMAIN aCpu' : \E j \in DOMAIN aCpu : aCpu[j] = aCpu'[k]
          /\ \E j \in DOMAIN aCpu : aCpu[j] = Head(aCpu)
      BY <1>0, <2>1, Atiende
    <2>3. Head(aCpu).tipo = "RESOURCE_OK" => Head(aCpu) \in De({"PCB", "RESOURCE_OK"}, cpu.pid)
      <3>1. aCpu \in Seq([tipo : Respuestas \cup {"PCB"}, pid : Pids])
        BY <1>0 DEF TypeOK
      <3>2. Head(aCpu) = Mensaje(Head(aCpu).tipo, Head(aCpu).pid)
        BY <2>1, <3>1, HeadTailProperties, MensajeEs
      <3>3. Head(aCpu).tipo = "RESOURCE_OK" => Head(aCpu).pid = cpu.pid
        BY <1>0, <2>2 DEF Preguntas, Respuestas
      <3> QED
        BY <3>2, <3>3 DEF De
    <2>4. Hay({"RESOURCE_OK"})' <=> Hay({"RESOURCE_OK"})
      BY <2>1 DEF Hay
    <2>5. \A q : Activa(q)' => q = cpu.pid /\ Head(aCpu).tipo = "RESOURCE_OK"
      BY <2>1 DEF Activa
    <2> QED
      BY <2>1, <2>2, <2>3, <2>4, <2>5 DEF Corre
  <1>26. CASE TerminarFin
    <2> DEFINE q == cpu.pid
    <2>1. UNCHANGED <<tareas, aCpu>> /\ q \in Pids /\ cpu'.en = "libre"
      BY <1>0, <1>26 DEF Manos, TerminarFin, Terminar, Mensaje, CpuSola
    <2>2. \A r \in Pids : ~Activa(r)'
      BY <2>1 DEF Activa
    <2>3. desalojos' = Append(desalojos, Mensaje("END_PROCESS", q)) /\ "END_PROCESS" \in Motivos
      <3>1. /\ desalojos \in Seq([tipo : Motivos, pid : Pids])
            /\ Mensaje("END_PROCESS", q) \in [tipo : Motivos, pid : Pids]
        BY <1>0, <2>1 DEF TypeOK, Mensaje, Motivos
      <3>2. desalojos' = desalojos \o <<Mensaje("END_PROCESS", q)>>
        BY <1>26 DEF TerminarFin, Terminar
      <3>3. "END_PROCESS" \in Motivos
        BY DEF Motivos
      <3> QED
        BY <3>1, <3>2, <3>3, AppendIsConcat
    <2>4. \A k \in DOMAIN desalojos' : \/ k \in DOMAIN desalojos /\ desalojos'[k] = desalojos[k]
                                      \/ desalojos'[k] = Mensaje("END_PROCESS", q)
      BY <1>0, <2>1, <2>3, Manda
    <2>5. Mensaje("END_PROCESS", q).tipo \notin Pedidos
      BY DEF Mensaje, Pedidos
    <2> QED
      BY <2>1, <2>2, <2>4, <2>5, CorreAlMandar
  <1>27. CASE AccionInterrupt
    <2> DEFINE q == cpu.pid
    <2>1. UNCHANGED <<tareas, aCpu>> /\ q \in Pids /\ cpu'.en = "libre"
      BY <1>0, <1>27 DEF Manos, AccionInterrupt, Terminar, Mensaje, CpuSola
    <2>2. \A r \in Pids : ~Activa(r)'
      BY <2>1 DEF Activa
    <2> DEFINE e == IF "bloqueado" \in banderas THEN <<Mensaje("RESOURCE_BLOCKED", q)>> ELSE <<>>
    <2>3. e \in {<<>>, <<Mensaje("RESOURCE_BLOCKED", q)>>}
      OBVIOUS
    <2>4. desalojos' = desalojos \o (<<Mensaje(interrupcion.tipo, q)>> \o e)
      BY <1>27 DEF AccionInterrupt, Terminar
    <2> HIDE DEF e
    <2>5. Mensaje("RESOURCE_BLOCKED", q).tipo \notin Pedidos
      BY DEF Mensaje, Pedidos
    <2>6. interrupcion.tipo \in Motivos /\ interrupcion.tipo \notin Pedidos
      BY <1>0, <1>27
         DEF Manos, TypeOK, Interrupciones, Motivos, Pedidos, AccionInterrupt, Terminar, Mensaje,
             CpuSola
    <2> DEFINE t == interrupcion.tipo
    <2>9. TypeOK /\ q \in Pids /\ t \in Motivos
      BY <1>0, <2>1, <2>6
    <2>10. desalojos' = desalojos \o (<<Mensaje(t, q)>> \o e)
      BY <2>4
    <2> HIDE DEF t, q
    <2>11. \A k \in DOMAIN desalojos' : \/ k \in DOMAIN desalojos /\ desalojos'[k] = desalojos[k]
                                       \/ desalojos'[k] = Mensaje(t, q)
                                       \/ desalojos'[k] = Mensaje("RESOURCE_BLOCKED", q)
      BY <2>3, <2>9, <2>10, Despide
    <2> USE DEF t, q
    <2>7. \A k \in DOMAIN desalojos' : \/ k \in DOMAIN desalojos /\ desalojos'[k] = desalojos[k]
                                      \/ desalojos'[k] = Mensaje(interrupcion.tipo, q)
                                      \/ desalojos'[k] = Mensaje("RESOURCE_BLOCKED", q)
      BY <2>11
    <2>8. Mensaje(interrupcion.tipo, q).tipo \notin Pedidos
      BY <2>6 DEF Mensaje
    <2> QED
      BY <2>1, <2>2, <2>5, <2>7, <2>8, CorreAlMandar
  <1>28. CASE TerminarCallado
    <2> DEFINE q == cpu.pid
    <2>1. UNCHANGED <<tareas, aCpu>> /\ q \in Pids /\ cpu'.en = "libre"
      BY <1>0, <1>28 DEF Manos, TerminarCallado, Terminar, Mensaje, CpuSola
    <2>2. \A r \in Pids : ~Activa(r)'
      BY <2>1 DEF Activa
    <2> DEFINE e == IF "bloqueado" \in banderas THEN <<Mensaje("RESOURCE_BLOCKED", q)>> ELSE <<>>
    <2>3. e \in {<<>>, <<Mensaje("RESOURCE_BLOCKED", q)>>}
      OBVIOUS
    <2>4. desalojos' = desalojos \o e
      BY <1>28 DEF TerminarCallado, Terminar
    <2> HIDE DEF e
    <2>5. Mensaje("RESOURCE_BLOCKED", q).tipo \notin Pedidos
      BY DEF Mensaje, Pedidos
    <2>7. \A k \in DOMAIN desalojos' : \/ k \in DOMAIN desalojos /\ desalojos'[k] = desalojos[k]
                                      \/ desalojos'[k] = Mensaje("RESOURCE_BLOCKED", q)
      BY <1>0, <2>1, <2>3, <2>4, Calla
    <2> QED
      BY <2>1, <2>2, <2>5, <2>7, CorreAlMandar
  <1> QED
    BY <1>0, <1>1, <1>2, <1>3, <1>4, <1>5, <1>6, <1>7, <1>8, <1>9, <1>10, <1>11, <1>12, <1>13,
       <1>14, <1>15, <1>16, <1>17, <1>18, <1>19, <1>20, <1>21, <1>22, <1>23, <1>24, <1>25, <1>26,
       <1>27, <1>28
       DEF Next, HiloCorto, HiloReloj, HiloDespacho, HiloConsola, HiloCpu, Ciclo
LEMMA SinPermiso ==
  ASSUME Formas, Tarea({"avisar", "avisar_muerte"})
  PROVE  ~Hay({"RESOURCE_OK"})
  <1>1. tareas # <<>> /\ Head(tareas).tipo \in {"avisar", "avisar_muerte"}
    BY DEF Tarea
  <1>2. PICK p \in Pids, l \in Listas : tareas = Pasos(p, l)
    BY <1>1 DEF Formas
  <1>3. /\ \A tipos : HayDe(tareas, tipos) <=> HayEn(l, tipos)
        /\ l # <<>> /\ Head(tareas) = Mensaje(Head(l), p)
    BY <1>2, Primera, ListaDe DEF QuedaBien
  <1>4. Head(l) \in {"avisar", "avisar_muerte"}
    BY <1>1, <1>3 DEF Mensaje
  <1>5. HayEn(l, {"RESOURCE_OK"}) => Head(l) = "RESOURCE_OK"
    BY Resto, Colas DEF DiceBien
  <1> QED
    BY <1>3, <1>4, <1>5 DEF Hay, HayDe

\* recibir_dispatch tells the timer that the CPU is free, and it is: who has
\* the CPU is neither the process it is done with nor another one.
LEMMA NadieCorre ==
  ASSUME Tipos, Orden, Avisar, ~tardio', NEW p \in Pids, Corre(p)
  PROVE  FALSE
  <1>1. Formas /\ TypeOK /\ Vuelo /\ Ficha /\ Consolas
    BY DEF Tipos, Orden
  <1>2. /\ Ocupa(p) /\ en_ejecucion = p /\ cpu_libre = 0
        /\ Mandados(p) > 0 \/ Activa(p) \/ Echados(p) > 0 \/ (Hay({"RESOURCE_OK"}) /\ Trabaja(p))
    BY CorreOcupa
  <1>3. Tarea({"avisar", "avisar_muerte"}) /\ tareas # <<>>
    BY DEF Avisar, Tarea
  <1>4. /\ DeTarea \in Pids /\ Igual({"RESOURCE_OK"})
        /\ Head(tareas).tipo = "avisar" => Hay({"soltar"})
        /\ Head(tareas).tipo = "avisar_muerte" => Hay({"avisar_muerte"}) /\ ~Hay({"matar"})
    BY <1>1, <1>3, UnAviso
  <1>5. Head(tareas).tipo \in {"avisar", "avisar_muerte"}
    BY <1>3 DEF Tarea
  <1>6. ~Hay({"RESOURCE_OK"})
    BY <1>1, <1>3, SinPermiso
  <1>7. ~Trabaja(p)
    BY <1>1, <1>2, <1>6, Unico
  <1>8. CASE Head(tareas).tipo = "avisar"
    <2>1. CASE Hay(EnLista)
      <3>1. Hay(DaVuelo)
        BY <2>1 DEF Hay, DaVuelo
      <3>2. Trabaja(DeTarea)
        BY <3>1 DEF Trabaja, DeTarea
      <3>3. ~Saliente(DeTarea)
        BY <1>4, <1>8, SalienteTrabaja
      <3>4. en_ejecucion = DeTarea
        BY <1>4, <3>2, <3>3, Ocupado
      <3> QED
        BY <1>2, <1>7, <3>2, <3>4
    <2>2. CASE ~Hay(EnLista)
      <3>1. Tomada /\ Suelta
        BY <1>2, <1>4, <1>8, <2>2 DEF Tomada, Suelta
      <3>2. cpu_libre + Peso(Tomada) + Peso(Suelta) = 1
        BY <1>1, FichaDe
      <3>3. Peso(Tomada) = 1 /\ Peso(Suelta) = 1
        BY <3>1 DEF Peso
      <3> QED
        BY <1>2, <3>2, <3>3
    <2> QED
      BY <2>1, <2>2
  <1>9. CASE Head(tareas).tipo = "avisar_muerte"
    <2>1. ~OtroEnExec(DeTarea)
      BY <1>9 DEF Avisar
    <2>2. estado[p] = "EXEC"
      BY <1>2 DEF Ocupa
    <2>3. p = DeTarea
      BY <2>1, <2>2 DEF OtroEnExec
    <2>4. loko > 0 /\ consola.pid = p
      BY <1>1, <1>4, <1>9, <2>2, <2>3 DEF Consolas, DeTarea
    <2>5. Condenas(p) > 0
      BY <2>4 DEF Condenas
    <2> QED
      BY <1>1, <1>2, <1>7, <2>5, Unico
  <1> QED
    BY <1>5, <1>8, <1>9

\* The last interrupt, when one is sent and when one is received.
LEMMA UltimaEnviada ==
  ASSUME TypeOK, NEW m, canal' = Append(canal, m)
  PROVE  Ultima' = m
  <1>1. canal \in Seq(Interrupciones)
    BY DEF TypeOK
  <1>2. canal' # <<>> /\ canal'[Len(canal')] = m
    BY <1>1
  <1> QED
    BY <1>2 DEF Ultima

LEMMA UltimaDelResto ==
  ASSUME NEW S, NEW s \in Seq(S), s # <<>>
  PROVE  s[Len(s)] = IF Tail(s) = <<>> THEN Head(s) ELSE Tail(s)[Len(Tail(s))]
  <1> DEFINE n == Len(s)
             t == Tail(s)
  <1>1. n \in Nat /\ n > 0 /\ t \in Seq(S) /\ Len(t) = n - 1 /\ Head(s) = s[1]
        /\ \A k \in 1..n - 1 : t[k] = s[k + 1]
    BY HeadTailProperties, EmptySeq
  <1>2. t = <<>> <=> n = 1
    <2> HIDE DEF n, t
    <2>1. t = <<>> => Len(t) = 0
      BY EmptySeq
    <2>2. t # <<>> => Len(t) # 0
      BY <1>1, EmptySeq
    <2> QED
      BY <1>1, <2>1, <2>2
  <1> HIDE DEF n, t
  <1>3. s[n] = IF t = <<>> THEN Head(s) ELSE t[Len(t)]
    BY <1>1, <1>2
  <1> QED
    BY <1>3 DEF n, t

LEMMA UltimaRecibida ==
  ASSUME TypeOK, canal # <<>>, interrupcion' = Head(canal), canal' = Tail(canal)
  PROVE  Ultima' = Ultima
  <1>1. canal \in Seq(Interrupciones)
    BY DEF TypeOK
  <1>2. canal[Len(canal)] = IF canal' = <<>> THEN interrupcion' ELSE canal'[Len(canal')]
    BY <1>1, UltimaDelResto
  <1> QED
    BY <1>2 DEF Ultima

LEMMA TardioQueda ==
  ASSUME Next, ~tardio'
  PROVE  ~tardio
  BY DEF Next, HiloCorto, HiloReloj, HiloDespacho, HiloConsola, HiloCpu, Ciclo, ALaCola, Finalizar,
         Despachar, ArrancarQuantum, TomarArranque, CpuLibreATiempo, Vencer, RelojSolo, Recibir,
         Avisar, Soltar, Listar, Retirar, Responder, Matar, Finalizado, AvisarFinalizado,
         RecibirInterrupcion, CpuSola, TomarPcb, Calculo, Exit, OperacionIo, ResizeFalla,
         PedirRecurso, LeerRespuesta, TerminarFin, AccionInterrupt, TerminarCallado, Terminar, historia

LEMMA VigiladoIgual ==
  ASSUME NEW p, Vigilado(p), UNCHANGED <<corto, arrancar, reloj, flag_cpu_libre, canal, interrupcion>>
  PROVE  Vigilado(p)'
  BY DEF Vigilado, Ultima

\* Who keeps the CPU stays watched, unless the console tells the timer late.
LEMMA PasoVigila ==
  ASSUME Tipos, Orden, ~quiebre, Next, ~quiebre', ~tardio', ALGORITMO # "FIFO",
         NEW q \in Pids, Corre(q) \/ Despachar, Corre(q) => Condenada \/ Vigilado(q)
  PROVE  (Condenada \/ Vigilado(q))'
  <1> USE DEF varsPlan, varsReloj, varsDespacho, varsConsola, varsCpu, varsInt, historia
  <1>0. TypeOK /\ Formas /\ Manos /\ Consolas /\ (AlFinal => Condenada)
    BY DEF Tipos, Orden
  <1>1. CASE Condenada
    BY <1>1, PasoCondena
  <1>2. CASE Despachar
    BY <1>2 DEF Despachar, Vigilado
  <1>3. CASE ~Condenada /\ Corre(q)
    <2>1. Vigilado(q) /\ Ocupa(q) /\ en_ejecucion = q
      BY <1>3, CorreOcupa
    <2>2. CASE UNCHANGED <<corto, arrancar, reloj, flag_cpu_libre, canal, interrupcion>>
      BY <2>1, <2>2, VigiladoIgual
    <2>3. ASSUME NEW p \in Pids, Finalizar(p) PROVE (Condenada \/ Vigilado(q))'
      <3>1. estado[p] = "EXEC" /\ canal' = Append(canal, Mensaje("KILL_PROCESS", p))
        BY <2>3 DEF Finalizar
      <3>2. ~Saliente(p)
        <4>1. <<"finalizar">> \in ListasFalla
          BY DEF ListasFalla
        <4>2. Saliente(p) => tareas # <<>>
          BY SalienteTrabaja DEF Hay
        <4> QED
          BY <1>0, <1>3, <4>1, <4>2 DEF AlFinal, Saliente
      <3>3. p = q
        BY <2>1, <3>1, <3>2 DEF Ocupa, Orden, Ficha
      <3>4. Ultima' = Mensaje("KILL_PROCESS", q)
        BY <1>0, <3>1, <3>3, UltimaEnviada
      <3> QED
        BY <3>4 DEF Vigilado, Mensaje
    <2>4. CASE Vencer
      <3>1. canal' = Append(canal, Mensaje("FIN_CLOCK", q))
        BY <2>1, <2>4 DEF Vencer
      <3>2. Ultima' = Mensaje("FIN_CLOCK", q)
        BY <1>0, <3>1, UltimaEnviada
      <3> QED
        BY <3>2 DEF Vigilado, Mensaje
    <2>5. CASE ArrancarQuantum
      BY <1>0, <2>5 DEF ArrancarQuantum, Vigilado, TypeOK
    <2>6. CASE TomarArranque
      BY <2>6 DEF TomarArranque, Vigilado
    <2>7. CASE CpuLibreATiempo
      <3>1. /\ flag_cpu_libre = 1
            /\ UNCHANGED <<corto, arrancar, canal, interrupcion>>
        BY <2>7 DEF CpuLibreATiempo, RelojSolo
      <3>2. corto = "arrancar" \/ arrancar > 0 \/ Ultima.pid = q
        BY <2>1, <3>1 DEF Vigilado
      <3> QED
        BY <3>1, <3>2 DEF Vigilado, Ultima
    <2>8. CASE Avisar
      BY <1>3, <2>8, NadieCorre
    <2>9. CASE AvisarFinalizado
      <3>1. ~OtroEnExec(consola.pid) /\ consola.en = "avisar"
        BY <2>9 DEF AvisarFinalizado
      <3>2. estado[q] = "EXEC"
        BY <2>1 DEF Ocupa
      <3>3. q = consola.pid
        BY <3>1, <3>2 DEF OtroEnExec
      <3> QED
        BY <1>0, <3>1, <3>2, <3>3 DEF Consolas
    <2>10. CASE RecibirInterrupcion
      <3>1. Ultima' = Ultima
        BY <1>0, <2>10, UltimaRecibida DEF RecibirInterrupcion
      <3>2. UNCHANGED <<corto, arrancar, reloj, flag_cpu_libre>>
        BY <2>10 DEF RecibirInterrupcion, CpuSola
      <3> QED
        BY <2>1, <3>1, <3>2 DEF Vigilado
    <2>11. CASE \E p \in Pids : ALaCola(p)
      BY <2>2, <2>11 DEF ALaCola
    <2>12. CASE Recibir \/ Soltar \/ Listar \/ Retirar \/ Responder \/ Matar \/ Finalizado
      BY <2>2, <2>12 DEF Recibir, Soltar, Listar, Retirar, Responder, Matar, Finalizado
    <2>13. CASE HiloCpu
      BY <2>2, <2>13 DEF HiloCpu, CpuSola, Ciclo, TomarPcb, Calculo, Exit, OperacionIo, ResizeFalla,
                         PedirRecurso, LeerRespuesta, TerminarFin, AccionInterrupt, TerminarCallado,
                         Terminar
    <2> QED
      BY <1>2, <2>3, <2>4, <2>5, <2>6, <2>7, <2>8, <2>9, <2>10, <2>11, <2>12, <2>13
         DEF Next, HiloCorto, HiloReloj, HiloDespacho, HiloConsola
  <1> QED
    BY <1>1, <1>2, <1>3

\* Under RR and VRR whoever runs is watched, or its CPU will answer twice.
THEOREM InductivoQuantum == Spec => [](IInv /\ QInv)
  <1>1. Init => QInv
    <2> SUFFICES ASSUME Init, NEW p \in Pids PROVE ~Corre(p)
      BY DEF QInv
    <2> QED
      BY DEF Init, Corre, Activa, Hay
  <1>2. ASSUME IInv, QInv, [Next]_vars PROVE QInv'
    <2>1. CASE UNCHANGED vars
      BY <1>2, <2>1
         DEF QInv, Corre, Activa, Hay, Condenada, Vigilado, Ultima, vars, varsPlan, varsReloj,
                        varsDespacho, varsConsola, varsCpu, varsInt, historia
    <2>2. CASE Next
      <3> SUFFICES ASSUME ~quiebre', ~tardio', ALGORITMO # "FIFO", NEW q \in Pids, Corre(q)'
                   PROVE  (Condenada \/ Vigilado(q))'
        BY DEF QInv
      <3>1. ~quiebre /\ Tipos /\ Orden
        BY <1>2, <2>2 DEF Next, IInv
      <3>2. ~tardio
        BY <2>2, TardioQueda
      <3>3. Corre(q) => Condenada \/ Vigilado(q)
        BY <1>2, <3>1, <3>2 DEF QInv
      <3>4. Corre(q) \/ Despachar
        BY <2>2, <3>1, PasoCorre
      <3> QED
        BY <2>2, <3>1, <3>3, <3>4, PasoVigila
    <2> QED
      BY <1>2, <2>1, <2>2
  <1> QED
    BY <1>1, <1>2, Inductivo, PTL DEF Spec

\* Under RR and VRR nobody executes unwatched by the quantum, whatever the
\* programs and however timer, evictions and kills interleave, until the
\* console tells the timer of a CPU that somebody else already has.
THEOREM QuantumSiempreCubierto == Spec => []QuantumCubierto
  <1>1. ASSUME IInv, QInv PROVE QuantumCubierto
    <2> SUFFICES ASSUME ~quiebre, ~tardio, ALGORITMO # "FIFO", NEW p \in Pids, Ejecuta(p)
                 PROVE  \/ corto = "arrancar" \/ arrancar > 0
                        \/ reloj = "contar" /\ flag_cpu_libre = 0
                        \/ CheckInterrupt(p) \/ \E k \in DOMAIN canal : canal[k].pid = p
      BY DEF QuantumCubierto
    <2>1. Tipos /\ Orden /\ TypeOK
      BY <1>1 DEF IInv, Tipos
    <2>2. Activa(p)
      BY <2>1, EjecutaOcupa
    <2>3. ~Condenada
      <3>1. aCpu = <<>>
        <4>1. cpu.pid = p
          BY <2>2 DEF Activa
        <4> QED
          BY <2>1, <2>2, <4>1, CpuSinCola
      <3> QED
        BY <3>1 DEF Condenada, Ejecuta, Ninguna
    <2>4. Vigilado(p)
      BY <1>1, <2>2, <2>3 DEF QInv, Corre
    <2>5. Ultima.pid = p => CheckInterrupt(p) \/ \E k \in DOMAIN canal : canal[k].pid = p
      <3>1. CASE canal = <<>>
        <4>1. interrupcion.pid = p => interrupcion.tipo # "ninguna"
          <5>1. interrupcion \in Interrupciones \cup {Mensaje("ninguna", NULO)}
            BY <2>1 DEF TypeOK
          <5> QED
            BY <5>1, NuloAssumption DEF Interrupciones, Mensaje
        <4> QED
          BY <3>1, <4>1 DEF Ultima, CheckInterrupt
      <3>2. CASE canal # <<>>
        <4>1. Len(canal) \in DOMAIN canal
          BY <2>1, <3>2 DEF TypeOK
        <4> QED
          BY <3>2, <4>1 DEF Ultima
      <3> QED
        BY <3>1, <3>2
    <2> QED
      BY <2>4, <2>5 DEF Vigilado
  <1> QED
    BY <1>1, InductivoQuantum, PTL
=============================================================================
