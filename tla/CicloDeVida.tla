---------------------------- MODULE CicloDeVida ----------------------------
(***************************************************************************)
(* What the kernel promises about the life of a process: the diagram of    *)
(* five states, with at most one process in EXEC and at most GRADO         *)
(* processes that occupy the degree of multiprogramming.  The detailed     *)
(* specification Planificador (threads, semaphores, queues, sockets) is    *)
(* shown to implement this one.                                            *)
(***************************************************************************)
EXTENDS Naturals, FiniteSets

CONSTANTS Pids,   \* the processes
          GRADO   \* the degree of multiprogramming

VARIABLE estado   \* the state of each process; "NADA" before NEW, "FIN" after EXIT

Admitidos == {p \in Pids : estado[p] \in {"READY", "EXEC", "BLOCKED", "EXIT"}}

Init == estado = [p \in Pids |-> "NADA"]

Pasar(p, de, a) == estado[p] = de /\ estado' = [estado EXCEPT ![p] = a]

Crear(p) == Pasar(p, "NADA", "NEW")

Admitir(p) == Cardinality(Admitidos) < GRADO /\ Pasar(p, "NEW", "READY")

Despachar(p) ==
  /\ \A q \in Pids : estado[q] # "EXEC"
  /\ Pasar(p, "READY", "EXEC")

Desalojar(p) == \E a \in {"READY", "BLOCKED", "EXIT"} : Pasar(p, "EXEC", a)

Desbloquear(p) == Pasar(p, "BLOCKED", "READY")

Eliminar(p) == Pasar(p, "EXIT", "FIN")

Next == \E p \in Pids :
  \/ Crear(p) \/ Admitir(p) \/ Despachar(p)
  \/ Desalojar(p) \/ Desbloquear(p) \/ Eliminar(p)

Spec == Init /\ [][Next]_estado
=============================================================================
