--------------------------- MODULE MCPlanificador ---------------------------
(* Planificador for TLC: the processes are interchangeable, and so are the  *)
(* interfaces.                                                             *)
EXTENDS Planificador, TLC
Simetria == Permutations(Pids) \cup Permutations(Interfaces)
=============================================================================
