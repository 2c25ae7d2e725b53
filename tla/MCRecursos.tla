----------------------------- MODULE MCRecursos -----------------------------
(* Recursos for TLC: one instance of the resource r1, two of any other.     *)
EXTENDS Recursos, TLC
CONSTANT r1
MCInstancias == [r \in Recursos |-> IF r = r1 THEN 1 ELSE 2]
Simetria == Permutations(Pids)
=============================================================================
