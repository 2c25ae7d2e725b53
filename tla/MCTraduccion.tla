---------------------------- MODULE MCTraduccion ----------------------------
(* Traduccion for TLC.                                                     *)
EXTENDS Traduccion, TLC
Simetria == Permutations(Pids)
=============================================================================
