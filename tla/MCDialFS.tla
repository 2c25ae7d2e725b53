------------------------------ MODULE MCDialFS ------------------------------
(* DialFS for TLC: the files are interchangeable.                          *)
EXTENDS DialFS, TLC
Simetria == Permutations(Archivos)
=============================================================================
