----------------------------- MODULE MCMemoria -----------------------------
(* Memoria for TLC: three processes, three frames of two bytes, sizes that  *)
(* are and are not a multiple of the page, and one larger than the memory. *)
EXTENDS Memoria
MCTamanios == {0, 1, 3, 4, 7}
=============================================================================
