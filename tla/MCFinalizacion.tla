--------------------------- MODULE MCFinalizacion ---------------------------
(* Finalizacion for TLC.                                                   *)
EXTENDS Finalizacion
====
