----------------------------- MODULE MCCicloCpu -----------------------------
(* CicloCpu for TLC.                                                       *)
EXTENDS CicloCpu
=============================================================================
