--------------------------- MODULE MCInterfacesIO ---------------------------
(* Values for TLC: the modules are generic interfaces, and two connections  *)
(* have the same name or not (any other names are a permutation of these).  *)
EXTENDS InterfacesIO

CONSTANTS c1, c2, n1, n2, p1, p2

UnNombreODos == {[c \in Conexiones |-> n1], [c \in Conexiones |-> IF c = c1 THEN n1 ELSE n2]}
TipoGenerico == [n \in Nombres |-> "GENERICA"]
=============================================================================
