------------------------- MODULE AsignacionDeMarcos -------------------------
(***************************************************************************)
(* What the memoria process promises about physical memory: every frame    *)
(* has at most one owner, and it changes hands only through being free.    *)
(* The detailed specification Memoria (bitmap, page tables, two            *)
(* unsynchronised threads) is shown to implement this one.                 *)
(***************************************************************************)
CONSTANTS Marcos,   \* the frames of memoria_principal
          Pids,     \* the processes
          NULO      \* "nobody", no process: the owner of a free frame

VARIABLE duenio     \* who owns each frame

Init == duenio = [m \in Marcos |-> NULO]

Tomar(m, p) ==
  /\ duenio[m] = NULO
  /\ duenio' = [duenio EXCEPT ![m] = p]

Devolver(m, p) ==
  /\ duenio[m] = p
  /\ duenio' = [duenio EXCEPT ![m] = NULO]

Next == \E m \in Marcos, p \in Pids : Tomar(m, p) \/ Devolver(m, p)

Spec == Init /\ [][Next]_duenio
=============================================================================
