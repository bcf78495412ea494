----------------------------- MODULE MCRplDag -------------------------------
(* Small instances of the DODAG logic for TLC. *)
EXTENDS RplDag, TLC

CONSTANTS n1, n2, mine, other, third

SamePreference == [d \in DagId |-> 0]

(* Neighbours differ by what they send only, and so do foreign DODAGs: no  *)
(* choice of the handlers depends on which of them it is.                  *)
Symmetric == Permutations(Nbr) \cup Permutations(DagId \ {MyDag})
=============================================================================
