---------------------------- MODULE MCNeighbors -----------------------------
(* Two neighbours, a cache of two entries for three addresses, one block   *)
(* for a waiting packet and one default router: every table fills up.  One *)
(* neighbour is a router that takes part in RPL, the other one is neither. *)
EXTENDS Neighbors
=============================================================================
