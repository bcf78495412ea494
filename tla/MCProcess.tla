----------------------------- MODULE MCProcess -----------------------------
(* Small instances of the process kernel for TLC. *)
EXTENDS Process, TLC

CONSTANTS p1, p2, p3, e1

Boot2 == <<p1, p2>>
Boot3 == <<p1, p2, p3>>
=============================================================================
