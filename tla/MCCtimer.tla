----------------------------- MODULE MCCtimer -------------------------------
(* Small instances of the callback timers for TLC. *)
EXTENDS Ctimer

CONSTANTS tick, dio, dao
=============================================================================
