------------------------------- MODULE MCDtsn -------------------------------
(* The trigger numbers have no parameters: TLC checks all of their states.  *)
EXTENDS Dtsn
=============================================================================
