------------------------------ MODULE Lollipop ------------------------------
(***************************************************************************)
(* The lollipop counters of RPL: versions and sequence numbers of one byte *)
(* that start at LollipopInit, count up to the end of the byte once, the   *)
(* stick, and are then meant to go round the CircularRegion for ever       *)
(* (rpl-private.h, lollipop_greater_than of rpl-dag.c).                    *)
(***************************************************************************)
EXTENDS Integers

LollipopMaxValue == 255
CircularRegion == 127
SequenceWindows == 16
LollipopInit == LollipopMaxValue - SequenceWindows + 1

Counter == 0 .. LollipopMaxValue

(* RPL_LOLLIPOP_INCREMENT.  Both branches mask the value of an expression  *)
(* that nobody uses; what stays is the increment of a uint8_t.             *)
Increment_NoWrap(c) == c + 1

Increment_Saturates(c) == IF c = LollipopMaxValue THEN c ELSE c + 1

Increment(c) == (c + 1) % (LollipopMaxValue + 1)

GreaterThan_NoWrap(a, b) ==
  IF a > CircularRegion /\ b <= CircularRegion
  THEN LollipopMaxValue + 1 + b - a > SequenceWindows
  ELSE a > b /\ a - b < SequenceWindows

(* lollipop_greater_than: the first case is meant for a counter that has    *)
(* started again, above an old value in the circle.                        *)
GreaterThan(a, b) ==
  IF a > CircularRegion /\ b <= CircularRegion
  THEN LollipopMaxValue + 1 + b - a > SequenceWindows
  ELSE \/ a > b /\ a - b < SequenceWindows
       \/ a < b /\ b - a > CircularRegion + 1 - SequenceWindows
=============================================================================
