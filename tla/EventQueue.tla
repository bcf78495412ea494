----------------------------- MODULE EventQueue -----------------------------
(***************************************************************************)
(* What process_post and process_run promise about asynchronous events: a  *)
(* bounded first-in first-out queue.  A post is appended or refused, an    *)
(* accepted event is neither lost, repeated nor overtaken, and the event   *)
(* handed on is the oldest one.  Process implements this with a ring.      *)
(***************************************************************************)
EXTENDS Naturals, Sequences

CONSTANTS
  Item,     \* what is posted: an event and its receiver
  Capacity, \* how many posts may wait
  Nothing   \* stands for "no event was taken yet"

VARIABLES
  queue,    \* the accepted events, oldest first
  taken     \* the event that was handed on last

vars == <<queue, taken>>

Init == queue = <<>> /\ taken = Nothing

Post ==
  /\ Len(queue) < Capacity
  /\ \E e \in Item : queue' = Append(queue, e)
  /\ UNCHANGED taken

Take ==
  /\ queue # <<>>
  /\ taken' = Head(queue)
  /\ queue' = Tail(queue)

Next == Post \/ Take

Spec == Init /\ [][Next]_vars

(* The oldest event does not wait for ever. *)
Served == WF_vars(Take)

=============================================================================
