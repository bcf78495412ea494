------------------------------- MODULE Ctimer -------------------------------
(***************************************************************************)
(* Callback timers (ctimer.c), each on top of an event timer (etimer.c).   *)
(* The etimer process looks for etimers that have expired, takes them off  *)
(* its list and posts a TIMER event; the ctimer process looks the event's  *)
(* timer up in a list of its own, takes it off and runs the callback.      *)
(* Between the two the event waits in the queue of the kernel, and any     *)
(* other process may set or stop the timer meanwhile.                      *)
(*                                                                         *)
(* RPL uses one timer periodically: it is set once and afterwards reset by *)
(* its own callback.  The others (DIO, DAO) are set and stopped from       *)
(* everywhere.  An etimer's p is NULL exactly while it is not on the list. *)
(***************************************************************************)
EXTENDS Integers, SequencesExt

CONSTANTS
  Timer,       \* the ctimers
  Periodic,    \* rpl-timers.c's periodic_timer
  Period,      \* its interval, CLOCK_SECOND
  Interval,    \* the intervals the others are set to
  Other,       \* an event of some other process
  NUMEVENTS,   \* the slots of the event queue
  MaxLate      \* bound: a timer that waits is never later than this

ASSUME TimerAssumption ==
  /\ Periodic \in Timer /\ Other \notin Timer
  /\ Period \in Nat \ {0} /\ Interval \subseteq Nat
  /\ NUMEVENTS \in Nat \ {0} /\ MaxLate \in Nat

OneShot == Timer \ {Periodic}

VARIABLES
  timers,   \* listed: ctimer_list; armed: timerlist, the last added first;
            \* due: start + interval - now, 0 for a timer that is in neither
  queue,    \* the TIMER events, by their timer, and the other events
  ran       \* history: the timer whose callback the last step has run, or Other

vars == <<timers, queue, ran>>

Live(s) == s.listed \cup ToSet(s.armed)

-----------------------------------------------------------------------------
(* add_timer: a timer that is on the list stays where it is.  (A name with *)
(* a suffix, here and below, is a wrong variant of the definition after    *)
(* it: with it in its place some property fails.)                          *)
Arm(s, t, due) ==
  [s EXCEPT !.armed = IF t \in ToSet(@) THEN @ ELSE <<t>> \o @, !.due[t] = due]

(* ctimer_set. *)
CtimerSet(s, t, interval) ==
  [Arm(s, t, interval) EXCEPT !.listed = @ \cup {t}]

(* ctimer_reset: the interval starts when the last one was over. *)
CtimerReset_Unarmed(s, t) ==
  [s EXCEPT !.due[t] = @ + Period, !.listed = @ \cup {t}]

CtimerReset(s, t) ==
  [Arm(s, t, s.due[t] + Period) EXCEPT !.listed = @ \cup {t}]

CtimerStop(s, t) ==
  [s EXCEPT !.armed = RemoveFirst(@, t), !.listed = @ \ {t}, !.due[t] = 0]

(* What a handler may do to the timers it knows: nothing, set one or stop  *)
(* one.  (Bound: a handler that makes several calls is several events.)    *)
Calls(s) ==
  {s} \cup {CtimerSet(s, t, i) : t \in OneShot, i \in Interval}
      \cup {CtimerStop(s, t) : t \in OneShot}

-----------------------------------------------------------------------------
Init ==
  /\ timers = CtimerSet([listed |-> {}, armed |-> <<>>, due |-> [t \in Timer |-> 0]],
                        Periodic, Period)
  /\ queue = <<>>
  /\ ran = Other

Tick ==
  /\ \A t \in Live(timers) : timers.due[t] > -MaxLate
  /\ timers' = [timers EXCEPT !.due = [t \in Timer |-> IF t \in Live(timers) THEN @[t] - 1 ELSE 0]]
  /\ ran' = Other
  /\ UNCHANGED queue

(* A poll of the etimer process: main asks for one after every pass.  The  *)
(* first timer that has expired goes from timerlist into the queue; one    *)
(* that finds the queue full stays on the list.                            *)
Due(armed) == {i \in DOMAIN armed : timers.due[armed[i]] <= 0}

PostFirst_AnyRoom(p) ==
  IF Due(p.armed) = {} THEN p
  ELSE [armed |-> RemoveAt(p.armed, Min(Due(p.armed))),
        queue |-> Append(p.queue, p.armed[Min(Due(p.armed))])]

PostFirst_Drops(p) ==
  IF Due(p.armed) = {} THEN p
  ELSE [armed |-> RemoveAt(p.armed, Min(Due(p.armed))),
        queue |-> IF Len(p.queue) = NUMEVENTS THEN p.queue
                  ELSE Append(p.queue, p.armed[Min(Due(p.armed))])]

PostFirst_HeadOnly(p) ==
  IF 1 \notin Due(p.armed) \/ Len(p.queue) = NUMEVENTS THEN p
  ELSE [armed |-> Tail(p.armed), queue |-> Append(p.queue, Head(p.armed))]

PostFirst(p) ==
  IF Due(p.armed) = {} \/ Len(p.queue) = NUMEVENTS THEN p
  ELSE [armed |-> RemoveAt(p.armed, Min(Due(p.armed))),
        queue |-> Append(p.queue, p.armed[Min(Due(p.armed))])]

(* The scan starts over after every post: what the passes make of the list *)
(* and the queue, as the set of the one outcome.                           *)
Scan ==
  LET after[n \in 0 .. Len(timers.armed)] ==
        IF n = 0 THEN {[armed |-> timers.armed, queue |-> queue]}
        ELSE {PostFirst(p) : p \in after[n - 1]}
  IN  after[Len(timers.armed)]

EtimerPoll ==
  /\ Due(timers.armed) # {} /\ Len(queue) < NUMEVENTS
  /\ \E p \in Scan : /\ queue' = p.queue
                     /\ timers' = [timers EXCEPT !.armed = p.armed]
  /\ ran' = Other

(* The ctimer process on a TIMER event: a timer no longer on its list is   *)
(* ignored, whoever took it off.  A callback may use timers itself, the    *)
(* one it belongs to included.                                             *)
Unlist(s, t) == [s EXCEPT !.listed = @ \ {t}, !.due[t] = IF t \in ToSet(s.armed) THEN @ ELSE 0]

CtimerEvent ==
  /\ queue # <<>> /\ Head(queue) \in timers.listed
  /\ LET t == Head(queue)
     IN  /\ IF t = Periodic
            THEN \E s \in Calls([timers EXCEPT !.listed = @ \ {t}]) : timers' = CtimerReset(s, t)
            ELSE timers' \in Calls(Unlist(timers, t))
         /\ ran' = t
  /\ queue' = Tail(queue)

(* Any other event, the handler of which may use timers. *)
OtherEvent ==
  /\ queue # <<>> /\ Head(queue) \notin timers.listed
  /\ timers' \in IF Head(queue) = Other THEN Calls(timers) ELSE {timers}
  /\ queue' = Tail(queue)
  /\ ran' = Other

OtherPost ==
  /\ Len(queue) < NUMEVENTS
  /\ queue' = Append(queue, Other)
  /\ ran' = Other
  /\ UNCHANGED timers

Next == Tick \/ EtimerPoll \/ CtimerEvent \/ OtherEvent \/ OtherPost

Spec == Init /\ [][Next]_vars

(* The kernel takes events for ever, and keeps up with them: again and     *)
(* again the queue is empty when the etimer process is polled.             *)
FairSpec ==
  /\ Spec
  /\ WF_vars(CtimerEvent \/ OtherEvent)
  /\ []<>(queue = <<>>)
  /\ SF_vars(queue = <<>> /\ EtimerPoll)

-----------------------------------------------------------------------------
(* PROPERTIES *)

(* Every variable has its type; the queue never holds more than it can. *)
TypeOK ==
  /\ timers.listed \subseteq Timer
  /\ timers.armed \in Seq(Timer)
  /\ timers.due \in [Timer -> Int]
  /\ queue \in Seq(Timer \cup {Other}) /\ Len(queue) <= NUMEVENTS
  /\ ran \in Timer \cup {Other}

(* No callback is ever forgotten: a timer on ctimer_list has its etimer on *)
(* timerlist, once, or its event in the queue, whoever sets and stops it   *)
(* while its event waits and however full the queue is.                    *)
NotForgotten ==
  /\ IsInjective(timers.armed)
  /\ timers.listed \subseteq Live([timers EXCEPT !.listed = {}]) \cup ToSet(queue)

(* Timer t has exactly one place in the list s. *)
Once(s, t) == \E i \in DOMAIN s : \A j \in DOMAIN s : s[j] = t <=> j = i

(* The periodic timer is never doubled nor early: it always is in exactly  *)
(* one place, its list or the queue, and in the queue only when it is due. *)
OneTick ==
  /\ Periodic \in timers.listed
  /\ Once(timers.armed \o queue, Periodic)
  /\ Periodic \in ToSet(queue) => timers.due[Periodic] <= 0

(* A timer that is due has its callback run, or is stopped or set again:   *)
(* the scan that starts over after each post leaves none behind.           *)
Expires ==
  \A t \in Timer :
    t \in timers.listed /\ timers.due[t] <= 0
      ~> ran = t \/ t \notin timers.listed \/ timers.due[t] > 0
=============================================================================
