------------------------------ MODULE Process ------------------------------
(***************************************************************************)
(* The Contiki process kernel, contiki/core/sys/process.c: the list of     *)
(* processes, the event queue (a ring of NUMEVENTS slots), poll requests,  *)
(* synchronous calls, start and exit.                                      *)
(*                                                                         *)
(* The kernel has no preemption, but its calls nest: a thread that posts a *)
(* synchronous event, starts or exits a process runs other threads before  *)
(* it goes on, and the loops of do_poll, do_event and exit_process walk a   *)
(* list that the threads they call may change.  The C stack is therefore a *)
(* variable, and each step below is one visit of one loop or one kernel    *)
(* call made by the thread that is running.                                *)
(***************************************************************************)
EXTENDS Naturals, Sequences, FiniteSets

CONSTANTS
  Proc,        \* the struct process objects of the program
  NULL,        \* the null pointer: end of list, no current process, broadcast
  Ev,          \* the events (number and data) that threads post
  NUMEVENTS,   \* PROCESS_CONF_NUMEVENTS
  NumWidth,    \* 2^8: process_num_events_t is an unsigned char
  BootSeq,     \* the processes that main starts, in order
  MainPolled,  \* the process that main polls after every pass, or NULL
  Exiting,     \* the processes that may end, or be made to exit
  Starting,    \* the processes that threads may start
  MaxOps       \* bound: kernel calls that one activation of a thread makes

KernelEv == {"INIT", "POLL", "EXIT", "EXITED"}
Event == Ev \cup KernelEv
Pointer == Proc \cup {NULL}
Item == [p : Pointer, ev : Event]
Slots == 0 .. NUMEVENTS - 1

ASSUME KernelAssumption ==
  /\ IsFiniteSet(Proc)
  /\ NULL \notin Proc
  /\ NUMEVENTS \in Nat \ {0}
  /\ NumWidth \in Nat
  /\ 2 * NUMEVENTS <= NumWidth
  /\ Ev \cap KernelEv = {}
  /\ BootSeq \in Seq(Proc)
  /\ MainPolled \in Proc \cup {NULL}
  /\ Exiting \subseteq Proc
  /\ Starting \subseteq Proc
  /\ MaxOps \in Nat

VARIABLES
  head,          \* process_list
  next,          \* p->next; kept by a process that has left the list
  listed,        \* the processes a walk from process_list meets
  state,         \* p->state
  needspoll,     \* p->needspoll
  pollRequested, \* poll_requested
  events,        \* events[]
  fevent,        \* index of the first queued event
  nevents,       \* number of queued events
  current,       \* process_current
  stack,         \* the calls in progress, the innermost last
  booted,        \* how many processes of BootSeq main has started
  phase,         \* where main stands in its loop
  taken,         \* history: what do_event took from the queue last, or NULL
  asked,         \* history: who asked for a poll, since its start, and was not polled yet
  owed,          \* history: who has still to be called with the broadcast event
  stray          \* history: a broadcast event reached a process it was not owed to

ringVars == <<events, fevent, nevents>>
queueVars == <<ringVars, taken>>
listVars == <<head, next, listed>>
pollVars == <<needspoll, pollRequested>>
mainVars == <<booted, phase>>
historyVars == <<asked, owed, stray>>
vars == <<listVars, state, pollVars, queueVars, current, stack, mainVars, historyVars>>

-----------------------------------------------------------------------------
(* The frames of the stack.                                                *)

Thread(p, ev, direct) ==
  [fn |-> "thread", p |-> p, ev |-> ev, direct |-> direct, left |-> MaxOps]
PollFrame(last) == [fn |-> "do_poll", last |-> last]
EventFrame(ev, last, polled) ==
  [fn |-> "do_event", ev |-> ev, last |-> last, polled |-> polled]
ExitFrame(p, from, old, last, at) ==
  [fn |-> "exit", p |-> p, from |-> from, old |-> old, last |-> last, at |-> at]
SynchFrame(caller) == [fn |-> "synch", caller |-> caller]

ThreadFrames == [fn : {"thread"}, p : Proc, ev : Event, direct : BOOLEAN, left : 0 .. MaxOps]

Frame ==
  ThreadFrames
    \cup [fn : {"do_poll"}, last : Pointer]
    \cup [fn : {"do_event"}, ev : Event, last : Pointer, polled : {FALSE}]
    \cup [fn : {"do_event"}, ev : Event, last : Proc, polled : {TRUE}]
    \cup [fn : {"exit"}, p : Proc, from : Pointer, old : Pointer, last : Pointer,
          at : {"tell", "finish"}]
    \cup [fn : {"synch"}, caller : Pointer]

Depth == Len(stack)
Top == stack[Depth]
On(fn) == Depth > 0 /\ Top.fn = fn
Pop == SubSeq(stack, 1, Depth - 1)
Replace(f) == [stack EXCEPT ![Depth] = f]

(* A loop of the kernel visits the process after the last it visited; the  *)
(* pointer is read only now, after whatever the last visit changed.        *)
After(last) == IF last = NULL THEN head ELSE next[last]

(* The thread of p is on the stack, or its exit is under way. *)
Active(p) == \E i \in 1 .. Depth : stack[i].fn \in {"thread", "exit"} /\ stack[i].p = p

-----------------------------------------------------------------------------
(* call_process: with the stack and the states given, run p's thread on ev *)
(* if p is running and not already called, and do nothing otherwise.  (A   *)
(* definition whose name has a suffix, here and below, is a wrong variant  *)
(* of the one that follows it: with it in its place some property fails.)  *)

CallProcess_Reenters(stk, st, p, ev) ==
  IF st[p] # "NONE"
  THEN /\ stack' = Append(stk, Thread(p, ev, FALSE))
       /\ state' = [st EXCEPT ![p] = "CALLED"]
       /\ current' = p
  ELSE /\ stack' = stk
       /\ state' = st
       /\ UNCHANGED current

CallProcess(stk, st, p, ev) ==
  IF st[p] = "RUNNING"
  THEN /\ stack' = Append(stk, Thread(p, ev, FALSE))
       /\ state' = [st EXCEPT ![p] = "CALLED"]
       /\ current' = p
  ELSE /\ stack' = stk
       /\ state' = st
       /\ UNCHANGED current

PostSynch(stk, st, p, ev) == CallProcess(Append(stk, SynchFrame(current)), st, p, ev)

(* A started process is put at the head of the list. *)
Link_AtTail(p) ==
  /\ next' = [q \in Proc |-> IF q = p THEN NULL
                            ELSE IF q \in listed /\ next[q] = NULL THEN p ELSE next[q]]
  /\ head' = IF head = NULL THEN p ELSE head

Link(p) ==
  /\ next' = [next EXCEPT ![p] = head]
  /\ head' = p

ProcessStart(stk, p) ==
  IF p \in listed
  THEN stack' = stk /\ UNCHANGED <<listVars, state, current, asked>>
  ELSE /\ Link(p)
       /\ listed' = listed \cup {p}
       /\ asked' = asked \ {p}
       /\ PostSynch(stk, [state EXCEPT ![p] = "RUNNING"], p, "INIT")

(* process_poll; main asks with MainPolled = NULL when it polls nothing. *)
ProcessPoll_NotWhenCalled(p) ==
  IF p # NULL /\ state[p] \in {"RUNNING", "CALLED"}
  THEN /\ needspoll' = [needspoll EXCEPT ![p] = @ \/ state[p] = "RUNNING"]
       /\ pollRequested' = TRUE
       /\ asked' = asked \cup {p}
  ELSE UNCHANGED <<pollVars, asked>>

ProcessPoll_NoFlag(p) ==
  IF p # NULL /\ state[p] \in {"RUNNING", "CALLED"}
  THEN /\ needspoll' = [needspoll EXCEPT ![p] = TRUE]
       /\ pollRequested' = (pollRequested \/ state[p] = "RUNNING")
       /\ asked' = asked \cup {p}
  ELSE UNCHANGED <<pollVars, asked>>

ProcessPoll(p) ==
  IF p # NULL /\ state[p] \in {"RUNNING", "CALLED"}
  THEN /\ needspoll' = [needspoll EXCEPT ![p] = TRUE]
       /\ pollRequested' = TRUE
       /\ asked' = asked \cup {p}
  ELSE UNCHANGED <<pollVars, asked>>

(* The slot process_post writes: the sum is cut to an unsigned char first. *)
FreeSlot_FromStart == (nevents % NumWidth) % NUMEVENTS
FreeSlot == ((fevent + nevents) % NumWidth) % NUMEVENTS

(* process_post; p = NULL posts to everyone. A full queue leaves all as is. *)
ProcessPost(p, ev) ==
  IF nevents = NUMEVENTS
  THEN UNCHANGED ringVars
  ELSE /\ events' = [events EXCEPT ![FreeSlot] = [p |-> p, ev |-> ev]]
       /\ nevents' = nevents + 1
       /\ UNCHANGED fevent

(* The slot after the one do_event reads. *)
NextSlot_NoWrap == fevent + 1
NextSlot == (fevent + 1) % NUMEVENTS

(* exit_process up to its first loop. *)
ExitProcess(stk, p, from) ==
  IF p \in listed
  THEN /\ state' = [state EXCEPT ![p] = "NONE"]
       /\ stack' = Append(stk, ExitFrame(p, from, current, NULL,
                                 IF state[p] = "NONE" THEN "finish" ELSE "tell"))
  ELSE stack' = stk /\ UNCHANGED state

-----------------------------------------------------------------------------
Init ==
  /\ head = NULL
  /\ next = [p \in Proc |-> NULL]
  /\ listed = {}
  /\ state = [p \in Proc |-> "NONE"]
  /\ needspoll = [p \in Proc |-> FALSE]
  /\ pollRequested = FALSE
  /\ events = [i \in Slots |-> [p |-> NULL, ev |-> "INIT"]]
  /\ fevent = 0
  /\ nevents = 0
  /\ current = NULL
  /\ stack = <<>>
  /\ booted = 0
  /\ phase = "poll"
  /\ taken = NULL
  /\ asked = {}
  /\ owed = {}
  /\ stray = FALSE

(* main starts its processes one after the other, then loops over          *)
(* process_run (polls, then one event) and its own poll request.           *)
Boot ==
  /\ stack = <<>>
  /\ booted < Len(BootSeq)
  /\ booted' = booted + 1
  /\ ProcessStart(<<>>, BootSeq[booted + 1])
  /\ UNCHANGED <<pollVars, queueVars, phase, owed, stray>>

InLoop(ph) == stack = <<>> /\ booted = Len(BootSeq) /\ phase = ph

RunPoll ==
  /\ InLoop("poll")
  /\ phase' = "event"
  /\ pollRequested' = FALSE
  /\ stack' = IF pollRequested THEN <<PollFrame(NULL)>> ELSE <<>>
  /\ UNCHANGED <<listVars, state, needspoll, queueVars, current, booted, historyVars>>

DoEvent ==
  /\ InLoop("event")
  /\ phase' = "main"
  /\ IF nevents = 0
     THEN UNCHANGED <<queueVars, state, current, stack, owed>>
     ELSE LET e == events[fevent] IN
          /\ fevent' = NextSlot
          /\ nevents' = nevents - 1
          /\ taken' = e
          /\ UNCHANGED events
          /\ IF e.p = NULL
             THEN /\ stack' = <<EventFrame(e.ev, NULL, FALSE)>>
                  /\ owed' = listed
                  /\ UNCHANGED <<state, current>>
             ELSE /\ CallProcess(<<>>, IF e.ev = "INIT" THEN [state EXCEPT ![e.p] = "RUNNING"]
                                       ELSE state, e.p, e.ev)
                  /\ UNCHANGED owed
  /\ UNCHANGED <<listVars, pollVars, booted, asked, stray>>

MainPoll ==
  /\ InLoop("main")
  /\ phase' = "poll"
  /\ ProcessPoll(MainPolled)
  /\ UNCHANGED <<listVars, state, queueVars, current, stack, booted, owed, stray>>

(* do_poll makes one walk; requests made behind it wait for the next one. *)
EndOfPolls_Again == stack' = IF pollRequested THEN Replace(PollFrame(NULL)) ELSE Pop
EndOfPolls == stack' = Pop

(* One visit of do_poll's loop. *)
PollVisit ==
  /\ On("do_poll")
  /\ LET q == After(Top.last) IN
     IF q = NULL
     THEN EndOfPolls /\ UNCHANGED <<state, needspoll, current, asked>>
     ELSE IF needspoll[q]
     THEN /\ needspoll' = [needspoll EXCEPT ![q] = FALSE]
          /\ asked' = asked \ {q}
          /\ CallProcess(Replace(PollFrame(q)), [state EXCEPT ![q] = "RUNNING"], q, "POLL")
     ELSE stack' = Replace(PollFrame(q)) /\ UNCHANGED <<state, needspoll, current, asked>>
  /\ UNCHANGED <<listVars, pollRequested, queueVars, mainVars, owed, stray>>

(* The next process of a broadcast; poll handlers run before it is called. *)
BroadcastVisit ==
  /\ On("do_event") /\ ~ Top.polled
  /\ LET q == After(Top.last) IN
     IF q = NULL
     THEN stack' = Pop /\ UNCHANGED pollRequested
     ELSE /\ pollRequested' = FALSE
          /\ LET s == Replace(EventFrame(Top.ev, q, TRUE)) IN
             stack' = IF pollRequested THEN Append(s, PollFrame(NULL)) ELSE s
  /\ UNCHANGED <<listVars, state, needspoll, queueVars, current, mainVars, historyVars>>

BroadcastCall ==
  /\ On("do_event") /\ Top.polled
  /\ CallProcess(Replace(EventFrame(Top.ev, Top.last, FALSE)), state, Top.last, Top.ev)
  /\ owed' = owed \ {Top.last}
  /\ stray' = (stray \/ (state[Top.last] = "RUNNING" /\ Top.last \notin owed))
  /\ UNCHANGED <<listVars, pollVars, queueVars, mainVars, asked>>

(* exit_process: tell every other process, then let the exiting process    *)
(* run on EXIT, then take it off the list.                                 *)
ExitTell ==
  /\ On("exit") /\ Top.at = "tell"
  /\ LET q == After(Top.last) IN
     IF q # NULL
     THEN LET s == Replace([Top EXCEPT !.last = q]) IN
          IF q = Top.p
          THEN stack' = s /\ UNCHANGED <<state, current>>
          ELSE CallProcess(s, state, q, "EXITED")
     ELSE LET s == Replace([Top EXCEPT !.at = "finish"]) IN
          IF Top.p = Top.from
          THEN stack' = s /\ UNCHANGED <<state, current>>
          ELSE /\ stack' = Append(s, Thread(Top.p, "EXIT", TRUE))
               /\ current' = Top.p
               /\ UNCHANGED state
  /\ UNCHANGED <<listVars, pollVars, queueVars, mainVars, historyVars>>

Unlink_HeadOnly(p) == head' = (IF p = head THEN next[p] ELSE head) /\ UNCHANGED next

Unlink_ClearsNext(p) ==
  /\ head' = IF p = head THEN next[p] ELSE head
  /\ next' = [q \in Proc |-> IF q = p THEN NULL
                            ELSE IF q \in listed /\ next[q] = p THEN next[p] ELSE next[q]]

Unlink(p) ==
  IF p = head
  THEN head' = next[p] /\ UNCHANGED next
  ELSE /\ next' = [q \in Proc |-> IF q \in listed /\ next[q] = p THEN next[p] ELSE next[q]]
       /\ UNCHANGED head

ExitFinish ==
  /\ On("exit") /\ Top.at = "finish"
  /\ LET p == Top.p IN
     /\ Unlink(p)
     /\ listed' = listed \ {p}
     /\ owed' = owed \ {p}
  /\ current' = Top.old
  /\ stack' = Pop
  /\ UNCHANGED <<state, pollVars, queueVars, mainVars, asked, stray>>

(* The end of process_post_synch. *)
SynchReturn ==
  /\ On("synch")
  /\ current' = Top.caller
  /\ stack' = Pop
  /\ UNCHANGED <<listVars, state, pollVars, queueVars, mainVars, historyVars>>

-----------------------------------------------------------------------------
(* What the running thread may do: a kernel call, or return.               *)

MayCall == On("thread") /\ Top.left > 0
Spend == Replace([Top EXCEPT !.left = @ - 1])

Post ==
  /\ MayCall
  /\ \E p \in Pointer, ev \in Ev : ProcessPost(p, ev)
  /\ stack' = Spend
  /\ UNCHANGED <<taken, listVars, state, pollVars, current, mainVars, historyVars>>

Poll ==
  /\ MayCall
  /\ \E p \in Proc : ProcessPoll(p)
  /\ stack' = Spend
  /\ UNCHANGED <<listVars, state, queueVars, current, mainVars, owed, stray>>

Synch ==
  /\ MayCall
  /\ \E p \in Proc, ev \in Ev : PostSynch(Spend, state, p, ev)
  /\ UNCHANGED <<listVars, pollVars, queueVars, mainVars, historyVars>>

Start ==
  /\ MayCall
  /\ \E p \in Starting : ProcessStart(Spend, p)
  /\ UNCHANGED <<pollVars, queueVars, mainVars, owed, stray>>

(* No process of rpld exits one that is under way, itself included: this   *)
(* is assumed of the programs that run on the kernel.                      *)
Exit ==
  /\ MayCall
  /\ \E p \in Exiting :
       /\ ~ Active(p)
       /\ ExitProcess(Spend, p, current)
  /\ UNCHANGED <<listVars, current, pollVars, queueVars, mainVars, historyVars>>

(* The thread waits for its next event: back to call_process, or to        *)
(* exit_process when that called the thread directly.                      *)
Yield ==
  /\ On("thread")
  /\ Top.direct \/ Top.ev # "EXIT"
  /\ stack' = Pop
  /\ state' = IF Top.direct THEN state ELSE [state EXCEPT ![Top.p] = "RUNNING"]
  /\ UNCHANGED <<listVars, pollVars, queueVars, current, mainVars, historyVars>>

(* The thread ends: call_process goes on into exit_process. *)
End ==
  /\ On("thread")
  /\ Top.p \in Exiting \/ (Top.ev = "EXIT" /\ ~ Top.direct)
  /\ IF Top.direct
     THEN stack' = Pop /\ UNCHANGED state
     ELSE ExitProcess(Pop, Top.p, Top.p)
  /\ UNCHANGED <<listVars, pollVars, queueVars, current, mainVars, historyVars>>

Kernel == \/ Boot \/ RunPoll \/ DoEvent \/ MainPoll \/ PollVisit
          \/ BroadcastVisit \/ BroadcastCall \/ ExitTell \/ ExitFinish \/ SynchReturn

ThreadStep == Post \/ Poll \/ Synch \/ Start \/ Exit \/ Yield \/ End

Next == Kernel \/ ThreadStep

Spec == Init /\ [][Next]_vars

(* main never stops calling process_run, and a thread always comes back    *)
(* (its calls are bounded by MaxOps).                                      *)
FairSpec == Spec /\ WF_vars(Next)

-----------------------------------------------------------------------------
(* Type invariant: the shape of every variable; in particular the two      *)
(* indices of the ring stay inside it.                                     *)
TypeOK ==
  /\ head \in Pointer
  /\ next \in [Proc -> Pointer]
  /\ listed \subseteq Proc
  /\ state \in [Proc -> {"NONE", "RUNNING", "CALLED"}]
  /\ needspoll \in [Proc -> BOOLEAN]
  /\ pollRequested \in BOOLEAN
  /\ events \in [Slots -> Item]
  /\ fevent \in Slots
  /\ nevents \in 0 .. NUMEVENTS
  /\ current \in Pointer
  /\ stack \in Seq(Frame)
  /\ booted \in 0 .. Len(BootSeq)
  /\ phase \in {"poll", "event", "main"}
  /\ taken \in Item \cup {NULL}
  /\ asked \subseteq Proc
  /\ owed \subseteq Proc
  /\ stray \in BOOLEAN

(* call_process refuses a process that is already called: no thread is on  *)
(* the C stack twice, and a process is CALLED exactly while call_process   *)
(* is running its thread, however starts, exits and synchronous posts nest. *)
NoReentry ==
  /\ \A i, j \in 1 .. Depth :
       stack[i].fn = "thread" /\ stack[j].fn = "thread" /\ stack[i].p = stack[j].p => i = j
  /\ \A p \in Proc : state[p] = "CALLED" <=>
       \E i \in 1 .. Depth : stack[i].fn = "thread" /\ stack[i].p = p /\ ~ stack[i].direct

(* The processes met when walking the list from q. *)
Walk(q) ==
  LET w[n \in 0 .. Cardinality(Proc) + 1] ==
        IF n = 0 THEN <<q>>
        ELSE LET s == w[n - 1] IN
             IF s[n] = NULL THEN Append(s, NULL) ELSE Append(s, next[s[n]])
  IN  w[Cardinality(Proc) + 1]

OnWalk(q) == {Walk(q)[i] : i \in 1 .. Cardinality(Proc) + 2} \ {NULL}

(* process_list is a proper list (it ends, and meets no process twice) and *)
(* holds exactly the processes that run, except one whose exit is under way. *)
ListAgrees ==
  /\ OnWalk(head) = listed
  /\ Walk(head)[Cardinality(listed) + 1] = NULL
  /\ \A p \in Proc : state[p] # "NONE" => p \in listed
  /\ \A p \in listed : state[p] = "NONE" =>
       \E i \in 1 .. Depth : stack[i].fn = "exit" /\ stack[i].p = p

(* A poll request is never lost, although do_poll clears poll_requested    *)
(* before its loop and handlers request polls during the loop: a listed    *)
(* process that asked needs a poll still, and is announced by              *)
(* poll_requested or lies ahead of the loop that is running.               *)
PollNotLost ==
  \A p \in listed \cap asked :
    /\ needspoll[p]
    /\ pollRequested \/ \E i \in 1 .. Depth : stack[i].fn = "do_poll" /\ p \in OnWalk(After(stack[i].last))

(* What holds of the list, the threads and the polls whatever is started,  *)
(* exited, posted and polled under the loops that walk the list.           *)
KernelOK == NoReentry /\ ListAgrees /\ PollNotLost

(* A broadcast reaches every process that stays on the list throughout,    *)
(* although do_event walks a list that the threads it calls, and the polls *)
(* it makes in between, may change; no process is called twice with one    *)
(* broadcast, and none that was not on the list when the event was taken   *)
(* from the queue.                                                         *)
BroadcastExact ==
  /\ (\A i \in 1 .. Depth : stack[i].fn # "do_event") => owed = {}
  /\ ~ stray

(* The queued events in the order they were posted. *)
Queued == [i \in 1 .. nevents |-> events[(fevent + i - 1) % NUMEVENTS]]

(* The ring of process_post and do_event implements the queue they promise:*)
(* no slot in use is overwritten when the indices wrap around.             *)
Queue == INSTANCE EventQueue WITH
           queue <- Queued, Capacity <- NUMEVENTS, Nothing <- NULL

QueueSpec == Queue!Spec

(* A process that requested a poll is polled, or exits. *)
PollServed == \A p \in Proc : p \in asked ~> (p \notin asked \/ state[p] = "NONE")

(* Every pass of process_run comes to its end, and with it every nested    *)
(* call: no loop over the list, and no chain of calls, goes on for ever;   *)
(* and so the oldest event is taken sooner or later.                       *)
PassEnds == []<>(stack = <<>>) /\ Queue!Served

=============================================================================
