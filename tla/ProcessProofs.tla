---------------------------- MODULE ProcessProofs ----------------------------
(***************************************************************************)
(* Proofs about the process kernel, for every program that runs on it: its *)
(* types, the queue it implements, that no thread runs twice at a time,    *)
(* that the list and the poll requests are kept (KernelOK), and that a     *)
(* broadcast reaches whom it has to (BroadcastExact).                      *)
(***************************************************************************)
EXTENDS Process, DataLemmas, SequenceTheorems, FiniteSetTheorems, TLAPS

LEMMA ModRange == ASSUME NEW n \in Nat \ {0}, NEW a \in Nat PROVE a % n \in 0 .. n - 1
  OBVIOUS

LEMMA ModSmall == ASSUME NEW n \in Nat \ {0}, NEW a \in Nat, a < n PROVE a % n = a
  OBVIOUS

LEMMA ModWrap == ASSUME NEW n \in Nat \ {0}, NEW a \in Nat, n <= a, a < 2 * n PROVE a % n = a - n
  OBVIOUS

LEMMA AppendType ==
  ASSUME NEW S, NEW s \in Seq(S), NEW f \in S
  PROVE  Append(s, f) \in Seq(S) /\ <<f>> \in Seq(S)
  OBVIOUS

LEMMA ThreadType ==
  ASSUME NEW p \in Proc, NEW ev \in Event, NEW direct \in BOOLEAN
  PROVE  Thread(p, ev, direct) \in Frame
  <1>1. MaxOps \in 0 .. MaxOps
    BY KernelAssumption
  <1>2. Thread(p, ev, direct) \in ThreadFrames
    BY <1>1 DEF Thread, ThreadFrames
  <1> QED
    BY <1>2 DEF Frame

LEMMA SynchType ==
  ASSUME NEW c \in Pointer
  PROVE  SynchFrame(c) \in Frame
  BY DEF SynchFrame, Frame

LEMMA FrameTypes ==
  ASSUME NEW f \in Frame
  PROVE  /\ f.fn = "thread" => /\ f.p \in Proc /\ f.ev \in Event /\ f.direct \in BOOLEAN
                               /\ f.left \in 0 .. MaxOps
                               /\ f = [fn |-> "thread", p |-> f.p, ev |-> f.ev, direct |-> f.direct, left |-> f.left]
         /\ f.fn = "do_poll" => f.last \in Pointer
         /\ f.fn = "do_event" => /\ f.last \in Pointer /\ f.ev \in Event /\ f.polled \in BOOLEAN
                                 /\ f.polled => f.last \in Proc
         /\ f.fn = "exit" => /\ f.p \in Proc /\ f.from \in Pointer /\ f.old \in Pointer /\ f.last \in Pointer
                             /\ f.at \in {"tell", "finish"}
                             /\ f = [fn |-> "exit", p |-> f.p, from |-> f.from, old |-> f.old, last |-> f.last, at |-> f.at]
         /\ f.fn = "synch" => f.caller \in Pointer
  BY DEF Frame, Pointer, ThreadFrames

(* Pushing, popping and replacing the innermost frame keeps a stack of     *)
(* frames.                                                                 *)
LEMMA StackOps ==
  ASSUME stack \in Seq(Frame)
  PROVE  /\ \A f \in Frame : Append(stack, f) \in Seq(Frame)
         /\ Depth > 0 => /\ Top \in Frame
                         /\ Pop \in Seq(Frame)
                         /\ \A f \in Frame : Replace(f) \in Seq(Frame)
  BY DEF Depth, Top, Pop, Replace

(* call_process, with any stack and states of the right shape.             *)
LEMMA CallProcessType ==
  ASSUME NEW stk \in Seq(Frame), NEW st \in [Proc -> {"NONE", "RUNNING", "CALLED"}],
         NEW p \in Proc, NEW ev \in Event, current \in Pointer,
         CallProcess(stk, st, p, ev)
  PROVE  /\ stack' \in Seq(Frame)
         /\ state' \in [Proc -> {"NONE", "RUNNING", "CALLED"}]
         /\ current' \in Pointer
  <1>1. Thread(p, ev, FALSE) \in Frame
    BY ThreadType
  <1>2. p \in Pointer
    BY DEF Pointer
  <1>3. CASE st[p] = "RUNNING"
    <2>1. Append(stk, Thread(p, ev, FALSE)) \in Seq(Frame)
      BY <1>1, AppendType
    <2>2. [st EXCEPT ![p] = "CALLED"] \in [Proc -> {"NONE", "RUNNING", "CALLED"}]
      OBVIOUS
    <2> QED
      BY <1>2, <1>3, <2>1, <2>2 DEF CallProcess
  <1>4. CASE st[p] # "RUNNING"
    BY <1>4 DEF CallProcess
  <1> QED
    BY <1>3, <1>4

LEMMA ProcessStartType ==
  ASSUME TypeOK, NEW stk \in Seq(Frame), NEW p \in Proc, ProcessStart(stk, p)
  PROVE  /\ stack' \in Seq(Frame)
         /\ state' \in [Proc -> {"NONE", "RUNNING", "CALLED"}]
         /\ current' \in Pointer
         /\ head' \in Pointer /\ next' \in [Proc -> Pointer] /\ listed' \subseteq Proc
         /\ asked' \subseteq Proc
  <1>1. CASE p \in listed
    BY <1>1 DEF ProcessStart, TypeOK, listVars
  <1>2. CASE p \notin listed
    <2>1. Append(stk, SynchFrame(current)) \in Seq(Frame)
      BY SynchType, AppendType DEF TypeOK
    <2>2. [state EXCEPT ![p] = "RUNNING"] \in [Proc -> {"NONE", "RUNNING", "CALLED"}]
      BY DEF TypeOK
    <2>3. "INIT" \in Event
      BY DEF Event, KernelEv
    <2>4. CallProcess(Append(stk, SynchFrame(current)), [state EXCEPT ![p] = "RUNNING"], p, "INIT")
      BY <1>2 DEF ProcessStart, PostSynch
    <2>5. current \in Pointer
      BY DEF TypeOK
    <2>6. /\ stack' \in Seq(Frame)
          /\ state' \in [Proc -> {"NONE", "RUNNING", "CALLED"}]
          /\ current' \in Pointer
      BY <2>1, <2>2, <2>3, <2>4, <2>5, CallProcessType
    <2> QED
      BY <1>2, <2>6 DEF ProcessStart, Link, TypeOK, Pointer
  <1> QED
    BY <1>1, <1>2

LEMMA ExitProcessType ==
  ASSUME TypeOK, NEW stk \in Seq(Frame), NEW p \in Proc, NEW from \in Pointer,
         ExitProcess(stk, p, from)
  PROVE  /\ stack' \in Seq(Frame)
         /\ state' \in [Proc -> {"NONE", "RUNNING", "CALLED"}]
  <1>1. \A at \in {"tell", "finish"} : ExitFrame(p, from, current, NULL, at) \in Frame
    BY DEF ExitFrame, Frame, TypeOK, Pointer
  <1>2. CASE p \in listed
    <2> DEFINE f == ExitFrame(p, from, current, NULL, IF state[p] = "NONE" THEN "finish" ELSE "tell")
    <2>1. Append(stk, f) \in Seq(Frame)
      BY <1>1
    <2>2. stack' = Append(stk, f) /\ state' = [state EXCEPT ![p] = "NONE"]
      BY <1>2 DEF ExitProcess
    <2> QED
      BY <2>1, <2>2 DEF TypeOK
  <1>3. CASE p \notin listed
    BY <1>3 DEF ExitProcess, TypeOK
  <1> QED
    BY <1>2, <1>3

LEMMA ProcessPollType ==
  ASSUME TypeOK, NEW p \in Pointer, ProcessPoll(p)
  PROVE  /\ needspoll' \in [Proc -> BOOLEAN]
         /\ pollRequested' \in BOOLEAN
         /\ asked' \subseteq Proc
  BY DEF ProcessPoll, TypeOK, Pointer, pollVars

LEMMA FreeSlotType ==
  ASSUME TypeOK
  PROVE  FreeSlot \in Slots
  <1>1. fevent + nevents \in Nat /\ NumWidth \in Nat \ {0} /\ NUMEVENTS \in Nat \ {0}
    BY KernelAssumption DEF TypeOK, Slots
  <1>2. (fevent + nevents) % NumWidth \in Nat
    BY <1>1, ModRange
  <1> QED
    BY <1>1, <1>2, ModRange DEF FreeSlot, Slots

LEMMA ProcessPostType ==
  ASSUME TypeOK, NEW p \in Pointer, NEW ev \in Event, ProcessPost(p, ev)
  PROVE  /\ events' \in [Slots -> Item]
         /\ fevent' \in Slots
         /\ nevents' \in 0 .. NUMEVENTS
  <1>1. [p |-> p, ev |-> ev] \in Item
    BY DEF Item
  <1> QED
    BY <1>1, FreeSlotType, KernelAssumption DEF ProcessPost, TypeOK, ringVars

-----------------------------------------------------------------------------
LEMMA TypeInit == Init => TypeOK
  <1> SUFFICES ASSUME Init PROVE TypeOK
    OBVIOUS
  <1>1. [p |-> NULL, ev |-> "INIT"] \in Item
    BY DEF Item, Pointer, Event, KernelEv
  <1>2. 0 \in Slots /\ 0 \in 0 .. NUMEVENTS /\ 0 \in 0 .. Len(BootSeq)
    BY KernelAssumption DEF Slots
  <1>3. <<>> \in Seq(Frame)
    OBVIOUS
  <1>4. NULL \in Pointer
    BY DEF Pointer
  <1>5. events \in [Slots -> Item]
    BY <1>1 DEF Init
  <1>6. next \in [Proc -> Pointer]
    BY <1>4 DEF Init
  <1> QED
    BY <1>2, <1>3, <1>4, <1>5, <1>6 DEF Init, TypeOK

LEMMA TypeNext == TypeOK /\ [Next]_vars => TypeOK'
  <1> SUFFICES ASSUME TypeOK, [Next]_vars PROVE TypeOK'
    OBVIOUS
  <1> USE DEF pollVars, listVars, mainVars, historyVars, ringVars, queueVars
  <1>s. stack \in Seq(Frame) /\ <<>> \in Seq(Frame)
    BY DEF TypeOK
  <1>k. \A ev \in KernelEv \cup Ev : ev \in Event
    BY DEF Event
  <1>d. CASE DoEvent
    <2>1. CASE nevents = 0
      BY <1>d, <2>1 DEF DoEvent, TypeOK
    <2>2. CASE nevents # 0
      <3> DEFINE e == events[fevent]
      <3>1. e \in Item
        BY DEF TypeOK
      <3>2. fevent' \in Slots /\ nevents' \in 0 .. NUMEVENTS /\ taken' \in Item
        BY <1>d, <2>2, <3>1, ModRange, KernelAssumption DEF DoEvent, NextSlot, TypeOK, Slots
      <3>3. CASE e.p = NULL
        <4> DEFINE f == EventFrame(e.ev, NULL, FALSE)
        <4>1. f \in Frame
          BY <3>1 DEF EventFrame, Frame, Item, Pointer
        <4>3. /\ stack' = <<f>>
              /\ owed' = listed /\ events' = events /\ phase' = "main"
              /\ UNCHANGED <<listVars, pollVars, booted, asked, stray, state, current>>
          BY <1>d, <2>2, <3>3 DEF DoEvent
        <4> HIDE DEF f
        <4>2. <<f>> \in Seq(Frame)
          BY <4>1, AppendType
        <4> QED
          BY <3>2, <4>2, <4>3 DEF TypeOK
      <3>4. CASE e.p # NULL
        <4>1. e.p \in Proc /\ e.ev \in Event
          BY <3>1, <3>4 DEF Item, Pointer
        <4> DEFINE st == IF e.ev = "INIT" THEN [state EXCEPT ![e.p] = "RUNNING"] ELSE state
        <4>2. st \in [Proc -> {"NONE", "RUNNING", "CALLED"}]
          BY DEF TypeOK
        <4>3. CallProcess(<<>>, st, e.p, e.ev)
          BY <1>d, <2>2, <3>4 DEF DoEvent
        <4>c. current \in Pointer
          BY DEF TypeOK
        <4> HIDE DEF st
        <4>4. /\ stack' \in Seq(Frame)
              /\ state' \in [Proc -> {"NONE", "RUNNING", "CALLED"}]
              /\ current' \in Pointer
          BY <1>s, <4>1, <4>2, <4>3, <4>c, CallProcessType
        <4> QED
          BY <1>d, <2>2, <3>2, <3>4, <4>4 DEF DoEvent, TypeOK
      <3> QED
        BY <3>3, <3>4
    <2> QED
      BY <2>1, <2>2
  <1>1. CASE Boot
    <2>1. BootSeq[booted + 1] \in Proc /\ booted' \in 0 .. Len(BootSeq)
      BY <1>1, KernelAssumption DEF Boot, TypeOK
    <2> QED
      BY <1>1, <1>s, <2>1, ProcessStartType DEF Boot, TypeOK
  <1>2. CASE RunPoll
    <2>1. <<PollFrame(NULL)>> \in Seq(Frame)
      BY DEF PollFrame, Frame, Pointer
    <2> QED
      BY <1>2, <2>1, <1>s DEF RunPoll, TypeOK
  <1>3. CASE MainPoll
    <2>1. MainPolled \in Pointer
      BY KernelAssumption DEF Pointer
    <2> QED
      BY <1>3, <2>1, ProcessPollType DEF MainPoll, TypeOK
  <1>o. \A fn : On(fn) => /\ Depth > 0 /\ Top \in Frame /\ Pop \in Seq(Frame) /\ Top.fn = fn
                         /\ \A f \in Frame : Replace(f) \in Seq(Frame)
    BY <1>s, StackOps DEF On
  <1>a. \A last \in Pointer : After(last) \in Pointer
    BY DEF After, TypeOK, Pointer
  <1>c. current \in Pointer
    BY DEF TypeOK
  <1>m. MayCall => Spend \in Seq(Frame)
    <2> SUFFICES ASSUME MayCall PROVE Spend \in Seq(Frame)
      OBVIOUS
    <2>1. /\ Top \in Frame /\ Top.fn = "thread" /\ Top.left > 0
          /\ \A f \in Frame : Replace(f) \in Seq(Frame)
      BY <1>o DEF MayCall
    <2>2. /\ Top.p \in Proc /\ Top.ev \in Event /\ Top.direct \in BOOLEAN /\ Top.left \in 0 .. MaxOps
          /\ Top = [fn |-> "thread", p |-> Top.p, ev |-> Top.ev, direct |-> Top.direct, left |-> Top.left]
      BY <2>1, FrameTypes
    <2>3. [Top EXCEPT !.left = @ - 1]
            = [fn |-> "thread", p |-> Top.p, ev |-> Top.ev, direct |-> Top.direct, left |-> Top.left - 1]
      BY <2>2
    <2>4. Top.left - 1 \in 0 .. MaxOps
      BY <2>1, <2>2, KernelAssumption
    <2>5. [Top EXCEPT !.left = @ - 1] \in Frame
      BY <2>2, <2>3, <2>4 DEF Frame, ThreadFrames
    <2> QED
      BY <2>1, <2>5 DEF Spend
  <1>4. CASE PollVisit
    <2> DEFINE q == After(Top.last)
    <2>1. Top.last \in Pointer /\ q \in Pointer
      BY <1>4, <1>o, <1>a, FrameTypes DEF PollVisit
    <2>2. Pop \in Seq(Frame) /\ \A f \in Frame : Replace(f) \in Seq(Frame)
      BY <1>4, <1>o DEF PollVisit
    <2>3. PollFrame(q) \in Frame
      BY <2>1 DEF PollFrame, Frame
    <2> HIDE DEF q
    <2>4. CASE q = NULL
      BY <1>4, <2>2, <2>4 DEF PollVisit, EndOfPolls, TypeOK, q
    <2>5. CASE q # NULL /\ needspoll[q]
      <3>1. q \in Proc /\ "POLL" \in Event
        BY <2>1, <2>5 DEF Pointer, Event, KernelEv
      <3>2. [state EXCEPT ![q] = "RUNNING"] \in [Proc -> {"NONE", "RUNNING", "CALLED"}]
        BY DEF TypeOK
      <3>3. CallProcess(Replace(PollFrame(q)), [state EXCEPT ![q] = "RUNNING"], q, "POLL")
        BY <1>4, <2>5 DEF PollVisit, q
      <3>4. /\ stack' \in Seq(Frame)
            /\ state' \in [Proc -> {"NONE", "RUNNING", "CALLED"}]
            /\ current' \in Pointer
        BY <1>c, <2>2, <2>3, <3>1, <3>2, <3>3, CallProcessType
      <3>5. needspoll' = [needspoll EXCEPT ![q] = FALSE] /\ asked' = asked \ {q}
        BY <1>4, <2>5 DEF PollVisit, q
      <3>6. UNCHANGED <<listVars, pollRequested, queueVars, mainVars, owed, stray>>
        BY <1>4 DEF PollVisit
      <3> QED
        BY <3>4, <3>5, <3>6 DEF TypeOK
    <2>6. CASE q # NULL /\ ~ needspoll[q]
      BY <1>4, <2>2, <2>3, <2>6 DEF PollVisit, TypeOK, q
    <2> QED
      BY <2>4, <2>5, <2>6
  <1>5. CASE BroadcastVisit
    <2> DEFINE q == After(Top.last)
    <2>1. Top.last \in Pointer /\ q \in Pointer /\ Top.ev \in Event
      BY <1>5, <1>o, <1>a, FrameTypes DEF BroadcastVisit
    <2>2. Pop \in Seq(Frame) /\ \A f \in Frame : Replace(f) \in Seq(Frame)
      BY <1>5, <1>o DEF BroadcastVisit
    <2>3. PollFrame(NULL) \in Frame
      BY DEF PollFrame, Frame, Pointer
    <2> DEFINE s == Replace(EventFrame(Top.ev, q, TRUE))
    <2>4. stack' \in Seq(Frame) /\ pollRequested' \in BOOLEAN
      <3>1. CASE q = NULL
        BY <1>5, <2>2, <3>1 DEF BroadcastVisit, TypeOK
      <3>2. CASE q # NULL
        <4>1. EventFrame(Top.ev, q, TRUE) \in Frame
          BY <2>1, <3>2 DEF EventFrame, Frame, Pointer
        <4>2. s \in Seq(Frame)
          BY <2>2, <4>1
        <4>3. Append(s, PollFrame(NULL)) \in Seq(Frame)
          BY <2>3, <4>2, AppendType
        <4>4. stack' = (IF pollRequested THEN Append(s, PollFrame(NULL)) ELSE s) /\ pollRequested' = FALSE
          BY <1>5, <3>2 DEF BroadcastVisit
        <4> QED
          BY <4>2, <4>3, <4>4
      <3> QED
        BY <3>1, <3>2
    <2> QED
      BY <1>5, <2>4 DEF BroadcastVisit, TypeOK
  <1>6. CASE BroadcastCall
    <2>1. Top.last \in Pointer /\ Top.ev \in Event /\ \A f \in Frame : Replace(f) \in Seq(Frame)
      BY <1>6, <1>o, FrameTypes DEF BroadcastCall
    <2>2. EventFrame(Top.ev, Top.last, FALSE) \in Frame
      BY <2>1 DEF EventFrame, Frame
    <2>3. CallProcess(Replace(EventFrame(Top.ev, Top.last, FALSE)), state, Top.last, Top.ev)
      BY <1>6 DEF BroadcastCall
    <2>4. state \in [Proc -> {"NONE", "RUNNING", "CALLED"}]
      BY DEF TypeOK
    <2>5. Top.last \in Proc
      BY <1>6, <1>o, FrameTypes DEF BroadcastCall
    <2>6. /\ stack' \in Seq(Frame)
          /\ state' \in [Proc -> {"NONE", "RUNNING", "CALLED"}]
          /\ current' \in Pointer
      BY <1>c, <2>1, <2>2, <2>3, <2>4, <2>5, CallProcessType
    <2> QED
      BY <1>6, <2>6 DEF BroadcastCall, TypeOK
  <1>7. CASE ExitTell
    <2> DEFINE q == After(Top.last)
    <2>1. /\ Top.p \in Proc /\ Top.from \in Pointer /\ Top.old \in Pointer /\ Top.last \in Pointer
          /\ q \in Pointer
          /\ Top = [fn |-> "exit", p |-> Top.p, from |-> Top.from, old |-> Top.old, last |-> Top.last, at |-> Top.at]
          /\ Top.at \in {"tell", "finish"}
      BY <1>7, <1>o, <1>a, FrameTypes DEF ExitTell
    <2>2. \A f \in Frame : Replace(f) \in Seq(Frame)
      BY <1>7, <1>o DEF ExitTell
    <2>3. /\ [Top EXCEPT !.last = q]
                = [fn |-> "exit", p |-> Top.p, from |-> Top.from, old |-> Top.old, last |-> q, at |-> Top.at]
          /\ [Top EXCEPT !.at = "finish"]
                = [fn |-> "exit", p |-> Top.p, from |-> Top.from, old |-> Top.old, last |-> Top.last, at |-> "finish"]
      BY <2>1
    <2>4. [Top EXCEPT !.last = q] \in Frame /\ [Top EXCEPT !.at = "finish"] \in Frame
      BY <2>1, <2>3 DEF Frame
    <2>5. state \in [Proc -> {"NONE", "RUNNING", "CALLED"}] /\ "EXITED" \in Event /\ "EXIT" \in Event
      BY DEF TypeOK, Event, KernelEv
    <2>6. Thread(Top.p, "EXIT", TRUE) \in Frame
      BY <2>1, <2>5, ThreadType
    <2>7. /\ stack' \in Seq(Frame)
          /\ state' \in [Proc -> {"NONE", "RUNNING", "CALLED"}]
          /\ current' \in Pointer
      <3>1. CASE q # NULL /\ q # Top.p
        <4>1. CallProcess(Replace([Top EXCEPT !.last = q]), state, q, "EXITED")
          BY <1>7, <3>1 DEF ExitTell
        <4>2. q \in Proc
          BY <2>1, <3>1 DEF Pointer
        <4> QED
          BY <1>c, <2>2, <2>4, <2>5, <4>1, <4>2, CallProcessType
      <3>2. CASE q # NULL /\ q = Top.p
        BY <1>7, <1>c, <2>2, <2>4, <2>5, <3>2 DEF ExitTell
      <3>3. CASE q = NULL
        <4> DEFINE s == Replace([Top EXCEPT !.at = "finish"])
        <4>1. s \in Seq(Frame)
          BY <2>2, <2>4
        <4>2. Append(s, Thread(Top.p, "EXIT", TRUE)) \in Seq(Frame)
          BY <2>6, <4>1, AppendType
        <4>3. Top.p \in Pointer
          BY <2>1 DEF Pointer
        <4>4. IF Top.p = Top.from
              THEN stack' = s /\ UNCHANGED <<state, current>>
              ELSE stack' = Append(s, Thread(Top.p, "EXIT", TRUE)) /\ current' = Top.p /\ UNCHANGED state
          BY <1>7, <3>3 DEF ExitTell
        <4> HIDE DEF s
        <4> QED
          BY <1>c, <2>5, <4>1, <4>2, <4>3, <4>4
      <3> QED
        BY <3>1, <3>2, <3>3
    <2> QED
      BY <1>7, <2>7 DEF ExitTell, TypeOK
  <1>8. CASE ExitFinish
    <2>1. Top.p \in Proc /\ Top.old \in Pointer /\ Pop \in Seq(Frame)
      BY <1>8, <1>o, FrameTypes DEF ExitFinish
    <2>2. head' \in Pointer /\ next' \in [Proc -> Pointer]
      BY <1>8, <2>1 DEF ExitFinish, Unlink, TypeOK
    <2> QED
      BY <1>8, <2>1, <2>2 DEF ExitFinish, TypeOK
  <1>9. CASE SynchReturn
    <2>1. Top.caller \in Pointer /\ Pop \in Seq(Frame)
      BY <1>9, <1>o, FrameTypes DEF SynchReturn
    <2> QED
      BY <1>9, <2>1 DEF SynchReturn, TypeOK
  <1>10. CASE Post
    <2>1. PICK p \in Pointer, ev \in Ev : ProcessPost(p, ev)
      BY <1>10 DEF Post
    <2>2. ev \in Event
      BY DEF Event
    <2>3. events' \in [Slots -> Item] /\ fevent' \in Slots /\ nevents' \in 0 .. NUMEVENTS
      BY <2>1, <2>2, ProcessPostType
    <2> QED
      BY <1>10, <1>m, <2>3 DEF Post, TypeOK
  <1>11. CASE Poll
    <2>1. PICK p \in Proc : ProcessPoll(p)
      BY <1>11 DEF Poll
    <2>2. needspoll' \in [Proc -> BOOLEAN] /\ pollRequested' \in BOOLEAN /\ asked' \subseteq Proc
      BY <2>1, ProcessPollType DEF Pointer
    <2> QED
      BY <1>11, <1>m, <2>2 DEF Poll, TypeOK
  <1>12. CASE Synch
    <2>1. PICK p \in Proc, ev \in Ev : PostSynch(Spend, state, p, ev)
      BY <1>12 DEF Synch
    <2>2. Append(Spend, SynchFrame(current)) \in Seq(Frame) /\ ev \in Event
      BY <1>12, <1>m, <1>c, SynchType, AppendType DEF Synch, Event
    <2>3. state \in [Proc -> {"NONE", "RUNNING", "CALLED"}]
      BY DEF TypeOK
    <2>4. /\ stack' \in Seq(Frame)
          /\ state' \in [Proc -> {"NONE", "RUNNING", "CALLED"}]
          /\ current' \in Pointer
      BY <1>c, <2>1, <2>2, <2>3, CallProcessType DEF PostSynch
    <2> QED
      BY <1>12, <2>4 DEF Synch, TypeOK
  <1>13. CASE Start
    <2>1. PICK p \in Starting : ProcessStart(Spend, p)
      BY <1>13 DEF Start
    <2>2. p \in Proc /\ Spend \in Seq(Frame)
      BY <1>13, <1>m, KernelAssumption DEF Start
    <2>3. /\ stack' \in Seq(Frame)
          /\ state' \in [Proc -> {"NONE", "RUNNING", "CALLED"}]
          /\ current' \in Pointer
          /\ head' \in Pointer /\ next' \in [Proc -> Pointer] /\ listed' \subseteq Proc
          /\ asked' \subseteq Proc
      BY <2>1, <2>2, ProcessStartType
    <2> QED
      BY <1>13, <2>3 DEF Start, TypeOK
  <1>14. CASE Exit
    <2>1. PICK p \in Exiting : ExitProcess(Spend, p, current)
      BY <1>14 DEF Exit
    <2>2. p \in Proc /\ Spend \in Seq(Frame)
      BY <1>14, <1>m, KernelAssumption DEF Exit
    <2>3. stack' \in Seq(Frame) /\ state' \in [Proc -> {"NONE", "RUNNING", "CALLED"}]
      BY <1>c, <2>1, <2>2, ExitProcessType
    <2> QED
      BY <1>14, <2>3 DEF Exit, TypeOK
  <1>15. CASE Yield
    <2>1. Top.p \in Proc /\ Pop \in Seq(Frame)
      BY <1>15, <1>o, FrameTypes DEF Yield
    <2> QED
      BY <1>15, <2>1 DEF Yield, TypeOK
  <1>16. CASE End
    <2>1. Top.p \in Proc /\ Pop \in Seq(Frame)
      BY <1>16, <1>o, FrameTypes DEF End
    <2>2. stack' \in Seq(Frame) /\ state' \in [Proc -> {"NONE", "RUNNING", "CALLED"}]
      <3>1. CASE Top.direct
        BY <1>16, <2>1, <3>1 DEF End, TypeOK
      <3>2. CASE ~ Top.direct
        <4>1. ExitProcess(Pop, Top.p, Top.p) /\ Top.p \in Pointer
          BY <1>16, <2>1, <3>2 DEF End, Pointer
        <4> QED
          BY <2>1, <4>1, ExitProcessType
      <3> QED
        BY <3>1, <3>2
    <2> QED
      BY <1>16, <2>2 DEF End, TypeOK
  <1>17. CASE UNCHANGED vars
    BY <1>17 DEF vars, TypeOK
  <1> QED
    BY <1>1, <1>2, <1>3, <1>4, <1>5, <1>6, <1>7, <1>8, <1>9, <1>10, <1>11, <1>12, <1>13,
       <1>14, <1>15, <1>16, <1>17, <1>d DEF Next, Kernel, ThreadStep

(* Every variable keeps its type, and the ring's indices stay inside it,   *)
(* whatever the processes do.                                              *)
THEOREM TypeCorrect == Spec => []TypeOK
  BY TypeInit, TypeNext, PTL DEF Spec

-----------------------------------------------------------------------------
(* The ring implements the queue.                                          *)

LEMMA RingIndex ==
  ASSUME NEW f \in Slots, NEW k \in 0 .. NUMEVENTS
  PROVE  /\ (f + k) % NUMEVENTS = IF f + k < NUMEVENTS THEN f + k ELSE f + k - NUMEVENTS
         /\ (f + k) % NUMEVENTS \in Slots
  <1>1. NUMEVENTS \in Nat \ {0} /\ f \in Nat /\ k \in Nat /\ f < NUMEVENTS /\ k <= NUMEVENTS
    BY KernelAssumption DEF Slots
  <1>2. CASE f + k < NUMEVENTS
    <2>1. (f + k) % NUMEVENTS = f + k
      BY <1>1, <1>2, ModSmall
    <2> QED
      BY <1>1, <1>2, <2>1 DEF Slots
  <1>3. CASE f + k >= NUMEVENTS
    <2>1. f + k \in Nat /\ NUMEVENTS <= f + k /\ f + k < 2 * NUMEVENTS
      BY <1>1, <1>3
    <2> DEFINE a == f + k
    <2> HIDE DEF a
    <2>3. a \in Nat /\ NUMEVENTS <= a /\ a < 2 * NUMEVENTS
      BY <2>1 DEF a
    <2>4. a % NUMEVENTS = a - NUMEVENTS
      BY <1>1, <2>3, ModWrap
    <2>2. (f + k) % NUMEVENTS = f + k - NUMEVENTS
      BY <1>1, <2>1, <2>3, <2>4 DEF a
    <2> QED
      BY <1>1, <1>3, <2>1, <2>2 DEF Slots
  <1> QED
    BY <1>1, <1>2, <1>3

LEMMA FreeSlotIndex ==
  ASSUME TypeOK, nevents < NUMEVENTS
  PROVE  FreeSlot = (fevent + nevents) % NUMEVENTS
  <1>1. /\ fevent + nevents \in Nat /\ fevent + nevents < NumWidth
        /\ NumWidth \in Nat \ {0}
    BY KernelAssumption DEF TypeOK, Slots
  <1>2. (fevent + nevents) % NumWidth = fevent + nevents
    BY <1>1, ModSmall
  <1> QED
    BY <1>2 DEF FreeSlot

QueuedOK ==
  /\ Queued \in Seq(Item)
  /\ Len(Queued) = nevents
  /\ \A i \in 1 .. nevents : Queued[i] = events[(fevent + (i - 1)) % NUMEVENTS]

LEMMA QueuedType == TypeOK => QueuedOK
  <1> SUFFICES ASSUME TypeOK PROVE QueuedOK
    OBVIOUS
  <1>1. nevents \in Nat /\ nevents <= NUMEVENTS /\ fevent \in Slots /\ NUMEVENTS \in Nat
    BY KernelAssumption DEF TypeOK
  <1>2. \A i \in 1 .. nevents : /\ i - 1 \in 0 .. NUMEVENTS
                               /\ fevent + i - 1 = fevent + (i - 1)
    BY <1>1 DEF Slots
  <1>3. \A i \in 1 .. nevents : events[(fevent + i - 1) % NUMEVENTS] \in Item
    BY <1>1, <1>2, RingIndex DEF TypeOK
  <1>4. Queued \in [1 .. nevents -> Item]
    BY <1>3 DEF Queued
  <1>5. Queued \in Seq(Item) /\ Len(Queued) = nevents
    BY <1>1, <1>4
  <1>6. \A i \in 1 .. nevents : Queued[i] = events[(fevent + (i - 1)) % NUMEVENTS]
    BY <1>2 DEF Queued
  <1> QED
    BY <1>5, <1>6 DEF QueuedOK

(* Two sequences with the same elements are equal. *)
LEMMA SameSeq ==
  ASSUME NEW S, NEW s \in Seq(S), NEW t \in Seq(S), Len(s) = Len(t),
         \A i \in 1 .. Len(s) : s[i] = t[i]
  PROVE  s = t
  OBVIOUS

(* An accepted post appends to the queue. *)
LEMMA PostAppends ==
  ASSUME TypeOK, TypeOK', NEW p \in Pointer, NEW ev \in Event, ProcessPost(p, ev),
         nevents < NUMEVENTS
  PROVE  Queued' = Append(Queued, [p |-> p, ev |-> ev])
  <1> DEFINE e == [p |-> p, ev |-> ev]
  <1>1. e \in Item
    BY DEF Item
  <1>2. /\ events' = [events EXCEPT ![FreeSlot] = e]
        /\ nevents' = nevents + 1 /\ fevent' = fevent
    BY DEF ProcessPost, TypeOK
  <1>3. /\ nevents \in Nat /\ fevent \in Slots /\ NUMEVENTS \in Nat \ {0}
        /\ events \in [Slots -> Item]
    BY KernelAssumption DEF TypeOK
  <1>p. QueuedOK'
    BY QueuedType, PTL
  <1>t. Append(Queued, e) \in Seq(Item) /\ Len(Append(Queued, e)) = nevents + 1
    BY <1>1, <1>3, QueuedType DEF QueuedOK
  <1>q. /\ Queued' \in Seq(Item) /\ Len(Queued') = nevents + 1
        /\ \A i \in 1 .. nevents + 1 : Queued'[i] = events'[(fevent + (i - 1)) % NUMEVENTS]
    <2>1. /\ Queued' \in Seq(Item) /\ Len(Queued') = nevents'
          /\ \A i \in 1 .. nevents' : Queued'[i] = events'[(fevent' + (i - 1)) % NUMEVENTS]
      BY <1>p DEF QueuedOK
    <2> QED
      BY <1>2, <2>1
  <1>4. \A i \in 1 .. nevents + 1 : Queued'[i] = Append(Queued, e)[i]
    <2> SUFFICES ASSUME NEW i \in 1 .. nevents + 1
                 PROVE  Queued'[i] = Append(Queued, e)[i]
      OBVIOUS
    <2> DEFINE slot == (fevent + (i - 1)) % NUMEVENTS
    <2>1. /\ i - 1 \in 0 .. NUMEVENTS /\ nevents \in 0 .. NUMEVENTS
      BY <1>3
    <2>2. /\ slot = IF fevent + (i - 1) < NUMEVENTS THEN fevent + (i - 1) ELSE fevent + (i - 1) - NUMEVENTS
          /\ slot \in Slots
      BY <1>3, <2>1, RingIndex
    <2>3. /\ FreeSlot = IF fevent + nevents < NUMEVENTS THEN fevent + nevents ELSE fevent + nevents - NUMEVENTS
          /\ FreeSlot \in Slots
      BY <1>3, <2>1, RingIndex, FreeSlotIndex
    <2>5. Queued'[i] = events'[slot]
      BY <1>q
    <2> HIDE DEF slot
    <2>4. CASE i = nevents + 1
      <3>1. slot = FreeSlot
        BY <1>3, <2>2, <2>3, <2>4
      <3>2. events'[slot] = e
        BY <1>2, <1>3, <2>3, <3>1
      <3>3. Append(Queued, e)[i] = e
        BY <1>1, <1>3, <2>4, QueuedType DEF QueuedOK
      <3> QED
        BY <2>5, <3>2, <3>3
    <2>6. CASE i # nevents + 1
      <3>1. i \in 1 .. nevents /\ slot # FreeSlot
        BY <1>3, <2>2, <2>3, <2>6 DEF Slots
      <3>2. events'[slot] = events[slot]
        BY <1>2, <1>3, <2>2, <3>1
      <3>3. Append(Queued, e)[i] = Queued[i]
        BY <1>1, <3>1, QueuedType DEF QueuedOK
      <3>4. Queued[i] = events[slot]
        BY <3>1, QueuedType DEF slot, QueuedOK
      <3> QED
        BY <2>5, <3>2, <3>3, <3>4
    <2> QED
      BY <2>4, <2>6
  <1> QED
    BY <1>t, <1>q, <1>4, SameSeq

(* do_event takes the oldest event. *)
LEMMA DoEventTakes ==
  ASSUME TypeOK, TypeOK', DoEvent, nevents # 0
  PROVE  Queued # <<>> /\ taken' = Head(Queued) /\ Queued' = Tail(Queued)
  <1>1. /\ nevents \in Nat \ {0} /\ nevents <= NUMEVENTS /\ fevent \in Slots /\ NUMEVENTS \in Nat \ {0}
        /\ events \in [Slots -> Item]
    BY KernelAssumption DEF TypeOK
  <1>2. /\ fevent' = (fevent + 1) % NUMEVENTS /\ nevents' = nevents - 1 /\ events' = events
        /\ taken' = events[fevent]
    BY DEF DoEvent, NextSlot
  <1>3. Queued # <<>> /\ Head(Queued) = Queued[1]
    BY <1>1, QueuedType DEF QueuedOK
  <1>4. Queued[1] = events[fevent]
    <2>1. 0 \in 0 .. NUMEVENTS /\ 1 \in 1 .. nevents /\ fevent + 0 = fevent /\ fevent < NUMEVENTS
      BY <1>1 DEF Slots
    <2>2. (fevent + 0) % NUMEVENTS = fevent
      BY <1>1, <2>1, RingIndex
    <2>3. Queued[1] = events[(fevent + (1 - 1)) % NUMEVENTS]
      BY <2>1, QueuedType DEF QueuedOK
    <2> QED
      BY <2>2, <2>3
  <1>p. QueuedOK'
    BY QueuedType, PTL
  <1>t. /\ Tail(Queued) \in Seq(Item) /\ Len(Tail(Queued)) = nevents - 1
        /\ \A i \in 1 .. nevents - 1 : Tail(Queued)[i] = Queued[i + 1]
    BY <1>1, <1>3, QueuedType DEF QueuedOK
  <1>q. /\ Queued' \in Seq(Item) /\ Len(Queued') = nevents'
        /\ \A i \in 1 .. nevents' : Queued'[i] = events'[(fevent' + (i - 1)) % NUMEVENTS]
    BY <1>p DEF QueuedOK
  <1>5. \A i \in 1 .. nevents - 1 : Queued'[i] = Tail(Queued)[i]
    <2> SUFFICES ASSUME NEW i \in 1 .. nevents - 1
                 PROVE  Queued'[i] = Tail(Queued)[i]
      OBVIOUS
    <2>1. i \in Nat /\ i \in 0 .. NUMEVENTS /\ i - 1 \in 0 .. NUMEVENTS /\ 1 \in 0 .. NUMEVENTS
          /\ i + 1 \in 1 .. nevents /\ i + 1 - 1 = i
      BY <1>1
    <2>2. fevent' \in Slots
      BY DEF TypeOK
    <2>3. /\ fevent' = IF fevent + 1 < NUMEVENTS THEN fevent + 1 ELSE fevent + 1 - NUMEVENTS
          /\ (fevent + i) % NUMEVENTS = IF fevent + i < NUMEVENTS THEN fevent + i ELSE fevent + i - NUMEVENTS
          /\ (fevent' + (i - 1)) % NUMEVENTS = IF fevent' + (i - 1) < NUMEVENTS THEN fevent' + (i - 1)
                                                ELSE fevent' + (i - 1) - NUMEVENTS
      BY <1>1, <1>2, <2>1, <2>2, RingIndex
    <2>4. (fevent' + (i - 1)) % NUMEVENTS = (fevent + i) % NUMEVENTS
      BY <1>1, <2>1, <2>2, <2>3 DEF Slots
    <2>5. Queued[i + 1] = events[(fevent + i) % NUMEVENTS]
      BY <2>1, QueuedType DEF QueuedOK
    <2>6. Queued'[i] = events[(fevent' + (i - 1)) % NUMEVENTS]
      BY <1>2, <1>q
    <2> QED
      BY <1>t, <2>4, <2>5, <2>6
  <1>6. Queued' = Tail(Queued)
    BY <1>2, <1>t, <1>q, <1>5, SameSeq
  <1> QED
    BY <1>2, <1>3, <1>4, <1>6

LEMMA QueueStutters ==
  ASSUME UNCHANGED ringVars
  PROVE  Queued' = Queued
  BY DEF ringVars, Queued

LEMMA QueueInit == Init => Queue!Init
  <1> SUFFICES ASSUME Init PROVE Queued = <<>> /\ taken = NULL
    BY DEF Queue!Init
  <1>1. nevents = 0 /\ taken = NULL
    BY DEF Init
  <1> QED
    BY <1>1 DEF Queued

LEMMA QueueNext == TypeOK /\ TypeOK' /\ [Next]_vars => [Queue!Next]_(Queue!vars)
  <1> SUFFICES ASSUME TypeOK, TypeOK', [Next]_vars PROVE [Queue!Next]_(Queue!vars)
    OBVIOUS
  <1>s. ASSUME UNCHANGED queueVars PROVE [Queue!Next]_(Queue!vars)
    BY <1>s, QueueStutters DEF queueVars, Queue!vars
  <1>1. CASE Post
    <2>1. PICK p \in Pointer, ev \in Ev : ProcessPost(p, ev)
      BY <1>1 DEF Post
    <2>2. ev \in Event /\ [p |-> p, ev |-> ev] \in Item /\ UNCHANGED taken
      BY <1>1 DEF Post, Event, Item
    <2>3. CASE nevents = NUMEVENTS
      BY <1>s, <2>1, <2>2, <2>3 DEF ProcessPost, queueVars
    <2>4. CASE nevents # NUMEVENTS
      <3>1. nevents < NUMEVENTS /\ Len(Queued) < NUMEVENTS
        BY <2>4, KernelAssumption, QueuedType DEF TypeOK, QueuedOK
      <3>2. Queued' = Append(Queued, [p |-> p, ev |-> ev])
        BY <2>1, <2>2, <3>1, PostAppends
      <3> QED
        BY <2>2, <3>1, <3>2 DEF Queue!Next, Queue!Post
    <2> QED
      BY <2>3, <2>4
  <1>2. CASE DoEvent
    <2>1. CASE nevents = 0
      BY <1>2, <1>s, <2>1 DEF DoEvent
    <2>2. CASE nevents # 0
      BY <1>2, <2>2, DoEventTakes DEF Queue!Next, Queue!Take
    <2> QED
      BY <2>1, <2>2
  <1>3. CASE Boot \/ RunPoll \/ MainPoll \/ PollVisit \/ BroadcastVisit \/ BroadcastCall
    BY <1>3, <1>s DEF Boot, RunPoll, MainPoll, PollVisit, BroadcastVisit, BroadcastCall
  <1>4. CASE ExitTell \/ ExitFinish \/ SynchReturn \/ Poll \/ Synch \/ Start \/ Exit \/ Yield \/ End
    BY <1>4, <1>s DEF ExitTell, ExitFinish, SynchReturn, Poll, Synch, Start, Exit, Yield, End
  <1>5. CASE UNCHANGED vars
    BY <1>5, <1>s DEF vars
  <1> QED
    BY <1>1, <1>2, <1>3, <1>4, <1>5 DEF Next, Kernel, ThreadStep

(* process_post and do_event implement a bounded first-in first-out queue: *)
(* for every NUMEVENTS up to half the range of the index type, no accepted *)
(* event is lost, repeated or overtaken when the ring wraps around.        *)
THEOREM RingImplementsQueue == Spec => QueueSpec
  <1>1. QueueSpec <=> Queue!Init /\ [][Queue!Next]_(Queue!vars)
    BY DEF QueueSpec, Queue!Spec
  <1> QED
    BY <1>1, QueueInit, TypeInit, TypeNext, QueueNext, PTL DEF Spec

-----------------------------------------------------------------------------
(* No thread runs twice at a time (NoReentry).  That is not inductive: the *)
(* invariant ReInv adds which calls may lie on which on the stack, that    *)
(* what exits is stopped, that the list ends and has no cycle, and that    *)
(* do_poll never walks on from a process that has left the list for good.  *)

(* A frame of p's thread, and of an exit of p.                             *)
ThreadOf(f, p) == f.fn = "thread" /\ f.p = p
ExitOf(f, p) == f.fn = "exit" /\ f.p = p

(* A process has one thread and one exit on the stack at most.             *)
OneOfEach(s) ==
  /\ \A i, j \in 1 .. Len(s) :
       s[i].fn = "thread" /\ s[j].fn = "thread" /\ s[i].p = s[j].p => i = j
  /\ \A i, j \in 1 .. Len(s) :
       s[i].fn = "exit" /\ s[j].fn = "exit" /\ s[i].p = s[j].p => i = j

(* CALLED is the process whose thread call_process is running.             *)
Called(s, st) ==
  \A p \in Proc : st[p] = "CALLED" <=>
    \E i \in 1 .. Len(s) : s[i].fn = "thread" /\ s[i].p = p /\ ~ s[i].direct

(* A process that exits is still listed, and has been stopped.             *)
Exits(s, l, st) ==
  \A i \in 1 .. Len(s) : s[i].fn = "exit" => s[i].p \in l /\ st[s[i].p] = "NONE"

(* A thread that exit_process runs itself lies on that exit.               *)
Directs(s) ==
  \A i \in 1 .. Len(s) : s[i].fn = "thread" /\ s[i].direct =>
    i > 1 /\ s[i - 1].fn = "exit" /\ s[i - 1].p = s[i].p

(* do_event lies on nothing, do_poll on nothing or on do_event; above      *)
(* do_poll is a call of the process that it visits.                        *)
Loops(s) ==
  \A i \in 1 .. Len(s) :
    /\ s[i].fn = "do_event" => i = 1
    /\ s[i].fn = "do_poll" =>
         /\ i = 1 \/ (i = 2 /\ s[1].fn = "do_event")
         /\ i < Len(s) => /\ s[i + 1].fn \in {"thread", "exit"}
                          /\ s[i + 1].p = s[i].last

(* The stack s, with the list l and the states st.                         *)
Stacked(s, l, st) ==
  /\ OneOfEach(s) /\ Called(s, st) /\ Exits(s, l, st) /\ Directs(s) /\ Loops(s)
  /\ \A p \in Proc : st[p] # "NONE" => p \in l

Status == {"NONE", "RUNNING", "CALLED"}

(* call_process keeps all that, wherever it is called from. *)
LEMMA CallStacked ==
  ASSUME NEW s \in Seq(Frame), NEW l \in SUBSET Proc, NEW st \in [Proc -> Status],
         Stacked(s, l, st), NEW p \in Proc, NEW ev,
         Len(s) > 0 /\ s[Len(s)].fn = "do_poll" => s[Len(s)].last = p,
         CallProcess(s, st, p, ev)
  PROVE  Stacked(stack', l, state')
<1>1. CASE st[p] # "RUNNING"
  BY <1>1 DEF CallProcess
<1>2. CASE st[p] = "RUNNING"
  <2> DEFINE f == Thread(p, ev, FALSE)
             n == Len(s)
  <2>1. /\ stack' = Append(s, f) /\ state' = [st EXCEPT ![p] = "CALLED"]
        /\ f.fn = "thread" /\ f.p = p /\ f.direct = FALSE
    BY <1>2 DEF CallProcess, Thread
  <2>2. n \in Nat  OBVIOUS
  <2> HIDE DEF f
  <2>3. /\ Len(stack') = n + 1 /\ stack'[n + 1] = f
        /\ \A i \in 1 .. n : stack'[i] = s[i]
    BY <2>1
  <2>4. \A i \in 1 .. n : ~ ThreadOf(s[i], p) /\ ~ ExitOf(s[i], p)
    <3>1. \A i \in 1 .. n : ~ ExitOf(s[i], p)  BY <1>2 DEF Stacked, Exits, ExitOf
    <3>2. ASSUME NEW i \in 1 .. n, ThreadOf(s[i], p) PROVE FALSE
      <4>1. CASE s[i].direct
        <5>1. i - 1 \in 1 .. n /\ ExitOf(s[i - 1], p)
          BY <2>2, <3>2, <4>1 DEF Stacked, Directs, ThreadOf, ExitOf
        <5> QED  BY <3>1, <5>1
      <4>2. CASE ~ s[i].direct
        BY <1>2, <3>2, <4>2 DEF Stacked, Called, ThreadOf
      <4> QED  BY <4>1, <4>2
    <3> QED  BY <3>1, <3>2
  <2> HIDE DEF n
  <2>5. OneOfEach(stack')
    BY <2>1, <2>2, <2>3, <2>4 DEF Stacked, OneOfEach, ThreadOf, n
  <2>6. Called(stack', state')
    BY <2>1, <2>2, <2>3, <2>4 DEF Stacked, Called, ThreadOf, n
  <2>7. Exits(stack', l, state')
    BY <2>1, <2>2, <2>3, <2>4 DEF Stacked, Exits, ExitOf, n
  <2>8. Directs(stack')
    BY <2>1, <2>2, <2>3 DEF Stacked, Directs, n
  <2>9. Loops(stack')
    BY <2>1, <2>2, <2>3 DEF Stacked, Loops, n
  <2>10. \A q \in Proc : state'[q] # "NONE" => q \in l
    BY <1>2, <2>1 DEF Stacked
  <2> QED  BY <2>5, <2>6, <2>7, <2>8, <2>9, <2>10 DEF Stacked
<1> QED  BY <1>1, <1>2

(* The other ways in which a stack grows, changes and shrinks.             *)
(* So do the other calls.                                                  *)
LEMMA PushStacked ==
  ASSUME NEW s \in Seq(Frame), NEW l \in SUBSET Proc, NEW st \in [Proc -> Status],
         Stacked(s, l, st), NEW f,
         Len(s) > 0 /\ s[Len(s)].fn = "do_poll" =>
           f.fn \in {"thread", "exit"} /\ f.p = s[Len(s)].last,
         f.fn = "do_event" => ~ Len(s) > 0,
         f.fn = "do_poll" => ~ Len(s) > 0,
         f.fn = "exit" => /\ f.p \in l /\ st[f.p] = "NONE"
                          /\ \A i \in 1 .. Len(s) : ~ ExitOf(s[i], f.p),
         f.fn = "thread" => /\ f.direct /\ Len(s) > 0 /\ ExitOf(s[Len(s)], f.p)
                            /\ \A i \in 1 .. Len(s) : ~ ThreadOf(s[i], f.p)
  PROVE  Stacked(Append(s, f), l, st)
<1> DEFINE n == Len(s)
           t == Append(s, f)
<1>1. n \in Nat /\ Len(t) = n + 1 /\ t[n + 1] = f /\ \A i \in 1 .. n : t[i] = s[i]
  OBVIOUS
<1> HIDE DEF t, n
<1>9. /\ \A i \in 1 .. n : f.fn = "exit" => ~ ExitOf(s[i], f.p)
      /\ \A i \in 1 .. n : f.fn = "thread" => ~ ThreadOf(s[i], f.p)
      /\ \A i \in 1 .. n + 1 : i \in 1 .. n \/ i = n + 1
  BY <1>1 DEF n
<1>2. OneOfEach(t)
  <2>1. OneOfEach(s)  BY DEF Stacked
  <2> QED  BY <1>1, <1>9, <2>1 DEF OneOfEach, ThreadOf, ExitOf, n
<1>3. Called(t, st)  BY <1>1 DEF Stacked, Called, n
<1>4. Exits(t, l, st)  BY <1>1 DEF Stacked, Exits, n
<1>5. Directs(t)  BY <1>1 DEF Stacked, Directs, ExitOf, n
<1>7. ~ n > 0 => n = 0  BY <1>1
<1>8. /\ n > 0 /\ s[n].fn = "do_poll" => f.fn \in {"thread", "exit"} /\ f.p = s[n].last
      /\ f.fn = "do_event" => n = 0
      /\ f.fn = "do_poll" => n = 0
  BY <1>7 DEF n
<1>6. Loops(t)  BY <1>1, <1>8 DEF Stacked, Loops, n
<1> QED  BY <1>2, <1>3, <1>4, <1>5, <1>6 DEF Stacked, t

(* do_poll may be called from do_event.                                    *)
LEMMA PollStacked ==
  ASSUME NEW s \in Seq(Frame), NEW l, NEW st, Stacked(s, l, st),
         Len(s) > 0, Len(s) < 2, s[1].fn = "do_event", NEW f, f.fn = "do_poll"
  PROVE  Stacked(Append(s, f), l, st)
<1> DEFINE t == Append(s, f)
           n == Len(s)
<1>1. n \in Nat /\ Len(t) = n + 1 /\ t[n + 1] = f /\ \A i \in 1 .. n : t[i] = s[i]
  OBVIOUS
<1>a. n > 0 /\ n < 2  OBVIOUS
<1> HIDE DEF t, n
<1>2. n = 1  BY <1>1, <1>a
<1>3. /\ Len(t) = 2 /\ t[2] = f /\ t[1] = s[1]
      /\ \A i \in 1 .. Len(t) : t[i].fn \in {"do_event", "do_poll"}
  <2>1. Len(t) = 2 /\ t[2] = f /\ 1 \in 1 .. n  BY <1>1, <1>2
  <2>2. t[1] = s[1]  BY <1>1, <2>1
  <2>3. \A i \in 1 .. 2 : i = 1 \/ i = 2  OBVIOUS
  <2>4. t[1].fn = "do_event" /\ t[2].fn = "do_poll"  BY <2>1, <2>2
  <2> HIDE DEF t
  <2> QED  BY <2>1, <2>2, <2>3, <2>4
<1>4. \A i \in 1 .. n : s[i].fn = "do_event"  BY <1>2
<1>5. Loops(t)  BY <1>3 DEF Loops
<1>6. Called(t, st)  BY <1>3, <1>4 DEF Stacked, Called, n
<1>7. OneOfEach(t) /\ Exits(t, l, st) /\ Directs(t)  BY <1>3 DEF OneOfEach, Exits, Directs
<1> QED  BY <1>5, <1>6, <1>7 DEF Stacked, t

(* A call that goes on with other local variables changes nothing of it.   *)
LEMMA ReplaceStacked ==
  ASSUME NEW s \in Seq(Frame), NEW l \in SUBSET Proc, NEW st \in [Proc -> Status],
         Stacked(s, l, st), Len(s) > 0, NEW f, f.fn = s[Len(s)].fn,
         f.fn \in {"thread", "exit"} => f.p = s[Len(s)].p,
         f.fn = "thread" => (f.direct <=> s[Len(s)].direct)
  PROVE  Stacked([s EXCEPT ![Len(s)] = f], l, st)
<1> DEFINE n == Len(s)
           t == [s EXCEPT ![n] = f]
<1>1. n \in Nat \ {0} /\ Len(t) = n /\ t[n] = f /\ \A i \in 1 .. n : i # n => t[i] = s[i]
  OBVIOUS
<1> HIDE DEF t, n
<1>a. /\ f.fn = s[n].fn
      /\ f.fn \in {"thread", "exit"} => f.p = s[n].p
      /\ f.fn = "thread" => (f.direct <=> s[n].direct)
  BY DEF n
<1>b. ASSUME NEW i \in 1 .. n
      PROVE  /\ t[i].fn = s[i].fn
             /\ t[i].fn \in {"thread", "exit"} => t[i].p = s[i].p
             /\ t[i].fn = "thread" => (t[i].direct <=> s[i].direct)
  BY <1>1, <1>a
<1>2. OneOfEach(t)  BY <1>1, <1>b DEF Stacked, OneOfEach, n
<1>3. Called(t, st)  BY <1>1, <1>b DEF Stacked, Called, n
<1>4. Exits(t, l, st)  BY <1>1, <1>b DEF Stacked, Exits, n
<1>5. Directs(t)
  <2> SUFFICES ASSUME NEW i \in 1 .. n, t[i].fn = "thread", t[i].direct
               PROVE  i > 1 /\ t[i - 1].fn = "exit" /\ t[i - 1].p = t[i].p
    BY <1>1 DEF Directs
  <2>1. s[i].fn = "thread" /\ s[i].direct /\ s[i].p = t[i].p  BY <1>b
  <2>2. i > 1 /\ s[i - 1].fn = "exit" /\ s[i - 1].p = s[i].p
    BY <2>1 DEF Stacked, Directs, n
  <2>3. i - 1 \in 1 .. n  BY <1>1, <2>2
  <2> QED  BY <1>b, <2>1, <2>2, <2>3
<1>6. Loops(t)
  <2> SUFFICES ASSUME NEW i \in 1 .. n
               PROVE  /\ t[i].fn = "do_event" => i = 1
                      /\ t[i].fn = "do_poll" =>
                           /\ i = 1 \/ (i = 2 /\ t[1].fn = "do_event")
                           /\ i < n => /\ t[i + 1].fn \in {"thread", "exit"}
                                       /\ t[i + 1].p = t[i].last
    BY <1>1 DEF Loops
  <2>1. 1 \in 1 .. n  BY <1>1
  <2>2. i < n => i + 1 \in 1 .. n /\ t[i] = s[i]  BY <1>1
  <2>3. /\ s[i].fn = "do_event" => i = 1
        /\ s[i].fn = "do_poll" =>
             /\ i = 1 \/ (i = 2 /\ s[1].fn = "do_event")
             /\ i < n => s[i + 1].fn \in {"thread", "exit"} /\ s[i + 1].p = s[i].last
    BY DEF Stacked, Loops, n
  <2>4. t[i].fn = s[i].fn /\ t[1].fn = s[1].fn  BY <1>b, <2>1
  <2>5. i < n => /\ t[i + 1].fn = s[i + 1].fn
                 /\ t[i + 1].fn \in {"thread", "exit"} => t[i + 1].p = s[i + 1].p
    BY <1>b, <2>2
  <2> QED  BY <2>2, <2>3, <2>4, <2>5
<1> QED  BY <1>2, <1>3, <1>4, <1>5, <1>6 DEF Stacked, t, n

(* The stack without its innermost call.                                   *)
LEMMA PopFacts ==
  ASSUME NEW s \in Seq(Frame), Len(s) > 0
  PROVE  LET t == SubSeq(s, 1, Len(s) - 1)
         IN  /\ t \in Seq(Frame) /\ Len(t) = Len(s) - 1
             /\ \A i \in 1 .. Len(t) : t[i] = s[i] /\ i \in 1 .. Len(s) /\ i # Len(s)
<1> DEFINE t == SubSeq(s, 1, Len(s) - 1)
<1>1. Len(s) \in Nat \ {0} /\ Len(s) - 1 \in Nat  OBVIOUS
<1> DEFINE m == Len(s) - 1
<1>2. \A i \in 1 .. m : s[i] \in Frame  BY <1>1
<1>3. m \in Int /\ 1 \in Int /\ m >= 0 /\ \A i \in 1 .. m : 1 + i - 1 = i /\ m - 1 + 1 = m  BY <1>1
<1>5. /\ t \in Seq(Frame) /\ Len(t) = (IF 1 <= m THEN m - 1 + 1 ELSE 0)
      /\ \A i \in 1 .. m - 1 + 1 : t[i] = s[1 + i - 1]
  <2> HIDE DEF m
  <2> QED  BY <1>2, <1>3, SubSeqProperties DEF m
<1>6. Len(t) = m /\ \A i \in 1 .. m : t[i] = s[i]  
  <2> HIDE DEF m, t
  <2> QED  BY <1>3, <1>5
<1> HIDE DEF t
<1>4. \A i \in 1 .. Len(t) : i \in 1 .. Len(s) /\ i # Len(s) /\ i \in 1 .. Len(s) - 1
  BY <1>1, <1>6
<1> QED  BY <1>5, <1>6, <1>4 DEF t

(* A call that is not a thread of call_process may return.                 *)
LEMMA PopStacked ==
  ASSUME NEW s \in Seq(Frame), NEW l \in SUBSET Proc, NEW st \in [Proc -> Status],
         Stacked(s, l, st), Len(s) > 0,
         s[Len(s)].fn = "thread" => s[Len(s)].direct
  PROVE  Stacked(SubSeq(s, 1, Len(s) - 1), l, st)
<1> DEFINE n == Len(s)
           t == SubSeq(s, 1, n - 1)
<1>1. /\ n \in Nat \ {0} /\ Len(t) = n - 1
      /\ \A i \in 1 .. Len(t) : t[i] = s[i] /\ i \in 1 .. n /\ i # n
  BY PopFacts
<1> HIDE DEF t, n
<1>2. OneOfEach(t)  BY <1>1 DEF Stacked, OneOfEach, n
<1>3. Called(t, st)
  <2> SUFFICES ASSUME NEW p \in Proc
               PROVE  st[p] = "CALLED" <=>
                        \E i \in 1 .. Len(t) : t[i].fn = "thread" /\ t[i].p = p /\ ~ t[i].direct
    BY DEF Called
  <2>1. \A i \in 1 .. n : s[i].fn = "thread" /\ ~ s[i].direct => i \in 1 .. Len(t)
    BY <1>1 DEF n
  <2> QED  BY <1>1, <2>1 DEF Stacked, Called, n
<1>4. Exits(t, l, st)  BY <1>1 DEF Stacked, Exits, n
<1>5. Directs(t)
  <2> SUFFICES ASSUME NEW i \in 1 .. Len(t), t[i].fn = "thread", t[i].direct
               PROVE  i > 1 /\ t[i - 1].fn = "exit" /\ t[i - 1].p = t[i].p
    BY DEF Directs
  <2>1. i > 1 /\ s[i - 1].fn = "exit" /\ s[i - 1].p = s[i].p
    BY <1>1 DEF Stacked, Directs, n
  <2>2. i - 1 \in 1 .. Len(t)  BY <1>1, <2>1
  <2> QED  BY <1>1, <2>1, <2>2
<1>6. Loops(t)  
  <2> SUFFICES ASSUME NEW i \in 1 .. Len(t)
               PROVE  /\ t[i].fn = "do_event" => i = 1
                      /\ t[i].fn = "do_poll" =>
                           /\ i = 1 \/ (i = 2 /\ t[1].fn = "do_event")
                           /\ i < Len(t) => /\ t[i + 1].fn \in {"thread", "exit"}
                                            /\ t[i + 1].p = t[i].last
    BY DEF Loops
  <2>1. 1 \in 1 .. Len(t) /\ i < n  BY <1>1
  <2>2. i < Len(t) => i + 1 \in 1 .. Len(t)  BY <1>1
  <2>3. /\ t[i] = s[i] /\ t[1] = s[1] /\ i \in 1 .. n
        /\ i < Len(t) => t[i + 1] = s[i + 1] /\ i < n
    BY <1>1, <2>1, <2>2
  <2>4. /\ s[i].fn = "do_event" => i = 1
        /\ s[i].fn = "do_poll" =>
             /\ i = 1 \/ (i = 2 /\ s[1].fn = "do_event")
             /\ i < n => s[i + 1].fn \in {"thread", "exit"} /\ s[i + 1].p = s[i].last
    BY <2>3 DEF Stacked, Loops, n
  <2> QED  BY <2>3, <2>4
<1> QED  BY <1>2, <1>3, <1>4, <1>5, <1>6 DEF Stacked, t, n

(* The thread of p comes back: its process may run again, or exits.        *)
LEMMA ReturnStacked ==
  ASSUME NEW s \in Seq(Frame), NEW l \in SUBSET Proc, NEW st \in [Proc -> Status],
         Stacked(s, l, st), Len(s) > 0, NEW p \in Proc,
         ThreadOf(s[Len(s)], p), ~ s[Len(s)].direct, NEW v \in {"NONE", "RUNNING"}
  PROVE  /\ Stacked(SubSeq(s, 1, Len(s) - 1), l, [st EXCEPT ![p] = v])
         /\ st[p] = "CALLED" /\ p \in l
         /\ \A i \in 1 .. Len(s) : ~ ExitOf(s[i], p)
<1> DEFINE n == Len(s)
           t == SubSeq(s, 1, n - 1)
           u == [st EXCEPT ![p] = v]
<1>1. /\ n \in Nat \ {0} /\ Len(t) = n - 1
      /\ \A i \in 1 .. Len(t) : t[i] = s[i] /\ i \in 1 .. n /\ i # n
  BY PopFacts
<1>2. u \in [Proc -> Status] /\ u[p] = v /\ \A q \in Proc \ {p} : u[q] = st[q]
  BY DEF Status
<1> HIDE DEF t, n, u
<1>3. st[p] = "CALLED" /\ p \in l  BY <1>1 DEF Stacked, Called, ThreadOf, n
<1>4. \A i \in 1 .. n : ~ ExitOf(s[i], p)  BY <1>3 DEF Stacked, Exits, ExitOf, n
<1>5. OneOfEach(t)  BY <1>1 DEF Stacked, OneOfEach, n
<1>6. Called(t, u)
  <2> SUFFICES ASSUME NEW q \in Proc
               PROVE  u[q] = "CALLED" <=>
                        \E i \in 1 .. Len(t) : t[i].fn = "thread" /\ t[i].p = q /\ ~ t[i].direct
    BY DEF Called
  <2>1. \A i \in 1 .. Len(t) : t[i].fn = "thread" => t[i].p # p
    BY <1>1 DEF Stacked, OneOfEach, ThreadOf, n
  <2>2. \A i \in 1 .. n : s[i].fn = "thread" /\ s[i].p # p => i \in 1 .. Len(t)
    BY <1>1 DEF ThreadOf, n
  <2> QED  BY <1>1, <1>2, <2>1, <2>2 DEF Stacked, Called, n
<1>7. Exits(t, l, u)
  <2>1. \A i \in 1 .. Len(t) : t[i] \in Frame  BY <1>1 DEF n
  <2>2. \A i \in 1 .. Len(t) : t[i].fn = "exit" => t[i].p \in Proc  BY <2>1, FrameTypes
  <2> QED  BY <1>1, <1>2, <1>4, <2>2 DEF Stacked, Exits, ExitOf, n
<1>8. Directs(t) /\ Loops(t)
  <2>1. \A i \in 1 .. Len(t) : /\ i - 1 < n /\ i < n /\ 1 \in 1 .. Len(t)
                               /\ i > 1 => i - 1 \in 1 .. Len(t)
                               /\ i < Len(t) => i + 1 \in 1 .. Len(t)
    BY <1>1
  <2>2. Directs(t)  BY <1>1, <2>1 DEF Stacked, Directs, n
  <2>3. Loops(t)
    <3> SUFFICES ASSUME NEW i \in 1 .. Len(t)
                 PROVE  /\ t[i].fn = "do_event" => i = 1
                        /\ t[i].fn = "do_poll" =>
                             /\ i = 1 \/ (i = 2 /\ t[1].fn = "do_event")
                             /\ i < Len(t) => /\ t[i + 1].fn \in {"thread", "exit"}
                                              /\ t[i + 1].p = t[i].last
      BY DEF Loops
    <3>1. 1 \in 1 .. Len(t) /\ i < n  BY <1>1
    <3>2. i < Len(t) => i + 1 \in 1 .. Len(t)  BY <1>1
    <3>3. /\ t[i] = s[i] /\ t[1] = s[1] /\ i \in 1 .. n
          /\ i < Len(t) => t[i + 1] = s[i + 1] /\ i < n
      BY <1>1, <3>1, <3>2
    <3>4. /\ s[i].fn = "do_event" => i = 1
          /\ s[i].fn = "do_poll" =>
               /\ i = 1 \/ (i = 2 /\ s[1].fn = "do_event")
               /\ i < n => s[i + 1].fn \in {"thread", "exit"} /\ s[i + 1].p = s[i].last
      BY <3>3 DEF Stacked, Loops, n
    <3> QED  BY <3>3, <3>4
  <2> QED  BY <2>2, <2>3
<1>9. \A q \in Proc : u[q] # "NONE" => q \in l  BY <1>2, <1>3 DEF Stacked
<1> QED  BY <1>3, <1>4, <1>5, <1>6, <1>7, <1>8, <1>9 DEF Stacked, t, n, u

(* call_process never leaves do_poll innermost.                            *)
LEMMA CallTop ==
  ASSUME NEW s \in Seq(Frame), NEW st, NEW p, NEW ev, CallProcess(s, st, p, ev),
         (Len(s) > 0 /\ s[Len(s)].fn = "do_poll") => st[p] = "RUNNING"
  PROVE  ~ (Len(stack') > 0 /\ stack'[Len(stack')].fn = "do_poll")
<1>1. CASE st[p] # "RUNNING"
  BY <1>1 DEF CallProcess
<1>2. CASE st[p] = "RUNNING"
  <2> DEFINE f == Thread(p, ev, FALSE)
  <2>1. stack' = Append(s, f) /\ f.fn = "thread"  BY <1>2 DEF CallProcess, Thread
  <2> HIDE DEF f
  <2> QED  BY <2>1
<1> QED  BY <1>1, <1>2

-----------------------------------------------------------------------------
(* The list ends, meets no process twice and none that has left it.        *)
Chained ==
  /\ head \in listed \cup {NULL}
  /\ \A q \in listed : next[q] # NULL => next[q] \in listed /\ next[q] # head
  /\ \A q, r \in listed : next[q] = next[r] /\ next[q] # NULL => q = r
  /\ \E rank \in [Proc -> Int] : \A q \in listed : next[q] # NULL => rank[q] < rank[next[q]]

(* process_start puts a process at the head of the list.                   *)
LEMMA LinkChained ==
  ASSUME TypeOK, Chained, NEW p \in Proc, p \notin listed, Link(p), listed' = listed \cup {p}
  PROVE  Chained'
<1>1. /\ head' = p /\ next' = [next EXCEPT ![p] = head] /\ next \in [Proc -> Pointer]
      /\ listed \subseteq Proc /\ NULL \notin Proc
  BY KernelAssumption DEF Link, TypeOK
<1>2. next'[p] = head /\ \A q \in listed : next'[q] = next[q]  BY <1>1
<1>3. /\ head' \in listed' \cup {NULL}
      /\ \A q \in listed' : next'[q] # NULL => next'[q] \in listed' /\ next'[q] # head'
      /\ \A q, r \in listed' : next'[q] = next'[r] /\ next'[q] # NULL => q = r
  BY <1>1, <1>2 DEF Chained
<1>4. PICK rank \in [Proc -> Int] :
        \A q \in listed : next[q] # NULL => rank[q] < rank[next[q]]
  BY DEF Chained
<1> DEFINE low == [rank EXCEPT ![p] = IF head = NULL THEN 0 ELSE rank[head] - 1]
<1>5. head # NULL => head \in listed /\ rank[head] \in Int  BY <1>1 DEF Chained
<1>6. /\ low \in [Proc -> Int] /\ \A q \in listed : low[q] = rank[q]
      /\ head # NULL => low[p] < rank[head]
  BY <1>1, <1>5
<1>7. \A q \in listed' : next'[q] # NULL => low[q] < low[next'[q]]
  <2> HIDE DEF low
  <2> QED  BY <1>1, <1>2, <1>4, <1>5, <1>6 DEF Chained
<1> HIDE DEF low
<1> QED  BY <1>3, <1>6, <1>7 DEF Chained

(* exit_process takes a process off the list; its own pointer stays, and   *)
(* leads back to the list.                                                 *)
LEMMA UnlinkChained ==
  ASSUME TypeOK, Chained, NEW p \in listed, Unlink(p), listed' = listed \ {p}
  PROVE  /\ Chained'
         /\ next'[p] = next[p] /\ next[p] \in listed' \cup {NULL}
<1>1. /\ next \in [Proc -> Pointer] /\ listed \subseteq Proc /\ NULL \notin Proc
      /\ p \in Proc
  BY KernelAssumption DEF TypeOK
<1>2. PICK rank \in [Proc -> Int] :
        \A q \in listed : next[q] # NULL => rank[q] < rank[next[q]]
  BY DEF Chained
<1>3. \A q \in listed : next[q] # NULL => next[q] \in listed /\ rank[q] \in Int /\ rank[next[q]] \in Int
  BY <1>1 DEF Chained
<1>4. next[p] # p  BY <1>1, <1>2, <1>3
<1>5. CASE p = head
  <2>1. head' = next[p] /\ next' = next  BY <1>5 DEF Unlink
  <2>2. Chained'
    BY <1>1, <1>2, <1>4, <1>5, <2>1 DEF Chained
  <2> QED  BY <1>1, <1>4, <2>1, <2>2 DEF Chained
<1>6. CASE p # head
  <2>1. /\ head' = head
        /\ next' = [q \in Proc |-> IF q \in listed /\ next[q] = p THEN next[p] ELSE next[q]]
    BY <1>6 DEF Unlink
  <2>2. \A q \in listed' : next'[q] = IF next[q] = p THEN next[p] ELSE next[q]
    BY <1>1, <2>1
  <2>3. next'[p] = next[p]  BY <1>1, <1>4, <2>1
  <2>4. /\ head' \in listed' \cup {NULL}
        /\ \A q \in listed' : next'[q] # NULL => next'[q] \in listed' /\ next'[q] # head'
        /\ \A q, r \in listed' : next'[q] = next'[r] /\ next'[q] # NULL => q = r
    BY <1>1, <1>4, <1>6, <2>1, <2>2 DEF Chained
  <2>5. \A q \in listed' : next'[q] # NULL => rank[q] < rank[next'[q]]
    <3> SUFFICES ASSUME NEW q \in listed', next'[q] # NULL
                 PROVE  rank[q] < rank[next'[q]]
      OBVIOUS
    <3>1. CASE next[q] = p
      <4>1. q \in listed /\ p # NULL /\ next'[q] = next[p] /\ next[p] # NULL  BY <1>1, <2>2, <3>1
      <4>2. rank[q] < rank[p] /\ rank[p] < rank[next[p]]  BY <1>2, <3>1, <4>1
      <4> QED  BY <1>1, <1>3, <3>1, <4>1, <4>2
    <3>2. CASE next[q] # p
      BY <1>2, <2>2, <3>2
    <3> QED  BY <3>1, <3>2
  <2>6. next[p] \in listed' \cup {NULL}  BY <1>1, <1>4 DEF Chained
  <2> QED  BY <2>3, <2>4, <2>5, <2>6 DEF Chained
<1> QED  BY <1>5, <1>6

-----------------------------------------------------------------------------
(* do_poll, when it goes on, meets a listed process or the end.            *)
PollAhead(s, l, n) ==
  Len(s) > 0 /\ s[Len(s)].fn = "do_poll" =>
    s[Len(s)].last = NULL \/ n[s[Len(s)].last] \in l \cup {NULL}

(* process_start keeps all that, from anywhere but do_poll itself.         *)
LEMMA StartStacked ==
  ASSUME TypeOK, Chained, NEW s \in Seq(Frame), Stacked(s, listed, state),
         Len(s) > 0 => s[Len(s)].fn # "do_poll",
         NEW p \in Proc, ProcessStart(s, p)
  PROVE  Stacked(stack', listed', state') /\ Chained' /\ PollAhead(stack', listed', next')
<1>1. CASE p \in listed
  <2>1. stack' = s /\ UNCHANGED <<head, next, listed, state>>  BY <1>1 DEF ProcessStart, listVars
  <2> QED  BY <2>1 DEF Chained, PollAhead
<1>2. CASE p \notin listed
  <2> DEFINE st == [state EXCEPT ![p] = "RUNNING"]
             t == Append(s, SynchFrame(current))
  <2>1. /\ Link(p) /\ listed' = listed \cup {p} /\ CallProcess(t, st, p, "INIT")
    BY <1>2 DEF ProcessStart, PostSynch
  <2>2. listed \subseteq Proc /\ state \in [Proc -> Status] /\ current \in Pointer
    BY DEF TypeOK, Status
  <2>3. /\ SynchFrame(current) \in Frame /\ SynchFrame(current).fn = "synch"
        /\ t \in Seq(Frame) /\ Len(t) = Len(s) + 1 /\ t[Len(t)] = SynchFrame(current)
    <3>1. SynchFrame(current) \in Frame /\ SynchFrame(current).fn = "synch"
      BY <2>2, SynchType DEF SynchFrame
    <3> QED  BY <3>1
  <2>4. state[p] = "NONE"  BY <1>2 DEF Stacked
  <2>5. Stacked(t, listed, state)
    <3> HIDE DEF t
    <3> QED  BY <2>2, <2>3, PushStacked DEF t
  <2> HIDE DEF t
  <2>6. st \in [Proc -> Status] /\ \A q \in Proc : st[q] = IF q = p THEN "RUNNING" ELSE state[q]
    BY <2>2 DEF Status
  <2> HIDE DEF st
  <2>7. Stacked(t, listed', st)
    <3>1. \A i \in 1 .. Len(t) : ~ ExitOf(t[i], p)
      BY <1>2, <2>5 DEF Stacked, Exits, ExitOf
    <3>2. \A i \in 1 .. Len(t) : t[i].fn = "exit" => t[i].p \in Proc
      BY <2>2, <2>5 DEF Stacked, Exits
    <3>3. Exits(t, listed', st)  BY <2>1, <2>5, <2>6, <3>1, <3>2 DEF Stacked, Exits, ExitOf
    <3>4. Called(t, st)  BY <2>4, <2>5, <2>6 DEF Stacked, Called
    <3>5. \A q \in Proc : st[q] # "NONE" => q \in listed'  BY <2>1, <2>5, <2>6 DEF Stacked
    <3> QED  BY <2>5, <3>3, <3>4, <3>5 DEF Stacked
  <2>8. listed' \in SUBSET Proc /\ "INIT" \in Event  BY <2>1, <2>2 DEF Event, KernelEv
  <2>9. Stacked(stack', listed', state')
    BY <2>1, <2>3, <2>6, <2>7, <2>8, CallStacked
  <2>10. ~ (Len(stack') > 0 /\ stack'[Len(stack')].fn = "do_poll")
    BY <2>1, <2>3, CallTop
  <2> QED  BY <1>2, <2>1, <2>9, <2>10, LinkChained DEF PollAhead
<1> QED  BY <1>1, <1>2

-----------------------------------------------------------------------------
(* Threads post only events of their own, so none in the queue is an INIT. *)
QueueOwn == \A i \in 1 .. nevents : Queued[i].ev \in Ev

(* The inductive invariant.                                                *)
ReInv ==
  /\ TypeOK /\ Stacked(stack, listed, state) /\ Chained
  /\ PollAhead(stack, listed, next) /\ QueueOwn

(* Every step keeps the events in the queue those of threads.              *)
LEMMA QueueOwnStep ==
  ASSUME TypeOK, TypeOK', QueueOwn, [Next]_vars
  PROVE  QueueOwn'
<1>1. ASSUME UNCHANGED queueVars PROVE QueueOwn'
  <2>1. Queued' = Queued /\ nevents' = nevents
    BY <1>1, QueueStutters DEF queueVars, ringVars
  <2> QED  BY <2>1 DEF QueueOwn
<1>2. CASE Post
  <2>1. PICK p \in Pointer, ev \in Ev : ProcessPost(p, ev)  BY <1>2 DEF Post
  <2>2. ev \in Event  BY DEF Event
  <2>3. CASE nevents = NUMEVENTS
    <3>1. UNCHANGED ringVars  BY <2>1, <2>3 DEF ProcessPost
    <3>2. Queued' = Queued /\ nevents' = nevents  BY <3>1, QueueStutters DEF ringVars
    <3> QED  BY <3>2 DEF QueueOwn
  <2>4. CASE nevents # NUMEVENTS
    <3>1. nevents < NUMEVENTS /\ nevents \in Nat  BY <2>4, KernelAssumption DEF TypeOK
    <3>2. Queued' = Append(Queued, [p |-> p, ev |-> ev])
      BY <2>1, <2>2, <3>1, PostAppends
    <3>3. nevents' = nevents + 1  BY <2>1, <2>4 DEF ProcessPost
    <3>4. Queued \in Seq(Item) /\ Len(Queued) = nevents
      BY QueuedType DEF QueuedOK
    <3>5. /\ Queued'[nevents + 1] = [p |-> p, ev |-> ev]
          /\ \A i \in 1 .. nevents : Queued'[i] = Queued[i]
      BY <3>1, <3>2, <3>4
    <3>6. \A i \in 1 .. nevents + 1 : i \in 1 .. nevents \/ i = nevents + 1  BY <3>1
    <3> QED  BY <3>3, <3>5, <3>6 DEF QueueOwn
  <2> QED  BY <2>3, <2>4
<1>3. CASE DoEvent
  <2>1. CASE nevents = 0
    BY <1>1, <1>3, <2>1 DEF DoEvent
  <2>2. CASE nevents # 0
    <3>1. Queued # <<>> /\ Queued' = Tail(Queued)  BY <1>3, <2>2, DoEventTakes
    <3>2. nevents' = nevents - 1 /\ nevents \in Nat  BY <1>3, <2>2 DEF DoEvent, TypeOK
    <3>3. Queued \in Seq(Item) /\ Len(Queued) = nevents
      BY QueuedType DEF QueuedOK
    <3>4. \A i \in 1 .. nevents - 1 : Queued'[i] = Queued[i + 1] /\ i + 1 \in 1 .. nevents
      BY <3>1, <3>2, <3>3
    <3> QED  BY <3>2, <3>4 DEF QueueOwn
  <2> QED  BY <2>1, <2>2
<1> QED
  BY <1>1, <1>2, <1>3
     DEF Next, Kernel, ThreadStep, Boot, RunPoll, MainPoll, PollVisit, BroadcastVisit,
         BroadcastCall, ExitTell, ExitFinish, SynchReturn, Poll, Synch, Start, Exit,
         Yield, End, vars

(* The start has the invariant.                                            *)
LEMMA ReInit == Init => ReInv
<1> SUFFICES ASSUME Init PROVE ReInv  OBVIOUS
<1>1. stack = <<>> /\ Len(stack) = 0 /\ head = NULL /\ listed = {} /\ nevents = 0
      /\ state = [p \in Proc |-> "NONE"]
  BY DEF Init
<1>2. Stacked(stack, listed, state)
  BY <1>1 DEF Stacked, OneOfEach, Called, Exits, Directs, Loops
<1>3. Chained
  <2>1. [p \in Proc |-> 0] \in [Proc -> Int]  OBVIOUS
  <2> QED  BY <1>1, <2>1 DEF Chained
<1> QED  BY <1>1, <1>2, <1>3, TypeInit DEF ReInv, PollAhead, QueueOwn

(* So has the stack of a thread that makes one of its calls.               *)
LEMMA SpendStacked ==
  ASSUME TypeOK, Stacked(stack, listed, state), MayCall
  PROVE  /\ Spend \in Seq(Frame) /\ Stacked(Spend, listed, state)
         /\ Len(Spend) = Depth /\ Depth \in Nat \ {0} /\ Spend[Depth].fn = "thread"
         /\ \A i \in 1 .. Depth : Spend[i].fn = stack[i].fn
         /\ \A i \in 1 .. Depth : Spend[i].fn = "exit" => Spend[i].p = stack[i].p
<1> DEFINE f == [Top EXCEPT !.left = @ - 1]
<1>1. /\ stack \in Seq(Frame) /\ Depth > 0 /\ Top.fn = "thread" /\ Top.left > 0
      /\ Top \in Frame /\ Depth \in Nat \ {0} /\ Depth = Len(stack)
  BY DEF TypeOK, MayCall, On, Top, Depth
<1>2. /\ Top.p \in Proc /\ Top.ev \in Event /\ Top.direct \in BOOLEAN
      /\ Top.left \in 0 .. MaxOps
      /\ Top = [fn |-> "thread", p |-> Top.p, ev |-> Top.ev, direct |-> Top.direct,
                left |-> Top.left]
  BY <1>1, FrameTypes
<1>3. f = [fn |-> "thread", p |-> Top.p, ev |-> Top.ev, direct |-> Top.direct,
           left |-> Top.left - 1]
  BY <1>2
<1>4. MaxOps \in Nat  BY KernelAssumption
<1>a. Top.left - 1 \in 0 .. MaxOps  BY <1>1, <1>2, <1>4
<1>5. f \in Frame
  <2>1. f \in ThreadFrames  BY <1>2, <1>3, <1>a DEF ThreadFrames
  <2> QED  BY <2>1 DEF Frame
<1>6. f.fn = "thread" /\ f.p = Top.p /\ (f.direct <=> Top.direct)  BY <1>3
<1> HIDE DEF f
<1>7. listed \in SUBSET Proc /\ state \in [Proc -> Status]  BY DEF TypeOK, Status
<1>8. Spend = [stack EXCEPT ![Len(stack)] = f]  BY DEF Spend, Replace, Depth, f
<1>9. Stacked([stack EXCEPT ![Len(stack)] = f], listed, state)
  BY <1>1, <1>6, <1>7, ReplaceStacked DEF Top
<1>10. Spend \in Seq(Frame) /\ Len(Spend) = Depth  BY <1>1, <1>5, <1>8
<1>11. Spend[Depth] = f /\ \A i \in 1 .. Depth : i # Depth => Spend[i] = stack[i]
  BY <1>1, <1>8
<1>12. Stacked(Spend, listed, state)  BY <1>8, <1>9
<1>13. ASSUME NEW i \in 1 .. Depth
       PROVE  /\ Spend[i].fn = stack[i].fn
              /\ Spend[i].fn = "exit" => Spend[i].p = stack[i].p
  BY <1>1, <1>6, <1>11 DEF Top
<1> QED  BY <1>1, <1>6, <1>10, <1>11, <1>12, <1>13

(* What lies on do_poll is a call of the process do_poll visits.           *)
LEMMA PopAhead ==
  ASSUME NEW s \in Seq(Frame), NEW l \in SUBSET Proc, NEW st, Stacked(s, l, st),
         Len(s) > 0, Len(s) - 1 > 0, s[Len(s) - 1].fn = "do_poll"
  PROVE  s[Len(s)].fn \in {"thread", "exit"} /\ s[Len(s)].p = s[Len(s) - 1].last
<1>1. Len(s) - 1 \in 1 .. Len(s) /\ Len(s) - 1 < Len(s) /\ (Len(s) - 1) + 1 = Len(s)  OBVIOUS
<1> QED  BY <1>1 DEF Stacked, Loops

(* The innermost call, and the stack without it.                           *)
LEMMA TopFacts ==
  ASSUME TypeOK, NEW fn, On(fn)
  PROVE  /\ Depth = Len(stack) /\ Len(stack) \in Nat /\ Len(stack) > 0 /\ stack \in Seq(Frame)
         /\ Top = stack[Len(stack)] /\ Top.fn = fn /\ Top \in Frame
         /\ Pop = SubSeq(stack, 1, Len(stack) - 1) /\ Pop \in Seq(Frame)
         /\ Len(Pop) = Len(stack) - 1 /\ \A i \in 1 .. Len(Pop) : Pop[i] = stack[i]
         /\ listed \in SUBSET Proc /\ state \in [Proc -> Status] /\ NULL \notin Proc
<1>1. stack \in Seq(Frame) /\ Len(stack) > 0 /\ Depth = Len(stack)
  BY DEF TypeOK, On, Depth
<1>2. /\ Pop = SubSeq(stack, 1, Len(stack) - 1) /\ Pop \in Seq(Frame)
      /\ Len(Pop) = Len(stack) - 1 /\ \A i \in 1 .. Len(Pop) : Pop[i] = stack[i]
  BY <1>1, PopFacts DEF Pop
<1>3. Top = stack[Len(stack)] /\ Top.fn = fn /\ Top \in Frame  BY <1>1 DEF Top, On
<1> QED  BY <1>1, <1>2, <1>3, KernelAssumption DEF TypeOK, Status

(* ReplaceStacked, for the stack of the kernel.                            *)
LEMMA Replaced ==
  ASSUME TypeOK, Stacked(stack, listed, state), NEW fn, On(fn), NEW f \in Frame, f.fn = fn,
         fn \in {"thread", "exit"} => f.p = Top.p,
         fn = "thread" => (f.direct <=> Top.direct)
  PROVE  /\ Replace(f) \in Seq(Frame) /\ Stacked(Replace(f), listed, state)
         /\ Len(Replace(f)) = Depth /\ Replace(f)[Depth] = f
         /\ \A i \in 1 .. Depth : i # Depth => Replace(f)[i] = stack[i]
<1>1. /\ stack \in Seq(Frame) /\ Len(stack) > 0 /\ Depth = Len(stack)
      /\ Top = stack[Len(stack)] /\ Top.fn = fn
      /\ listed \in SUBSET Proc /\ state \in [Proc -> Status]
  BY TopFacts
<1>2. Replace(f) = [stack EXCEPT ![Len(stack)] = f]  BY <1>1 DEF Replace
<1>3. Stacked([stack EXCEPT ![Len(stack)] = f], listed, state)
  BY <1>1, ReplaceStacked
<1> QED  BY <1>1, <1>2, <1>3

(* What the steps below are to keep.                                       *)
Kept == Stacked(stack', listed', state') /\ Chained' /\ PollAhead(stack', listed', next')

(* A step that leaves the list alone keeps it as it is to be.              *)
LEMMA ChainKept ==
  ASSUME Chained, UNCHANGED listVars
  PROVE  Chained' /\ listed' = listed /\ next' = next
BY DEF Chained, listVars

(* A visit of do_poll: the process it calls is not called already, for     *)
(* only do_event may lie below.                                            *)
LEMMA PollVisitKept == ASSUME ReInv, PollVisit PROVE Kept
<1> DEFINE q == After(Top.last)
<1>1. TypeOK /\ Stacked(stack, listed, state) /\ Chained /\ PollAhead(stack, listed, next)
  BY DEF ReInv
<1>2. On("do_poll") /\ UNCHANGED listVars  BY DEF PollVisit
<1>3. Chained' /\ listed' = listed /\ next' = next  BY <1>1, <1>2, ChainKept
<1>t. /\ Depth = Len(stack) /\ Len(stack) \in Nat /\ Len(stack) > 0 /\ stack \in Seq(Frame)
      /\ Top = stack[Len(stack)] /\ Top.fn = "do_poll" /\ Top \in Frame
      /\ Pop = SubSeq(stack, 1, Len(stack) - 1) /\ Pop \in Seq(Frame)
      /\ Len(Pop) = Len(stack) - 1 /\ \A i \in 1 .. Len(Pop) : Pop[i] = stack[i]
      /\ listed \in SUBSET Proc /\ state \in [Proc -> Status] /\ NULL \notin Proc
  BY <1>1, <1>2, TopFacts
<1>4. q \in listed \cup {NULL}
  BY <1>1, <1>t DEF After, Chained, PollAhead
<1>5. \A i \in 1 .. Len(stack) : stack[i].fn \in {"do_event", "do_poll"}
  <2>1. Len(stack) = 1 \/ (Len(stack) = 2 /\ stack[1].fn = "do_event")
    BY <1>1, <1>t DEF Stacked, Loops
  <2>2. \A i \in 1 .. Len(stack) : i = Len(stack) \/ (i = 1 /\ Len(stack) = 2)  BY <1>t, <2>1
  <2> QED  BY <1>t, <2>1, <2>2
<1> HIDE DEF q
<1>6. CASE q = NULL
  <2>1. stack' = Pop /\ state' = state  BY <1>6 DEF PollVisit, EndOfPolls, q
  <2>2. Stacked(Pop, listed, state)  BY <1>1, <1>t, PopStacked
  <2>3. ~ (Len(Pop) > 0 /\ Pop[Len(Pop)].fn = "do_poll")
    <3> SUFFICES ASSUME Len(Pop) > 0, Pop[Len(Pop)].fn = "do_poll" PROVE FALSE
      OBVIOUS
    <3>1. Len(stack) - 1 > 0 /\ stack[Len(stack) - 1].fn = "do_poll"  BY <1>t
    <3>2. stack[Len(stack)].fn \in {"thread", "exit"}  BY <1>1, <1>t, <3>1, PopAhead
    <3> QED  BY <1>t, <3>2
  <2> QED  BY <1>3, <2>1, <2>2, <2>3 DEF Kept, PollAhead
<1>7. CASE q # NULL
  <2> DEFINE f == PollFrame(q)
             s == Replace(f)
  <2>1. q \in listed /\ q \in Proc  BY <1>4, <1>7, <1>t
  <2>2. f \in Frame /\ f.fn = "do_poll" /\ f.last = q  BY <2>1 DEF PollFrame, Frame, Pointer
  <2> HIDE DEF f
  <2>3. /\ s \in Seq(Frame) /\ Stacked(s, listed, state) /\ Len(s) = Len(stack)
        /\ s[Len(s)] = f /\ \A i \in 1 .. Len(s) : i # Len(s) => s[i] = stack[i]
    BY <1>1, <1>2, <1>t, <2>2, Replaced
  <2> HIDE DEF s
  <2>4. CASE ~ needspoll[q]
    <3>1. stack' = s /\ state' = state  BY <1>7, <2>4 DEF PollVisit, q, s, f
    <3>2. next[q] \in listed \cup {NULL}  BY <1>1, <2>1 DEF Chained
    <3> QED  BY <1>3, <2>2, <2>3, <3>1, <3>2 DEF Kept, PollAhead
  <2>5. CASE needspoll[q]
    <3> DEFINE u == [state EXCEPT ![q] = "RUNNING"]
    <3>1. CallProcess(s, u, q, "POLL")  BY <1>7, <2>5 DEF PollVisit, q, s, f
    <3>2. u \in [Proc -> Status] /\ \A r \in Proc : u[r] = IF r = q THEN "RUNNING" ELSE state[r]
      BY <1>t, <2>1 DEF Status
    <3> HIDE DEF u
    <3>3. \A i \in 1 .. Len(s) : s[i].fn \in {"do_event", "do_poll"}
      BY <1>5, <2>2, <2>3
    <3>4. Called(s, u)
      <4>1. \A r \in Proc : state[r] # "CALLED"  BY <2>3, <3>3 DEF Stacked, Called
      <4> QED  BY <3>2, <3>3, <4>1 DEF Called
    <3>5. Exits(s, listed, u)  BY <3>3 DEF Exits
    <3>6. \A r \in Proc : u[r] # "NONE" => r \in listed  BY <2>1, <2>3, <3>2 DEF Stacked
    <3>7. Stacked(s, listed, u)  BY <2>3, <3>4, <3>5, <3>6 DEF Stacked
    <3>8. Stacked(stack', listed, state')
      BY <1>t, <2>1, <2>2, <2>3, <3>1, <3>2, <3>7, CallStacked
    <3>9. ~ (Len(stack') > 0 /\ stack'[Len(stack')].fn = "do_poll")
      BY <2>1, <2>3, <3>1, <3>2, CallTop
    <3> QED  BY <1>3, <3>8, <3>9 DEF Kept, PollAhead
  <2> QED  BY <2>4, <2>5
<1> QED  BY <1>6, <1>7

(* A visit of do_event, and the polls it makes first.                      *)
LEMMA BroadcastVisitKept == ASSUME ReInv, BroadcastVisit PROVE Kept
<1> DEFINE q == After(Top.last)
<1>1. TypeOK /\ Stacked(stack, listed, state) /\ Chained
  BY DEF ReInv
<1>2. On("do_event") /\ UNCHANGED listVars /\ state' = state  BY DEF BroadcastVisit
<1>3. Chained' /\ listed' = listed /\ next' = next  BY <1>1, <1>2, ChainKept
<1>t. /\ Depth = Len(stack) /\ Len(stack) \in Nat /\ Len(stack) > 0 /\ stack \in Seq(Frame)
      /\ Top = stack[Len(stack)] /\ Top.fn = "do_event" /\ Top \in Frame
      /\ Pop = SubSeq(stack, 1, Len(stack) - 1) /\ Pop \in Seq(Frame)
      /\ Len(Pop) = Len(stack) - 1
      /\ listed \in SUBSET Proc /\ state \in [Proc -> Status] /\ NULL \notin Proc
  BY <1>1, <1>2, TopFacts
<1>4. Len(stack) < 2  BY <1>1, <1>t DEF Stacked, Loops
<1>5. Top.last \in Pointer /\ Top.ev \in Event  BY <1>t, FrameTypes
<1>6. q \in Pointer  BY <1>1, <1>5 DEF After, TypeOK, Pointer
<1> HIDE DEF q
<1>7. CASE q = NULL
  <2>1. stack' = Pop  BY <1>7 DEF BroadcastVisit, q
  <2>2. Stacked(Pop, listed, state)  BY <1>1, <1>t, PopStacked
  <2>3. ~ Len(Pop) > 0  BY <1>t, <1>4
  <2> QED  BY <1>2, <1>3, <2>1, <2>2, <2>3 DEF Kept, PollAhead
<1>8. CASE q # NULL
  <2> DEFINE f == EventFrame(Top.ev, q, TRUE)
             s == Replace(f)
             g == PollFrame(NULL)
  <2>1. f \in Frame /\ f.fn = "do_event"
    BY <1>5, <1>6, <1>8 DEF EventFrame, Frame, Pointer
  <2>2. g.fn = "do_poll" /\ g.last = NULL  BY DEF PollFrame
  <2>3. stack' = s \/ stack' = Append(s, g)  BY <1>8 DEF BroadcastVisit, q
  <2> HIDE DEF f, g
  <2>4. s \in Seq(Frame) /\ Stacked(s, listed, state) /\ Len(s) = Len(stack) /\ s[1] = f
    BY <1>1, <1>2, <1>4, <1>t, <2>1, Replaced
  <2> HIDE DEF s
  <2>5. CASE stack' = s
    BY <1>2, <1>3, <1>4, <1>t, <2>1, <2>4, <2>5 DEF Kept, PollAhead
  <2>6. CASE stack' = Append(s, g)
    <3>1. Stacked(Append(s, g), listed, state)
      <4>1. Len(s) > 0 /\ Len(s) < 2 /\ s[1].fn = "do_event"
        BY <1>4, <1>t, <2>1, <2>4
      <4> QED  BY <2>2, <2>4, <4>1, PollStacked
    <3>2. Len(stack') = Len(s) + 1 /\ stack'[Len(s) + 1] = g  BY <2>4, <2>6
    <3> QED  BY <1>2, <1>3, <2>2, <2>6, <3>1, <3>2 DEF Kept, PollAhead
  <2> QED  BY <2>3, <2>5, <2>6
<1> QED  BY <1>7, <1>8

(* do_event calls the process it visits.                                   *)
LEMMA BroadcastCallKept == ASSUME ReInv, BroadcastCall PROVE Kept
<1> DEFINE q == Top.last
           f == EventFrame(Top.ev, q, FALSE)
           s == Replace(f)
<1>1. TypeOK /\ Stacked(stack, listed, state) /\ Chained
  BY DEF ReInv
<1>2. /\ On("do_event") /\ Top.polled /\ UNCHANGED listVars
      /\ CallProcess(s, state, q, Top.ev)
  BY DEF BroadcastCall
<1>3. Chained' /\ listed' = listed /\ next' = next  BY <1>1, <1>2, ChainKept
<1>t. /\ Depth = Len(stack) /\ Len(stack) > 0 /\ Top.fn = "do_event" /\ Top \in Frame
      /\ listed \in SUBSET Proc /\ state \in [Proc -> Status]
  BY <1>1, <1>2, TopFacts
<1>4. q \in Proc /\ Top.ev \in Event  BY <1>2, <1>t, FrameTypes
<1>5. f \in Frame /\ f.fn = "do_event"  BY <1>4 DEF EventFrame, Frame, Pointer
<1> HIDE DEF f, q
<1>6. s \in Seq(Frame) /\ Stacked(s, listed, state) /\ s[Len(s)] = f
  BY <1>1, <1>2, <1>t, <1>5, Replaced
<1> HIDE DEF s
<1>7. Stacked(stack', listed, state')  BY <1>2, <1>4, <1>5, <1>6, <1>t, CallStacked
<1>8. ~ (Len(stack') > 0 /\ stack'[Len(stack')].fn = "do_poll")
  BY <1>2, <1>5, <1>6, CallTop
<1> QED  BY <1>3, <1>7, <1>8 DEF Kept, PollAhead

(* exit_process calls the others, and at the end the process itself.       *)
LEMMA ExitTellKept == ASSUME ReInv, ExitTell PROVE Kept
<1> DEFINE q == After(Top.last)
           p == Top.p
<1>1. TypeOK /\ Stacked(stack, listed, state) /\ Chained
  BY DEF ReInv
<1>2. On("exit") /\ UNCHANGED listVars  BY DEF ExitTell
<1>3. Chained' /\ listed' = listed /\ next' = next  BY <1>1, <1>2, ChainKept
<1>t. /\ Depth = Len(stack) /\ Len(stack) > 0 /\ Top.fn = "exit" /\ Top \in Frame
      /\ listed \in SUBSET Proc /\ state \in [Proc -> Status] /\ NULL \notin Proc
  BY <1>1, <1>2, TopFacts
<1>4. /\ p \in Proc /\ Top.from \in Pointer /\ Top.old \in Pointer /\ Top.last \in Pointer
      /\ Top.at \in {"tell", "finish"}
      /\ Top = [fn |-> "exit", p |-> p, from |-> Top.from, old |-> Top.old, last |-> Top.last,
                at |-> Top.at]
  BY <1>t, FrameTypes
<1>5. q \in Pointer  BY <1>1, <1>4 DEF After, TypeOK, Pointer
<1> HIDE DEF q
<1>6. CASE q # NULL
  <2> DEFINE f == [Top EXCEPT !.last = q]
             s == Replace(f)
  <2>1. f = [fn |-> "exit", p |-> p, from |-> Top.from, old |-> Top.old, last |-> q, at |-> Top.at]
    BY <1>4
  <2>2. f \in Frame /\ f.fn = "exit" /\ f.p = p  BY <1>4, <1>5, <2>1 DEF Frame
  <2>3. IF q = p THEN stack' = s /\ state' = state ELSE CallProcess(s, state, q, "EXITED")
    BY <1>6 DEF ExitTell, q
  <2> HIDE DEF f
  <2>4. s \in Seq(Frame) /\ Stacked(s, listed, state) /\ s[Len(s)] = f
    BY <1>1, <1>2, <1>t, <2>2, Replaced
  <2> HIDE DEF s
  <2>5. CASE q = p
    BY <1>3, <2>2, <2>3, <2>4, <2>5 DEF Kept, PollAhead
  <2>6. CASE q # p
    <3>1. q \in Proc /\ CallProcess(s, state, q, "EXITED")  BY <1>5, <1>6, <2>3, <2>6 DEF Pointer
    <3>2. Stacked(stack', listed, state')  BY <1>t, <2>2, <2>4, <3>1, CallStacked
    <3>3. ~ (Len(stack') > 0 /\ stack'[Len(stack')].fn = "do_poll")
      BY <2>2, <2>4, <3>1, CallTop
    <3> QED  BY <1>3, <3>2, <3>3 DEF Kept, PollAhead
  <2> QED  BY <2>5, <2>6
<1>7. CASE q = NULL
  <2> DEFINE f == [Top EXCEPT !.at = "finish"]
             s == Replace(f)
             g == Thread(p, "EXIT", TRUE)
  <2>1. f = [fn |-> "exit", p |-> p, from |-> Top.from, old |-> Top.old, last |-> Top.last,
             at |-> "finish"]
    BY <1>4
  <2>2. f \in Frame /\ f.fn = "exit" /\ f.p = p  BY <1>4, <2>1 DEF Frame
  <2>3. state' = state /\ (stack' = s \/ stack' = Append(s, g))  BY <1>7 DEF ExitTell, q
  <2>4. g.fn = "thread" /\ g.p = p /\ g.direct  BY DEF Thread
  <2> HIDE DEF f, g
  <2>5. s \in Seq(Frame) /\ Stacked(s, listed, state) /\ Len(s) = Len(stack) /\ s[Len(s)] = f
    BY <1>1, <1>2, <1>t, <2>2, Replaced
  <2> HIDE DEF s
  <2>6. CASE stack' = s
    BY <1>3, <2>2, <2>3, <2>5, <2>6 DEF Kept, PollAhead
  <2>7. CASE stack' = Append(s, g)
    <3>1. Len(s) \in 1 .. Len(s) /\ ExitOf(s[Len(s)], p)  BY <1>t, <2>2, <2>5 DEF ExitOf
    <3>2. state[p] = "NONE"  BY <2>5, <3>1 DEF Stacked, Exits, ExitOf
    <3>3. ASSUME NEW i \in 1 .. Len(s), ThreadOf(s[i], p) PROVE FALSE
      <4>1. s[i].direct  BY <1>4, <2>5, <3>2, <3>3 DEF Stacked, Called, ThreadOf
      <4>2. i > 1 /\ ExitOf(s[i - 1], p)  BY <2>5, <3>3, <4>1 DEF Stacked, Directs, ThreadOf, ExitOf
      <4>3. i - 1 \in 1 .. Len(s) /\ i - 1 # Len(s)  BY <2>5, <4>2
      <4> QED  BY <2>5, <3>1, <4>2, <4>3 DEF Stacked, OneOfEach, ExitOf
    <3>4. g.fn # "exit" /\ g.fn # "do_poll" /\ g.fn # "do_event" /\ s[Len(s)].fn # "do_poll"
      BY <2>2, <2>4, <2>5
    <3>5. Stacked(Append(s, g), listed, state)
      BY <1>t, <2>4, <2>5, <3>1, <3>3, <3>4, PushStacked
    <3>6. Len(stack') = Len(s) + 1 /\ stack'[Len(s) + 1].fn = "thread"  BY <2>4, <2>5, <2>7
    <3> QED  BY <1>3, <2>3, <2>7, <3>5, <3>6 DEF Kept, PollAhead
  <2> QED  BY <2>3, <2>6, <2>7
<1> QED  BY <1>6, <1>7

(* exit_process takes the process off the list and returns; a do_poll      *)
(* below visits that very process and finds its way on.                    *)
LEMMA ExitFinishKept == ASSUME ReInv, ExitFinish PROVE Kept
<1> DEFINE p == Top.p
<1>1. TypeOK /\ Stacked(stack, listed, state) /\ Chained
  BY DEF ReInv
<1>2. /\ On("exit") /\ Unlink(p) /\ listed' = listed \ {p} /\ stack' = Pop /\ state' = state
  BY DEF ExitFinish
<1>t. /\ Len(stack) \in Nat /\ Len(stack) > 0 /\ stack \in Seq(Frame)
      /\ Top = stack[Len(stack)] /\ Top.fn = "exit" /\ Top \in Frame
      /\ Pop = SubSeq(stack, 1, Len(stack) - 1) /\ Pop \in Seq(Frame)
      /\ Len(Pop) = Len(stack) - 1 /\ \A i \in 1 .. Len(Pop) : Pop[i] = stack[i]
      /\ listed \in SUBSET Proc /\ state \in [Proc -> Status]
  BY <1>1, <1>2, TopFacts
<1>3. p \in listed /\ state[p] = "NONE"  BY <1>1, <1>t DEF Stacked, Exits
<1>4. Chained' /\ next'[p] = next[p] /\ next[p] \in listed' \cup {NULL}
  BY <1>1, <1>2, <1>3, UnlinkChained
<1>5. Stacked(Pop, listed, state)  BY <1>1, <1>t, PopStacked
<1>6. \A i \in 1 .. Len(Pop) : Pop[i].fn = "exit" => Pop[i].p # p
  <2>1. \A i \in 1 .. Len(Pop) : i \in 1 .. Len(stack) /\ i # Len(stack)  BY <1>t
  <2> QED  BY <1>1, <1>t, <2>1 DEF Stacked, OneOfEach
<1> HIDE DEF p
<1>7. Stacked(Pop, listed', state)
  <2>1. Exits(Pop, listed', state)  BY <1>2, <1>5, <1>6 DEF Stacked, Exits
  <2>2. \A q \in Proc : state[q] # "NONE" => q \in listed'  BY <1>2, <1>3, <1>5 DEF Stacked
  <2> QED  BY <1>5, <2>1, <2>2 DEF Stacked
<1>8. PollAhead(Pop, listed', next')
  <2> SUFFICES ASSUME Len(Pop) > 0, Pop[Len(Pop)].fn = "do_poll"
               PROVE  next'[Pop[Len(Pop)].last] \in listed' \cup {NULL}
    BY DEF PollAhead
  <2>1. Len(stack) - 1 > 0 /\ stack[Len(stack) - 1] = Pop[Len(Pop)]  BY <1>t
  <2>2. Top.p = Pop[Len(Pop)].last  BY <1>1, <1>t, <2>1, PopAhead
  <2> QED  BY <1>4, <2>2 DEF p
<1> QED  BY <1>2, <1>4, <1>7, <1>8 DEF Kept

(* process_post_synch returns.                                             *)
LEMMA SynchReturnKept == ASSUME ReInv, SynchReturn PROVE Kept
<1>1. TypeOK /\ Stacked(stack, listed, state) /\ Chained
  BY DEF ReInv
<1>2. On("synch") /\ stack' = Pop /\ UNCHANGED listVars /\ state' = state
  BY DEF SynchReturn
<1>3. Chained' /\ listed' = listed /\ next' = next  BY <1>1, <1>2, ChainKept
<1>t. /\ Len(stack) \in Nat /\ Len(stack) > 0 /\ stack \in Seq(Frame)
      /\ Top = stack[Len(stack)] /\ Top.fn = "synch"
      /\ Pop = SubSeq(stack, 1, Len(stack) - 1)
      /\ Len(Pop) = Len(stack) - 1 /\ \A i \in 1 .. Len(Pop) : Pop[i] = stack[i]
      /\ listed \in SUBSET Proc /\ state \in [Proc -> Status]
  BY <1>1, <1>2, TopFacts
<1>4. Stacked(Pop, listed, state)  BY <1>1, <1>t, PopStacked
<1>5. PollAhead(Pop, listed, next)
  <2> SUFFICES ASSUME Len(Pop) > 0, Pop[Len(Pop)].fn = "do_poll" PROVE FALSE
    BY DEF PollAhead
  <2>1. Len(stack) - 1 > 0 /\ stack[Len(stack) - 1].fn = "do_poll"  BY <1>t
  <2>2. stack[Len(stack)].fn \in {"thread", "exit"}  BY <1>1, <1>t, <2>1, PopAhead
  <2> QED  BY <1>t, <2>2
<1> QED  BY <1>2, <1>3, <1>4, <1>5 DEF Kept

(* A thread that exit_process called comes back to it. *)
LEMMA DirectKept ==
  ASSUME ReInv, On("thread"), Top.direct, stack' = Pop, UNCHANGED <<listVars, state>>
  PROVE  Kept
<1>1. TypeOK /\ Stacked(stack, listed, state) /\ Chained
  BY DEF ReInv
<1>3. Chained' /\ listed' = listed /\ next' = next  BY <1>1, ChainKept
<1>t. /\ Len(stack) \in Nat /\ Len(stack) > 0 /\ stack \in Seq(Frame)
      /\ Top = stack[Len(stack)] /\ Top.fn = "thread"
      /\ Pop = SubSeq(stack, 1, Len(stack) - 1)
      /\ Len(Pop) = Len(stack) - 1 /\ \A i \in 1 .. Len(Pop) : Pop[i] = stack[i]
      /\ listed \in SUBSET Proc /\ state \in [Proc -> Status]
  BY <1>1, TopFacts
<1>4. Stacked(Pop, listed, state)  BY <1>1, <1>t, PopStacked
<1>5. stack[Len(stack) - 1].fn = "exit"
  <2>1. Len(stack) \in 1 .. Len(stack)  BY <1>t
  <2> QED  BY <1>1, <1>t, <2>1 DEF Stacked, Directs
<1>6. PollAhead(Pop, listed, next)
  BY <1>t, <1>5 DEF PollAhead
<1> QED  BY <1>3, <1>4, <1>6 DEF Kept

(* A thread waits for its next event.                                      *)
LEMMA YieldKept == ASSUME ReInv, Yield PROVE Kept
<1> DEFINE p == Top.p
<1>1. TypeOK /\ Stacked(stack, listed, state) /\ Chained
  BY DEF ReInv
<1>2. On("thread") /\ stack' = Pop /\ UNCHANGED listVars
  BY DEF Yield
<1>3. Chained' /\ listed' = listed /\ next' = next  BY <1>1, <1>2, ChainKept
<1>t. /\ Len(stack) \in Nat /\ Len(stack) > 0 /\ stack \in Seq(Frame)
      /\ Top = stack[Len(stack)] /\ Top.fn = "thread" /\ Top \in Frame
      /\ Pop = SubSeq(stack, 1, Len(stack) - 1)
      /\ Len(Pop) = Len(stack) - 1 /\ \A i \in 1 .. Len(Pop) : Pop[i] = stack[i]
      /\ listed \in SUBSET Proc /\ state \in [Proc -> Status]
  BY <1>1, <1>2, TopFacts
<1>4. CASE Top.direct
  BY <1>2, <1>4, DirectKept DEF Yield
<1>5. CASE ~ Top.direct
  <2>1. state' = [state EXCEPT ![p] = "RUNNING"]  BY <1>5 DEF Yield
  <2>2. p \in Proc /\ ThreadOf(stack[Len(stack)], p)  BY <1>t, FrameTypes DEF ThreadOf
  <2> HIDE DEF p
  <2>3. Stacked(Pop, listed, state') /\ p \in listed
    BY <1>1, <1>5, <1>t, <2>1, <2>2, ReturnStacked
  <2>4. PollAhead(Pop, listed, next)
    <3> SUFFICES ASSUME Len(Pop) > 0, Pop[Len(Pop)].fn = "do_poll"
                 PROVE  next[Pop[Len(Pop)].last] \in listed \cup {NULL}
      BY DEF PollAhead
    <3>1. Len(stack) - 1 > 0 /\ stack[Len(stack) - 1] = Pop[Len(Pop)]  BY <1>t
    <3>2. Top.p = Pop[Len(Pop)].last  BY <1>1, <1>t, <3>1, PopAhead
    <3>3. next[p] \in listed \cup {NULL}  BY <1>1, <2>3 DEF Chained
    <3> QED  BY <3>2, <3>3 DEF p
  <2> QED  BY <1>2, <1>3, <2>3, <2>4 DEF Kept
<1> QED  BY <1>4, <1>5

(* A thread ends, and call_process goes on into exit_process.              *)
LEMMA EndKept == ASSUME ReInv, End PROVE Kept
<1> DEFINE p == Top.p
<1>1. TypeOK /\ Stacked(stack, listed, state) /\ Chained
  BY DEF ReInv
<1>2. On("thread") /\ UNCHANGED listVars  BY DEF End
<1>3. Chained' /\ listed' = listed /\ next' = next  BY <1>1, <1>2, ChainKept
<1>t. /\ Len(stack) \in Nat /\ Len(stack) > 0 /\ stack \in Seq(Frame)
      /\ Top = stack[Len(stack)] /\ Top.fn = "thread" /\ Top \in Frame
      /\ Pop = SubSeq(stack, 1, Len(stack) - 1) /\ Pop \in Seq(Frame)
      /\ Len(Pop) = Len(stack) - 1 /\ \A i \in 1 .. Len(Pop) : Pop[i] = stack[i]
      /\ listed \in SUBSET Proc /\ state \in [Proc -> Status]
  BY <1>1, <1>2, TopFacts
<1>4. CASE Top.direct
  BY <1>2, <1>4, DirectKept DEF End
<1>5. CASE ~ Top.direct
  <2> DEFINE u == [state EXCEPT ![p] = "NONE"]
             f == ExitFrame(p, p, current, NULL, IF state[p] = "NONE" THEN "finish" ELSE "tell")
  <2>1. ExitProcess(Pop, p, p)  BY <1>5 DEF End
  <2>2. p \in Proc /\ ThreadOf(stack[Len(stack)], p)  BY <1>t, FrameTypes DEF ThreadOf
  <2>3. Stacked(Pop, listed, u) /\ p \in listed /\ \A i \in 1 .. Len(stack) : ~ ExitOf(stack[i], p)
    <3> HIDE DEF p
    <3> QED  BY <1>1, <1>5, <1>t, <2>2, ReturnStacked
  <2>4. state' = u /\ stack' = Append(Pop, f)  BY <2>1, <2>3 DEF ExitProcess
  <2>5. f.fn = "exit" /\ f.p = p  BY DEF ExitFrame
  <2>6. u \in [Proc -> Status] /\ u[p] = "NONE"  BY <1>t, <2>2 DEF Status
  <2>7. \A i \in 1 .. Len(Pop) : ~ ExitOf(Pop[i], p)
    <3>1. \A i \in 1 .. Len(Pop) : i \in 1 .. Len(stack)  BY <1>t
    <3> QED  BY <1>t, <2>3, <3>1
  <2>8. Len(Pop) > 0 /\ Pop[Len(Pop)].fn = "do_poll" => p = Pop[Len(Pop)].last
    <3> SUFFICES ASSUME Len(Pop) > 0, Pop[Len(Pop)].fn = "do_poll"
                 PROVE  p = Pop[Len(Pop)].last
      OBVIOUS
    <3>1. Len(stack) - 1 > 0 /\ stack[Len(stack) - 1] = Pop[Len(Pop)]  BY <1>t
    <3> QED  BY <1>1, <1>t, <3>1, PopAhead
  <2> HIDE DEF p, u, f
  <2>9. Stacked(Append(Pop, f), listed, u)
    BY <1>t, <2>3, <2>5, <2>6, <2>7, <2>8, PushStacked
  <2>10. Len(stack') = Len(Pop) + 1 /\ stack'[Len(stack')].fn = "exit"
    BY <1>t, <2>4, <2>5
  <2> QED  BY <1>3, <2>4, <2>9, <2>10 DEF Kept, PollAhead
<1> QED  BY <1>4, <1>5

(* Every step keeps the parts of the invariant that are about the stack    *)
(* and the list.                                                           *)
LEMMA ReStep ==
  ASSUME ReInv, TypeOK', [Next]_vars
  PROVE  Stacked(stack', listed', state') /\ Chained' /\ PollAhead(stack', listed', next')
<1>1. /\ TypeOK /\ Stacked(stack, listed, state) /\ Chained
      /\ PollAhead(stack, listed, next) /\ QueueOwn
  BY DEF ReInv
<1>2. /\ listed \in SUBSET Proc /\ state \in [Proc -> Status] /\ stack \in Seq(Frame)
      /\ Depth = Len(stack) /\ Depth \in Nat /\ NULL \notin Proc
  BY <1>1, KernelAssumption DEF TypeOK, Status, Depth
<1>3. ASSUME UNCHANGED listVars PROVE Chained' /\ listed' = listed /\ next' = next
  BY <1>1, <1>3 DEF Chained, listVars
<1>a. ASSUME UNCHANGED <<listVars, state, stack>>
      PROVE  Stacked(stack', listed', state') /\ Chained' /\ PollAhead(stack', listed', next')
  BY <1>1, <1>3, <1>a
<1>b. ASSUME MayCall, stack' = Spend, UNCHANGED <<listVars, state>>
      PROVE  Stacked(stack', listed', state') /\ Chained' /\ PollAhead(stack', listed', next')
  BY <1>1, <1>3, <1>b, SpendStacked DEF PollAhead
<1>4. CASE Boot
  <2>1. stack = <<>> /\ ProcessStart(<<>>, BootSeq[booted + 1]) /\ booted < Len(BootSeq)
    BY <1>4 DEF Boot
  <2>2. BootSeq[booted + 1] \in Proc  BY <1>1, <2>1, KernelAssumption DEF TypeOK
  <2>3. ProcessStart(stack, BootSeq[booted + 1])
    BY <2>1 DEF ProcessStart, PostSynch, CallProcess
  <2>4. ~ Len(stack) > 0  BY <2>1
  <2> QED  BY <1>1, <1>2, <2>2, <2>3, <2>4, StartStacked
<1>5. CASE RunPoll
  <2> DEFINE f == PollFrame(NULL)
  <2>1. stack = <<>> /\ UNCHANGED <<listVars, state>> /\ (stack' = <<>> \/ stack' = <<f>>)
    BY <1>5 DEF RunPoll, InLoop
  <2>2. UNCHANGED <<listVars, state>> /\ (stack' = stack \/ stack' = Append(stack, f))
    BY <2>1
  <2>3. ~ Len(stack) > 0  BY <2>1
  <2>4. f.fn = "do_poll" /\ f.last = NULL  BY DEF PollFrame
  <2> HIDE DEF f
  <2>5. CASE stack' = stack
    BY <1>a, <2>2, <2>5
  <2>6. CASE stack' = Append(stack, f)
    <3>1. Stacked(Append(stack, f), listed, state)  BY <1>1, <1>2, <2>3, <2>4, PushStacked
    <3>2. stack' = <<f>>  BY <2>1, <2>6
    <3>3. Len(stack') = 1 /\ stack'[1] = f  BY <3>2
    <3> QED  BY <1>3, <2>2, <2>4, <2>6, <3>1, <3>3 DEF PollAhead
  <2> QED  BY <2>2, <2>5, <2>6
<1>6. CASE DoEvent
  <2>1. stack = <<>>  BY <1>6 DEF DoEvent, InLoop
  <2>2. ~ Len(stack) > 0  BY <2>1
  <2>3. UNCHANGED listVars  BY <1>6 DEF DoEvent
  <2>5. CASE nevents = 0
    BY <1>6, <1>a, <2>3, <2>5 DEF DoEvent
  <2>4. CASE nevents # 0
    <3> DEFINE e == events[fevent]
    <3>1. /\ e.ev # "INIT" /\ e \in Item
      <4>1. 1 \in 1 .. nevents /\ fevent \in 0 .. NUMEVENTS - 1 /\ NUMEVENTS \in Nat \ {0}
        BY <1>1, <2>4, KernelAssumption DEF TypeOK, Slots
      <4>2. Queued[1] = events[(fevent + (1 - 1)) % NUMEVENTS]
        BY <1>1, <4>1, QueuedType DEF QueuedOK
      <4>3. (fevent + (1 - 1)) % NUMEVENTS = fevent  BY <4>1
      <4>4. e.ev \in Ev  BY <1>1, <4>1, <4>2, <4>3 DEF QueueOwn
      <4>5. "INIT" \notin Ev  BY KernelAssumption DEF KernelEv
      <4>6. e \in Item  BY <1>1, <4>1 DEF TypeOK, Slots
      <4> QED  BY <4>4, <4>5, <4>6
    <3>2. CASE e.p = NULL
      <4> DEFINE f == EventFrame(e.ev, NULL, FALSE)
      <4>1. stack' = <<f>> /\ state' = state  BY <1>6, <2>4, <3>2 DEF DoEvent
      <4>2. stack' = Append(stack, f)  BY <2>1, <4>1
      <4>3. f.fn = "do_event"  BY DEF EventFrame
      <4> HIDE DEF e, f
      <4>4. Stacked(Append(stack, f), listed, state)  BY <1>1, <1>2, <2>2, <4>3, PushStacked
      <4>5. Len(stack') = 1 /\ stack'[1] = f  BY <4>1
      <4> QED  BY <1>3, <2>3, <4>1, <4>2, <4>3, <4>4, <4>5 DEF PollAhead
    <3>3. CASE e.p # NULL
      <4>1. CallProcess(stack, state, e.p, e.ev)
        BY <1>6, <2>1, <2>4, <3>1, <3>3 DEF DoEvent, CallProcess
      <4>2. e.p \in Proc  BY <3>1, <3>3 DEF Item, Pointer
      <4> HIDE DEF e
      <4>3. Stacked(stack', listed, state')  BY <1>1, <1>2, <2>2, <4>1, <4>2, CallStacked
      <4>4. ~ (Len(stack') > 0 /\ stack'[Len(stack')].fn = "do_poll")
        BY <1>2, <2>2, <4>1, CallTop
      <4> QED  BY <1>3, <2>3, <4>3, <4>4 DEF PollAhead
    <3> QED  BY <3>2, <3>3
  <2> QED  BY <2>5, <2>4
<1>7. CASE MainPoll
  BY <1>7, <1>a DEF MainPoll
<1>16. CASE Post
  BY <1>16, <1>b DEF Post
<1>17. CASE Poll
  BY <1>17, <1>b DEF Poll
<1>18. CASE Synch
  <2>1. MayCall /\ UNCHANGED listVars  BY <1>18 DEF Synch
  <2>2. PICK p \in Proc, ev \in Ev : CallProcess(Append(Spend, SynchFrame(current)), state, p, ev)
    BY <1>18 DEF Synch, PostSynch
  <2> DEFINE t == Append(Spend, SynchFrame(current))
  <2>3. SynchFrame(current) \in Frame /\ SynchFrame(current).fn = "synch"
    BY <1>1, SynchType DEF SynchFrame, TypeOK
  <2>4. /\ Spend \in Seq(Frame) /\ Stacked(Spend, listed, state) /\ Len(Spend) = Depth
        /\ Spend[Depth].fn = "thread"
    BY <1>1, <2>1, SpendStacked
  <2>5. Stacked(t, listed, state)  BY <1>2, <2>3, <2>4, PushStacked
  <2>6. t \in Seq(Frame) /\ Len(t) = Depth + 1 /\ t[Len(t)].fn = "synch"
    BY <1>2, <2>3, <2>4
  <2> HIDE DEF t
  <2>7. CallProcess(t, state, p, ev)  BY <2>2 DEF t
  <2>8. Stacked(stack', listed, state')  BY <1>2, <2>5, <2>6, <2>7, CallStacked
  <2>9. ~ (Len(stack') > 0 /\ stack'[Len(stack')].fn = "do_poll")  BY <2>6, <2>7, CallTop
  <2> QED  BY <1>3, <2>1, <2>8, <2>9 DEF PollAhead
<1>19. CASE Start
  <2>1. MayCall  BY <1>19 DEF Start
  <2>2. PICK p \in Starting : ProcessStart(Spend, p)  BY <1>19 DEF Start
  <2>3. p \in Proc  BY KernelAssumption
  <2> QED  BY <1>1, <1>2, <2>1, <2>2, <2>3, SpendStacked, StartStacked
<1>20. CASE Exit
  <2>1. MayCall /\ UNCHANGED listVars  BY <1>20 DEF Exit
  <2>2. PICK p \in Exiting : ~ Active(p) /\ ExitProcess(Spend, p, current)
    BY <1>20 DEF Exit
  <2>3. p \in Proc  BY KernelAssumption
  <2>4. /\ Spend \in Seq(Frame) /\ Stacked(Spend, listed, state) /\ Len(Spend) = Depth
        /\ Spend[Depth].fn = "thread" /\ Depth \in Nat \ {0}
        /\ \A i \in 1 .. Depth : Spend[i].fn = stack[i].fn
        /\ \A i \in 1 .. Depth : Spend[i].fn = "exit" => Spend[i].p = stack[i].p
    BY <1>1, <2>1, SpendStacked
  <2>5. CASE p \notin listed
    <3>1. stack' = Spend /\ state' = state  BY <2>2, <2>5 DEF ExitProcess
    <3> QED  BY <1>b, <2>1, <3>1
  <2>6. CASE p \in listed
    <3> DEFINE u == [state EXCEPT ![p] = "NONE"]
               at == IF state[p] = "NONE" THEN "finish" ELSE "tell"
    <3>1. state' = u /\ stack' = Append(Spend, ExitFrame(p, current, current, NULL, at))
      BY <2>2, <2>6 DEF ExitProcess
    <3>2. \A i \in 1 .. Depth : ~ ExitOf(Spend[i], p)
      BY <2>2, <2>4 DEF Active, ExitOf
    <3>3. state[p] # "CALLED"
      BY <1>1, <1>2, <2>2, <2>3 DEF Stacked, Called, Active
    <3>4. u \in [Proc -> Status] /\ \A q \in Proc : u[q] = IF q = p THEN "NONE" ELSE state[q]
      BY <1>2 DEF Status
    <3> HIDE DEF u, at
    <3>5. Stacked(Spend, listed, u)
      <4>1. Called(Spend, u)  BY <2>3, <2>4, <3>3, <3>4 DEF Stacked, Called
      <4>2. \A i \in 1 .. Len(Spend) : Spend[i].fn = "exit" => Spend[i].p \in Proc
        BY <1>2, <2>4 DEF Stacked, Exits
      <4>3. Exits(Spend, listed, u)  BY <2>4, <3>4, <4>2 DEF Stacked, Exits
      <4> QED  BY <2>4, <3>4, <4>1, <4>3 DEF Stacked
    <3>6. /\ u[p] = "NONE" /\ Spend[Len(Spend)].fn # "do_poll"
          /\ \A i \in 1 .. Len(Spend) : ~ ExitOf(Spend[i], p)
      BY <2>3, <2>4, <3>2, <3>4
    <3> DEFINE f == ExitFrame(p, current, current, NULL, at)
    <3>7. f.fn = "exit" /\ f.p = p  BY DEF ExitFrame
    <3>8. stack' = Append(Spend, f)  BY <3>1
    <3> HIDE DEF f
    <3>9. Stacked(Append(Spend, f), listed, u)
      BY <1>2, <2>4, <2>6, <3>4, <3>5, <3>6, <3>7, PushStacked
    <3>10. Len(stack') = Depth + 1 /\ stack'[Depth + 1].fn = "exit"
      BY <2>4, <3>7, <3>8
    <3> QED  BY <1>3, <2>1, <2>4, <3>1, <3>8, <3>9, <3>10 DEF PollAhead
  <2> QED  BY <2>5, <2>6
<1>23. CASE UNCHANGED vars
  BY <1>23, <1>a DEF vars
<1>24. CASE PollVisit \/ BroadcastVisit \/ BroadcastCall \/ ExitTell \/ ExitFinish \/ SynchReturn
             \/ Yield \/ End
  <2>1. Kept
    BY <1>24, PollVisitKept, BroadcastVisitKept, BroadcastCallKept, ExitTellKept,
       ExitFinishKept, SynchReturnKept, YieldKept, EndKept
  <2> QED  BY <2>1 DEF Kept
<1> QED
  BY <1>4, <1>5, <1>6, <1>7, <1>16, <1>17, <1>18, <1>19, <1>20, <1>23, <1>24
     DEF Next, Kernel, ThreadStep

-----------------------------------------------------------------------------
(* No thread is on the C stack twice, and a process is CALLED exactly      *)
(* while call_process runs its thread, however polls, broadcasts, starts,  *)
(* exits and synchronous posts nest (call_process and exit_process of      *)
(* process.c).                                                             *)
THEOREM NeverReentered == Spec => []NoReentry
<1>1. ReInv /\ [Next]_vars => ReInv'
  <2> SUFFICES ASSUME ReInv, [Next]_vars PROVE ReInv'
    OBVIOUS
  <2>1. TypeOK'  BY TypeNext DEF ReInv
  <2>2. QueueOwn'  BY <2>1, QueueOwnStep DEF ReInv
  <2>3. Stacked(stack', listed', state') /\ Chained' /\ PollAhead(stack', listed', next')
    BY <2>1, ReStep
  <2> QED  BY <2>1, <2>2, <2>3 DEF ReInv
<1>2. ReInv => NoReentry
  BY DEF ReInv, Stacked, OneOfEach, Called, NoReentry, Depth
<1> QED  BY ReInit, <1>1, <1>2, PTL DEF Spec

-----------------------------------------------------------------------------
(* The rest of KernelOK, and BroadcastExact.  Of the stack only the exits, *)
(* the polls and the broadcast matter: who is leaving, where the loops of  *)
(* do_poll stand, and the frames of do_event.                              *)
Frames(s, fn) == {s[i] : i \in {j \in 1 .. Len(s) : s[j].fn = fn}}
Leaving(s) == {f.p : f \in Frames(s, "exit")}
Polling(s) == {f.last : f \in Frames(s, "do_poll")}
Events(s) == Frames(s, "do_event")

(* The same loops and exits as before. *)
Same(s) == Leaving(s) = Leaving(stack) /\ Polling(s) = Polling(stack) /\ Events(s) = Events(stack)

LEMMA FramesAppend ==
  ASSUME NEW s \in Seq(Frame), NEW f \in Frame, NEW fn
  PROVE  Frames(Append(s, f), fn) = Frames(s, fn) \cup (IF f.fn = fn THEN {f} ELSE {})
<1> DEFINE t == Append(s, f)
           n == Len(s)
<1>1. /\ Len(t) = n + 1 /\ n \in Nat /\ t[n + 1] = f /\ \A i \in 1 .. n : t[i] = s[i]
  OBVIOUS
<1> HIDE DEF t
<1>2. \A i \in 1 .. n : i \in 1 .. n + 1  BY <1>1
<1>3. \A i \in 1 .. n + 1 : i \in 1 .. n \/ i = n + 1  BY <1>1
<1>4. n + 1 \in 1 .. n + 1  BY <1>1
<1>5. ASSUME NEW g \in Frames(t, fn) PROVE g \in Frames(s, fn) \cup (IF f.fn = fn THEN {f} ELSE {})
  <2>1. PICK i \in 1 .. n + 1 : g = t[i] /\ t[i].fn = fn  BY <1>1 DEF Frames
  <2>2. CASE i \in 1 .. n  BY <2>1, <2>2, <1>1 DEF Frames
  <2>3. CASE i = n + 1  BY <2>1, <2>3, <1>1
  <2> QED  BY <2>2, <2>3, <1>3
<1>6. ASSUME NEW g \in Frames(s, fn) PROVE g \in Frames(t, fn)
  <2>1. PICK i \in 1 .. n : g = s[i] /\ s[i].fn = fn  BY DEF Frames
  <2>2. i \in 1 .. Len(t) /\ t[i] = g  BY <2>1, <1>1, <1>2
  <2> QED  BY <2>1, <2>2 DEF Frames
<1>7. f.fn = fn => f \in Frames(t, fn)  BY <1>1, <1>4 DEF Frames
<1> QED  BY <1>5, <1>6, <1>7 DEF t

LEMMA MarksAppend ==
  ASSUME NEW s \in Seq(Frame), NEW f \in Frame
  PROVE  LET t == Append(s, f)
         IN  /\ Leaving(t) = Leaving(s) \cup (IF f.fn = "exit" THEN {f.p} ELSE {})
             /\ Polling(t) = Polling(s) \cup (IF f.fn = "do_poll" THEN {f.last} ELSE {})
             /\ Events(t) = Events(s) \cup (IF f.fn = "do_event" THEN {f} ELSE {})
<1>1. \A fn : Frames(Append(s, f), fn) = Frames(s, fn) \cup (IF f.fn = fn THEN {f} ELSE {})
  BY FramesAppend
<1>2. Frames(Append(s, f), "exit") = Frames(s, "exit") \cup (IF f.fn = "exit" THEN {f} ELSE {})
  BY <1>1
<1>3. Frames(Append(s, f), "do_poll") = Frames(s, "do_poll") \cup (IF f.fn = "do_poll" THEN {f} ELSE {})
  BY <1>1
<1>4. Frames(Append(s, f), "do_event") = Frames(s, "do_event") \cup (IF f.fn = "do_event" THEN {f} ELSE {})
  BY <1>1
<1> QED  BY <1>2, <1>3, <1>4 DEF Leaving, Polling, Events

(* The innermost call and the others. *)
LEMMA MarksTop ==
  ASSUME TypeOK, Depth > 0, NEW f \in Frame
  PROVE  /\ Pop \in Seq(Frame) /\ Top \in Frame
         /\ stack = Append(Pop, Top) /\ Replace(f) = Append(Pop, f)
         /\ Replace(f) \in Seq(Frame) /\ Depth = Len(Pop) + 1
<1>1. stack \in Seq(Frame) /\ Depth = Len(stack) /\ Len(stack) > 0 /\ Len(stack) \in Nat
  BY DEF TypeOK, Depth
<1>2. /\ Pop \in Seq(Frame) /\ Len(Pop) = Len(stack) - 1 /\ \A i \in 1 .. Len(Pop) : Pop[i] = stack[i]
  BY <1>1, PopFacts DEF Pop
<1>3. Top = stack[Len(stack)] /\ Top \in Frame /\ Replace(f) = [stack EXCEPT ![Len(stack)] = f]
  BY <1>1 DEF Top, Replace
<1> DEFINE a(x) == Append(Pop, x)
<1>4. ASSUME NEW x \in Frame
      PROVE  /\ a(x) \in Seq(Frame) /\ Len(a(x)) = Len(stack)
             /\ a(x)[Len(stack)] = x /\ \A i \in 1 .. Len(stack) : i # Len(stack) => a(x)[i] = stack[i]
  <2>1. /\ a(x) \in Seq(Frame) /\ Len(a(x)) = Len(Pop) + 1 /\ a(x)[Len(Pop) + 1] = x
        /\ \A i \in 1 .. Len(Pop) : a(x)[i] = Pop[i]
    BY <1>2
  <2>2. \A i \in 1 .. Len(stack) : i # Len(stack) => i \in 1 .. Len(Pop)  BY <1>1, <1>2
  <2> QED  BY <2>1, <2>2, <1>1, <1>2
<1> HIDE DEF a
<1>5. ASSUME NEW t \in Seq(Frame), NEW u \in Seq(Frame), Len(t) = Len(u), \A i \in 1 .. Len(t) : t[i] = u[i]
      PROVE  t = u
  BY <1>5
<1>6. a(Top) = stack  BY <1>1, <1>3, <1>4, <1>5
<1>7. Replace(f) \in Seq(Frame) /\ Len(Replace(f)) = Len(stack)
      /\ \A i \in 1 .. Len(stack) : Replace(f)[i] = IF i = Len(stack) THEN f ELSE stack[i]
  BY <1>1, <1>3
<1>8. a(f) = Replace(f)
  <2>1. a(f) \in Seq(Frame) /\ Replace(f) \in Seq(Frame) /\ Len(a(f)) = Len(Replace(f))  BY <1>4, <1>7
  <2>2. \A i \in 1 .. Len(a(f)) : a(f)[i] = Replace(f)[i]  BY <1>1, <1>4, <1>7
  <2> QED  BY <1>5, <2>1, <2>2
<1> QED  BY <1>1, <1>2, <1>3, <1>6, <1>7, <1>8 DEF a

(* call_process adds a thread or nothing, and stops nobody. *)
LEMMA MarksCall ==
  ASSUME NEW s \in Seq(Frame), NEW st \in [Proc -> Status], NEW p \in Proc, NEW ev \in Event,
         CallProcess(s, st, p, ev)
  PROVE  /\ Leaving(stack') = Leaving(s) /\ Polling(stack') = Polling(s) /\ Events(stack') = Events(s)
         /\ \A q \in Proc : state'[q] = "NONE" <=> st[q] = "NONE"
<1>1. CASE st[p] # "RUNNING"  BY <1>1 DEF CallProcess
<1>2. CASE st[p] = "RUNNING"
  <2> DEFINE f == Thread(p, ev, FALSE)
  <2>1. f \in Frame /\ f.fn = "thread"  BY ThreadType DEF Thread
  <2>2. stack' = Append(s, f) /\ state' = [st EXCEPT ![p] = "CALLED"]  BY <1>2 DEF CallProcess
  <2> HIDE DEF f
  <2> QED  BY <1>2, <2>1, <2>2, MarksAppend
<1> QED  BY <1>1, <1>2

(* Frames that are neither an exit nor a loop come and go unnoticed. *)
LEMMA SameQuiet ==
  ASSUME TypeOK
  PROVE  /\ stack \in Seq(Frame) /\ Same(stack)
         /\ \A s \in Seq(Frame), f \in Frame :
              Same(s) /\ f.fn \in {"thread", "synch"} => Append(s, f) \in Seq(Frame) /\ Same(Append(s, f))
         /\ (On("thread") \/ On("synch")) => Pop \in Seq(Frame) /\ Same(Pop)
         /\ MayCall => Spend \in Seq(Frame) /\ Same(Spend)
<1>1. stack \in Seq(Frame) /\ Same(stack)  BY DEF TypeOK, Same
<1>2. ASSUME NEW s \in Seq(Frame), NEW f \in Frame, Same(s), f.fn \in {"thread", "synch"}
      PROVE  Append(s, f) \in Seq(Frame) /\ Same(Append(s, f))
  <2>1. Append(s, f) \in Seq(Frame)  BY AppendType
  <2> QED  BY <1>2, <2>1, MarksAppend DEF Same
<1>3. ASSUME On("thread") \/ On("synch") PROVE Pop \in Seq(Frame) /\ Same(Pop)
  <2>1. Depth > 0 /\ Top.fn \in {"thread", "synch"}  BY <1>3 DEF On
  <2>2. Pop \in Seq(Frame) /\ Top \in Frame /\ stack = Append(Pop, Top)
    <3>1. PICK f \in Frame : TRUE  BY SynchType DEF Pointer
    <3> QED  BY <2>1, <3>1, MarksTop
  <2>3. /\ Leaving(Append(Pop, Top)) = Leaving(Pop) /\ Polling(Append(Pop, Top)) = Polling(Pop)
        /\ Events(Append(Pop, Top)) = Events(Pop)
    BY <2>1, <2>2, MarksAppend
  <2> QED  BY <2>2, <2>3 DEF Same
<1>4. ASSUME MayCall PROVE Spend \in Seq(Frame) /\ Same(Spend)
  <2> DEFINE f == [Top EXCEPT !.left = @ - 1]
  <2>1. On("thread") /\ Depth > 0 /\ Top.fn = "thread" /\ Top.left > 0  BY <1>4 DEF MayCall, On
  <2>2. Top \in Frame
    <3>1. PICK g \in Frame : TRUE  BY SynchType DEF Pointer
    <3> QED  BY <2>1, <3>1, MarksTop
  <2>3. f \in Frame /\ f.fn = "thread"
    <3>1. /\ Top.p \in Proc /\ Top.ev \in Event /\ Top.direct \in BOOLEAN /\ Top.left \in 0 .. MaxOps
          /\ Top = [fn |-> "thread", p |-> Top.p, ev |-> Top.ev, direct |-> Top.direct, left |-> Top.left]
      BY <2>1, <2>2, FrameTypes
    <3>2. f = [fn |-> "thread", p |-> Top.p, ev |-> Top.ev, direct |-> Top.direct, left |-> Top.left - 1]
      BY <3>1
    <3>3. Top.left - 1 \in 0 .. MaxOps  BY <2>1, <3>1, KernelAssumption
    <3> HIDE DEF f
    <3> QED  BY <3>1, <3>2, <3>3 DEF Frame, ThreadFrames
  <2>4. Spend = Replace(f)  BY DEF Spend
  <2> HIDE DEF f
  <2>5. Spend = Append(Pop, f)  BY <2>1, <2>3, <2>4, MarksTop
  <2>6. Pop \in Seq(Frame) /\ Same(Pop)  BY <1>3, <2>1
  <2> QED  BY <1>2, <2>3, <2>5, <2>6
<1> QED  BY <1>1, <1>2, <1>3, <1>4

(* What process_start does to the list, the threads and the requests. *)
Starts(p) ==
  /\ p \in Proc \ listed /\ Link(p) /\ listed' = listed \cup {p} /\ asked' = asked \ {p}
  /\ stack = <<>> \/ (On("thread") /\ p \in Starting)
  /\ \A q \in Proc : q = p \/ state[q] # "NONE" => state'[q] # "NONE"

ListAlone == UNCHANGED listVars /\ \A q \in Proc : state'[q] = "NONE" => state[q] = "NONE"

LEMMA StartEffect ==
  ASSUME TypeOK, NEW s \in Seq(Frame), Same(s), NEW p \in Proc, ProcessStart(s, p),
         stack = <<>> \/ (On("thread") /\ p \in Starting)
  PROVE  Same(stack') /\ (Starts(p) \/ (ListAlone /\ UNCHANGED asked))
<1>1. CASE p \in listed
  BY <1>1 DEF ProcessStart, ListAlone
<1>2. CASE p \notin listed
  <2> DEFINE st == [state EXCEPT ![p] = "RUNNING"]
             t == Append(s, SynchFrame(current))
  <2>1. /\ Link(p) /\ listed' = listed \cup {p} /\ asked' = asked \ {p} /\ CallProcess(t, st, p, "INIT")
    BY <1>2 DEF ProcessStart, PostSynch
  <2>2. st \in [Proc -> Status] /\ \A q \in Proc : st[q] = IF q = p THEN "RUNNING" ELSE state[q]
    BY DEF TypeOK, Status
  <2>3. SynchFrame(current) \in Frame /\ SynchFrame(current).fn = "synch"
    BY SynchType DEF SynchFrame, TypeOK
  <2>4. t \in Seq(Frame) /\ Same(t)  BY <2>3, SameQuiet
  <2> HIDE DEF st, t
  <2>5. "INIT" \in Event  BY DEF Event, KernelEv
  <2>6. /\ Leaving(stack') = Leaving(t) /\ Polling(stack') = Polling(t) /\ Events(stack') = Events(t)
        /\ \A q \in Proc : state'[q] = "NONE" <=> st[q] = "NONE"
    BY <2>1, <2>2, <2>4, <2>5, MarksCall
  <2>7. \A q \in Proc : q = p \/ state[q] # "NONE" => state'[q] # "NONE"  BY <2>2, <2>6
  <2> QED  BY <1>2, <2>1, <2>4, <2>6, <2>7 DEF Same, Starts
<1> QED  BY <1>1, <1>2

(* A call of a process, with the stack given. *)
LEMMA CallSame ==
  ASSUME TypeOK, NEW s \in Seq(Frame), Same(s), NEW p \in Proc, NEW ev \in Event,
         CallProcess(s, state, p, ev)
  PROVE  Same(stack') /\ \A q \in Proc : state'[q] = "NONE" => state[q] = "NONE"
<1>1. state \in [Proc -> Status]  BY DEF TypeOK, Status
<1> QED  BY <1>1, MarksCall DEF Same

-----------------------------------------------------------------------------
(* The list as an order: rank grows along the next pointers, and no listed *)
(* process lies between a process and its successor.  M may hold processes *)
(* that have left the list; low lies below all of them, so a process that  *)
(* is put at the head gets it, and one that leaves changes no rank.        *)
Ranked(h, n, l, rank, low, M) ==
  /\ rank \in [Proc -> Int] /\ low \in Int
  /\ l \subseteq M /\ M \subseteq Proc
  /\ \A q \in M : low < rank[q]
  /\ \A q, r \in M : rank[q] = rank[r] => q = r
  /\ h \in l \cup {NULL} /\ (h = NULL => l = {})
  /\ \A r \in l : rank[h] <= rank[r]
  /\ \A q \in M : n[q] = NULL => \A r \in l : rank[r] <= rank[q]
  /\ \A q \in M : n[q] # NULL =>
       /\ n[q] \in M /\ rank[q] < rank[n[q]]
       /\ \A r \in l : rank[r] <= rank[q] \/ rank[n[q]] <= rank[r]

LEMMA LinkRanked ==
  ASSUME TypeOK, NEW rank, NEW low, NEW M, Ranked(head, next, listed, rank, low, M),
         NEW p \in Proc \ M, Link(p)
  PROVE  Ranked(head', next', listed \cup {p}, [rank EXCEPT ![p] = low], low - 1, M \cup {p})
<1> DEFINE k == [rank EXCEPT ![p] = low]
<1>1. /\ rank \in [Proc -> Int] /\ low \in Int /\ listed \subseteq M /\ M \subseteq Proc
      /\ \A q \in M : low < rank[q]
  BY DEF Ranked
<1>2. /\ head' = p /\ next' = [next EXCEPT ![p] = head] /\ next \in [Proc -> Pointer] /\ NULL \notin Proc
  BY KernelAssumption DEF Link, TypeOK
<1>3. k \in [Proc -> Int] /\ k[p] = low /\ \A q \in M : q # p /\ k[q] = rank[q]  BY <1>1
<1>4. next'[p] = head /\ \A q \in M : next'[q] = next[q]  BY <1>1, <1>2
<1> HIDE DEF k
<1>5. \A q \in M : low < k[q] /\ k[q] \in Int  BY <1>1, <1>3
<1>6. low - 1 \in Int /\ low - 1 < low /\ \A q \in M \cup {p} : low - 1 < k[q]
  BY <1>1, <1>3, <1>5
<1>7. \A q, r \in M \cup {p} : k[q] = k[r] => q = r
  <2>1. \A q, r \in M : k[q] = k[r] => q = r  BY <1>3 DEF Ranked
  <2>2. \A q \in M : k[q] # k[p]  BY <1>1, <1>3, <1>5
  <2> QED  BY <2>1, <2>2
<1>8. \A r \in listed \cup {p} : k[head'] <= k[r]  BY <1>1, <1>2, <1>3, <1>5
<1>9. head \in listed \cup {NULL} /\ (head = NULL => listed = {}) /\ \A r \in listed : k[head] <= k[r]
  BY <1>1, <1>3 DEF Ranked
<1>10. ASSUME NEW q \in M \cup {p}, next'[q] = NULL PROVE \A r \in listed \cup {p} : k[r] <= k[q]
  <2>1. CASE q = p  BY <1>1, <1>3, <1>4, <1>9, <1>10, <2>1
  <2>2. CASE q \in M
    <3>1. \A r \in listed : k[r] <= k[q]  BY <1>1, <1>3, <1>4, <1>10, <2>2 DEF Ranked
    <3> QED  BY <3>1, <2>2, <1>1, <1>3, <1>5
  <2> QED  BY <2>1, <2>2
<1>11. ASSUME NEW q \in M \cup {p}, next'[q] # NULL
       PROVE  /\ next'[q] \in M \cup {p} /\ k[q] < k[next'[q]]
              /\ \A r \in listed \cup {p} : k[r] <= k[q] \/ k[next'[q]] <= k[r]
  <2>1. CASE q = p
    <3>1. next'[q] = head /\ head \in listed /\ head \in M  BY <1>1, <1>4, <1>9, <1>11, <2>1
    <3>2. k[q] = low /\ low < k[head]  BY <1>3, <1>5, <2>1, <3>1
    <3> QED  BY <2>1, <3>1, <3>2, <1>1, <1>9
  <2>2. CASE q \in M
    <3>1. /\ next'[q] = next[q] /\ next[q] \in M /\ rank[q] < rank[next[q]]
          /\ \A r \in listed : rank[r] <= rank[q] \/ rank[next[q]] <= rank[r]
      BY <1>4, <1>11, <2>2 DEF Ranked
    <3>2. k[q] < k[next[q]] /\ \A r \in listed : k[r] <= k[q] \/ k[next[q]] <= k[r]
      BY <1>1, <1>3, <2>2, <3>1
    <3>3. k[p] <= k[q]  BY <1>1, <1>3, <1>5, <2>2
    <3> QED  BY <3>1, <3>2, <3>3
  <2> QED  BY <2>1, <2>2
<1> QED
  BY <1>1, <1>2, <1>3, <1>6, <1>7, <1>8, <1>10, <1>11 DEF Ranked, k

LEMMA UnlinkRanked ==
  ASSUME TypeOK, Chained, NEW rank, NEW low, NEW M, Ranked(head, next, listed, rank, low, M),
         NEW p \in listed, Unlink(p)
  PROVE  /\ Ranked(head', next', listed \ {p}, rank, low, M)
         /\ next'[p] = next[p]
         /\ \A q \in M : next'[q] = next[q] \/ (next[q] = p /\ next'[q] = next[p])
         /\ \A q \in listed : next[q] = p => next'[q] = next[p]
         /\ head # p => head' = head
         /\ head = p => head' = next[p]
<1>1. /\ rank \in [Proc -> Int] /\ low \in Int /\ listed \subseteq M /\ M \subseteq Proc
      /\ next \in [Proc -> Pointer] /\ NULL \notin Proc /\ p \in M /\ p \in Proc
  BY KernelAssumption DEF Ranked, TypeOK
<1>2. \A q \in M : next[q] # NULL => next[q] \in M /\ rank[q] < rank[next[q]]
  BY DEF Ranked
<1>3. \A q \in M : rank[q] \in Int  BY <1>1
<1>4. next[p] # p  BY <1>1, <1>2, <1>3
<1>h. \A r \in listed : rank[head] <= rank[r]  BY DEF Ranked
<1>i. \A q, r \in M : rank[q] = rank[r] => q = r  BY DEF Ranked
<1>5. /\ \A q \in M : next'[q] = next[q] \/ (next[q] = p /\ next'[q] = next[p])
      /\ \A q \in listed : next[q] = p => next'[q] = next[p]
      /\ head # p => head' = head
      /\ head = p => head' = next[p]
  <2>1. CASE p = head
    <3>1. head' = next[p] /\ next' = next  BY <2>1 DEF Unlink
    <3>2. ASSUME NEW q \in listed, next[q] = p PROVE FALSE
      <4>1. rank[q] < rank[p] /\ rank[p] <= rank[q]  BY <1>1, <1>2, <1>h, <2>1, <3>2
      <4> QED  BY <4>1, <1>1, <1>3
    <3> QED  BY <2>1, <3>1, <3>2
  <2>2. CASE p # head
    <3>1. /\ head' = head
          /\ next' = [q \in Proc |-> IF q \in listed /\ next[q] = p THEN next[p] ELSE next[q]]
      BY <2>2 DEF Unlink
    <3> QED  BY <2>2, <3>1, <1>1
  <2> QED  BY <2>1, <2>2
<1>6. next'[p] = next[p]  BY <1>1, <1>4, <1>5
<1>7. ASSUME NEW q \in M, next[q] # NULL, NEW r \in listed
      PROVE  rank[r] <= rank[q] \/ rank[next[q]] <= rank[r]
  BY <1>7 DEF Ranked
<1>8. ASSUME NEW q \in M, next[q] = NULL, NEW r \in listed
      PROVE  rank[r] <= rank[q]
  BY <1>8 DEF Ranked
<1>9. ASSUME NEW q \in M, next[q] = p, NEW r \in listed, r # p
      PROVE  rank[r] <= rank[q] \/ rank[p] < rank[r]
  <2>1. rank[r] <= rank[q] \/ rank[p] <= rank[r]  BY <1>1, <1>7, <1>9
  <2>2. rank[r] # rank[p]  BY <1>1, <1>9, <1>i
  <2> QED  BY <2>1, <2>2, <1>1, <1>3
<1>10. ASSUME NEW r \in listed, r # p PROVE IF next[p] = NULL THEN rank[r] <= rank[p] ELSE
         rank[r] <= rank[p] \/ rank[next[p]] <= rank[r]
  BY <1>1, <1>7, <1>8
<1>11. ASSUME NEW q \in M, next'[q] = NULL, NEW r \in listed \ {p} PROVE rank[r] <= rank[q]
  <2>1. CASE next'[q] = next[q]  BY <1>8, <1>11, <2>1
  <2>2. CASE next[q] = p /\ next'[q] = next[p]
    <3>1. rank[r] <= rank[p]  BY <1>10, <1>11, <2>2
    <3>2. rank[r] <= rank[q] \/ rank[p] < rank[r]  BY <1>9, <2>2
    <3> QED  BY <3>1, <3>2, <1>1, <1>3
  <2> QED  BY <2>1, <2>2, <1>5
<1>12. ASSUME NEW q \in M, next'[q] # NULL
       PROVE  /\ next'[q] \in M /\ rank[q] < rank[next'[q]]
              /\ \A r \in listed \ {p} : rank[r] <= rank[q] \/ rank[next'[q]] <= rank[r]
  <2>1. CASE next'[q] = next[q]  BY <1>2, <1>7, <1>12, <2>1
  <2>2. CASE next[q] = p /\ next'[q] = next[p]
    <3>1. next[p] \in M /\ rank[q] < rank[p] /\ rank[p] < rank[next[p]]  BY <1>1, <1>2, <1>12, <2>2
    <3>2. ASSUME NEW r \in listed \ {p} PROVE rank[r] <= rank[q] \/ rank[next[p]] <= rank[r]
      <4>1. rank[r] <= rank[q] \/ rank[p] < rank[r]  BY <1>9, <2>2
      <4>2. rank[r] <= rank[p] \/ rank[next[p]] <= rank[r]  BY <1>10, <1>12, <2>2
      <4> QED  BY <4>1, <4>2, <1>1, <1>3
    <3> QED  BY <2>2, <3>1, <3>2, <1>1, <1>3
  <2> QED  BY <2>1, <2>2, <1>5
<1>13. /\ head' \in (listed \ {p}) \cup {NULL} /\ (head' = NULL => listed \ {p} = {})
       /\ \A r \in listed \ {p} : rank[head'] <= rank[r]
  <2>1. head \in listed \cup {NULL} /\ (head = NULL => listed = {})  BY DEF Ranked
  <2>2. CASE head # p  BY <2>1, <2>2, <1>5, <1>h
  <2>3. CASE head = p
    <3>1. head' = next[p]  BY <1>5, <2>3
    <3>2. ASSUME NEW r \in listed \ {p} PROVE rank[p] < rank[r]
      <4>1. rank[p] <= rank[r] /\ rank[p] # rank[r]  BY <1>1, <1>h, <1>i, <2>3
      <4> QED  BY <4>1, <1>1, <1>3
    <3>3. ASSUME NEW r \in listed \ {p} PROVE next[p] # NULL /\ rank[next[p]] <= rank[r]
      <4>1. rank[r] \in Int /\ rank[p] \in Int  BY <1>1, <1>3
      <4> QED  BY <4>1, <1>10, <3>2
    <3>4. next[p] # NULL => next[p] \in listed  BY DEF Chained
    <3> QED  BY <3>1, <3>3, <3>4, <1>4
  <2> QED  BY <2>2, <2>3
<1> QED  BY <1>1, <1>5, <1>6, <1>11, <1>12, <1>13 DEF Ranked

(* Processes that have left the list may be forgotten. *)
LEMMA ShrinkRanked ==
  ASSUME NEW h, NEW n, NEW l, NEW rank, NEW low, NEW M, Ranked(h, n, l, rank, low, M),
         \A q \in l : n[q] # NULL => n[q] \in l
  PROVE  Ranked(h, n, l, rank, low, l)
BY DEF Ranked

-----------------------------------------------------------------------------
(* Who is listed and does not run is leaving.                              *)
Left == \A p \in listed : state[p] = "NONE" => p \in Leaving(stack)

(* The processes on the list from q on.                                    *)
From(l, rank, q) == IF q = NULL THEN {} ELSE {r \in l : rank[q] <= rank[r]}

(* Who asked for a poll lies ahead of a loop, if no poll is requested.     *)
Ahead(p, rank) == \E x \in Polling(stack) : p \in From(listed, rank, After(x))
Polled(rank) ==
  \A p \in listed \cap asked : needspoll[p] /\ (pollRequested \/ Ahead(p, rank))

(* The inductive invariant.                                                *)
Ordered(rank, low) == Ranked(head, next, listed, rank, low, listed) /\ Polled(rank)
KInv == ReInv /\ Left /\ \E rank, low : Ordered(rank, low)

(* A step that leaves the list alone, and takes no loop away.              *)
LEMMA QuietStep ==
  ASSUME KInv, UNCHANGED listVars, Leaving(stack) \subseteq Leaving(stack'),
         Polling(stack) \subseteq Polling(stack'),
         \A p \in Proc : state'[p] = "NONE" => state[p] = "NONE" \/ p \in Leaving(stack'),
         pollRequested => pollRequested',
         \A p \in asked' : \/ p \in asked /\ (needspoll[p] => needspoll'[p])
                           \/ needspoll'[p] /\ pollRequested'
  PROVE  Left' /\ \E rank, low : Ordered(rank, low)'
<1>1. listed' = listed /\ head' = head /\ next' = next /\ listed \subseteq Proc
  BY DEF listVars, KInv, ReInv, TypeOK
<1>2. Left'  BY <1>1 DEF Left, KInv
<1>3. PICK rank, low : Ordered(rank, low)  BY DEF KInv
<1>4. Ranked(head, next, listed, rank, low, listed)'  BY <1>1, <1>3 DEF Ordered
<1>5. \A p : Ahead(p, rank) => Ahead(p, rank)'
  BY <1>1 DEF Ahead, After
<1>6. Polled(rank)'
  <2> SUFFICES ASSUME NEW p \in listed, p \in asked'
               PROVE  needspoll'[p] /\ (pollRequested' \/ Ahead(p, rank)')
    BY <1>1 DEF Polled
  <2>1. CASE needspoll'[p] /\ pollRequested'  BY <2>1
  <2>2. CASE p \in asked /\ (needspoll[p] => needspoll'[p])
    <3>1. needspoll[p] /\ (pollRequested \/ Ahead(p, rank))  BY <1>3, <2>2 DEF Ordered, Polled
    <3> QED  BY <3>1, <2>2, <1>5
  <2> QED  BY <2>1, <2>2
<1> QED  BY <1>2, <1>4, <1>6 DEF Ordered

(* What do_poll visits stays listed until the call that visits it is over. *)
LEMMA PollingBelow ==
  ASSUME ReInv, NEW i \in 1 .. Len(stack), stack[i].fn = "do_poll", i < Len(stack)
  PROVE  stack[i].last \in listed
<1> DEFINE x == stack[i].last
<1>1. Stacked(stack, listed, state) /\ stack \in Seq(Frame)  BY DEF ReInv, TypeOK
<1>2. stack[i + 1].fn \in {"thread", "exit"} /\ stack[i + 1].p = x
  BY <1>1 DEF Stacked, Loops
<1>3. i + 1 \in 1 .. Len(stack) /\ (i + 1) - 1 = i /\ stack[i + 1] \in Frame  BY <1>1
<1>4. CASE stack[i + 1].fn = "exit"
  BY <1>1, <1>2, <1>3, <1>4 DEF Stacked, Exits
<1>5. CASE stack[i + 1].fn = "thread"
  <2>1. ~ stack[i + 1].direct
    BY <1>1, <1>3, <1>5 DEF Stacked, Directs
  <2>2. stack[i + 1].p \in Proc  BY <1>3, <1>5, FrameTypes
  <2>3. state[x] = "CALLED"
    BY <1>1, <1>2, <1>3, <1>5, <2>1, <2>2 DEF Stacked, Called
  <2> QED  BY <1>1, <1>2, <2>2, <2>3 DEF Stacked
<1> QED  BY <1>2, <1>4, <1>5

(* So it is while a thread or an exit is innermost. *)
LEMMA PollingListed ==
  ASSUME ReInv, On("thread") \/ On("exit"), NEW x \in Polling(stack)
  PROVE  x \in listed
<1>1. PICK i \in 1 .. Len(stack) : stack[i].fn = "do_poll" /\ x = stack[i].last
  BY DEF Polling, Frames
<1>2. /\ Len(stack) \in Nat /\ Top = stack[Len(stack)] /\ Top.fn # "do_poll"
  BY TopFacts DEF ReInv
<1>3. i < Len(stack)  BY <1>1, <1>2
<1> QED  BY <1>1, <1>3, PollingBelow

(* process_start puts nobody between a loop and the processes ahead of it. *)
LEMMA StartKInv ==
  ASSUME KInv, NEW p, Starts(p), Same(stack'), UNCHANGED pollVars
  PROVE  Left' /\ \E rank, low : Ordered(rank, low)'
<1>1. /\ p \in Proc \ listed /\ Link(p) /\ listed' = listed \cup {p} /\ asked' = asked \ {p}
      /\ \A q \in Proc : q = p \/ state[q] # "NONE" => state'[q] # "NONE"
      /\ stack = <<>> \/ On("thread")
      /\ Leaving(stack') = Leaving(stack) /\ Polling(stack') = Polling(stack)
      /\ needspoll' = needspoll /\ pollRequested' = pollRequested
  BY DEF Starts, Same, pollVars
<1>2. ReInv /\ TypeOK /\ listed \subseteq Proc /\ NULL \notin Proc /\ next \in [Proc -> Pointer]
  BY KernelAssumption DEF KInv, ReInv, TypeOK
<1>3. Left'  BY <1>1, <1>2 DEF KInv, Left
<1>4. PICK rank, low : Ordered(rank, low)  BY DEF KInv
<1> DEFINE k == [rank EXCEPT ![p] = low]
<1>5. Ranked(head', next', listed \cup {p}, k, low - 1, listed \cup {p})
  BY <1>1, <1>2, <1>4, LinkRanked DEF Ordered
<1>6. Ranked(head, next, listed, rank, low, listed) /\ Polled(rank)  BY <1>4 DEF Ordered
<1>7. next' = [next EXCEPT ![p] = head]  BY <1>1 DEF Link
<1>8. \A q \in listed : k[q] = rank[q] /\ next'[q] = next[q]
  BY <1>1, <1>2, <1>6, <1>7 DEF Ranked
<1> HIDE DEF k
<1>9. ASSUME NEW r \in listed, Ahead(r, rank) PROVE Ahead(r, k)'
  <2>1. PICK x \in Polling(stack) : r \in From(listed, rank, After(x))  BY <1>9 DEF Ahead
  <2>2. stack # <<>>  BY <2>1 DEF Polling, Frames
  <2>3. x \in listed /\ x \in Proc /\ x # NULL  BY <1>1, <1>2, <2>2, PollingListed
  <2>4. After(x) = next[x] /\ After(x)' = next[x]  BY <1>8, <2>3 DEF After
  <2>5. next[x] # NULL /\ rank[next[x]] <= rank[r]  BY <2>1, <2>4 DEF From
  <2>6. next[x] \in listed  BY <1>6, <2>3, <2>5 DEF Ranked
  <2>7. r \in listed' /\ k[next[x]] <= k[r]  BY <1>1, <1>8, <2>5, <2>6
  <2>8. r \in From(listed', k, next[x])  BY <2>5, <2>7 DEF From
  <2> QED  BY <1>1, <2>1, <2>4, <2>8 DEF Ahead
<1>10. Polled(k)'
  <2> SUFFICES ASSUME NEW r \in listed', r \in asked'
               PROVE  needspoll'[r] /\ (pollRequested' \/ Ahead(r, k)')
    BY DEF Polled
  <2>1. r \in listed /\ r \in asked  BY <1>1
  <2>2. needspoll[r] /\ (pollRequested \/ Ahead(r, rank))  BY <1>6, <2>1 DEF Polled
  <2> QED  BY <1>1, <1>9, <2>1, <2>2
<1> QED  BY <1>1, <1>3, <1>5, <1>10 DEF Ordered

(* An exit takes its process from the list, and nobody else from the loops. *)
LEMMA ExitFinishKInv == ASSUME KInv, ExitFinish PROVE Left' /\ \E rank, low : Ordered(rank, low)'
<1> DEFINE p == Top.p
<1>1. ReInv /\ TypeOK /\ Stacked(stack, listed, state) /\ Chained /\ listed \subseteq Proc
      /\ NULL \notin Proc
  BY KernelAssumption DEF KInv, ReInv, TypeOK
<1>2. /\ On("exit") /\ Unlink(p) /\ listed' = listed \ {p} /\ stack' = Pop /\ state' = state
      /\ asked' = asked /\ needspoll' = needspoll /\ pollRequested' = pollRequested
  BY DEF ExitFinish, pollVars
<1>3. /\ Top.fn = "exit" /\ Top \in Frame /\ Depth > 0 /\ Top = stack[Len(stack)]
      /\ Len(stack) \in 1 .. Len(stack)
  BY <1>1, <1>2, TopFacts
<1>4. p \in listed  BY <1>1, <1>3 DEF Stacked, Exits
<1>5. /\ Leaving(stack) = Leaving(stack') \cup {p} /\ Polling(stack) = Polling(stack')
  <2>1. Pop \in Seq(Frame) /\ stack = Append(Pop, Top)
    BY <1>1, <1>3, MarksTop
  <2>2. Leaving(Append(Pop, Top)) = Leaving(Pop) \cup {Top.p}
        /\ Polling(Append(Pop, Top)) = Polling(Pop)
    BY <1>3, <2>1, MarksAppend
  <2> QED  BY <1>2, <2>1, <2>2
<1> HIDE DEF p
<1>6. Left'  BY <1>2, <1>5 DEF KInv, Left
<1>7. PICK rank, low : Ordered(rank, low)  BY DEF KInv
<1>8. Ranked(head, next, listed, rank, low, listed) /\ Polled(rank)  BY <1>7 DEF Ordered
<1>9. /\ Ranked(head', next', listed \ {p}, rank, low, listed)
      /\ next'[p] = next[p]
      /\ \A q \in listed : next'[q] = next[q] \/ (next[q] = p /\ next'[q] = next[p])
  BY <1>1, <1>2, <1>4, <1>8, UnlinkRanked
<1>10. Ranked(head', next', listed', rank, low, listed')
  <2>1. Chained'  BY <1>1, <1>2, <1>4, UnlinkChained
  <2>2. \A q \in listed' : next'[q] # NULL => next'[q] \in listed'  BY <2>1 DEF Chained
  <2>3. Ranked(head', next', listed', rank, low, listed)  BY <1>2, <1>9
  <2> QED  BY <2>2, <2>3, ShrinkRanked
<1>11. ASSUME NEW r \in listed', Ahead(r, rank) PROVE Ahead(r, rank)'
  <2>1. PICK x \in Polling(stack) : r \in From(listed, rank, After(x))  BY <1>11 DEF Ahead
  <2>2. x \in listed /\ x # NULL  BY <1>1, <1>2, PollingListed
  <2>3. After(x) = next[x] /\ After(x)' = next'[x]  BY <2>2 DEF After
  <2>4. next[x] # NULL /\ rank[next[x]] <= rank[r] /\ r \in listed /\ r # p
    BY <1>2, <2>1, <2>3 DEF From
  <2>5. CASE next'[x] = next[x]
    <3>1. r \in From(listed', rank, next'[x])  BY <2>4, <2>5 DEF From
    <3> QED  BY <1>5, <2>1, <2>3, <3>1 DEF Ahead
  <2>6. CASE next[x] = p /\ next'[x] = next[p]
    <3>1. /\ rank[p] # rank[r] /\ rank[p] \in Int /\ rank[r] \in Int
          /\ next[p] = NULL => rank[r] <= rank[p]
          /\ next[p] # NULL => rank[r] <= rank[p] \/ rank[next[p]] <= rank[r]
      BY <1>1, <1>4, <1>8, <2>4 DEF Ranked
    <3>2. next[p] # NULL /\ rank[next[p]] <= rank[r]  BY <2>4, <2>6, <3>1
    <3>3. r \in From(listed', rank, next'[x])  BY <2>6, <3>2 DEF From
    <3> QED  BY <1>5, <2>1, <2>3, <3>3 DEF Ahead
  <2> QED  BY <1>9, <2>2, <2>5, <2>6
<1>12. Polled(rank)'
  <2> SUFFICES ASSUME NEW r \in listed', r \in asked'
               PROVE  needspoll'[r] /\ (pollRequested' \/ Ahead(r, rank)')
    BY DEF Polled
  <2>1. r \in listed /\ r \in asked  BY <1>2
  <2>2. needspoll[r] /\ (pollRequested \/ Ahead(r, rank))  BY <1>8, <2>1 DEF Polled
  <2> QED  BY <1>2, <1>11, <2>2
<1> QED  BY <1>6, <1>10, <1>12 DEF Ordered

(* A loop that starts has all listed processes ahead of it.                *)
LEMMA WholeAhead ==
  ASSUME KInv, UNCHANGED listVars, NULL \in Polling(stack'), NEW rank, NEW low,
         Ordered(rank, low), NEW r \in listed
  PROVE  Ahead(r, rank)'
<1>1. head' = head /\ listed' = listed  BY DEF listVars
<1>2. head # NULL /\ rank[head] <= rank[r]  BY DEF Ordered, Ranked
<1>3. r \in From(listed', rank, head')  BY <1>1, <1>2 DEF From
<1>4. After(NULL)' = head'  BY DEF After
<1> QED  BY <1>3, <1>4 DEF Ahead

(* poll_requested is cleared only when a loop over the whole list starts.  *)
LEMMA RequestKInv ==
  ASSUME KInv, UNCHANGED <<listVars, state, needspoll, asked>>,
         Leaving(stack') = Leaving(stack), Polling(stack) \subseteq Polling(stack'),
         pollRequested => NULL \in Polling(stack')
  PROVE  Left' /\ \E rank, low : Ordered(rank, low)'
<1>1. listed' = listed /\ head' = head /\ next' = next  BY DEF listVars
<1>2. Left'  BY <1>1 DEF Left, KInv
<1>3. PICK rank, low : Ordered(rank, low)  BY DEF KInv
<1>4. Ranked(head, next, listed, rank, low, listed)'  BY <1>1, <1>3 DEF Ordered
<1>5. \A r : Ahead(r, rank) => Ahead(r, rank)'  BY <1>1 DEF Ahead, After
<1>6. pollRequested => \A r \in listed : Ahead(r, rank)'  BY <1>3, WholeAhead
<1>7. Polled(rank)'
  <2> SUFFICES ASSUME NEW r \in listed, r \in asked PROVE needspoll[r] /\ Ahead(r, rank)'
    BY <1>1 DEF Polled
  <2>1. needspoll[r] /\ (pollRequested \/ Ahead(r, rank))  BY <1>3 DEF Ordered, Polled
  <2> QED  BY <2>1, <1>5, <1>6
<1> QED  BY <1>2, <1>4, <1>7 DEF Ordered

LEMMA RunPollKInv == ASSUME KInv, RunPoll PROVE Left' /\ \E rank, low : Ordered(rank, low)'
<1>1. /\ stack = <<>> /\ stack' = IF pollRequested THEN <<PollFrame(NULL)>> ELSE <<>>
      /\ UNCHANGED <<listVars, state, needspoll, asked>>
  BY DEF RunPoll, InLoop, historyVars
<1>2. CASE ~ pollRequested
  <2>1. stack' = stack  BY <1>1, <1>2
  <2> QED  BY <1>1, <1>2, <2>1, RequestKInv
<1>3. CASE pollRequested
  <2> DEFINE f == PollFrame(NULL)
  <2>1. f \in Frame /\ f.fn = "do_poll" /\ f.last = NULL  BY DEF PollFrame, Frame, Pointer
  <2>2. stack' = Append(<<>>, f) /\ <<>> \in Seq(Frame)  BY <1>1, <1>3
  <2> HIDE DEF f
  <2>3. Leaving(stack') = Leaving(<<>>) /\ Polling(stack') = Polling(<<>>) \cup {NULL}
    BY <2>1, <2>2, MarksAppend
  <2> QED  BY <1>1, <2>3, RequestKInv
<1> QED  BY <1>2, <1>3

LEMMA BroadcastVisitKInv == ASSUME KInv, BroadcastVisit PROVE Left' /\ \E rank, low : Ordered(rank, low)'
<1> DEFINE q == After(Top.last)
<1>1. TypeOK  BY DEF KInv, ReInv
<1>2. On("do_event") /\ UNCHANGED <<listVars, state, needspoll, asked>>
  BY DEF BroadcastVisit, historyVars
<1>t. Top.fn = "do_event" /\ Top \in Frame /\ Depth > 0  BY <1>1, <1>2, TopFacts DEF On
<1>3. Pop \in Seq(Frame) /\ stack = Append(Pop, Top)  BY <1>1, <1>t, MarksTop
<1>4. Leaving(stack) = Leaving(Pop) /\ Polling(stack) = Polling(Pop)
  <2>1. Leaving(Append(Pop, Top)) = Leaving(Pop) /\ Polling(Append(Pop, Top)) = Polling(Pop)
    BY <1>3, <1>t, MarksAppend
  <2> QED  BY <1>3, <2>1
<1>5. Top.last \in Pointer /\ Top.ev \in Event  BY <1>t, FrameTypes
<1>6. q \in Pointer  BY <1>1, <1>5 DEF After, TypeOK, Pointer
<1> HIDE DEF q
<1>7. CASE q = NULL
  <2>1. stack' = Pop /\ pollRequested' = pollRequested  BY <1>7 DEF BroadcastVisit, q
  <2>2. Leaving(stack') = Leaving(stack) /\ Polling(stack') = Polling(stack)  BY <1>4, <2>1
  <2>3. pollRequested => pollRequested'  BY <2>1
  <2>4. \A p \in Proc : state'[p] = "NONE" => state[p] = "NONE"  BY <1>2
  <2>5. \A p \in asked' : p \in asked /\ (needspoll[p] => needspoll'[p])  BY <1>2
  <2> QED  BY <1>2, <2>2, <2>3, <2>4, <2>5, QuietStep
<1>8. CASE q # NULL
  <2> DEFINE f == EventFrame(Top.ev, q, TRUE)
             g == PollFrame(NULL)
             s == Replace(f)
  <2>1. f \in Frame /\ f.fn = "do_event"
    BY <1>5, <1>6, <1>8 DEF EventFrame, Frame, Pointer
  <2>2. g \in Frame /\ g.fn = "do_poll" /\ g.last = NULL  BY DEF PollFrame, Frame, Pointer
  <2>3. stack' = IF pollRequested THEN Append(s, g) ELSE s  BY <1>8 DEF BroadcastVisit, q
  <2> HIDE DEF f, g
  <2>4. s \in Seq(Frame) /\ s = Append(Pop, f)  BY <1>1, <1>t, <2>1, MarksTop
  <2> HIDE DEF s
  <2>5. Leaving(s) = Leaving(stack) /\ Polling(s) = Polling(stack)
    BY <1>3, <1>4, <2>1, <2>4, MarksAppend
  <2>6. Leaving(Append(s, g)) = Leaving(s) /\ Polling(Append(s, g)) = Polling(s) \cup {NULL}
    <3>1. s \in Seq(Frame)  BY <2>4
    <3> QED  BY <2>2, <3>1, MarksAppend
  <2> QED  BY <1>2, <2>3, <2>5, <2>6, RequestKInv
<1> QED  BY <1>7, <1>8

(* A visit of do_poll serves the process it steps to, and no other.        *)
LEMMA PollVisitKInv == ASSUME KInv, PollVisit PROVE Left' /\ \E rank, low : Ordered(rank, low)'
<1> DEFINE q == After(Top.last)
<1>1. TypeOK /\ Chained /\ PollAhead(stack, listed, next) /\ next \in [Proc -> Pointer]
      /\ listed \subseteq Proc /\ NULL \notin Proc /\ state \in [Proc -> Status]
      /\ needspoll \in [Proc -> BOOLEAN]
  BY KernelAssumption DEF KInv, ReInv, TypeOK, Status
<1>2. On("do_poll") /\ UNCHANGED listVars /\ pollRequested' = pollRequested  BY DEF PollVisit
<1>t. /\ Top.fn = "do_poll" /\ Top \in Frame /\ Depth > 0 /\ Top = stack[Len(stack)] /\ Len(stack) > 0
  BY <1>1, <1>2, TopFacts DEF On
<1>3. Pop \in Seq(Frame) /\ stack = Append(Pop, Top)  BY <1>1, <1>t, MarksTop
<1>4. Leaving(stack) = Leaving(Pop) /\ Polling(stack) = Polling(Pop) \cup {Top.last}
  <2>1. /\ Leaving(Append(Pop, Top)) = Leaving(Pop)
        /\ Polling(Append(Pop, Top)) = Polling(Pop) \cup {Top.last}
    BY <1>3, <1>t, MarksAppend
  <2> QED  BY <1>3, <2>1
<1>5. q \in listed \cup {NULL}
  BY <1>1, <1>t DEF After, Chained, PollAhead
<1>6. listed' = listed /\ head' = head /\ next' = next  BY <1>2 DEF listVars
<1>7. PICK rank, low : Ordered(rank, low)  BY DEF KInv
<1>8. Ranked(head, next, listed, rank, low, listed) /\ Polled(rank)  BY <1>7 DEF Ordered
<1>9. \A x : After(x)' = After(x)  BY <1>6 DEF After
<1> HIDE DEF q
<1>10. CASE q = NULL
  <2>1. /\ stack' = Pop /\ state' = state /\ needspoll' = needspoll /\ asked' = asked
    BY <1>10 DEF PollVisit, EndOfPolls, q
  <2>2. Left'  BY <1>4, <1>6, <2>1 DEF KInv, Left
  <2>3. \A r : r \notin From(listed, rank, q)  BY <1>10 DEF From
  <2>4. \A r : Ahead(r, rank) => Ahead(r, rank)'
    BY <1>4, <1>6, <1>9, <2>1, <2>3 DEF Ahead, q
  <2>5. Polled(rank)'  BY <1>2, <1>6, <1>8, <2>1, <2>4 DEF Polled
  <2> QED  BY <1>6, <1>8, <2>2, <2>5 DEF Ordered
<1>11. CASE q # NULL
  <2> DEFINE f == PollFrame(q)
             s == Replace(f)
  <2>1. q \in listed /\ q \in Proc  BY <1>1, <1>5, <1>11
  <2>2. f \in Frame /\ f.fn = "do_poll" /\ f.last = q  BY <2>1 DEF PollFrame, Frame, Pointer
  <2>a. \/ /\ needspoll[q] /\ needspoll' = [needspoll EXCEPT ![q] = FALSE] /\ asked' = asked \ {q}
           /\ CallProcess(s, [state EXCEPT ![q] = "RUNNING"], q, "POLL")
        \/ ~ needspoll[q] /\ stack' = s /\ state' = state /\ needspoll' = needspoll /\ asked' = asked
    BY <1>11 DEF PollVisit, q
  <2> HIDE DEF f
  <2>3. s \in Seq(Frame) /\ s = Append(Pop, f)  BY <1>1, <1>t, <2>2, MarksTop
  <2> HIDE DEF s
  <2>4. Leaving(s) = Leaving(stack) /\ Polling(s) = Polling(Pop) \cup {q}
    BY <1>3, <1>4, <2>2, <2>3, MarksAppend
  <2>5. /\ Leaving(stack') = Leaving(stack) /\ Polling(stack') = Polling(Pop) \cup {q}
        /\ \A r \in Proc : state'[r] = "NONE" => state[r] = "NONE"
    <3>1. CASE needspoll[q]
      <4> DEFINE u == [state EXCEPT ![q] = "RUNNING"]
      <4>1. u \in [Proc -> Status] /\ \A r \in Proc : u[r] = "NONE" => state[r] = "NONE"
        BY <1>1, <2>1 DEF Status
      <4>2. CallProcess(s, u, q, "POLL")  BY <2>a, <3>1
      <4> HIDE DEF u
      <4>3. "POLL" \in Event  BY DEF Event, KernelEv
      <4> QED  BY <2>1, <2>3, <2>4, <4>1, <4>2, <4>3, MarksCall
    <3>2. CASE ~ needspoll[q]  BY <2>4, <2>a, <3>2
    <3> QED  BY <3>1, <3>2
  <2>6. Left'  BY <1>1, <1>6, <2>5 DEF KInv, Left
  <2>7. ASSUME NEW r \in listed, r # q, Ahead(r, rank) PROVE Ahead(r, rank)'
    <3>1. PICK x \in Polling(stack) : r \in From(listed, rank, After(x))  BY <2>7 DEF Ahead
    <3>2. CASE x \in Polling(Pop)
      BY <1>6, <1>9, <2>5, <3>1, <3>2 DEF Ahead
    <3>3. CASE x = Top.last
      <4>1. rank[q] <= rank[r]  BY <1>11, <3>1, <3>3 DEF From, q
      <4>2. /\ rank[q] # rank[r] /\ rank[q] \in Int /\ rank[r] \in Int
            /\ next[q] = NULL => rank[r] <= rank[q]
            /\ next[q] # NULL => rank[r] <= rank[q] \/ rank[next[q]] <= rank[r]
        BY <1>1, <1>8, <2>1, <2>7 DEF Ranked
      <4>3. next[q] # NULL /\ rank[next[q]] <= rank[r]  BY <4>1, <4>2
      <4>4. r \in From(listed, rank, next[q])  BY <4>3 DEF From
      <4>5. PICK z : z = q  OBVIOUS
      <4>6. After(z)' = next[z]  BY <1>6, <1>11, <4>5 DEF After
      <4>7. z \in Polling(stack')  BY <2>5, <4>5
      <4> QED  BY <1>6, <4>4, <4>5, <4>6, <4>7 DEF Ahead
    <3> QED  BY <1>4, <3>1, <3>2, <3>3
  <2>8. Polled(rank)'
    <3> SUFFICES ASSUME NEW r \in listed, r \in asked'
                 PROVE  needspoll'[r] /\ (pollRequested' \/ Ahead(r, rank)')
      BY <1>6 DEF Polled
    <3>1. r \in asked  BY <2>a
    <3>2. needspoll[r] /\ (pollRequested \/ Ahead(r, rank))  BY <1>8, <3>1 DEF Polled
    <3>3. r # q  BY <2>a, <3>2
    <3>4. needspoll'[r] = needspoll[r]  BY <1>1, <2>a, <3>3
    <3> QED  BY <1>2, <2>7, <3>2, <3>3, <3>4
  <2> QED  BY <1>6, <1>8, <2>6, <2>8 DEF Ordered
<1> QED  BY <1>10, <1>11

(* Every step keeps the rest of the invariant.                             *)
KKept == Left' /\ \E rank, low : Ordered(rank, low)'

LEMMA QuietKInv ==
  ASSUME KInv, UNCHANGED <<listVars, pollVars, asked>>, Same(stack'),
         \A p \in Proc : state'[p] = "NONE" => state[p] = "NONE"
  PROVE  KKept
<1>1. needspoll' = needspoll /\ pollRequested' = pollRequested /\ asked' = asked  BY DEF pollVars
<1>2. /\ Leaving(stack) \subseteq Leaving(stack') /\ Polling(stack) \subseteq Polling(stack')
      /\ UNCHANGED listVars
  BY DEF Same
<1>3. \A p \in Proc : state'[p] = "NONE" => state[p] = "NONE" \/ p \in Leaving(stack')  OBVIOUS
<1>4. pollRequested => pollRequested'  BY <1>1
<1>5. \A p \in asked' : p \in asked /\ (needspoll[p] => needspoll'[p])  BY <1>1
<1> QED  BY <1>2, <1>3, <1>4, <1>5, QuietStep DEF KKept

LEMMA AskKInv ==
  ASSUME KInv, NEW p \in Pointer, ProcessPoll(p), Same(stack'), UNCHANGED <<listVars, state>>
  PROVE  KKept
<1>1. /\ Leaving(stack) \subseteq Leaving(stack') /\ Polling(stack) \subseteq Polling(stack')
      /\ UNCHANGED listVars /\ state' = state
  BY DEF Same
<1>2. needspoll \in [Proc -> BOOLEAN] /\ \A q \in Proc : state'[q] = "NONE" => state[q] = "NONE"
  BY <1>1 DEF KInv, ReInv, TypeOK
<1>3. /\ pollRequested => pollRequested'
      /\ \A q \in asked' : \/ q \in asked /\ (needspoll[q] => needspoll'[q])
                           \/ needspoll'[q] /\ pollRequested'
  <2>1. CASE p # NULL /\ state[p] \in {"RUNNING", "CALLED"}
    <3>1. needspoll' = [needspoll EXCEPT ![p] = TRUE] /\ pollRequested' = TRUE /\ asked' = asked \cup {p}
      BY <2>1 DEF ProcessPoll
    <3>2. p \in Proc /\ asked \subseteq Proc  BY <2>1 DEF Pointer, KInv, ReInv, TypeOK
    <3> QED  BY <1>2, <3>1, <3>2
  <2>2. CASE ~ (p # NULL /\ state[p] \in {"RUNNING", "CALLED"})
    BY <2>2 DEF ProcessPoll, pollVars
  <2> QED  BY <2>1, <2>2
<1> QED  BY <1>1, <1>2, <1>3, QuietStep DEF KKept

(* Started from main or from a thread.                                     *)
LEMMA StartKKept ==
  ASSUME KInv, NEW s \in Seq(Frame), Same(s), NEW p \in Proc, ProcessStart(s, p),
         stack = <<>> \/ (On("thread") /\ p \in Starting), UNCHANGED pollVars
  PROVE  KKept
<1>1. Same(stack') /\ (Starts(p) \/ (ListAlone /\ UNCHANGED asked))
  BY StartEffect DEF KInv, ReInv
<1>2. CASE Starts(p)  BY <1>1, <1>2, StartKInv DEF KKept
<1>3. CASE ListAlone /\ UNCHANGED asked  BY <1>1, <1>3, QuietKInv DEF ListAlone
<1> QED  BY <1>1, <1>2, <1>3

LEMMA DoEventKKept == ASSUME KInv, DoEvent PROVE KKept
<1>1. TypeOK /\ stack = <<>> /\ state \in [Proc -> Status] /\ UNCHANGED <<listVars, pollVars, asked>>
  BY DEF KInv, ReInv, DoEvent, InLoop, TypeOK, Status
<1>2. <<>> \in Seq(Frame)  OBVIOUS
<1>3. Same(<<>>)  BY <1>1 DEF Same
<1>4. CASE nevents = 0
  <2>1. stack' = stack /\ state' = state  BY <1>4 DEF DoEvent
  <2> QED  BY <1>1, <2>1, <1>3, QuietKInv DEF Same
<1>5. CASE nevents # 0
  <2> DEFINE e == events[fevent]
             f == EventFrame(e.ev, NULL, FALSE)
             u == IF e.ev = "INIT" THEN [state EXCEPT ![e.p] = "RUNNING"] ELSE state
  <2>1. e \in Item  BY <1>1 DEF TypeOK
  <2>2. e.p \in Pointer /\ e.ev \in Event  BY <2>1 DEF Item
  <2>a. /\ e.p = NULL => stack' = <<f>> /\ state' = state
        /\ e.p # NULL => CallProcess(<<>>, u, e.p, e.ev)
    BY <1>5 DEF DoEvent
  <2>b. \A x : <<x>> = Append(<<>>, x)  OBVIOUS
  <2>3. /\ e.p = NULL => stack' = Append(<<>>, f) /\ state' = state
        /\ e.p # NULL => CallProcess(<<>>, u, e.p, e.ev)
    <3> HIDE DEF e, f, u
    <3> QED  BY <2>a, <2>b
  <2>4. f \in Frame /\ f.fn = "do_event"  BY <2>2 DEF EventFrame, Frame, Pointer
  <2>5. e.p # NULL => e.p \in Proc  BY <2>2 DEF Pointer
  <2>6. e.p \in Proc => u \in [Proc -> Status] /\ \A q \in Proc : u[q] = "NONE" => state[q] = "NONE"
    BY <1>1 DEF Status
  <2> HIDE DEF e, f, u
  <2>7. CASE e.p = NULL
    <3>1. Leaving(stack') = Leaving(<<>>) /\ Polling(stack') = Polling(<<>>)
      BY <1>2, <2>3, <2>4, <2>7, MarksAppend
    <3>2. /\ Leaving(stack) \subseteq Leaving(stack') /\ Polling(stack) \subseteq Polling(stack')
          /\ UNCHANGED listVars
      BY <1>1, <3>1
    <3>3. state' = state /\ needspoll' = needspoll /\ pollRequested' = pollRequested /\ asked' = asked
      BY <1>1, <2>3, <2>7 DEF pollVars
    <3>4. \A p \in Proc : state'[p] = "NONE" => state[p] = "NONE" \/ p \in Leaving(stack')
      BY <3>3
    <3>5. \A p \in asked' : p \in asked /\ (needspoll[p] => needspoll'[p])  BY <3>3
    <3> QED  BY <3>2, <3>3, <3>4, <3>5, QuietStep DEF KKept
  <2>8. CASE e.p # NULL
    <3>1. /\ Leaving(stack') = Leaving(<<>>) /\ Polling(stack') = Polling(<<>>)
          /\ Events(stack') = Events(<<>>)
          /\ \A q \in Proc : state'[q] = "NONE" <=> u[q] = "NONE"
      BY <1>2, <2>2, <2>3, <2>5, <2>6, <2>8, MarksCall
    <3> QED  BY <1>1, <2>5, <2>6, <2>8, <3>1, QuietKInv DEF Same
  <2> QED  BY <2>7, <2>8
<1> QED  BY <1>4, <1>5

LEMMA BroadcastCallKKept == ASSUME KInv, BroadcastCall PROVE KKept
<1> DEFINE q == Top.last
           f == EventFrame(Top.ev, q, FALSE)
           s == Replace(f)
<1>1. TypeOK /\ state \in [Proc -> Status]  BY DEF KInv, ReInv, TypeOK, Status
<1>2. /\ On("do_event") /\ Top.polled /\ CallProcess(s, state, q, Top.ev)
      /\ UNCHANGED <<listVars, pollVars, asked>>
  BY DEF BroadcastCall
<1>t. Depth > 0 /\ Top.fn = "do_event" /\ Top \in Frame  BY <1>1, <1>2, TopFacts DEF On
<1>4. q \in Proc /\ Top.ev \in Event  BY <1>2, <1>t, FrameTypes
<1>5. f \in Frame /\ f.fn = "do_event"  BY <1>4 DEF EventFrame, Frame, Pointer
<1> HIDE DEF f, q
<1>6. Pop \in Seq(Frame) /\ stack = Append(Pop, Top) /\ s = Append(Pop, f) /\ s \in Seq(Frame)
  BY <1>1, <1>t, <1>5, MarksTop
<1> HIDE DEF s
<1>p. Pop \in Seq(Frame)  BY <1>6
<1>7. Leaving(Append(Pop, Top)) = Leaving(Pop) /\ Polling(Append(Pop, Top)) = Polling(Pop)
  BY <1>p, <1>t, MarksAppend
<1>8. Leaving(Append(Pop, f)) = Leaving(Pop) /\ Polling(Append(Pop, f)) = Polling(Pop)
  BY <1>p, <1>5, MarksAppend
<1>9. /\ Leaving(stack') = Leaving(s) /\ Polling(stack') = Polling(s)
      /\ \A r \in Proc : state'[r] = "NONE" <=> state[r] = "NONE"
  BY <1>1, <1>2, <1>4, <1>6, MarksCall
<1>10. /\ Leaving(stack) \subseteq Leaving(stack') /\ Polling(stack) \subseteq Polling(stack')
       /\ UNCHANGED listVars
  BY <1>2, <1>6, <1>7, <1>8, <1>9
<1>11. needspoll' = needspoll /\ pollRequested' = pollRequested /\ asked' = asked
  BY <1>2 DEF pollVars
<1>12. \A p \in Proc : state'[p] = "NONE" => state[p] = "NONE" \/ p \in Leaving(stack')
  BY <1>9
<1>13. \A p \in asked' : p \in asked /\ (needspoll[p] => needspoll'[p])  BY <1>11
<1> QED  BY <1>10, <1>11, <1>12, <1>13, QuietStep DEF KKept

LEMMA ExitTellKKept == ASSUME KInv, ExitTell PROVE KKept
<1> DEFINE q == After(Top.last)
           p == Top.p
<1>1. TypeOK /\ state \in [Proc -> Status]  BY DEF KInv, ReInv, TypeOK, Status
<1>2. On("exit") /\ UNCHANGED <<listVars, pollVars, asked>>  BY DEF ExitTell, historyVars
<1>t. Depth > 0 /\ Top.fn = "exit" /\ Top \in Frame  BY <1>1, <1>2, TopFacts DEF On
<1>3. /\ p \in Proc /\ Top.from \in Pointer /\ Top.old \in Pointer /\ Top.last \in Pointer
      /\ Top.at \in {"tell", "finish"}
      /\ Top = [fn |-> "exit", p |-> p, from |-> Top.from, old |-> Top.old, last |-> Top.last,
                at |-> Top.at]
  BY <1>t, FrameTypes
<1>4. q \in Pointer  BY <1>1, <1>3 DEF After, TypeOK, Pointer
<1>5. Pop \in Seq(Frame) /\ stack = Append(Pop, Top)  BY <1>1, <1>t, MarksTop
<1>6. /\ Leaving(Append(Pop, Top)) = Leaving(Pop) \cup {p}
      /\ Polling(Append(Pop, Top)) = Polling(Pop) /\ Events(Append(Pop, Top)) = Events(Pop)
  BY <1>t, <1>5, MarksAppend
<1> HIDE DEF q
<1>7. ASSUME NEW f \in Frame, f.fn = "exit", f.p = p
      PROVE  Replace(f) \in Seq(Frame) /\ Same(Replace(f))
  <2>1. Replace(f) \in Seq(Frame) /\ Replace(f) = Append(Pop, f)  BY <1>1, <1>t, MarksTop
  <2>2. /\ Leaving(Append(Pop, f)) = Leaving(Pop) \cup {p}
        /\ Polling(Append(Pop, f)) = Polling(Pop) /\ Events(Append(Pop, f)) = Events(Pop)
    BY <1>5, <1>7, MarksAppend
  <2> QED  BY <1>5, <1>6, <2>1, <2>2 DEF Same
<1>8. Same(stack') /\ \A r \in Proc : state'[r] = "NONE" => state[r] = "NONE"
  <2>1. CASE q # NULL
    <3> DEFINE f == [Top EXCEPT !.last = q]
               s == Replace(f)
    <3>1. f = [fn |-> "exit", p |-> p, from |-> Top.from, old |-> Top.old, last |-> q, at |-> Top.at]
      BY <1>3
    <3>2. f \in Frame /\ f.fn = "exit" /\ f.p = p  BY <1>3, <1>4, <3>1 DEF Frame
    <3>3. IF q = p THEN stack' = s /\ state' = state ELSE CallProcess(s, state, q, "EXITED")
      BY <2>1 DEF ExitTell, q
    <3> HIDE DEF f
    <3>4. s \in Seq(Frame) /\ Same(s)  BY <1>7, <3>2
    <3> HIDE DEF s
    <3>5. q \in Proc /\ "EXITED" \in Event  BY <1>4, <2>1 DEF Pointer, Event, KernelEv
    <3> QED  BY <1>1, <3>3, <3>4, <3>5, CallSame
  <2>2. CASE q = NULL
    <3> DEFINE f == [Top EXCEPT !.at = "finish"]
               s == Replace(f)
               g == Thread(p, "EXIT", TRUE)
    <3>1. f = [fn |-> "exit", p |-> p, from |-> Top.from, old |-> Top.old, last |-> Top.last,
               at |-> "finish"]
      BY <1>3
    <3>2. f \in Frame /\ f.fn = "exit" /\ f.p = p  BY <1>3, <3>1 DEF Frame
    <3>3. state' = state /\ (stack' = s \/ stack' = Append(s, g))  BY <2>2 DEF ExitTell, q
    <3>a. "EXIT" \in Event  BY DEF Event, KernelEv
    <3>4. g.fn = "thread" /\ g \in Frame  BY <1>3, <3>a, ThreadType DEF Thread
    <3> HIDE DEF f, g
    <3>5. s \in Seq(Frame) /\ Same(s)  BY <1>7, <3>2
    <3> HIDE DEF s
    <3> QED  BY <1>1, <3>3, <3>4, <3>5, SameQuiet
  <2> QED  BY <2>1, <2>2
<1> QED  BY <1>2, <1>8, QuietKInv

LEMMA ExitKKept == ASSUME KInv, Exit PROVE KKept
<1>1. TypeOK /\ state \in [Proc -> Status] /\ MayCall  BY DEF KInv, ReInv, TypeOK, Status, Exit
<1>2. Spend \in Seq(Frame) /\ Same(Spend)  BY <1>1, SameQuiet
<1>3. PICK p \in Exiting : ExitProcess(Spend, p, current)  BY DEF Exit
<1>4. p \in Proc /\ UNCHANGED <<listVars, pollVars, asked>>
  BY KernelAssumption DEF Exit, historyVars
<1>5. CASE p \notin listed
  <2>1. stack' = Spend /\ state' = state  BY <1>3, <1>5 DEF ExitProcess
  <2> QED  BY <1>2, <1>4, <2>1, QuietKInv
<1>6. CASE p \in listed
  <2> DEFINE f == ExitFrame(p, current, current, NULL, IF state[p] = "NONE" THEN "finish" ELSE "tell")
  <2>1. stack' = Append(Spend, f) /\ state' = [state EXCEPT ![p] = "NONE"]
    BY <1>3, <1>6 DEF ExitProcess
  <2>2. f \in Frame /\ f.fn = "exit" /\ f.p = p
    BY <1>1, <1>4 DEF ExitFrame, Frame, Pointer, TypeOK
  <2> HIDE DEF f
  <2>3. Leaving(stack') = Leaving(Spend) \cup {p} /\ Polling(stack') = Polling(Spend)
    BY <1>2, <2>1, <2>2, MarksAppend
  <2>4. /\ Leaving(stack) \subseteq Leaving(stack') /\ Polling(stack) \subseteq Polling(stack')
        /\ UNCHANGED listVars
    BY <1>2, <1>4, <2>3 DEF Same
  <2>5. \A r \in Proc : state'[r] = "NONE" => state[r] = "NONE" \/ r \in Leaving(stack')
    BY <1>1, <2>1, <2>3
  <2>6. needspoll' = needspoll /\ pollRequested' = pollRequested /\ asked' = asked
    BY <1>4 DEF pollVars
  <2>7. \A r \in asked' : r \in asked /\ (needspoll[r] => needspoll'[r])  BY <2>6
  <2> QED  BY <2>4, <2>5, <2>6, <2>7, QuietStep DEF KKept
<1> QED  BY <1>5, <1>6

LEMMA ReturnKKept == ASSUME KInv, Yield \/ End PROVE KKept
<1>1. TypeOK /\ state \in [Proc -> Status] /\ Stacked(stack, listed, state)
  BY DEF KInv, ReInv, TypeOK, Status
<1>2. On("thread") /\ UNCHANGED <<listVars, pollVars, asked>>
  BY DEF Yield, End, historyVars
<1>3. Pop \in Seq(Frame) /\ Same(Pop)  BY <1>1, <1>2, SameQuiet
<1>4. Top.fn = "thread" /\ Top \in Frame /\ Top = stack[Len(stack)] /\ Len(stack) \in 1 .. Len(stack)
  BY <1>1, <1>2, TopFacts
<1>5. CASE stack' = Pop /\ state' = state
  BY <1>2, <1>3, <1>5, QuietKInv
<1>6. CASE stack' = Pop /\ state' = [state EXCEPT ![Top.p] = "RUNNING"]
  <2>1. \A r \in Proc : state'[r] = "NONE" => state[r] = "NONE"  BY <1>1, <1>6
  <2> QED  BY <1>2, <1>3, <1>6, <2>1, QuietKInv
<1>7. CASE End /\ ~ Top.direct
  <2> DEFINE p == Top.p
             f == ExitFrame(p, p, current, NULL, IF state[p] = "NONE" THEN "finish" ELSE "tell")
  <2>1. p \in Proc  BY <1>4, FrameTypes
  <2>2. state[p] = "CALLED"  BY <1>1, <1>4, <1>7, <2>1 DEF Stacked, Called
  <2>3. p \in listed  BY <1>1, <2>1, <2>2 DEF Stacked
  <2>4. stack' = Append(Pop, f) /\ state' = [state EXCEPT ![p] = "NONE"]
    BY <1>7, <2>3 DEF End, ExitProcess
  <2>5. f \in Frame /\ f.fn = "exit" /\ f.p = p
    BY <1>1, <2>1 DEF ExitFrame, Frame, Pointer, TypeOK
  <2> HIDE DEF f, p
  <2>6. Leaving(stack') = Leaving(Pop) \cup {p} /\ Polling(stack') = Polling(Pop)
    BY <1>3, <2>4, <2>5, MarksAppend
  <2>7. /\ Leaving(stack) \subseteq Leaving(stack') /\ Polling(stack) \subseteq Polling(stack')
        /\ UNCHANGED listVars
    BY <1>2, <1>3, <2>6 DEF Same
  <2>8. \A r \in Proc : state'[r] = "NONE" => state[r] = "NONE" \/ r \in Leaving(stack')
    BY <1>1, <2>4, <2>6
  <2>9. needspoll' = needspoll /\ pollRequested' = pollRequested /\ asked' = asked
    BY <1>2 DEF pollVars
  <2>10. \A r \in asked' : r \in asked /\ (needspoll[r] => needspoll'[r])  BY <2>9
  <2> QED  BY <2>7, <2>8, <2>9, <2>10, QuietStep DEF KKept
<1> QED  BY <1>5, <1>6, <1>7 DEF Yield, End

(* What a thread does without starting or exiting a process.               *)
LEMMA ThreadKKept == ASSUME KInv, Post \/ Poll \/ Synch \/ Start \/ SynchReturn PROVE KKept
<1>1. TypeOK /\ state \in [Proc -> Status]  BY DEF KInv, ReInv, TypeOK, Status
<1>2. CASE SynchReturn
  <2>1. On("synch") /\ stack' = Pop /\ state' = state /\ UNCHANGED <<listVars, pollVars, asked>>
    BY <1>2 DEF SynchReturn, historyVars
  <2> QED  BY <1>1, <2>1, SameQuiet, QuietKInv
<1>3. ASSUME MayCall PROVE Spend \in Seq(Frame) /\ Same(Spend)  BY <1>1, <1>3, SameQuiet
<1>4. CASE Post
  <2>1. MayCall /\ stack' = Spend /\ state' = state /\ UNCHANGED <<listVars, pollVars, asked>>
    BY <1>4 DEF Post, historyVars
  <2> QED  BY <1>3, <2>1, QuietKInv
<1>5. CASE Poll
  <2>1. MayCall /\ stack' = Spend /\ UNCHANGED <<listVars, state>>  BY <1>5 DEF Poll
  <2>2. PICK p \in Proc : ProcessPoll(p)  BY <1>5 DEF Poll
  <2> QED  BY <1>3, <2>1, <2>2, AskKInv DEF Pointer
<1>6. CASE Synch
  <2>1. MayCall /\ UNCHANGED <<listVars, pollVars, asked>>  BY <1>6 DEF Synch, historyVars
  <2>2. PICK p \in Proc, ev \in Ev : PostSynch(Spend, state, p, ev)  BY <1>6 DEF Synch
  <2>3. SynchFrame(current) \in Frame /\ SynchFrame(current).fn = "synch" /\ ev \in Event
    BY <1>1, SynchType DEF SynchFrame, TypeOK, Event
  <2> DEFINE t == Append(Spend, SynchFrame(current))
  <2>4. t \in Seq(Frame) /\ Same(t)  BY <1>1, <1>3, <2>1, <2>3, SameQuiet
  <2>5. CallProcess(t, state, p, ev)  BY <2>2 DEF PostSynch
  <2> HIDE DEF t
  <2>6. Same(stack') /\ \A q \in Proc : state'[q] = "NONE" => state[q] = "NONE"
    BY <1>1, <2>3, <2>4, <2>5, CallSame
  <2> QED  BY <2>1, <2>6, QuietKInv
<1>7. CASE Start
  <2>1. MayCall /\ UNCHANGED pollVars  BY <1>7 DEF Start
  <2>2. PICK p \in Starting : ProcessStart(Spend, p)  BY <1>7 DEF Start
  <2>3. p \in Proc /\ On("thread")  BY <2>1, KernelAssumption DEF MayCall
  <2> QED  BY <1>3, <2>1, <2>2, <2>3, StartKKept
<1> QED  BY <1>2, <1>4, <1>5, <1>6, <1>7

LEMMA KStep == ASSUME KInv, [Next]_vars PROVE KKept
<1>1. TypeOK  BY DEF KInv, ReInv
<1>2. stack \in Seq(Frame) /\ Same(stack)  BY <1>1, SameQuiet
<1>3. CASE UNCHANGED vars
  <2>1. UNCHANGED <<listVars, pollVars, asked, state, stack>>  BY <1>3 DEF vars, historyVars
  <2> QED  BY <1>2, <2>1, QuietKInv DEF Same
<1>4. CASE Boot
  <2>1. /\ stack = <<>> /\ booted < Len(BootSeq) /\ ProcessStart(<<>>, BootSeq[booted + 1])
        /\ UNCHANGED pollVars
    BY <1>4 DEF Boot
  <2>2. BootSeq[booted + 1] \in Proc
    <3>1. booted \in Nat /\ BootSeq \in Seq(Proc) /\ booted + 1 \in 1 .. Len(BootSeq)
      BY <1>1, <2>1, KernelAssumption DEF TypeOK
    <3> QED  BY <3>1
  <2> QED  BY <1>2, <2>1, <2>2, StartKKept
<1>5. CASE RunPoll  BY <1>5, RunPollKInv DEF KKept
<1>6. CASE DoEvent  BY <1>6, DoEventKKept
<1>7. CASE MainPoll
  <2>1. ProcessPoll(MainPolled) /\ UNCHANGED <<listVars, state, stack>>  BY <1>7 DEF MainPoll
  <2>2. MainPolled \in Pointer  BY KernelAssumption DEF Pointer
  <2> QED  BY <1>2, <2>1, <2>2, AskKInv DEF Same
<1>8. CASE PollVisit  BY <1>8, PollVisitKInv DEF KKept
<1>9. CASE BroadcastVisit  BY <1>9, BroadcastVisitKInv DEF KKept
<1>10. CASE BroadcastCall  BY <1>10, BroadcastCallKKept
<1>11. CASE ExitTell  BY <1>11, ExitTellKKept
<1>12. CASE ExitFinish  BY <1>12, ExitFinishKInv DEF KKept
<1>13. CASE Exit  BY <1>13, ExitKKept
<1>14. CASE Yield \/ End  BY <1>14, ReturnKKept
<1>15. CASE Post \/ Poll \/ Synch \/ Start \/ SynchReturn  BY <1>15, ThreadKKept
<1> QED
  BY <1>3, <1>4, <1>5, <1>6, <1>7, <1>8, <1>9, <1>10, <1>11, <1>12, <1>13, <1>14, <1>15
     DEF Next, Kernel, ThreadStep

-----------------------------------------------------------------------------
(* The walk along the list: its elements are those that the next pointers  *)
(* reach one after the other.                                              *)
Reached(f, q) ==
  /\ f \in [Nat -> Pointer] /\ f[0] = q
  /\ \A n \in Nat : f[n + 1] = IF f[n] = NULL THEN NULL ELSE next[f[n]]

LEMMA WalkReaches ==
  ASSUME TypeOK, NEW q \in Pointer
  PROVE  \E f : Reached(f, q) /\ \A i \in 1 .. Cardinality(Proc) + 2 : Walk(q)[i] = f[i - 1]
<1> DEFINE N == Cardinality(Proc) + 1
           Step(s, n) == IF s[n] = NULL THEN Append(s, NULL) ELSE Append(s, next[s[n]])
           Rec(w) == [n \in 0 .. N |-> IF n = 0 THEN <<q>> ELSE Step(w[n - 1], n)]
           walk == CHOOSE w : w = Rec(w)
           g == [x \in Pointer |-> IF x = NULL THEN NULL ELSE next[x]]
<1>1. Walk(q) = walk[N]  BY DEF Walk
<1>2. N \in Nat \ {0} /\ N + 1 = Cardinality(Proc) + 2
  BY KernelAssumption, FS_CardinalityType
<1>3. g \in [Pointer -> Pointer]  BY DEF TypeOK, Pointer
<1> HIDE DEF g, N
<1>4. PICK f \in [Nat -> Pointer] : f[0] = q /\ \A n \in Nat : f[n + 1] = g[f[n]]
  BY <1>3, Iteration
<1>5. Reached(f, q)
  <2>1. \A n \in Nat : f[n] \in Pointer  BY <1>4
  <2> QED  BY <1>4, <2>1 DEF Reached, g
<1> DEFINE T(n) == [i \in 1 .. n + 1 |-> f[i - 1]]
           c == [n \in 0 .. N |-> T(n)]
<1>6. T(0) = <<q>>
  <2>1. 0 + 1 = 1 /\ \A i \in 1 .. 1 : i = 1 /\ i - 1 = 0  OBVIOUS
  <2>2. T(0) = [i \in 1 .. 1 |-> q]  BY <1>4, <2>1
  <2>3. <<q>> = [i \in 1 .. 1 |-> q]  OBVIOUS
  <2> QED  BY <2>2, <2>3
<1>7. ASSUME NEW n \in Nat, n # 0 PROVE T(n) = Step(T(n - 1), n)
  <2> DEFINE s == T(n - 1)
  <2>1. n - 1 \in Nat /\ (n - 1) + 1 = n /\ n \in 1 .. n  BY <1>7
  <2>2. s = [i \in 1 .. n |-> f[i - 1]]  BY <2>1
  <2>3. \A i \in 1 .. n : f[i - 1] \in Pointer
    <3>1. \A i \in 1 .. n : i - 1 \in Nat  OBVIOUS
    <3> QED  BY <1>4, <3>1
  <2>4. s \in Seq(Pointer) /\ Len(s) = n  BY <2>2, <2>3
  <2>5. s[n] = f[n - 1] /\ s[n] \in Pointer  BY <2>1, <2>2, <2>3
  <2>6. Step(s, n) = Append(s, f[n])
    <3>1. f[n] = IF f[n - 1] = NULL THEN NULL ELSE next[f[n - 1]]  BY <1>5, <2>1 DEF Reached
    <3> HIDE DEF s
    <3> QED  BY <2>5, <3>1
  <2>7. Append(s, f[n]) = [i \in 1 .. n + 1 |-> IF i = n + 1 THEN f[n] ELSE s[i]]
    <3> HIDE DEF s
    <3> QED  BY <2>4
  <2>8. \A i \in 1 .. n + 1 : (IF i = n + 1 THEN f[n] ELSE s[i]) = f[i - 1]
    <3> SUFFICES ASSUME NEW i \in 1 .. n + 1, i # n + 1 PROVE s[i] = f[i - 1]
      OBVIOUS
    <3>1. i \in 1 .. n  OBVIOUS
    <3> QED  BY <2>2, <3>1
  <2> HIDE DEF s
  <2>9. [i \in 1 .. n + 1 |-> IF i = n + 1 THEN f[n] ELSE s[i]] = [i \in 1 .. n + 1 |-> f[i - 1]]
    BY <2>8
  <2>10. T(n) = [i \in 1 .. n + 1 |-> f[i - 1]]  OBVIOUS
  <2>11. Step(s, n) = T(n)
    <3> HIDE DEF T, Step
    <3> QED  BY <2>6, <2>7, <2>9, <2>10
  <2> QED  BY <2>11 DEF s
<1> HIDE DEF T, Step
<1>8. c = Rec(c)
  <2>1. ASSUME NEW n \in 0 .. N, n # 0 PROVE T(n) = Step(c[n - 1], n)
    <3>1. n - 1 \in 0 .. N /\ n \in Nat  BY <1>2, <2>1
    <3> QED  BY <1>7, <2>1, <3>1
  <2> HIDE DEF c
  <2>2. c = [n \in 0 .. N |-> T(n)]  BY DEF c
  <2>3. \A n \in 0 .. N : T(n) = IF n = 0 THEN <<q>> ELSE Step(c[n - 1], n)  BY <2>1, <1>6
  <2> QED  BY <2>2, <2>3
<1>9. walk = Rec(walk)
  <2> HIDE DEF c, Rec
  <2> QED  BY <1>8
<1> DEFINE P == {n \in Nat : n <= N => walk[n] = T(n)}
<1> HIDE DEF walk, c
<1>10. 0 \in P  BY <1>2, <1>6, <1>9
<1>11. ASSUME NEW n \in Nat, n \in P PROVE n + 1 \in P
  <2> SUFFICES ASSUME n + 1 <= N PROVE walk[n + 1] = T(n + 1)  OBVIOUS
  <2>1. n <= N /\ n + 1 \in 0 .. N /\ n + 1 # 0 /\ (n + 1) - 1 = n /\ n + 1 \in Nat  BY <1>2
  <2>2. walk[n] = T(n)  BY <1>11, <2>1
  <2>3. walk[n + 1] = Step(walk[n], n + 1)  BY <1>9, <2>1
  <2>4. T(n + 1) = Step(T(n), n + 1)  BY <1>7, <2>1
  <2> QED  BY <2>2, <2>3, <2>4
<1>12. N \in P
  <2> HIDE DEF P
  <2> QED  BY <1>2, <1>10, <1>11, Induction
<1>13. walk[N] = [i \in 1 .. N + 1 |-> f[i - 1]]
  <2>1. walk[N] = T(N)  BY <1>2, <1>12
  <2> HIDE DEF P
  <2> QED  BY <2>1 DEF T
<1> HIDE DEF P
<1> QED  BY <1>1, <1>2, <1>5, <1>13

(* It visits the processes in the order of the list, each once, and then   *)
(* it is at the end.                                                       *)
Visited(f, k) == {f[i] : i \in 0 .. k - 1} \ {NULL}
Before(rank, q, w) == {r \in listed : rank[q] <= rank[r] /\ rank[r] < rank[w]}

LEMMA WalkOrder ==
  ASSUME TypeOK, NEW rank, NEW low, Ranked(head, next, listed, rank, low, listed),
         NEW q \in listed \cup {NULL}, NEW f, Reached(f, q), NEW k \in Nat
  PROVE  /\ f[k] \in listed \cup {NULL}
         /\ f[k] = NULL => Visited(f, k) = From(listed, rank, q)
         /\ f[k] # NULL => Visited(f, k) = Before(rank, q, f[k]) /\ Cardinality(Visited(f, k)) = k
<1> DEFINE V(n) == Visited(f, n)
           Good(n) == /\ f[n] \in listed \cup {NULL}
                      /\ f[n] = NULL => V(n) = From(listed, rank, q)
                      /\ f[n] # NULL => /\ q # NULL /\ rank[q] <= rank[f[n]]
                                        /\ V(n) = Before(rank, q, f[n])
                                        /\ IsFiniteSet(V(n)) /\ Cardinality(V(n)) = n
           P == {n \in Nat : Good(n)}
<1>1. /\ rank \in [Proc -> Int] /\ listed \subseteq Proc /\ NULL \notin Proc
      /\ \A r \in listed : rank[r] \in Int
      /\ \A r, w \in listed : rank[r] = rank[w] => r = w
  BY KernelAssumption DEF Ranked, TypeOK
<1>2. f[0] = q /\ \A n \in Nat : f[n + 1] = IF f[n] = NULL THEN NULL ELSE next[f[n]]
  BY DEF Reached
<1>3. ASSUME NEW n \in Nat PROVE V(n + 1) = V(n) \cup ({f[n]} \ {NULL})
  <2>1. \A i : i \in 0 .. (n + 1) - 1 <=> i \in 0 .. n - 1 \/ i = n  OBVIOUS
  <2> QED  BY <2>1 DEF Visited
<1>4. V(0) = {}
  <2>1. 0 .. 0 - 1 = {}  OBVIOUS
  <2> QED  BY <2>1 DEF Visited
<1> HIDE DEF V
<1>5. 0 \in P
  <2>1. q = NULL => From(listed, rank, q) = {}  BY DEF From
  <2>2. q # NULL => rank[q] <= rank[q] /\ Before(rank, q, q) = {}
    <3> SUFFICES ASSUME q # NULL PROVE rank[q] <= rank[q] /\ Before(rank, q, q) = {}
      OBVIOUS
    <3>1. rank[q] \in Int  BY <1>1
    <3>2. ASSUME NEW r \in Before(rank, q, q) PROVE FALSE
      <4>1. rank[q] <= rank[r] /\ rank[r] < rank[q] /\ rank[r] \in Int  BY <1>1 DEF Before
      <4> QED  BY <4>1, <3>1
    <3> QED  BY <3>1, <3>2
  <2> QED  BY <1>2, <1>4, <2>1, <2>2, FS_EmptySet
<1>6. ASSUME NEW n \in Nat, n \in P PROVE n + 1 \in P
  <2>1. Good(n)  BY <1>6
  <2>2. CASE f[n] = NULL
    <3>1. f[n + 1] = NULL  BY <1>2, <2>2
    <3>2. V(n + 1) = From(listed, rank, q)  BY <1>3, <2>1, <2>2
    <3> QED  BY <3>1, <3>2
  <2>3. CASE f[n] # NULL
    <3> DEFINE w == f[n]
    <3>1. /\ w \in listed /\ w # NULL /\ q \in listed /\ rank[q] <= rank[w] /\ V(n) = Before(rank, q, w)
          /\ IsFiniteSet(V(n)) /\ Cardinality(V(n)) = n
      BY <2>1, <2>3
    <3>2. f[n + 1] = next[w]  BY <1>2, <2>3
    <3>3. V(n + 1) = V(n) \cup {w}  BY <1>3, <3>1
    <3> HIDE DEF w
    <3>4. w \notin V(n)
      <4>1. ~ (rank[w] < rank[w])  BY <1>1, <3>1
      <4> QED  BY <3>1, <4>1 DEF Before
    <3>5. IsFiniteSet(V(n + 1)) /\ Cardinality(V(n + 1)) = n + 1
      BY <3>1, <3>3, <3>4, FS_AddElement
    <3>6. V(n + 1) = {r \in listed : rank[q] <= rank[r] /\ rank[r] <= rank[w]}
      <4>1. ASSUME NEW r \in listed
            PROVE  r \in V(n + 1) <=> rank[q] <= rank[r] /\ rank[r] <= rank[w]
        <5>1. rank[r] \in Int /\ rank[w] \in Int /\ (rank[r] = rank[w] => r = w)  BY <1>1, <3>1
        <5>2. r \in V(n + 1) <=> (rank[q] <= rank[r] /\ rank[r] < rank[w]) \/ r = w
          BY <3>1, <3>3 DEF Before
        <5> QED  BY <5>1, <5>2, <3>1
      <4>2. V(n + 1) \subseteq listed  BY <3>1, <3>3 DEF Before
      <4> QED  BY <4>1, <4>2
    <3>7. CASE next[w] = NULL
      <4>1. \A r \in listed : rank[r] <= rank[w]  BY <3>1, <3>7 DEF Ranked
      <4>2. V(n + 1) = From(listed, rank, q)
        <5>1. q # NULL  BY <1>1, <3>1
        <5> QED  BY <3>6, <4>1, <5>1 DEF From
      <4> QED  BY <3>2, <3>7, <4>2
    <3>8. CASE next[w] # NULL
      <4>1. /\ next[w] \in listed /\ rank[w] < rank[next[w]]
            /\ \A r \in listed : rank[r] <= rank[w] \/ rank[next[w]] <= rank[r]
        BY <3>1, <3>8 DEF Ranked
      <4>2. rank[q] \in Int /\ rank[w] \in Int /\ rank[next[w]] \in Int  BY <1>1, <3>1, <4>1
      <4>3. ASSUME NEW r \in listed PROVE rank[r] <= rank[w] <=> rank[r] < rank[next[w]]
        <5>1. rank[r] \in Int  BY <1>1
        <5>2. rank[r] <= rank[w] \/ rank[next[w]] <= rank[r]  BY <4>1
        <5> QED  BY <4>1, <4>2, <5>1, <5>2
      <4>4. V(n + 1) = Before(rank, q, next[w])  BY <3>6, <4>3 DEF Before
      <4>5. rank[q] <= rank[next[w]]  BY <3>1, <4>1, <4>2
      <4>6. q # NULL /\ f[n + 1] = next[w] /\ next[w] # NULL  BY <1>1, <3>1, <3>2, <3>8
      <4>7. Good(n + 1)  BY <3>5, <4>1, <4>4, <4>5, <4>6
      <4> HIDE DEF Good
      <4> QED  BY <4>7
    <3> QED  BY <3>7, <3>8
  <2> QED  BY <2>2, <2>3
<1>7. k \in P
  <2> HIDE DEF P
  <2> QED  BY <1>5, <1>6, Induction
<1> QED  BY <1>7 DEF V

(* So the walk from a process meets exactly those from it on, and the walk *)
(* from the head ends after as many steps as there are listed processes.   *)
LEMMA WalkMeets ==
  ASSUME TypeOK, NEW rank, NEW low, Ranked(head, next, listed, rank, low, listed),
         NEW q \in listed \cup {NULL}
  PROVE  OnWalk(q) = From(listed, rank, q) /\ Walk(q)[Cardinality(listed) + 1] = NULL
<1> DEFINE N == Cardinality(Proc)
           c == Cardinality(listed)
<1>1. /\ N \in Nat /\ c \in Nat /\ c <= N /\ IsFiniteSet(listed)
  <2>1. IsFiniteSet(Proc) /\ listed \in SUBSET Proc  BY KernelAssumption DEF TypeOK
  <2>2. IsFiniteSet(listed) /\ c <= N  BY <2>1, FS_Subset
  <2> QED  BY <2>1, <2>2, FS_CardinalityType
<1>2. PICK f : Reached(f, q) /\ \A i \in 1 .. N + 2 : Walk(q)[i] = f[i - 1]
  <2>1. q \in Pointer  BY DEF TypeOK, Pointer
  <2> QED  BY <2>1, WalkReaches
<1> HIDE DEF N, c
<1> DEFINE V(k) == Visited(f, k)
<1>r. Reached(f, q)  BY <1>2
<1>w. ASSUME NEW k \in Nat
      PROVE  /\ f[k] \in listed \cup {NULL}
             /\ f[k] = NULL => V(k) = From(listed, rank, q)
             /\ f[k] # NULL => V(k) = Before(rank, q, f[k]) /\ Cardinality(V(k)) = k
  BY <1>r, WalkOrder
<1>3. ASSUME NEW k \in Nat, k >= c PROVE f[k] = NULL
  <2> SUFFICES ASSUME f[k] # NULL PROVE FALSE
    OBVIOUS
  <2>1. f[k] \in listed /\ V(k) = Before(rank, q, f[k]) /\ Cardinality(V(k)) = k
    BY <1>w
  <2> HIDE DEF V
  <2>2. V(k) \subseteq listed /\ f[k] \notin V(k)
    <3>1. ~ (rank[f[k]] < rank[f[k]])  BY <2>1 DEF Ranked
    <3> QED  BY <2>1, <3>1 DEF Before
  <2>3. V(k) \in SUBSET (listed \ {f[k]})  BY <2>2
  <2>4. IsFiniteSet(listed \ {f[k]}) /\ Cardinality(listed \ {f[k]}) = c - 1
    BY <1>1, <2>1, FS_RemoveElement DEF c
  <2>5. Cardinality(V(k)) <= c - 1  BY <2>3, <2>4, FS_Subset
  <2> QED  BY <1>1, <1>3, <2>1, <2>5
<1>4. Walk(q)[c + 1] = NULL
  <2>1. c + 1 \in 1 .. N + 2 /\ (c + 1) - 1 = c  BY <1>1
  <2> QED  BY <1>1, <1>2, <1>3, <2>1
<1>5. OnWalk(q) = V(N + 2)
  <2>1. OnWalk(q) = {Walk(q)[i] : i \in 1 .. N + 2} \ {NULL}
    <3>1. (N + 1) + 1 = N + 2  BY <1>1
    <3> QED  BY <3>1 DEF OnWalk, N
  <2>2. ASSUME NEW i \in 1 .. N + 2 PROVE i - 1 \in 0 .. (N + 2) - 1 /\ Walk(q)[i] = f[i - 1]
    BY <1>1, <1>2
  <2>3. ASSUME NEW i \in 0 .. (N + 2) - 1
        PROVE  i + 1 \in 1 .. N + 2 /\ Walk(q)[i + 1] = f[i]
    <3>1. i + 1 \in 1 .. N + 2 /\ (i + 1) - 1 = i  BY <1>1
    <3> QED  BY <3>1, <1>2
  <2> QED  BY <2>1, <2>2, <2>3 DEF Visited
<1>6. V(N + 2) = From(listed, rank, q)
  <2>1. N + 2 \in Nat /\ f[N + 2] = NULL  BY <1>1, <1>3
  <2> QED  BY <1>w, <2>1
<1> QED  BY <1>4, <1>5, <1>6 DEF c

-----------------------------------------------------------------------------
(* The list, the threads and the polls, together. *)
LEMMA KInvKernel == KInv => KernelOK
<1> SUFFICES ASSUME KInv PROVE KernelOK  OBVIOUS
<1>1. TypeOK /\ Stacked(stack, listed, state) /\ Chained /\ PollAhead(stack, listed, next) /\ Left
  BY DEF KInv, ReInv
<1>2. PICK rank, low : Ranked(head, next, listed, rank, low, listed) /\ Polled(rank)
  BY DEF KInv, Ordered
<1>3. NoReentry  BY <1>1 DEF Stacked, OneOfEach, Called, NoReentry, Depth
<1>4. ListAgrees
  <2>1. head \in listed \cup {NULL}  BY <1>1 DEF Chained
  <2>2. OnWalk(head) = From(listed, rank, head) /\ Walk(head)[Cardinality(listed) + 1] = NULL
    BY <1>1, <1>2, <2>1, WalkMeets
  <2>3. From(listed, rank, head) = listed  BY <1>2 DEF Ranked, From
  <2>4. \A p \in Proc : state[p] # "NONE" => p \in listed  BY <1>1 DEF Stacked
  <2>5. \A p \in listed : state[p] = "NONE" =>
          \E i \in 1 .. Depth : stack[i].fn = "exit" /\ stack[i].p = p
    BY <1>1 DEF Left, Leaving, Frames, Depth
  <2> QED  BY <2>2, <2>3, <2>4, <2>5 DEF ListAgrees
<1>5. ASSUME NEW i \in 1 .. Depth, stack[i].fn = "do_poll"
      PROVE  After(stack[i].last) \in listed \cup {NULL}
  <2> DEFINE x == stack[i].last
  <2>1. /\ stack \in Seq(Frame) /\ Depth = Len(stack) /\ Len(stack) \in Nat
        /\ Top = stack[Len(stack)]
    BY <1>1 DEF TypeOK, Depth, Top
  <2>2. CASE i = Len(stack)
    BY <1>1, <1>5, <2>1, <2>2 DEF PollAhead, After, Chained
  <2>3. CASE i < Len(stack)
    <3>1. x \in listed  BY <1>5, <2>1, <2>3, PollingBelow DEF KInv
    <3>2. x # NULL  BY <1>1, <3>1, KernelAssumption DEF TypeOK
    <3> QED  BY <1>1, <3>1, <3>2 DEF After, Chained
  <2> QED  BY <2>1, <2>2, <2>3
<1>6. PollNotLost
  <2> SUFFICES ASSUME NEW p \in listed \cap asked
               PROVE  /\ needspoll[p]
                      /\ pollRequested \/ \E i \in 1 .. Depth :
                           stack[i].fn = "do_poll" /\ p \in OnWalk(After(stack[i].last))
    BY DEF PollNotLost
  <2>1. needspoll[p] /\ (pollRequested \/ Ahead(p, rank))  BY <1>2 DEF Polled
  <2>2. CASE Ahead(p, rank)
    <3>1. PICK x \in Polling(stack) : p \in From(listed, rank, After(x))  BY <2>2 DEF Ahead
    <3>2. PICK i \in 1 .. Depth : stack[i].fn = "do_poll" /\ stack[i].last = x
      BY <3>1 DEF Polling, Frames, Depth
    <3>3. OnWalk(After(x)) = From(listed, rank, After(x))
      BY <1>1, <1>2, <1>5, <3>2, WalkMeets
    <3> QED  BY <2>1, <3>1, <3>2, <3>3
  <2> QED  BY <2>1, <2>2
<1> QED  BY <1>3, <1>4, <1>6 DEF KernelOK

LEMMA KKeeps == KInv /\ [Next]_vars => KInv'
<1> SUFFICES ASSUME KInv, [Next]_vars PROVE KInv'
  OBVIOUS
<1>1. TypeOK'  BY TypeNext DEF KInv, ReInv
<1>2. QueueOwn'  BY <1>1, QueueOwnStep DEF KInv, ReInv
<1>3. Stacked(stack', listed', state') /\ Chained' /\ PollAhead(stack', listed', next')
  BY <1>1, ReStep DEF KInv
<1>4. ReInv'  BY <1>1, <1>2, <1>3 DEF ReInv
<1>5. KKept  BY KStep
<1> QED  BY <1>4, <1>5 DEF KInv, KKept

LEMMA KInit == Init => KInv
<1> SUFFICES ASSUME Init PROVE KInv  OBVIOUS
<1>1. listed = {} /\ head = NULL  BY DEF Init
<1>2. Left  BY <1>1 DEF Left
<1> DEFINE rank == [p \in Proc |-> 0]
<1>3. rank \in [Proc -> Int]  OBVIOUS
<1> HIDE DEF rank
<1>4. Ordered(rank, 0)  BY <1>1, <1>3 DEF Ordered, Ranked, Polled
<1> QED  BY <1>2, <1>4, ReInit DEF KInv

(* process_list ends, meets no process twice and holds exactly the         *)
(* processes that run or are leaving, and no poll request is lost, however *)
(* polls, broadcasts, starts, exits and synchronous posts nest, and        *)
(* whatever is started, exited and posted under the loops of do_poll and   *)
(* exit_process (process.c).                                               *)
THEOREM KernelAlways == Spec => []KernelOK
<1> QED  BY KInit, KInvKernel, KKeeps, PTL DEF Spec

-----------------------------------------------------------------------------
(* Broadcasts.  Only processes that may end are on an exit, and only an    *)
(* exit calls a thread on EXIT: the events of broadcasts are of threads.   *)
Own ==
  {f \in Frame : /\ f.fn = "exit" => f.p \in Exiting
                 /\ f.fn = "thread" /\ ~ f.direct => f.ev # "EXIT"
                 /\ f.fn = "do_event" => f.ev \in Ev}

(* Such a stack, with the broadcast that is under way. *)
Goes(s) == s \in Seq(Own) /\ Events(s) = Events(stack)

LEMMA OwnSeq ==
  ASSUME NEW s \in Seq(Own)
  PROVE  s \in Seq(Frame) /\ \A f \in Own : Append(s, f) \in Seq(Own)
<1>1. Own \subseteq Frame  BY DEF Own
<1> HIDE DEF Own
<1>2. \A i \in 1 .. Len(s) : s[i] \in Own  OBVIOUS
<1>3. s \in Seq(Frame)  BY <1>1, <1>2
<1> QED  BY <1>3

LEMMA OwnTop ==
  ASSUME TypeOK, stack \in Seq(Own), Depth > 0, NEW f \in Own
  PROVE  /\ Top \in Own /\ Pop \in Seq(Own) /\ Replace(f) \in Seq(Own)
         /\ stack = Append(Pop, Top) /\ Replace(f) = Append(Pop, f)
<1>1. f \in Frame  BY DEF Own
<1>2. /\ stack = Append(Pop, Top) /\ Replace(f) = Append(Pop, f)
  BY <1>1, MarksTop
<1> HIDE DEF Own
<1>3. Top \in Own /\ Pop \in Seq(Own) /\ Replace(f) \in Seq(Own)
  BY DEF Depth, Top, Pop, Replace
<1> QED  BY <1>2, <1>3

LEMMA GoesAppend ==
  ASSUME NEW s, Goes(s), NEW f \in Own, f.fn # "do_event"
  PROVE  Goes(Append(s, f))
<1>1. s \in Seq(Own) /\ s \in Seq(Frame) /\ f \in Frame /\ Append(s, f) \in Seq(Own)
  BY OwnSeq DEF Goes, Own
<1>2. Events(Append(s, f)) = Events(s)  BY <1>1, MarksAppend
<1> QED  BY <1>1, <1>2 DEF Goes

LEMMA GoesPop ==
  ASSUME TypeOK, stack \in Seq(Own), Depth > 0, Top.fn # "do_event"
  PROVE  /\ Goes(Pop)
         /\ \A f \in Own : f.fn # "do_event" => Goes(Replace(f))
<1>1. Top \in Own /\ Pop \in Seq(Own) /\ stack = Append(Pop, Top)
      /\ \A f \in Own : Replace(f) = Append(Pop, f)
  <2>1. PICK f \in Own : TRUE
    <3>1. SynchFrame(NULL) \in Own
      BY SynchType DEF Pointer, Own, SynchFrame
    <3> QED  BY <3>1
  <2> QED  BY <2>1, OwnTop
<1>2. Pop \in Seq(Frame) /\ Top \in Frame  BY <1>1, OwnSeq DEF Own
<1>3. Events(Append(Pop, Top)) = Events(Pop)  BY <1>2, MarksAppend
<1>4. Goes(Pop)  BY <1>1, <1>3 DEF Goes
<1> QED  BY <1>1, <1>4, GoesAppend

LEMMA GoesCall ==
  ASSUME NEW s, Goes(s), NEW st, NEW p \in Proc, NEW ev \in Event \ {"EXIT"},
         CallProcess(s, st, p, ev)
  PROVE  Goes(stack')
<1> DEFINE f == Thread(p, ev, FALSE)
<1>1. f \in Own /\ f.fn = "thread"  BY ThreadType DEF Own, Thread
<1>2. stack' = s \/ stack' = Append(s, f)  BY DEF CallProcess
<1> HIDE DEF f
<1> QED  BY <1>1, <1>2, GoesAppend

LEMMA GoesStart ==
  ASSUME TypeOK, NEW s, Goes(s), NEW p \in Proc, ProcessStart(s, p)
  PROVE  Goes(stack')
<1> DEFINE t == Append(s, SynchFrame(current))
           st == [state EXCEPT ![p] = "RUNNING"]
<1>1. SynchFrame(current) \in Own /\ SynchFrame(current).fn # "do_event"
  BY SynchType DEF TypeOK, Own, SynchFrame
<1>2. Goes(t)  BY <1>1, GoesAppend
<1>3. stack' = s \/ CallProcess(t, st, p, "INIT")  BY DEF ProcessStart, PostSynch
<1> HIDE DEF t, st
<1>4. "INIT" \in Event \ {"EXIT"}  BY DEF Event, KernelEv
<1> QED  BY <1>2, <1>3, <1>4, GoesCall

LEMMA GoesExit ==
  ASSUME TypeOK, NEW s, Goes(s), NEW p \in Exiting, NEW from \in Pointer, ExitProcess(s, p, from)
  PROVE  Goes(stack')
<1> DEFINE f == ExitFrame(p, from, current, NULL, IF state[p] = "NONE" THEN "finish" ELSE "tell")
<1>1. f \in Own /\ f.fn = "exit"
  <2>1. p \in Proc /\ current \in Pointer /\ NULL \in Pointer
    BY KernelAssumption DEF TypeOK, Pointer
  <2>2. f \in Frame /\ f.fn = "exit" /\ f.p = p  BY <2>1 DEF ExitFrame, Frame
  <2> HIDE DEF f
  <2> QED  BY <2>2 DEF Own
<1>2. stack' = s \/ stack' = Append(s, f)  BY DEF ExitProcess
<1> HIDE DEF f
<1> QED  BY <1>1, <1>2, GoesAppend

LEMMA GoesSpend == ASSUME TypeOK, stack \in Seq(Own), MayCall PROVE Goes(Spend)
<1> DEFINE f == [Top EXCEPT !.left = @ - 1]
<1>1. Depth > 0 /\ Top.fn = "thread" /\ Top.left > 0 /\ MaxOps \in Nat
  BY KernelAssumption DEF MayCall, On
<1>2. Top \in Own
  <2>1. SynchFrame(NULL) \in Own  BY SynchType DEF Pointer, Own, SynchFrame
  <2> QED  BY <1>1, <2>1, OwnTop
<1>3. /\ Top.p \in Proc /\ Top.ev \in Event /\ Top.direct \in BOOLEAN /\ Top.left \in 0 .. MaxOps
      /\ Top = [fn |-> "thread", p |-> Top.p, ev |-> Top.ev, direct |-> Top.direct, left |-> Top.left]
  BY <1>1, <1>2, FrameTypes DEF Own
<1>4. ~ Top.direct => Top.ev # "EXIT"  BY <1>1, <1>2 DEF Own
<1>5. f = [fn |-> "thread", p |-> Top.p, ev |-> Top.ev, direct |-> Top.direct, left |-> Top.left - 1]
  BY <1>3
<1>6. Top.left - 1 \in 0 .. MaxOps  BY <1>1, <1>3
<1> HIDE DEF f
<1>7. f \in Frame  BY <1>3, <1>5, <1>6 DEF Frame, ThreadFrames
<1>8. f.fn = "thread" /\ f.ev = Top.ev /\ (f.direct <=> Top.direct)  BY <1>5
<1>9. f \in Own  BY <1>4, <1>7, <1>8 DEF Own
<1>10. Goes(Replace(f))  BY <1>1, <1>8, <1>9, GoesPop
<1> QED  BY <1>10 DEF Spend, f

LEMMA GoesTell == ASSUME KInv, stack \in Seq(Own), ExitTell PROVE Goes(stack')
<1> DEFINE q == After(Top.last)
           p == Top.p
<1>1. TypeOK  BY DEF KInv, ReInv
<1>2. On("exit") /\ Depth > 0 /\ Top.fn = "exit"  BY DEF ExitTell, On
<1>3. Top \in Own
  <2>1. SynchFrame(NULL) \in Own  BY SynchType DEF Pointer, Own, SynchFrame
  <2> QED  BY <1>1, <1>2, <2>1, OwnTop
<1>4. /\ p \in Proc /\ Top.from \in Pointer /\ Top.old \in Pointer /\ Top.last \in Pointer
      /\ Top.at \in {"tell", "finish"} /\ p \in Exiting
      /\ Top = [fn |-> "exit", p |-> p, from |-> Top.from, old |-> Top.old, last |-> Top.last,
                at |-> Top.at]
  BY <1>2, <1>3, FrameTypes DEF Own
<1>5. q \in Pointer  BY <1>1, <1>4 DEF After, TypeOK, Pointer
<1> HIDE DEF q
<1>6. CASE q # NULL
  <2> DEFINE f == [Top EXCEPT !.last = q]
             s == Replace(f)
  <2>1. f = [fn |-> "exit", p |-> p, from |-> Top.from, old |-> Top.old, last |-> q, at |-> Top.at]
    BY <1>4
  <2>2. f \in Frame /\ f.fn = "exit" /\ f.p = p  BY <1>4, <1>5, <2>1 DEF Frame
  <2>3. IF q = p THEN stack' = s ELSE CallProcess(s, state, q, "EXITED")
    BY <1>6 DEF ExitTell, q
  <2> HIDE DEF f
  <2>4. f \in Own  BY <1>4, <2>2 DEF Own
  <2>5. Goes(s)  BY <1>1, <1>2, <2>2, <2>4, GoesPop
  <2> HIDE DEF s
  <2>6. q \in Proc /\ "EXITED" \in Event \ {"EXIT"}  BY <1>5, <1>6 DEF Pointer, Event, KernelEv
  <2> QED  BY <2>3, <2>5, <2>6, GoesCall
<1>7. CASE q = NULL
  <2> DEFINE f == [Top EXCEPT !.at = "finish"]
             s == Replace(f)
             g == Thread(p, "EXIT", TRUE)
  <2>1. f = [fn |-> "exit", p |-> p, from |-> Top.from, old |-> Top.old, last |-> Top.last,
             at |-> "finish"]
    BY <1>4
  <2>2. f \in Frame /\ f.fn = "exit" /\ f.p = p  BY <1>4, <2>1 DEF Frame
  <2>3. stack' = s \/ stack' = Append(s, g)  BY <1>7 DEF ExitTell, q
  <2>4. "EXIT" \in Event  BY DEF Event, KernelEv
  <2>5. g \in Frame /\ g.fn = "thread" /\ g.direct  BY <1>4, <2>4, ThreadType DEF Thread
  <2> HIDE DEF f, g
  <2>6. f \in Own /\ g \in Own  BY <1>4, <2>2, <2>5 DEF Own
  <2>7. Goes(s)  BY <1>1, <1>2, <2>2, <2>6, GoesPop
  <2> HIDE DEF s
  <2> QED  BY <2>3, <2>5, <2>6, <2>7, GoesAppend
<1> QED  BY <1>6, <1>7

LEMMA GoesPoll == ASSUME KInv, stack \in Seq(Own), PollVisit \/ RunPoll PROVE Goes(stack')
<1>1. TypeOK  BY DEF KInv, ReInv
<1>2. ASSUME NEW x \in Pointer PROVE PollFrame(x) \in Own /\ PollFrame(x).fn = "do_poll"
  BY <1>2 DEF Own, PollFrame, Frame
<1>3. CASE RunPoll
  <2> DEFINE f == PollFrame(NULL)
  <2>1. stack = <<>> /\ stack' = IF pollRequested THEN <<f>> ELSE <<>>
    BY <1>3 DEF RunPoll, InLoop
  <2>2. f \in Own /\ f.fn = "do_poll"  BY <1>2 DEF Pointer
  <2> HIDE DEF f
  <2>3. <<f>> = Append(<<>>, f)  OBVIOUS
  <2>4. stack' = stack \/ stack' = Append(stack, f)  BY <2>1, <2>3
  <2>5. Goes(stack)  BY DEF Goes
  <2> QED  BY <2>2, <2>4, <2>5, GoesAppend
<1>4. CASE PollVisit
  <2> DEFINE q == After(Top.last)
             f == PollFrame(q)
             s == Replace(f)
             u == [state EXCEPT ![q] = "RUNNING"]
  <2>1. Depth > 0 /\ Top.fn = "do_poll"  BY <1>4 DEF PollVisit, On
  <2>2. q \in Pointer
    <3>1. stack \in Seq(Frame) /\ Top \in Frame  BY <2>1, <1>1 DEF TypeOK, Top, Depth
    <3>2. Top.last \in Pointer  BY <2>1, <3>1, FrameTypes
    <3> QED  BY <1>1, <3>2 DEF After, TypeOK, Pointer
  <2>3. f \in Own /\ f.fn = "do_poll"  BY <1>2, <2>2
  <2>4. Goes(Pop) /\ Goes(s)  BY <1>1, <2>1, <2>3, GoesPop
  <2>5. \/ stack' = Pop
        \/ stack' = s
        \/ q # NULL /\ CallProcess(s, u, q, "POLL")
    BY <1>4 DEF PollVisit, EndOfPolls
  <2> HIDE DEF s, f, q, u
  <2>6. "POLL" \in Event \ {"EXIT"}  BY DEF Event, KernelEv
  <2>7. q # NULL => q \in Proc  BY <2>2 DEF Pointer
  <2> QED  BY <2>4, <2>5, <2>6, <2>7, GoesCall
<1> QED  BY <1>3, <1>4

(* All steps but those of do_event itself. *)
LEMMA GoesThread ==
  ASSUME KInv, stack \in Seq(Own),
         Post \/ Poll \/ Synch \/ Start \/ Exit \/ Yield \/ End \/ SynchReturn \/ ExitFinish
  PROVE  Goes(stack')
<1>1. TypeOK /\ Goes(stack)  BY DEF KInv, ReInv, Goes
<1>2. ASSUME MayCall PROVE Goes(Spend)  BY <1>1, <1>2, GoesSpend
<1>3. ASSUME NEW fn \in {"thread", "synch", "exit"}, On(fn) PROVE Goes(Pop)
  <2>1. Depth > 0 /\ Top.fn # "do_event"  BY <1>3 DEF On
  <2> QED  BY <1>1, <2>1, GoesPop
<1>4. CASE Post \/ Poll  BY <1>2, <1>4 DEF Post, Poll
<1>5. CASE Synch
  <2>1. MayCall  BY <1>5 DEF Synch
  <2>2. PICK p \in Proc, ev \in Ev : PostSynch(Spend, state, p, ev)  BY <1>5 DEF Synch
  <2> DEFINE f == SynchFrame(current)
             t == Append(Spend, f)
  <2>3. f \in Own /\ f.fn = "synch" /\ ev \in Event \ {"EXIT"}
    BY <1>1, SynchType, KernelAssumption DEF SynchFrame, TypeOK, Event, KernelEv, Own
  <2>4. Goes(t)
    <3> HIDE DEF f
    <3> QED  BY <1>2, <2>1, <2>3, GoesAppend
  <2>5. CallProcess(t, state, p, ev)  BY <2>2 DEF PostSynch
  <2> HIDE DEF t
  <2> QED  BY <2>3, <2>4, <2>5, GoesCall
<1>6. CASE Start
  <2>1. MayCall  BY <1>6 DEF Start
  <2>2. PICK p \in Starting : ProcessStart(Spend, p)  BY <1>6 DEF Start
  <2>3. p \in Proc  BY KernelAssumption
  <2> QED  BY <1>1, <1>2, <2>1, <2>2, <2>3, GoesStart
<1>7. CASE Exit
  <2>1. MayCall  BY <1>7 DEF Exit
  <2>2. PICK p \in Exiting : ExitProcess(Spend, p, current)  BY <1>7 DEF Exit
  <2>3. current \in Pointer  BY <1>1 DEF TypeOK
  <2> QED  BY <1>1, <1>2, <2>1, <2>2, <2>3, GoesExit
<1>8. CASE Yield  BY <1>3, <1>8 DEF Yield
<1>9. CASE End
  <2>1. On("thread") /\ (stack' = Pop \/ (~ Top.direct /\ ExitProcess(Pop, Top.p, Top.p)))
    BY <1>9 DEF End
  <2>2. Goes(Pop)  BY <1>3, <2>1
  <2>3. ASSUME ~ Top.direct PROVE Top.p \in Exiting /\ Top.p \in Pointer
    <3>1. Depth > 0 /\ Top.fn = "thread"  BY <2>1 DEF On
    <3>2. SynchFrame(NULL) \in Own  BY SynchType DEF Pointer, Own, SynchFrame
    <3>3. Top \in Own  BY <1>1, <3>1, <3>2, OwnTop
    <3>4. Top.ev # "EXIT"  BY <2>3, <3>1, <3>3 DEF Own
    <3>5. Top.p \in Exiting  BY <1>9, <3>4 DEF End
    <3> QED  BY <3>5, KernelAssumption DEF Pointer
  <2> QED  BY <1>1, <2>1, <2>2, <2>3, GoesExit
<1>10. CASE SynchReturn  BY <1>3, <1>10 DEF SynchReturn
<1>11. CASE ExitFinish  BY <1>3, <1>11 DEF ExitFinish
<1> QED  BY <1>4, <1>5, <1>6, <1>7, <1>8, <1>9, <1>10, <1>11

(* Who is owed the broadcast: the listed processes behind the one that     *)
(* do_event visited last, which may have left the list since.              *)
Due(e, rank, M) ==
  /\ e.last \in M \cup {NULL} /\ (e.last = NULL => On("do_event"))
  /\ \A r \in listed :
       r \in owed <=> e.last = NULL \/ rank[e.last] < rank[r] \/ (e.polled /\ r = e.last)

(* The list, with those that have left it, for a broadcast. *)
Told(rank, low, M) ==
  /\ Ranked(head, next, listed, rank, low, M)
  /\ (M \ listed) \cap Starting = {}
  /\ owed \subseteq listed
  /\ \A e \in Events(stack) : Due(e, rank, M)

Owing == IF Events(stack) = {} THEN owed = {} ELSE \E rank, low, M : Told(rank, low, M)

BInv == KInv /\ stack \in Seq(Own) /\ Owing /\ ~ stray

LEMMA QuietOwing ==
  ASSUME BInv, UNCHANGED <<listVars, owed>>, Goes(stack'), ~ On("do_event") \/ stack' = stack
  PROVE  Owing'
<1>1. Events(stack') = Events(stack) /\ owed' = owed /\ Owing /\ listed' = listed /\ head' = head /\ next' = next
  BY DEF Goes, BInv, listVars
<1>2. CASE Events(stack) = {}  BY <1>1, <1>2 DEF Owing
<1>3. CASE Events(stack) # {}
  <2>1. PICK rank, low, M : Told(rank, low, M)  BY <1>1, <1>3 DEF Owing
  <2>2. ASSUME NEW e \in Events(stack) PROVE Due(e, rank, M)'
    <3>1. Due(e, rank, M)  BY <2>1 DEF Told
    <3>2. e.last = NULL => On("do_event")'
      <4>1. CASE stack' = stack  BY <3>1, <4>1 DEF Due, On, Top, Depth
      <4>2. CASE ~ On("do_event")  BY <3>1, <4>2 DEF Due
      <4> QED  BY <4>1, <4>2
    <3> QED  BY <1>1, <3>1, <3>2 DEF Due
  <2>3. Told(rank, low, M)'  BY <1>1, <2>1, <2>2 DEF Told
  <2> QED  BY <1>1, <1>3, <2>3 DEF Owing
<1> QED  BY <1>2, <1>3

(* Who is started is put before all that the broadcast has visited. *)
LEMMA StartOwing ==
  ASSUME BInv, NEW p, Starts(p), Goes(stack'), owed' = owed
  PROVE  Owing'
<1>1. /\ p \in Proc \ listed /\ Link(p) /\ listed' = listed \cup {p}
      /\ stack = <<>> \/ (On("thread") /\ p \in Starting)
  BY DEF Starts
<1>2. Events(stack') = Events(stack) /\ Owing /\ TypeOK  BY DEF Goes, BInv, KInv, ReInv
<1>3. CASE Events(stack) = {}  BY <1>2, <1>3 DEF Owing
<1>4. CASE Events(stack) # {}
  <2>1. PICK rank, low, M : Told(rank, low, M)  BY <1>2, <1>4 DEF Owing
  <2>2. stack # <<>>  BY <1>4 DEF Events, Frames
  <2>3. On("thread") /\ p \in Starting /\ ~ On("do_event")  BY <1>1, <2>2 DEF On
  <2>4. p \notin M /\ Ranked(head, next, listed, rank, low, M)  BY <1>1, <2>1, <2>3 DEF Told
  <2> DEFINE k == [rank EXCEPT ![p] = low]
  <2>5. Ranked(head', next', listed \cup {p}, k, low - 1, M \cup {p})
    BY <1>1, <1>2, <2>4, LinkRanked
  <2>6. /\ rank \in [Proc -> Int] /\ low \in Int /\ M \subseteq Proc /\ listed \subseteq M
        /\ \A q \in M : low < rank[q]
    BY <2>4 DEF Ranked
  <2>7. k[p] = low /\ \A q \in M : k[q] = rank[q] /\ q # p /\ rank[q] \in Int
    BY <1>1, <2>4, <2>6
  <2> HIDE DEF k
  <2>8. owed' \subseteq listed' /\ p \notin owed /\ NULL \notin Proc
    BY <1>1, <2>1, KernelAssumption DEF Told
  <2>9. ASSUME NEW e \in Events(stack) PROVE Due(e, k, M \cup {p})'
    <3>1. Due(e, rank, M)  BY <2>1 DEF Told
    <3>2. e.last \in M /\ e.last # NULL  BY <2>3, <3>1, <2>6, <2>8 DEF Due
    <3>3. ASSUME NEW r \in listed'
          PROVE  r \in owed <=> k[e.last] < k[r] \/ (e.polled /\ r = e.last)
      <4>1. CASE r \in listed
        <5>1. r \in M /\ k[r] = rank[r] /\ k[e.last] = rank[e.last]  BY <2>6, <2>7, <3>2, <4>1
        <5> QED  BY <3>1, <3>2, <4>1, <5>1 DEF Due
      <4>2. CASE r = p
        <5>1. ~ (k[e.last] < k[p]) /\ p # e.last  BY <2>6, <2>7, <3>2
        <5> QED  BY <2>8, <4>2, <5>1
      <4> QED  BY <1>1, <4>1, <4>2
    <3> QED  BY <3>2, <3>3 DEF Due
  <2>10. ((M \cup {p}) \ listed') \cap Starting = {}  BY <1>1, <2>1 DEF Told
  <2>11. Told(k, low - 1, M \cup {p})'  BY <1>1, <1>2, <2>5, <2>8, <2>9, <2>10 DEF Told
  <2> QED  BY <1>2, <1>4, <2>11 DEF Owing
<1> QED  BY <1>3, <1>4

(* Who leaves the list is not owed the event any more; do_event finds its  *)
(* way on even from a process that has left.                               *)
LEMMA ExitFinishOwing ==
  ASSUME BInv, Starting \cap Exiting = {}, ExitFinish, Goes(stack')
  PROVE  Owing'
<1> DEFINE p == Top.p
<1>1. TypeOK /\ Stacked(stack, listed, state) /\ Chained /\ Owing /\ Events(stack') = Events(stack)
  BY DEF BInv, KInv, ReInv, Goes
<1>2. On("exit") /\ Unlink(p) /\ listed' = listed \ {p} /\ owed' = owed \ {p}
  BY DEF ExitFinish
<1>3. /\ Top.fn = "exit" /\ Depth > 0 /\ Top = stack[Len(stack)] /\ Len(stack) \in 1 .. Len(stack)
  BY <1>1, <1>2, TopFacts
<1>4. p \in listed  BY <1>1, <1>3 DEF Stacked, Exits
<1>5. p \in Exiting
  <2>1. SynchFrame(NULL) \in Own  BY SynchType DEF Pointer, Own, SynchFrame
  <2>2. Top \in Own  BY <1>1, <1>3, <2>1, OwnTop DEF BInv
  <2> QED  BY <1>3, <2>2 DEF Own
<1> HIDE DEF p
<1>6. CASE Events(stack) = {}
  <2>1. owed = {}  BY <1>1, <1>6 DEF Owing
  <2> QED  BY <1>1, <1>2, <1>6, <2>1 DEF Owing
<1>7. CASE Events(stack) # {}
  <2>1. PICK rank, low, M : Told(rank, low, M)  BY <1>1, <1>7 DEF Owing
  <2>2. Ranked(head, next, listed, rank, low, M)  BY <2>1 DEF Told
  <2>3. Ranked(head', next', listed', rank, low, M)
    BY <1>1, <1>2, <1>4, <2>2, UnlinkRanked
  <2>4. ASSUME NEW e \in Events(stack) PROVE Due(e, rank, M)'
    <3>1. Due(e, rank, M)  BY <2>1 DEF Told
    <3>2. ~ On("do_event")  BY <1>2 DEF On
    <3>3. e.last \in M /\ e.last # NULL  BY <3>1, <3>2 DEF Due
    <3> QED  BY <1>2, <3>1, <3>3 DEF Due
  <2>5. (M \ listed') \cap Starting = {} /\ owed' \subseteq listed'
    BY <1>2, <1>5, <2>1 DEF Told
  <2>6. Told(rank, low, M)'  BY <1>1, <2>3, <2>4, <2>5 DEF Told
  <2> QED  BY <1>1, <1>7, <2>6 DEF Owing
<1> QED  BY <1>6, <1>7

(* do_event is the outermost call when it goes on. *)
LEMMA EventTop ==
  ASSUME BInv, On("do_event")
  PROVE  /\ TypeOK /\ Top \in Own /\ Top.fn = "do_event" /\ Top.ev \in Ev /\ Top.last \in Pointer
         /\ Top.polled => Top.last \in Proc
         /\ Pop = <<>> /\ Events(stack) = {Top} /\ Events(<<>>) = {}
         /\ \A f \in Own : Replace(f) = Append(<<>>, f) /\ Replace(f) \in Seq(Own)
<1>1. TypeOK /\ Stacked(stack, listed, state) /\ stack \in Seq(Own)  BY DEF BInv, KInv, ReInv
<1>2. /\ Top.fn = "do_event" /\ Depth > 0 /\ Top = stack[Len(stack)] /\ Len(stack) \in 1 .. Len(stack)
      /\ Len(Pop) = Len(stack) - 1 /\ Pop \in Seq(Frame)
  BY <1>1, TopFacts DEF On
<1>3. Len(stack) = 1  BY <1>1, <1>2 DEF Stacked, Loops
<1>4. Pop = <<>>  BY <1>2, <1>3
<1>5. /\ Top \in Own
      /\ stack = Append(<<>>, Top)
      /\ \A f \in Own : Replace(f) = Append(<<>>, f) /\ Replace(f) \in Seq(Own)
  <2>1. SynchFrame(NULL) \in Own  BY SynchType DEF Pointer, Own, SynchFrame
  <2> QED  BY <1>1, <1>2, <1>4, <2>1, OwnTop
<1>6. Top \in Frame /\ Top.ev \in Ev  BY <1>2, <1>5 DEF Own
<1>7. Top.last \in Pointer /\ (Top.polled => Top.last \in Proc)  BY <1>2, <1>6, FrameTypes
<1>8. Events(<<>>) = {}  BY DEF Events, Frames
<1>9. Events(Append(<<>>, Top)) = Events(<<>>) \cup {Top}
  <2>1. <<>> \in Seq(Frame)  OBVIOUS
  <2> QED  BY <1>2, <1>6, <2>1, MarksAppend
<1> QED  BY <1>1, <1>2, <1>4, <1>5, <1>6, <1>7, <1>8, <1>9

(* The next process that do_event visits is the first one owed the event.  *)
LEMMA VisitOwing ==
  ASSUME BInv, BroadcastVisit
  PROVE  Owing' /\ stack' \in Seq(Own)
<1> DEFINE q == After(Top.last)
<1>1. /\ On("do_event") /\ ~ Top.polled /\ UNCHANGED listVars /\ owed' = owed
  BY DEF BroadcastVisit, historyVars
<1>2. /\ TypeOK /\ Top \in Own /\ Top.fn = "do_event" /\ Top.ev \in Ev /\ Top.last \in Pointer
      /\ Pop = <<>> /\ Events(stack) = {Top} /\ Events(<<>>) = {}
      /\ \A f \in Own : Replace(f) = Append(<<>>, f) /\ Replace(f) \in Seq(Own)
  BY <1>1, EventTop
<1>3. PICK rank, low, M : Told(rank, low, M)  BY <1>2 DEF BInv, Owing
<1>4. Ranked(head, next, listed, rank, low, M) /\ Due(Top, rank, M) /\ owed \subseteq listed
  BY <1>2, <1>3 DEF Told
<1>5. listed' = listed /\ head' = head /\ next' = next /\ NULL \notin Proc
  BY <1>1, KernelAssumption DEF listVars
<1>6. \A r \in listed : r \in owed <=> Top.last = NULL \/ rank[Top.last] < rank[r]
  BY <1>1, <1>4 DEF Due
<1>r. /\ rank \in [Proc -> Int] /\ M \subseteq Proc /\ listed \subseteq M
      /\ \A r \in M : rank[r] \in Int
      /\ \A r, w \in M : rank[r] = rank[w] => r = w
  BY <1>4 DEF Ranked
<1>7. CASE q = NULL
  <2>1. stack' = <<>>  BY <1>2, <1>7 DEF BroadcastVisit
  <2>2. ASSUME NEW r \in owed PROVE FALSE
    <3>1. CASE Top.last = NULL  BY <1>4, <1>7, <2>2, <3>1 DEF After, Ranked
    <3>2. CASE Top.last # NULL
      <4>1. Top.last \in M /\ next[Top.last] = NULL  BY <1>4, <1>7, <3>2 DEF Due, After
      <4>2. rank[r] <= rank[Top.last]  BY <1>4, <2>2, <4>1 DEF Ranked
      <4>3. rank[Top.last] < rank[r] /\ r \in M  BY <1>4, <1>6, <1>r, <2>2, <3>2
      <4> QED  BY <1>r, <4>1, <4>2, <4>3
    <3> QED  BY <3>1, <3>2
  <2> QED  BY <1>1, <1>2, <2>1, <2>2 DEF Owing
<1>8. CASE q # NULL
  <2> DEFINE f == EventFrame(Top.ev, q, TRUE)
             g == PollFrame(NULL)
             s == Replace(f)
  <2>1. q \in M
    <3>1. CASE Top.last = NULL  BY <1>4, <1>8, <3>1 DEF After, Ranked
    <3>2. CASE Top.last # NULL  BY <1>4, <1>8, <3>2 DEF After, Ranked, Due
    <3> QED  BY <3>1, <3>2
  <2>2. \A r \in listed : r \in owed <=> rank[q] < rank[r] \/ r = q
    <3> SUFFICES ASSUME NEW r \in listed
                 PROVE  r \in owed <=> rank[q] < rank[r] \/ r = q
      OBVIOUS
    <3>1. rank[r] \in Int /\ rank[q] \in Int /\ (rank[r] = rank[q] => r = q)  BY <1>r, <2>1
    <3>2. CASE Top.last = NULL
      <4>1. rank[q] <= rank[r]  BY <1>4, <3>2 DEF After, Ranked
      <4> QED  BY <1>6, <3>1, <3>2, <4>1
    <3>3. CASE Top.last # NULL
      <4>1. Top.last \in M /\ q = next[Top.last]  BY <1>4, <3>3 DEF After, Due
      <4>2. /\ rank[Top.last] < rank[q] /\ rank[Top.last] \in Int
            /\ rank[r] <= rank[Top.last] \/ rank[q] <= rank[r]
        BY <1>4, <1>8, <1>r, <4>1 DEF Ranked
      <4> QED  BY <1>6, <3>1, <3>3, <4>2
    <3> QED  BY <3>2, <3>3
  <2>3. q \in Proc  BY <1>r, <2>1
  <2>4. f \in Own /\ f.fn = "do_event" /\ f.last = q /\ f.polled
    <3>1. Top.ev \in Event  BY <1>2 DEF Event
    <3> QED  BY <1>2, <2>3, <3>1 DEF EventFrame, Frame, Own
  <2>5. g \in Own /\ g.fn = "do_poll"  BY DEF PollFrame, Frame, Own, Pointer
  <2>6. stack' = s \/ stack' = Append(s, g)  BY <1>8 DEF BroadcastVisit
  <2> HIDE DEF q, f, g
  <2>7. s \in Seq(Own) /\ s = Append(<<>>, f)  BY <1>2, <2>4
  <2>8. Append(s, g) \in Seq(Own) /\ s \in Seq(Frame)
    <3> HIDE DEF s
    <3> QED  BY <2>5, <2>7, OwnSeq
  <2>9. Events(Append(<<>>, f)) = Events(<<>>) \cup {f}
    <3>1. <<>> \in Seq(Frame) /\ f \in Frame  BY <2>4 DEF Own
    <3> QED  BY <2>4, <3>1, MarksAppend
  <2>10. Events(Append(s, g)) = Events(s)
    <3>1. g \in Frame  BY <2>5 DEF Own
    <3> HIDE DEF s
    <3> QED  BY <2>5, <2>8, <3>1, MarksAppend
  <2>11. Events(stack') = {f}  BY <1>2, <2>6, <2>7, <2>9, <2>10
  <2>12. PICK e : e = f  OBVIOUS
  <2>13. Events(stack)' = {e} /\ e.last \in M /\ e.last = q /\ e.last # NULL /\ e.polled
    BY <1>5, <2>1, <2>3, <2>4, <2>11, <2>12
  <2>14. \A r \in listed : r \in owed <=> e.last = NULL \/ rank[e.last] < rank[r] \/ (e.polled /\ r = e.last)
    BY <2>2, <2>13
  <2>15. Due(e, rank, M)'  BY <1>1, <1>5, <2>13, <2>14 DEF Due
  <2>16. \A d \in Events(stack)' : Due(d, rank, M)'  BY <2>13, <2>15
  <2>17. Told(rank, low, M)'  BY <1>1, <1>3, <1>5, <2>16 DEF Told
  <2> QED  BY <2>6, <2>7, <2>8, <2>13, <2>17 DEF Owing
<1> QED  BY <1>7, <1>8

(* Who is called with the event was owed it, and no longer is. *)
LEMMA CallOwing ==
  ASSUME BInv, BroadcastCall
  PROVE  Owing' /\ stack' \in Seq(Own) /\ ~ stray'
<1> DEFINE q == Top.last
           f == EventFrame(Top.ev, q, FALSE)
           s == Replace(f)
           h == Thread(q, Top.ev, FALSE)
<1>1. /\ On("do_event") /\ Top.polled /\ UNCHANGED listVars /\ owed' = owed \ {q}
      /\ CallProcess(s, state, q, Top.ev)
      /\ stray' = (stray \/ (state[q] = "RUNNING" /\ q \notin owed))
  BY DEF BroadcastCall
<1>2. /\ TypeOK /\ Top \in Own /\ Top.fn = "do_event" /\ Top.ev \in Ev /\ Top.last \in Pointer
      /\ Top.last \in Proc
      /\ Pop = <<>> /\ Events(stack) = {Top} /\ Events(<<>>) = {}
      /\ \A x \in Own : Replace(x) = Append(<<>>, x) /\ Replace(x) \in Seq(Own)
  BY <1>1, EventTop
<1>3. PICK rank, low, M : Told(rank, low, M)  BY <1>2 DEF BInv, Owing
<1>4. Ranked(head, next, listed, rank, low, M) /\ Due(Top, rank, M) /\ owed \subseteq listed
  BY <1>2, <1>3 DEF Told
<1>5. listed' = listed /\ head' = head /\ next' = next /\ NULL \notin Proc
  BY <1>1, KernelAssumption DEF listVars
<1>6. q \in M /\ q # NULL /\ \A r \in listed : r \in owed <=> rank[q] < rank[r] \/ r = q
  BY <1>1, <1>2, <1>4, <1>5 DEF Due
<1>r. /\ rank \in [Proc -> Int] /\ M \subseteq Proc /\ listed \subseteq M
      /\ \A r \in M : rank[r] \in Int
  BY <1>4 DEF Ranked
<1>7. ~ stray'
  <2>1. state[q] = "RUNNING" => q \in listed  BY <1>2 DEF BInv, KInv, ReInv, Stacked
  <2>2. q \in listed => q \in owed  BY <1>6
  <2> QED  BY <1>1, <2>1, <2>2 DEF BInv
<1>8. f \in Own /\ f.fn = "do_event" /\ f.last = q /\ ~ f.polled
  <2>1. Top.ev \in Event  BY <1>2 DEF Event
  <2> QED  BY <1>2, <2>1 DEF EventFrame, Frame, Own
<1>9. h \in Own /\ h.fn = "thread"
  <2>1. Top.ev \in Event \ {"EXIT"}  BY <1>2, KernelAssumption DEF Event, KernelEv
  <2> QED  BY <1>2, <2>1, ThreadType DEF Own, Thread
<1>10. stack' = s \/ stack' = Append(s, h)  BY <1>1 DEF CallProcess
<1> HIDE DEF q, f, h
<1>11. s \in Seq(Own) /\ s = Append(<<>>, f)  BY <1>2, <1>8
<1>12. Append(s, h) \in Seq(Own) /\ s \in Seq(Frame)
  <2> HIDE DEF s
  <2> QED  BY <1>9, <1>11, OwnSeq
<1>13. Events(Append(<<>>, f)) = Events(<<>>) \cup {f}
  <2>1. <<>> \in Seq(Frame) /\ f \in Frame  BY <1>8 DEF Own
  <2> QED  BY <1>8, <2>1, MarksAppend
<1>14. Events(Append(s, h)) = Events(s)
  <2>1. h \in Frame  BY <1>9 DEF Own
  <2> HIDE DEF s
  <2> QED  BY <1>9, <1>12, <2>1, MarksAppend
<1>15. Events(stack') = {f}  BY <1>2, <1>10, <1>11, <1>13, <1>14
<1>16. PICK e, z : e = f /\ z = q  OBVIOUS
<1>17. Events(stack)' = {e} /\ e.last \in M /\ e.last = z /\ z # NULL /\ ~ e.polled
  BY <1>6, <1>8, <1>15, <1>16
<1>18. \A r \in listed : r \in owed' <=> e.last = NULL \/ rank[e.last] < rank[r] \/ (e.polled /\ r = e.last)
  <2> SUFFICES ASSUME NEW r \in listed PROVE r \in owed \ {z} <=> rank[z] < rank[r]
    BY <1>1, <1>16, <1>17
  <2>1. rank[z] \in Int /\ rank[r] \in Int  BY <1>6, <1>r, <1>16
  <2> QED  BY <1>6, <1>16, <2>1
<1>19. Due(e, rank, M)'  BY <1>5, <1>17, <1>18 DEF Due
<1>20. \A d \in Events(stack)' : Due(d, rank, M)'  BY <1>17, <1>19
<1>21. Told(rank, low, M)'
  <2>1. owed' \subseteq listed'  BY <1>1, <1>4, <1>5
  <2> QED  BY <1>3, <1>5, <1>20, <2>1 DEF Told
<1> QED  BY <1>7, <1>10, <1>11, <1>12, <1>17, <1>21 DEF Owing

(* A broadcast event taken from the queue is owed to who is listed.        *)
LEMMA EventOwing ==
  ASSUME BInv, DoEvent
  PROVE  Owing' /\ stack' \in Seq(Own) /\ ~ stray'
<1>1. /\ TypeOK /\ QueueOwn /\ stack = <<>> /\ UNCHANGED <<listVars, stray>>
      /\ Goes(<<>>) /\ ~ On("do_event") /\ ~ stray'
  BY DEF BInv, KInv, ReInv, DoEvent, InLoop, On, Depth, Goes
<1>2. Events(stack) = {} /\ owed = {}
  <2>1. Events(stack) = {}  BY <1>1 DEF Events, Frames
  <2> QED  BY <2>1 DEF BInv, Owing
<1>3. CASE nevents = 0
  <2>1. stack' = stack /\ owed' = owed  BY <1>3 DEF DoEvent
  <2>2. Goes(stack')  BY <1>1, <2>1
  <2> QED  BY <1>1, <2>1, <2>2, QuietOwing DEF Goes
<1>4. CASE nevents # 0
  <2> DEFINE e == events[fevent]
             f == EventFrame(e.ev, NULL, FALSE)
             u == IF e.ev = "INIT" THEN [state EXCEPT ![e.p] = "RUNNING"] ELSE state
  <2>1. e.p \in Pointer /\ e.ev \in Ev
    <3>1. e \in Item /\ fevent \in 0 .. NUMEVENTS - 1 /\ nevents \in Nat /\ NUMEVENTS \in Nat
      BY <1>1, KernelAssumption DEF TypeOK, Slots
    <3>2. 1 \in 1 .. nevents /\ (fevent + 1 - 1) % NUMEVENTS = fevent  BY <1>4, <3>1
    <3>3. Queued[1] = e  BY <3>2 DEF Queued
    <3>4. Queued[1].ev \in Ev  BY <1>1, <3>2 DEF QueueOwn
    <3> QED  BY <3>1, <3>3, <3>4 DEF Item
  <2>2. e.ev \in Event \ {"EXIT"}  BY <2>1, KernelAssumption DEF Event, KernelEv
  <2>3. IF e.p = NULL THEN stack' = <<f>> /\ owed' = listed
                      ELSE CallProcess(<<>>, u, e.p, e.ev) /\ owed' = owed
    BY <1>4 DEF DoEvent
  <2>4. f \in Own /\ f.fn = "do_event" /\ f.last = NULL
    BY <2>1, <2>2 DEF EventFrame, Frame, Pointer, Own
  <2>5. \A x : <<x>> = Append(<<>>, x)  OBVIOUS
  <2> HIDE DEF e, f, u
  <2>6. CASE e.p = NULL
    <3>1. stack' = Append(<<>>, f) /\ owed' = listed  BY <2>3, <2>5, <2>6
    <3>2. <<>> \in Seq(Frame) /\ <<>> \in Seq(Own) /\ f \in Frame  BY <2>4 DEF Own
    <3>3. Events(Append(<<>>, f)) = Events(<<>>) \cup {f}  BY <2>4, <3>2, MarksAppend
    <3>4. Events(stack') = {f}  BY <1>1, <1>2, <3>1, <3>3
    <3>5. stack' \in Seq(Own)  BY <2>4, <3>1, <3>2, OwnSeq
    <3>6. PICK d : d = f  OBVIOUS
    <3>7. Events(stack)' = {d} /\ d.last = NULL /\ d.fn = "do_event"  BY <2>4, <3>4, <3>6
    <3>8. On("do_event")'
      <4>1. stack' = <<d>>  BY <2>5, <3>1, <3>6
      <4>2. Len(stack)' = 1 /\ stack'[1] = d  BY <4>1
      <4> QED  BY <3>7, <4>2 DEF On, Depth, Top
    <3>9. PICK rank, low : Ordered(rank, low)  BY DEF BInv, KInv
    <3>10. Ranked(head, next, listed, rank, low, listed)  BY <3>9 DEF Ordered
    <3>11. Ranked(head, next, listed, rank, low, listed)' /\ owed' = listed'
      BY <1>1, <3>1, <3>10 DEF listVars
    <3>12. Due(d, rank, listed)'  BY <3>7, <3>8, <3>11 DEF Due
    <3>13. \A c \in Events(stack)' : Due(c, rank, listed)'  BY <3>7, <3>12
    <3>14. listed' = listed  BY <1>1 DEF listVars
    <3>15. Told(rank, low, listed)'  BY <3>11, <3>13, <3>14 DEF Told
    <3>16. Events(stack)' # {}  BY <3>7
    <3>17. PICK l : l = listed  OBVIOUS
    <3>18. Told(rank, low, l)'  BY <3>14, <3>15, <3>17
    <3> QED  BY <1>1, <3>5, <3>16, <3>18 DEF Owing
  <2>7. CASE e.p # NULL
    <3>1. e.p \in Proc /\ CallProcess(<<>>, u, e.p, e.ev) /\ owed' = owed
      BY <2>1, <2>3, <2>7 DEF Pointer
    <3>2. Goes(stack')  BY <1>1, <2>2, <3>1, GoesCall
    <3> QED  BY <1>1, <3>1, <3>2, QuietOwing DEF Goes
  <2> QED  BY <2>6, <2>7
<1> QED  BY <1>3, <1>4

LEMMA BeginOwing ==
  ASSUME BInv, NEW s, Goes(s), s \in Seq(Frame), Same(s), NEW p \in Proc, ProcessStart(s, p),
         stack = <<>> \/ (On("thread") /\ p \in Starting), owed' = owed
  PROVE  Owing' /\ stack' \in Seq(Own)
<1>1. TypeOK  BY DEF BInv, KInv, ReInv
<1>2. Goes(stack')  BY <1>1, GoesStart
<1>3. Starts(p) \/ ListAlone  BY <1>1, StartEffect
<1>4. ~ On("do_event")  BY <1>1 DEF On, Depth
<1>5. CASE Starts(p)  BY <1>2, <1>5, StartOwing DEF Goes
<1>6. CASE ListAlone  BY <1>2, <1>4, <1>6, QuietOwing DEF ListAlone, Goes
<1> QED  BY <1>3, <1>5, <1>6

(* Every step keeps what is owed, when no process is started that ended.   *)
LEMMA OwingStep ==
  ASSUME BInv, Starting \cap Exiting = {}, [Next]_vars
  PROVE  Owing' /\ stack' \in Seq(Own) /\ ~ stray'
<1>1. /\ KInv /\ TypeOK /\ stack \in Seq(Own) /\ stack \in Seq(Frame) /\ Goes(stack) /\ Same(stack)
      /\ ~ stray
  <2>1. KInv /\ TypeOK /\ stack \in Seq(Own) /\ ~ stray  BY DEF BInv, KInv, ReInv
  <2> QED  BY <2>1, OwnSeq DEF Goes, Same
<1>2. ASSUME UNCHANGED <<listVars, owed>>, Goes(stack'), ~ On("do_event") \/ stack' = stack
      PROVE  Owing' /\ stack' \in Seq(Own)
  BY <1>2, QuietOwing DEF Goes
<1>3. CASE UNCHANGED vars
  <2>1. UNCHANGED <<listVars, owed, stray, stack>>  BY <1>3 DEF vars, historyVars
  <2> QED  BY <1>1, <1>2, <2>1
<1>4. CASE Boot
  <2>1. /\ stack = <<>> /\ booted < Len(BootSeq) /\ ProcessStart(<<>>, BootSeq[booted + 1])
        /\ owed' = owed /\ stray' = stray
    BY <1>4 DEF Boot
  <2>2. BootSeq[booted + 1] \in Proc
    <3>1. booted \in Nat /\ BootSeq \in Seq(Proc) /\ booted + 1 \in 1 .. Len(BootSeq)
      BY <1>1, <2>1, KernelAssumption DEF TypeOK
    <3> QED  BY <3>1
  <2>3. ProcessStart(stack, BootSeq[booted + 1])  BY <2>1
  <2> QED  BY <1>1, <2>1, <2>2, <2>3, BeginOwing
<1>5. CASE Start
  <2>1. MayCall /\ owed' = owed /\ stray' = stray  BY <1>5 DEF Start
  <2>2. PICK p \in Starting : ProcessStart(Spend, p)  BY <1>5 DEF Start
  <2>3. p \in Proc /\ On("thread")  BY <2>1, KernelAssumption DEF MayCall
  <2>4. Goes(Spend)  BY <1>1, <2>1, GoesSpend
  <2>5. Spend \in Seq(Frame) /\ Same(Spend)  BY <1>1, <2>1, SameQuiet
  <2> QED  BY <1>1, <2>1, <2>2, <2>3, <2>4, <2>5, BeginOwing
<1>6. CASE ExitFinish
  <2>1. Goes(stack') /\ stray' = stray  BY <1>1, <1>6, GoesThread DEF ExitFinish
  <2> QED  BY <1>1, <1>6, <2>1, ExitFinishOwing DEF Goes
<1>7. CASE RunPoll \/ PollVisit
  <2>1. UNCHANGED <<listVars, owed, stray>> /\ ~ On("do_event")
    BY <1>7 DEF RunPoll, PollVisit, InLoop, On, Depth, historyVars
  <2>2. Goes(stack')  BY <1>1, <1>7, GoesPoll
  <2> QED  BY <1>1, <1>2, <2>1, <2>2
<1>8. CASE MainPoll
  <2>1. UNCHANGED <<listVars, owed, stray, stack>>  BY <1>8 DEF MainPoll
  <2> QED  BY <1>1, <1>2, <2>1
<1>9. CASE ExitTell
  <2>1. UNCHANGED <<listVars, owed, stray>> /\ ~ On("do_event")
    BY <1>9 DEF ExitTell, On, historyVars
  <2>2. Goes(stack')  BY <1>1, <1>9, GoesTell
  <2> QED  BY <1>1, <1>2, <2>1, <2>2
<1>10. CASE Post \/ Poll \/ Synch \/ Exit \/ Yield \/ End \/ SynchReturn
  <2>1. UNCHANGED <<listVars, owed, stray>> /\ ~ On("do_event")
    BY <1>10 DEF Post, Poll, Synch, Exit, Yield, End, SynchReturn, MayCall, On, historyVars
  <2>2. Goes(stack')  BY <1>1, <1>10, GoesThread
  <2> QED  BY <1>1, <1>2, <2>1, <2>2
<1>11. CASE DoEvent  BY <1>11, EventOwing
<1>12. CASE BroadcastVisit
  <2>1. stray' = stray  BY <1>12 DEF BroadcastVisit, historyVars
  <2> QED  BY <1>1, <1>12, <2>1, VisitOwing
<1>13. CASE BroadcastCall  BY <1>13, CallOwing
<1> QED
  BY <1>3, <1>4, <1>5, <1>6, <1>7, <1>8, <1>9, <1>10, <1>11, <1>12, <1>13
     DEF Next, Kernel, ThreadStep

LEMMA BInit == Init => BInv
<1> SUFFICES ASSUME Init PROVE BInv  OBVIOUS
<1>1. stack = <<>> /\ owed = {} /\ ~ stray  BY DEF Init
<1>2. Events(stack) = {} /\ stack \in Seq(Own)  BY <1>1 DEF Events, Frames
<1> QED  BY <1>1, <1>2, KInit DEF BInv, Owing

LEMMA BInvExact == BInv => BroadcastExact
<1> SUFFICES ASSUME BInv, \A i \in 1 .. Depth : stack[i].fn # "do_event" PROVE owed = {}
  BY DEF BInv, BroadcastExact
<1>1. Events(stack) = {}  BY DEF Events, Frames, Depth
<1> QED  BY <1>1 DEF BInv, Owing

(* A broadcast reaches every process that is on the list when do_event     *)
(* takes the event and stays there, each once, and no other, however the   *)
(* threads it calls change the list under its loop (process.c), provided   *)
(* that no process that has ended is started again: one that is, while     *)
(* do_event stands at it, is put at the head of the list and the loop      *)
(* takes its way from there a second time.                                 *)
THEOREM BroadcastsExact ==
  ASSUME Starting \cap Exiting = {}
  PROVE  Spec => []BroadcastExact
<1>1. BInv /\ [Next]_vars => BInv'
  <2> SUFFICES ASSUME BInv, [Next]_vars PROVE BInv'
    OBVIOUS
  <2>1. KInv'  BY KKeeps DEF BInv
  <2>2. Owing' /\ stack' \in Seq(Own) /\ ~ stray'  BY OwingStep
  <2> QED  BY <2>1, <2>2 DEF BInv
<1> QED  BY BInit, BInvExact, <1>1, PTL DEF Spec
=============================================================================
