-------------------------- MODULE PacketPathProofs --------------------------
(***************************************************************************)
(* Proofs about uip_buf and the events that announce it, for every number  *)
(* of addresses, solicitations and events.  The argument: whoever handles  *)
(* an event leaves the buffer empty, the only one who fills it posts the   *)
(* event that empties it, and the queue keeps what was posted in order.    *)
(***************************************************************************)
EXTENDS PacketPath, TLAPS

(* The timers and their events: one event each, none while the timer runs. *)
TimersOK(q, T) ==
  \A i \in DOMAIN q :
    q[i] \in Timer => q[i] \notin T /\ \A j \in DOMAIN q : q[j] = q[i] => j = i

Holds(q, ev) == \E i \in DOMAIN q : q[i] = ev

LEMMA AppendTo ==
  ASSUME NEW q \in Seq(Event), NEW ev \in Event
  PROVE  /\ Append(q, ev) \in Seq(Event)
         /\ Len(Append(q, ev)) = Len(q) + 1
         /\ \A i \in DOMAIN Append(q, ev) :
              \/ i \in DOMAIN q /\ Append(q, ev)[i] = q[i]
              \/ i = Len(q) + 1 /\ Append(q, ev)[i] = ev
         /\ \A i \in DOMAIN q : i \in DOMAIN Append(q, ev) /\ Append(q, ev)[i] = q[i]
         /\ Len(q) + 1 \in DOMAIN Append(q, ev) /\ Append(q, ev)[Len(q) + 1] = ev
         /\ Len(q) + 1 \notin DOMAIN q
  OBVIOUS

LEMMA TailOf ==
  ASSUME NEW q \in Seq(Event), q # <<>>
  PROVE  /\ Tail(q) \in Seq(Event) /\ Len(Tail(q)) = Len(q) - 1
         /\ 1 \in DOMAIN q /\ Head(q) = q[1]
         /\ \A i \in DOMAIN Tail(q) : i + 1 \in DOMAIN q /\ Tail(q)[i] = q[i + 1]
         /\ \A i \in DOMAIN q : i # 1 => i - 1 \in DOMAIN Tail(q) /\ Tail(q)[i - 1] = q[i]
  OBVIOUS

(* A post of an event that is no timer's, and one of a timer that stops.   *)
LEMMA PostKeeps ==
  ASSUME NEW q \in Seq(Event), NEW T, NEW ev \in Event \ Timer, TimersOK(q, T)
  PROVE  TimersOK(Append(q, ev), T)
  BY AppendTo DEF TimersOK

LEMMA PostTimerKeeps ==
  ASSUME NEW q \in Seq(Event), NEW T, NEW t \in T, t \in Timer, TimersOK(q, T)
  PROVE  TimersOK(Append(q, t), T \ {t})
<1>1. \A i \in DOMAIN q : q[i] # t
  BY DEF TimersOK
<1> QED
  BY <1>1, AppendTo DEF TimersOK, Event

(* A dispatch; the handler may start the timer whose event it took.        *)
LEMMA TakeKeeps ==
  ASSUME NEW q \in Seq(Event), q # <<>>, NEW T, TimersOK(q, T)
  PROVE  /\ TimersOK(Tail(q), T)
         /\ Head(q) \in Timer => TimersOK(Tail(q), T \cup {Head(q)})
<1>1. ASSUME NEW i \in DOMAIN Tail(q), Tail(q)[i] \in Timer
      PROVE  /\ Tail(q)[i] \notin T
             /\ \A j \in DOMAIN Tail(q) : Tail(q)[j] = Tail(q)[i] => j = i
             /\ Tail(q)[i] # Head(q)
  <2>1. i + 1 \in DOMAIN q /\ Tail(q)[i] = q[i + 1] /\ i + 1 # 1
    BY <1>1, TailOf
  <2>2. q[i + 1] \notin T /\ \A j \in DOMAIN q : q[j] = q[i + 1] => j = i + 1
    BY <1>1, <2>1 DEF TimersOK
  <2>3. \A j \in DOMAIN Tail(q) : Tail(q)[j] = Tail(q)[i] => j + 1 = i + 1
    BY <2>1, <2>2, TailOf
  <2>4. Tail(q)[i] # Head(q)
    BY <2>1, <2>2, TailOf
  <2> QED
    BY <2>1, <2>2, <2>3, <2>4, TailOf
<1> QED
  BY <1>1 DEF TimersOK

LEMMA TakeHolds ==
  ASSUME NEW q \in Seq(Event), q # <<>>, NEW ev, Head(q) # ev, Holds(q, ev)
  PROVE  Holds(Tail(q), ev)
<1>1. PICK i \in DOMAIN q : q[i] = ev
  BY DEF Holds
<1>2. i # 1
  BY <1>1, TailOf
<1> QED
  BY <1>1, <1>2, TailOf DEF Holds

(* The part of TypeOK and BufferSound that is about the addresses.         *)
AddrOK ==
  /\ addrs \in [Slot -> 0 .. Preferred \cup {NULL}] /\ asked \in [Slot -> 0 .. MaxDad]
  /\ addrs[LinkLocal] # NULL
  /\ \A i \in Slot : addrs[i] # NULL => asked[i] = IF addrs[i] = Preferred THEN MaxDad ELSE addrs[i]

(* And the part that is about the buffer and the events.                   *)
QueueOK == queue \in Seq(Event) /\ Len(queue) <= NumEvents /\ TimersOK(queue, timers)
Told == uip = "told" => turn \/ Holds(queue, "ethnet")
Rest ==
  /\ uip \in {NULL, "told", "untold"} /\ turn \in BOOLEAN /\ timers \subseteq Timer
  /\ rscount \in 0 .. MaxRs

IInv == AddrOK /\ QueueOK /\ Told /\ Rest

LEMMA Parts == IInv <=> TypeOK /\ BufferSound
<1>1. IInv => TypeOK
  BY DEF IInv, AddrOK, QueueOK, TimersOK, Rest, TypeOK, Content
<1>2. IInv => BufferSound
  BY DEF IInv, AddrOK, Told, Holds, Rest, BufferSound
<1>3. TypeOK /\ BufferSound => AddrOK /\ QueueOK
  BY DEF AddrOK, QueueOK, TimersOK, TypeOK, BufferSound
<1>4. TypeOK /\ BufferSound => Told /\ Rest
  BY DEF Told, Holds, Rest, TypeOK, BufferSound
<1> QED
  BY <1>1, <1>2, <1>3, <1>4 DEF IInv

(* What the number assumption says of the constants.                       *)
LEMMA Numbers ==
  /\ MaxDad \in Nat /\ NumEvents \in Nat /\ MaxRs \in Nat /\ AddrNB \in Nat
  /\ LinkLocal \in Slot /\ Preferred \in Nat /\ NULL \notin 0 .. Preferred
  /\ Preferred = MaxDad + 1
  BY NumberAssumption, NullAssumption DEF LinkLocal, Slot, Preferred

LEMMA TakeStep ==
  ASSUME QueueOK, NEW ev, Dispatch(ev)
  PROVE  /\ queue' \in Seq(Event) /\ Len(queue') <= NumEvents
         /\ TimersOK(queue', timers)
         /\ ev \in Timer => TimersOK(queue', timers \cup {ev})
         /\ ev # "ethnet" /\ Holds(queue, "ethnet") => Holds(queue', "ethnet")
<1>1. queue \in Seq(Event) /\ queue # <<>> /\ Head(queue) = ev /\ queue' = Tail(queue)
  BY DEF QueueOK, Dispatch
<1>2. Tail(queue) \in Seq(Event) /\ Len(Tail(queue)) = Len(queue) - 1 /\ Len(queue) \in Nat
  BY <1>1, TailOf
<1>3. Len(queue') <= NumEvents
  BY <1>1, <1>2, Numbers DEF QueueOK
<1>4. /\ TimersOK(Tail(queue), timers)
      /\ ev \in Timer => TimersOK(Tail(queue), timers \cup {ev})
  BY <1>1, TakeKeeps DEF QueueOK
<1>5. ev # "ethnet" /\ Holds(queue, "ethnet") => Holds(Tail(queue), "ethnet")
  BY <1>1, TakeHolds
<1> QED
  BY <1>1, <1>2, <1>3, <1>4, <1>5

LEMMA PostStep ==
  ASSUME QueueOK, Room, NEW ev \in Event \ Timer, queue' = Append(queue, ev), timers' = timers
  PROVE  /\ QueueOK'
         /\ ev = "ethnet" \/ Holds(queue, "ethnet") => Holds(queue', "ethnet")
<1>1. queue \in Seq(Event) /\ Len(queue) \in Nat
  BY DEF QueueOK
<1>2. /\ queue' \in Seq(Event) /\ Len(queue') = Len(queue) + 1
      /\ \A i \in DOMAIN queue : i \in DOMAIN queue' /\ queue'[i] = queue[i]
      /\ Len(queue) + 1 \in DOMAIN queue' /\ queue'[Len(queue) + 1] = ev
  BY <1>1, AppendTo
<1>3. TimersOK(queue', timers')
  BY <1>1, PostKeeps DEF QueueOK
<1>4. Len(queue') <= NumEvents
  BY <1>1, <1>2, Numbers DEF Room
<1> QED
  BY <1>1, <1>2, <1>3, <1>4 DEF QueueOK, Holds

(* uip_ds6_addr_add and uip_ds6_addr_rm of an address that is not the      *)
(* link-local one.                                                         *)
LEMMA PacketInputKeeps ==
  ASSUME AddrOK, PacketInput PROVE AddrOK'
<1>1. CASE UNCHANGED <<addrs, asked>>
  BY <1>1 DEF AddrOK
<1>2. ASSUME NEW i \in Global, NEW n \in {0, NULL}, AddrSet(i, n) PROVE AddrOK'
  BY <1>2, Numbers DEF AddrOK, AddrSet, Global
<1> QED
  BY <1>1, <1>2 DEF PacketInput

(* One pass of uip_ds6_periodic over the addresses: a solicitation that is *)
(* counted leaves, for nobody writes over it.                              *)
LEMMA PeriodicKeeps ==
  ASSUME AddrOK, NEW old \in SUBSET {i \in Global : addrs[i] # NULL}, NEW due \in SUBSET Slot,
         NEW nbrAsks \in BOOLEAN, Periodic(old, due, nbrAsks)
  PROVE  AddrOK'
<1> DEFINE asks == AsksNow(old, due)
           moves == Passes(old, due)
<1>1. /\ \A i \in asks : i \in Slot /\ addrs[i] # NULL /\ addrs[i] < MaxDad /\ i \notin old
      /\ \A i \in moves : i \in Slot /\ addrs[i] = MaxDad /\ i \notin old
  BY DEF AsksNow, Passes, Live
<1>2. ~ (nbrAsks /\ asks # {})
  BY NullAssumption DEF Periodic, NbrMayAsk
<1>3. /\ addrs' = [i \in Slot |-> IF i \in old THEN NULL
                                  ELSE IF i \in asks THEN addrs[i] + 1
                                  ELSE IF i \in moves THEN Preferred
                                  ELSE addrs[i]]
      /\ asked' = [i \in Slot |-> IF i \in old THEN 0
                                  ELSE IF i \in asks THEN asked[i] + 1
                                  ELSE asked[i]]
  BY <1>2 DEF Periodic
<1>4. LinkLocal \in Slot /\ LinkLocal \notin old
  BY Numbers DEF Global
<1>5. ASSUME NEW i \in Slot
      PROVE  /\ addrs'[i] \in 0 .. Preferred \cup {NULL} /\ asked'[i] \in 0 .. MaxDad
             /\ i \notin old /\ addrs[i] # NULL => addrs'[i] # NULL
             /\ addrs'[i] # NULL =>
                  asked'[i] = IF addrs'[i] = Preferred THEN MaxDad ELSE addrs'[i]
  <2>1. /\ addrs[i] \in 0 .. Preferred \cup {NULL} /\ asked[i] \in 0 .. MaxDad
        /\ addrs[i] # NULL => asked[i] = IF addrs[i] = Preferred THEN MaxDad ELSE addrs[i]
    BY DEF AddrOK
  <2>2. CASE i \in old
    BY <1>3, <2>1, <2>2, Numbers
  <2>3. CASE i \notin old /\ i \in asks
    <3>1. addrs'[i] = addrs[i] + 1 /\ asked'[i] = asked[i] + 1
      BY <1>3, <2>3
    <3>2. addrs[i] \in 0 .. MaxDad - 1 /\ asked[i] = addrs[i]
      BY <1>1, <2>1, <2>3, Numbers
    <3> QED
      BY <2>3, <3>1, <3>2, Numbers
  <2>4. CASE i \notin old /\ i \notin asks /\ i \in moves
    <3>1. addrs'[i] = Preferred /\ asked'[i] = asked[i] /\ asked[i] = MaxDad
      BY <1>1, <1>3, <2>1, <2>4, Numbers
    <3> QED
      BY <3>1, Numbers
  <2>5. CASE i \notin old /\ i \notin asks /\ i \notin moves
    BY <1>3, <2>1, <2>5
  <2> QED
    BY <2>2, <2>3, <2>4, <2>5
<1>6. addrs' \in [Slot -> 0 .. Preferred \cup {NULL}] /\ asked' \in [Slot -> 0 .. MaxDad]
  BY <1>3, <1>5
<1>7. addrs'[LinkLocal] # NULL
  BY <1>4, <1>5 DEF AddrOK
<1> QED
  BY <1>5, <1>6, <1>7 DEF AddrOK

(* The steps that leave the buffer empty and the addresses alone.          *)
LEMMA Empties ==
  ASSUME IInv, uip' = NULL, AddrOK', QueueOK', turn' \in BOOLEAN, timers' \subseteq Timer,
         rscount' \in 0 .. MaxRs
  PROVE  IInv'
<1>1. Told'
  BY NullAssumption DEF Told
<1> QED
  BY <1>1 DEF IInv, Rest

LEMMA StepKeeps == IInv /\ [Next]_vars => IInv'
<1> SUFFICES ASSUME IInv, [Next]_vars PROVE IInv'
  OBVIOUS
<1> USE DEF IInv
<1>1. CASE Poll
  <2>1. CASE Room
    <3>1. uip' = "told" /\ queue' = Append(queue, "ethnet") /\ UNCHANGED <<turn, stackVars>>
      BY <1>1, <2>1 DEF Poll
    <3>2. QueueOK' /\ Holds(queue', "ethnet")
      BY <2>1, <3>1, PostStep DEF stackVars, Event, Timer
    <3> QED
      BY <3>1, <3>2 DEF stackVars, AddrOK, Told, Rest
  <2>2. CASE ~ Room
    <3>1. uip' = "untold" /\ UNCHANGED <<queue, turn, stackVars>>
      BY <1>1, <2>2 DEF Poll
    <3> QED
      BY <3>1 DEF stackVars, AddrOK, QueueOK, Told, Rest
  <2> QED
    BY <2>1, <2>2
<1>2. ASSUME NEW t \in Timer, TimerExpires(t) PROVE IInv'
  <2>1. /\ t \in timers /\ Room /\ timers' = timers \ {t} /\ queue' = Append(queue, t)
        /\ UNCHANGED <<uip, turn, addrs, asked, rscount>>
    BY <1>2 DEF TimerExpires
  <2>2. queue \in Seq(Event) /\ t \in Event /\ Len(queue) \in Nat
    BY DEF QueueOK, Event
  <2>3. /\ queue' \in Seq(Event) /\ Len(queue') = Len(queue) + 1
        /\ \A i \in DOMAIN queue : i \in DOMAIN queue' /\ queue'[i] = queue[i]
    BY <2>1, <2>2, AppendTo
  <2>4. TimersOK(queue', timers')
    BY <2>1, <2>2, PostTimerKeeps DEF QueueOK
  <2>5. Len(queue') <= NumEvents
    BY <2>1, <2>2, <2>3, Numbers DEF Room
  <2>6. QueueOK'
    BY <2>3, <2>4, <2>5 DEF QueueOK
  <2>7. Told'
    BY <2>1, <2>3 DEF Told, Holds
  <2> QED
    BY <2>1, <2>6, <2>7 DEF AddrOK, Rest
<1>3. CASE RplExpires
  <2>1. /\ Room /\ queue' = Append(queue, "rpl") /\ UNCHANGED <<uip, turn, stackVars>>
    BY <1>3 DEF RplExpires
  <2>2. QueueOK' /\ (Holds(queue, "ethnet") => Holds(queue', "ethnet"))
    BY <2>1, PostStep DEF stackVars, Event, Timer
  <2> QED
    BY <2>1, <2>2 DEF stackVars, AddrOK, Told, Rest
<1>4. CASE EthnetEvent
  <2>1. Dispatch("ethnet") /\ turn' = TRUE /\ UNCHANGED <<uip, stackVars>>
    BY <1>4 DEF EthnetEvent
  <2>2. queue' \in Seq(Event) /\ Len(queue') <= NumEvents /\ TimersOK(queue', timers)
    BY <2>1, TakeStep
  <2> QED
    BY <2>1, <2>2 DEF stackVars, AddrOK, QueueOK, Told, Rest
<1>5. CASE TcpipInput
  <2>1. uip' = NULL /\ turn' = FALSE /\ UNCHANGED <<queue, timers, rscount>>
    BY <1>5 DEF TcpipInput, AfterInput
  <2>2. AddrOK'
    <3>1. CASE uip = NULL
      BY <1>5, <3>1 DEF TcpipInput, AddrOK
    <3>2. CASE uip # NULL
      BY <1>5, <3>2, PacketInputKeeps DEF TcpipInput
    <3> QED
      BY <3>1, <3>2
  <2> QED
    BY <2>1, <2>2, Empties DEF QueueOK, Rest
<1>6. CASE RplOutput
  <2>1. Dispatch("rpl") /\ uip' = NULL /\ UNCHANGED <<turn, stackVars>>
    BY <1>6 DEF RplOutput
  <2>2. QueueOK'
    BY <2>1, TakeStep DEF stackVars, QueueOK
  <2>3. AddrOK'
    BY <2>1 DEF stackVars, AddrOK
  <2> QED
    BY <2>1, <2>2, <2>3, Empties DEF stackVars, Rest
<1>7. CASE PeriodicEvent
  <2>1. PICK old \in SUBSET {i \in Global : addrs[i] # NULL}, due \in SUBSET Slot, nbrAsks \in BOOLEAN :
          Periodic(old, due, nbrAsks)
    BY <1>7 DEF PeriodicEvent
  <2>2. /\ Dispatch("periodic") /\ uip' = NULL /\ timers' = timers \cup {"periodic"}
        /\ UNCHANGED <<turn, rscount>>
    BY <2>1 DEF Periodic, Sent
  <2>3. QueueOK'
    BY <2>2, TakeStep DEF QueueOK, Timer
  <2>4. AddrOK'
    BY <2>1, PeriodicKeeps
  <2> QED
    BY <2>2, <2>3, <2>4, Empties DEF Rest, Timer
<1>8. CASE RsEvent
  <2>1. /\ Dispatch("rs") /\ uip' = NULL /\ UNCHANGED <<turn, addrs, asked>>
        /\ timers' = timers \cup {"rs"} \/ timers' = timers
        /\ rscount' = rscount \/ (rscount < MaxRs /\ rscount' = rscount + 1)
    <3>1. CASE rscount < MaxRs /\ rscount' = rscount + 1 /\ timers' = timers \cup {"rs"} /\ uip' = Sent("own")
      BY <1>8, <3>1 DEF RsEvent, Sent
    <3>2. CASE uip' = Sent(uip) /\ UNCHANGED <<rscount, timers>>
      BY <1>8, <3>2 DEF RsEvent, Sent
    <3> QED
      BY <1>8, <3>1, <3>2 DEF RsEvent
  <2>2. QueueOK'
    BY <2>1, TakeStep DEF QueueOK, Timer
  <2>3. AddrOK'
    BY <2>1 DEF AddrOK
  <2>4. rscount' \in 0 .. MaxRs
    BY <2>1, Numbers DEF Rest
  <2> QED
    BY <2>1, <2>2, <2>3, <2>4, Empties DEF Rest, Timer
<1>9. CASE UNCHANGED vars
  BY <1>9 DEF vars, AddrOK, QueueOK, Told, Rest
<1> QED
  BY <1>1, <1>2, <1>3, <1>4, <1>5, <1>6, <1>7, <1>8, <1>9 DEF Next

LEMMA InitHolds == Init => IInv
<1> SUFFICES ASSUME Init PROVE IInv
  OBVIOUS
<1>1. AddrOK
  <2>1. ASSUME NEW i \in Slot
        PROVE  addrs[i] = (IF i = LinkLocal THEN 0 ELSE NULL) /\ asked[i] = 0
    BY DEF Init
  <2>2. 0 \in 0 .. Preferred /\ 0 \in 0 .. MaxDad /\ 0 # NULL /\ 0 # Preferred
    BY Numbers
  <2>3. addrs \in [Slot -> 0 .. Preferred \cup {NULL}] /\ asked \in [Slot -> 0 .. MaxDad]
    BY <2>2 DEF Init
  <2> QED
    BY <2>1, <2>2, <2>3, Numbers DEF AddrOK
<1>2. QueueOK
  BY Numbers DEF Init, QueueOK, TimersOK
<1>3. Told
  BY NullAssumption DEF Init, Told
<1>4. Rest
  <2>1. 0 \in 0 .. MaxRs
    BY Numbers
  <2>2. FALSE \in BOOLEAN
    OBVIOUS
  <2> QED
    BY <2>1, <2>2 DEF Init, Rest
<1> QED
  BY <1>1, <1>2, <1>3, <1>4 DEF IInv

(* Every variable keeps its type, and no timer of the stack ever has two   *)
(* events, or one while it runs.                                           *)
THEOREM TypeCorrect == Spec => []TypeOK
<1>1. IInv => TypeOK
  BY Parts
<1> QED
  BY <1>1, InitHolds, StepKeeps, PTL DEF Spec

(* The packet in uip_buf is never handled twice, its event is still to     *)
(* come if it was posted, and every solicitation that uip_ds6_dad counts   *)
(* has left.                                                               *)
THEOREM BufferCorrect == Spec => []BufferSound
<1>1. IInv => BufferSound
  BY Parts
<1> QED
  BY <1>1, InitHolds, StepKeeps, PTL DEF Spec
=============================================================================
