---------------------------- MODULE CtimerProofs ----------------------------
(***************************************************************************)
(* Proofs about Ctimer for every set of timers and intervals and every     *)
(* size of the event queue.  The invariant is the three properties at      *)
(* once; the periodic timer's one place is split into the two lists it can *)
(* be in, and a poll, which repeats PostFirst, is shown to stay inside the *)
(* set Polled of outcomes by induction on the passes of its scan.          *)
(***************************************************************************)
EXTENDS Ctimer, DataLemmas

(* The one place of the periodic timer, list by list. *)
Placed(a, q) ==
  \/ Periodic \in ToSet(a) /\ Periodic \notin ToSet(q)
  \/ Periodic \notin ToSet(a) /\ Once(q, Periodic)

Typed(s) == /\ s.listed \subseteq Timer
            /\ s.armed \in Seq(Timer) /\ IsInjective(s.armed)
            /\ s.due \in [Timer -> Int]
            /\ s = [listed |-> s.listed, armed |-> s.armed, due |-> s.due]

Queued(q) == q \in Seq(Timer \cup {Other}) /\ Len(q) <= NUMEVENTS

(* The lists and the queue together. *)
Whole(s, q) ==
  /\ Typed(s) /\ Queued(q)
  /\ s.listed \subseteq ToSet(s.armed) \cup ToSet(q)
  /\ Periodic \in s.listed
  /\ Placed(s.armed, q)
  /\ Periodic \in ToSet(q) => s.due[Periodic] <= 0

IInv == Whole(timers, queue) /\ ran \in Timer \cup {Other}

-----------------------------------------------------------------------------
(* A list is its elements; two of them after each other. *)
LEMMA Parts ==
  ASSUME NEW S, NEW a \in Seq(S), NEW q \in Seq(S)
  PROVE  /\ a \o q \in Seq(S) /\ Len(a \o q) = Len(a) + Len(q)
         /\ Len(a) \in Nat /\ Len(q) \in Nat
         /\ \A i \in 1 .. Len(a) : (a \o q)[i] = a[i]
         /\ \A i \in 1 .. Len(q) : (a \o q)[Len(a) + i] = q[i]
         /\ \A i \in 1 .. Len(a) + Len(q) :
              i \in 1 .. Len(a) \/ (i - Len(a) \in 1 .. Len(q) /\ Len(a) + (i - Len(a)) = i)
  OBVIOUS

LEMMA OnceSplit ==
  ASSUME NEW a \in Seq(Timer), IsInjective(a), NEW q \in Seq(Timer \cup {Other})
  PROVE  Once(a \o q, Periodic) <=> Placed(a, q)
<1> DEFINE c == a \o q
           m == Len(a)
           n == Len(q)
<1>1. /\ c \in Seq(Timer \cup {Other}) /\ Len(c) = m + n /\ m \in Nat /\ n \in Nat
      /\ \A i \in 1 .. m : c[i] = a[i]
      /\ \A i \in 1 .. n : c[m + i] = q[i]
      /\ \A i \in 1 .. m + n : i \in 1 .. m \/ (i - m \in 1 .. n /\ m + (i - m) = i)
  <2>1. a \in Seq(Timer \cup {Other})  OBVIOUS
  <2> QED  BY <2>1, Parts
<1>2. /\ DOMAIN c = 1 .. m + n /\ DOMAIN a = 1 .. m /\ DOMAIN q = 1 .. n  BY <1>1
<1> HIDE DEF c, m, n
<1>3. ASSUME Once(c, Periodic) PROVE Placed(a, q)
  <2>1. PICK i \in 1 .. m + n : \A j \in 1 .. m + n : c[j] = Periodic <=> j = i
    BY <1>2, <1>3 DEF Once
  <2>2. CASE i \in 1 .. m
    <3>1. Periodic \in ToSet(a)  BY <2>1, <2>2, <1>1, <1>2 DEF ToSet
    <3>2. ASSUME NEW k \in 1 .. n PROVE q[k] # Periodic
      <4>1. m + k \in 1 .. m + n /\ m + k # i  BY <1>1, <2>2
      <4> QED  BY <4>1, <2>1, <1>1
    <3> QED  BY <3>1, <3>2, <1>2 DEF Placed, ToSet
  <2>3. CASE i - m \in 1 .. n /\ m + (i - m) = i
    <3>1. ASSUME NEW k \in 1 .. m PROVE a[k] # Periodic
      <4>1. k \in 1 .. m + n /\ k # i  BY <1>1, <2>3
      <4> QED  BY <4>1, <2>1, <1>1
    <3>2. ASSUME NEW k \in 1 .. n PROVE q[k] = Periodic <=> k = i - m
      <4>1. m + k \in 1 .. m + n /\ (m + k = i <=> k = i - m)  BY <1>1, <2>3
      <4> QED  BY <4>1, <2>1, <1>1
    <3> QED  BY <3>1, <3>2, <2>3, <1>2 DEF Placed, Once, ToSet
  <2> QED  BY <2>1, <2>2, <2>3, <1>1
<1>4. ASSUME Periodic \in ToSet(a), Periodic \notin ToSet(q) PROVE Once(c, Periodic)
  <2>1. PICK i \in 1 .. m : a[i] = Periodic  BY <1>2, <1>4 DEF ToSet
  <2>2. i \in 1 .. m + n  BY <1>1
  <2>3. ASSUME NEW j \in 1 .. m + n PROVE c[j] = Periodic <=> j = i
    <3>1. CASE j \in 1 .. m  BY <3>1, <2>1, <1>1, <1>2 DEF IsInjective
    <3>2. CASE j - m \in 1 .. n /\ m + (j - m) = j
      <4>1. c[j] = q[j - m] /\ j # i  BY <3>2, <1>1
      <4>2. q[j - m] # Periodic  BY <3>2, <1>2, <1>4 DEF ToSet
      <4> QED  BY <4>1, <4>2
    <3> QED  BY <3>1, <3>2, <1>1
  <2> QED  BY <2>2, <2>3, <1>2 DEF Once
<1>5. ASSUME Periodic \notin ToSet(a), Once(q, Periodic) PROVE Once(c, Periodic)
  <2>1. PICK i \in 1 .. n : \A j \in 1 .. n : q[j] = Periodic <=> j = i
    BY <1>2, <1>5 DEF Once
  <2>2. m + i \in 1 .. m + n  BY <1>1
  <2>3. ASSUME NEW j \in 1 .. m + n PROVE c[j] = Periodic <=> j = m + i
    <3>1. CASE j \in 1 .. m
      <4>1. a[j] # Periodic /\ j # m + i  BY <3>1, <1>1, <1>2, <1>5 DEF ToSet
      <4> QED  BY <4>1, <3>1, <1>1
    <3>2. CASE j - m \in 1 .. n /\ m + (j - m) = j
      <4>1. c[j] = q[j - m] /\ (j = m + i <=> j - m = i)  BY <3>2, <1>1
      <4> QED  BY <4>1, <2>1, <3>2
    <3> QED  BY <3>1, <3>2, <1>1
  <2> QED  BY <2>2, <2>3, <1>2 DEF Once
<1> QED  BY <1>3, <1>4, <1>5 DEF Placed, c

(* Taking the first element off a queue, and adding one to it. *)
LEMMA TailPart ==
  ASSUME NEW S, NEW q \in Seq(S), q # <<>>
  PROVE  /\ Tail(q) \in Seq(S) /\ Len(Tail(q)) = Len(q) - 1
         /\ Head(q) = q[1] /\ Head(q) \in S /\ Len(q) \in Nat \ {0}
         /\ \A i \in 1 .. Len(q) - 1 : Tail(q)[i] = q[i + 1]
         /\ DOMAIN q = 1 .. Len(q) /\ DOMAIN Tail(q) = 1 .. Len(q) - 1
  OBVIOUS

LEMMA TakeHead ==
  ASSUME NEW q, Queued(q), q # <<>>
  PROVE  /\ Queued(Tail(q)) /\ Head(q) \in Timer \cup {Other}
         /\ ToSet(Tail(q)) \subseteq ToSet(q)
         /\ ToSet(q) = ToSet(Tail(q)) \cup {Head(q)}
         /\ Once(q, Periodic) =>
              IF Head(q) = Periodic THEN Periodic \notin ToSet(Tail(q)) ELSE Once(Tail(q), Periodic)
<1> DEFINE n == Len(q)
           r == Tail(q)
<1>1. /\ r \in Seq(Timer \cup {Other}) /\ Len(r) = n - 1
      /\ Head(q) = q[1] /\ Head(q) \in Timer \cup {Other} /\ n \in Nat \ {0}
      /\ \A i \in 1 .. n - 1 : r[i] = q[i + 1]
      /\ DOMAIN q = 1 .. n /\ DOMAIN r = 1 .. n - 1
  BY TailPart DEF Queued
<1>2. n <= NUMEVENTS  BY DEF Queued
<1> HIDE DEF n, r
<1>d. DOMAIN q = 1 .. n /\ DOMAIN r = 1 .. n - 1  BY <1>1
<1>3. Queued(r)  BY <1>1, <1>2, TimerAssumption DEF Queued
<1>4. \A i \in 1 .. n - 1 : i + 1 \in 1 .. n  BY <1>1
<1>5. \A i \in 1 .. n : i = 1 \/ (i - 1 \in 1 .. n - 1 /\ (i - 1) + 1 = i)  BY <1>1
<1>6. ToSet(r) \subseteq ToSet(q)  BY <1>1, <1>4 DEF ToSet
<1>7. ToSet(q) \subseteq ToSet(r) \cup {Head(q)}
  <2> SUFFICES ASSUME NEW i \in 1 .. n, i # 1 PROVE q[i] \in ToSet(r)  BY <1>1 DEF ToSet
  <2>1. i - 1 \in 1 .. n - 1 /\ r[i - 1] = q[i]  BY <1>1, <1>5
  <2> QED  BY <2>1, <1>1 DEF ToSet
<1>8. Head(q) \in ToSet(q)  BY <1>1 DEF ToSet
<1>9. ASSUME Once(q, Periodic)
      PROVE  IF Head(q) = Periodic THEN Periodic \notin ToSet(r) ELSE Once(r, Periodic)
  <2>1. PICK i \in 1 .. n : \A j \in 1 .. n : q[j] = Periodic <=> j = i  BY <1>d, <1>9 DEF Once
  <2>2. CASE i = 1
    <3>1. \A j \in 1 .. n - 1 : j + 1 # 1  OBVIOUS
    <3>2. \A j \in 1 .. n - 1 : r[j] # Periodic  BY <3>1, <2>1, <2>2, <1>1, <1>4
    <3>3. Periodic \notin ToSet(r)  BY <3>2, <1>d DEF ToSet
    <3>4. Head(q) = Periodic  BY <2>1, <2>2, <1>1
    <3> QED  BY <3>3, <3>4
  <2>3. CASE i # 1
    <3>1. 1 \in 1 .. n  BY <1>1
    <3>2. Head(q) # Periodic  BY <3>1, <2>1, <2>3, <1>1
    <3>3. i - 1 \in 1 .. n - 1  BY <1>5, <2>3
    <3>4. ASSUME NEW j \in 1 .. n - 1 PROVE r[j] = Periodic <=> j = i - 1
      <4>1. j + 1 \in 1 .. n /\ (j + 1 = i <=> j = i - 1)  BY <1>1, <1>4
      <4> QED  BY <4>1, <2>1, <1>1
    <3> QED  BY <3>2, <3>3, <3>4, <1>d DEF Once
  <2> QED  BY <2>2, <2>3
<1> QED  BY <1>1, <1>3, <1>6, <1>7, <1>8, <1>9 DEF r

LEMMA AddLast ==
  ASSUME NEW q, Queued(q), Len(q) < NUMEVENTS, NEW t \in Timer \cup {Other}
  PROVE  /\ Queued(Append(q, t)) /\ ToSet(Append(q, t)) = ToSet(q) \cup {t}
         /\ t # Periodic /\ Once(q, Periodic) => Once(Append(q, t), Periodic)
         /\ t = Periodic /\ Periodic \notin ToSet(q) => Once(Append(q, t), Periodic)
<1> DEFINE r == Append(q, t)
           n == Len(q)
<1>1. /\ r \in Seq(Timer \cup {Other}) /\ Len(r) = n + 1 /\ n \in Nat
      /\ r[n + 1] = t /\ \A i \in 1 .. n : r[i] = q[i]
      /\ DOMAIN r = 1 .. n + 1 /\ DOMAIN q = 1 .. n
  BY DEF Queued
<1> HIDE DEF r
<1>2. Queued(r)  BY <1>1, TimerAssumption DEF Queued
<1> HIDE DEF n
<1>d. DOMAIN q = 1 .. n /\ DOMAIN r = 1 .. n + 1  BY <1>1
<1>3. /\ \A i \in 1 .. n : i \in 1 .. n + 1 /\ i # n + 1
      /\ \A i \in 1 .. n + 1 : i \in 1 .. n \/ i = n + 1
      /\ n + 1 \in 1 .. n + 1
  BY <1>1
<1>4. ToSet(r) = ToSet(q) \cup {t}
  <2>1. ToSet(q) = {q[i] : i \in 1 .. n} /\ ToSet(r) = {r[i] : i \in 1 .. n + 1}
    BY <1>1 DEF ToSet
  <2> QED  BY <2>1, <1>1, <1>3
<1>5. ASSUME t # Periodic, Once(q, Periodic) PROVE Once(r, Periodic)
  <2>1. PICK i \in 1 .. n : \A j \in 1 .. n : q[j] = Periodic <=> j = i  BY <1>d, <1>5 DEF Once
  <2>2. \A j \in 1 .. n + 1 : r[j] = Periodic <=> j = i  BY <2>1, <1>1, <1>3, <1>5
  <2>3. i \in 1 .. n + 1  BY <1>3
  <2> QED  BY <2>2, <2>3, <1>d DEF Once
<1>6. ASSUME t = Periodic, Periodic \notin ToSet(q) PROVE Once(r, Periodic)
  <2>1. \A j \in 1 .. n : q[j] # Periodic  BY <1>1, <1>6 DEF ToSet
  <2>2. \A j \in 1 .. n + 1 : r[j] = Periodic <=> j = n + 1  BY <2>1, <1>1, <1>3, <1>6
  <2> QED  BY <2>2, <1>d, <1>3 DEF Once
<1> QED  BY <1>2, <1>4, <1>5, <1>6 DEF r

(* Putting a timer in front of the armed ones. *)
LEMMA AddFirst ==
  ASSUME NEW a \in Seq(Timer), IsInjective(a), NEW t \in Timer, t \notin ToSet(a)
  PROVE  /\ <<t>> \o a \in Seq(Timer) /\ IsInjective(<<t>> \o a)
         /\ ToSet(<<t>> \o a) = ToSet(a) \cup {t}
<1> DEFINE r == <<t>> \o a
           n == Len(a)
<1>1. /\ r \in Seq(Timer) /\ n \in Nat /\ r[1] = t /\ \A i \in 1 .. n : r[i + 1] = a[i]
      /\ DOMAIN r = 1 .. n + 1 /\ DOMAIN a = 1 .. n
  OBVIOUS
<1> HIDE DEF r, n
<1>2. /\ \A i \in 1 .. n : i + 1 \in 1 .. n + 1
      /\ \A i \in 1 .. n + 1 : i = 1 \/ (i - 1 \in 1 .. n /\ (i - 1) + 1 = i)
      /\ 1 \in 1 .. n + 1
  BY <1>1
<1>3. \A i \in 1 .. n : a[i] \in ToSet(a) /\ a[i] # t  BY <1>1 DEF ToSet
<1>4. \A i \in 1 .. n + 1 : IF i = 1 THEN r[i] = t ELSE r[i] = a[i - 1] /\ i - 1 \in 1 .. n
  BY <1>1, <1>2
<1>5. IsInjective(r)
  <2> SUFFICES ASSUME NEW i \in 1 .. n + 1, NEW j \in 1 .. n + 1, r[i] = r[j] PROVE i = j
    BY <1>1 DEF IsInjective
  <2>1. CASE i = 1 \/ j = 1  BY <2>1, <1>3, <1>4
  <2>2. CASE i # 1 /\ j # 1
    <3>1. i - 1 \in DOMAIN a /\ j - 1 \in DOMAIN a /\ a[i - 1] = a[j - 1]  BY <2>2, <1>1, <1>4
    <3>2. i - 1 = j - 1  BY <3>1 DEF IsInjective
    <3> QED  BY <3>2, <1>1
  <2> QED  BY <2>1, <2>2
<1>6. ToSet(r) = ToSet(a) \cup {t}
  <2>1. ToSet(a) = {a[i] : i \in 1 .. n} /\ ToSet(r) = {r[i] : i \in 1 .. n + 1}
    BY <1>1 DEF ToSet
  <2>2. \A x \in ToSet(r) : x \in ToSet(a) \cup {t}  BY <2>1, <1>4
  <2>3. \A x \in ToSet(a) : x \in ToSet(r)  BY <2>1, <1>1, <1>2
  <2>4. t \in ToSet(r)  BY <2>1, <1>1, <1>2
  <2> QED  BY <2>2, <2>3, <2>4
<1> QED  BY <1>1, <1>5, <1>6 DEF r

-----------------------------------------------------------------------------
(* What a handler's call does to the lists: Q is what the queue holds. *)
Served(s, Q) == Typed(s) /\ s.listed \subseteq ToSet(s.armed) \cup Q

(* As far as the periodic timer is concerned, s and c are the same. *)
SameTick(s, c) ==
  /\ Periodic \in c.listed <=> Periodic \in s.listed
  /\ Periodic \in ToSet(c.armed) <=> Periodic \in ToSet(s.armed)
  /\ c.due[Periodic] = s.due[Periodic]

LEMMA ArmTyped ==
  ASSUME NEW s, Typed(s), NEW t \in Timer, NEW due \in Int
  PROVE  LET c == [Arm(s, t, due) EXCEPT !.listed = @ \cup {t}]
         IN  /\ Typed(c) /\ c.listed = s.listed \cup {t}
             /\ ToSet(c.armed) = ToSet(s.armed) \cup {t}
             /\ \A x \in Timer : c.due[x] = IF x = t THEN due ELSE s.due[x]
<1> DEFINE a == IF t \in ToSet(s.armed) THEN s.armed ELSE <<t>> \o s.armed
           c == [Arm(s, t, due) EXCEPT !.listed = @ \cup {t}]
<1>1. a \in Seq(Timer) /\ IsInjective(a) /\ ToSet(a) = ToSet(s.armed) \cup {t}
  <2>1. CASE t \in ToSet(s.armed)  BY <2>1 DEF Typed
  <2>2. CASE t \notin ToSet(s.armed)
    <3>1. s.armed \in Seq(Timer) /\ IsInjective(s.armed)  BY DEF Typed
    <3> QED  BY <2>2, <3>1, AddFirst
  <2> QED  BY <2>1, <2>2
<1>2. c = [listed |-> s.listed \cup {t}, armed |-> a, due |-> [s.due EXCEPT ![t] = due]]
  <2>1. s = [listed |-> s.listed, armed |-> s.armed, due |-> s.due]  BY DEF Typed
  <2>2. Arm(s, t, due) = [s EXCEPT !.armed = a, !.due[t] = due]  BY DEF Arm
  <2> HIDE DEF a
  <2> DEFINE b == [s EXCEPT !.armed = a]
             d == [b.due EXCEPT ![t] = due]
  <2>3. b = [listed |-> s.listed, armed |-> a, due |-> s.due]  BY <2>1
  <2>4. Arm(s, t, due) = [b EXCEPT !.due = d]  BY <2>2
  <2> HIDE DEF b, d
  <2>5. Arm(s, t, due) = [listed |-> s.listed, armed |-> a, due |-> d]  BY <2>3, <2>4
  <2>6. d = [s.due EXCEPT ![t] = due]  BY <2>3 DEF d
  <2> QED  BY <2>5, <2>6
<1> HIDE DEF a, c
<1>3. s.due \in [Timer -> Int] /\ s.listed \subseteq Timer  BY DEF Typed
<1>4. [s.due EXCEPT ![t] = due] \in [Timer -> Int]  BY <1>3
<1>5. Typed(c)  BY <1>1, <1>2, <1>3, <1>4 DEF Typed
<1>6. \A x \in Timer : c.due[x] = IF x = t THEN due ELSE s.due[x]  BY <1>2, <1>3
<1> QED  BY <1>1, <1>2, <1>5, <1>6 DEF c

LEMMA StopTyped ==
  ASSUME NEW s, Typed(s), NEW t \in Timer
  PROVE  LET c == CtimerStop(s, t)
         IN  /\ Typed(c) /\ c.listed = s.listed \ {t}
             /\ ToSet(c.armed) = ToSet(s.armed) \ {t}
             /\ \A x \in Timer : c.due[x] = IF x = t THEN 0 ELSE s.due[x]
<1> DEFINE a == RemoveFirst(s.armed, t)
           c == CtimerStop(s, t)
<1>1. a \in Seq(Timer) /\ IsInjective(a) /\ ToSet(a) = ToSet(s.armed) \ {t}
  <2>1. s.armed \in Seq(Timer) /\ IsInjective(s.armed)  BY DEF Typed
  <2>2. CASE t \in ToSet(s.armed)  BY <2>1, <2>2, RemoveFirstCorrect
  <2>3. CASE t \notin ToSet(s.armed)
    <3>1. DOMAIN s.armed = 1 .. Len(s.armed)  BY <2>1
    <3>2. a = s.armed  BY <2>3, <3>1 DEF RemoveFirst, ToSet
    <3> HIDE DEF a
    <3> QED  BY <2>1, <2>3, <3>2
  <2> QED  BY <2>2, <2>3
<1>2. c = [listed |-> s.listed \ {t}, armed |-> a, due |-> [s.due EXCEPT ![t] = 0]]
  <2>1. s = [listed |-> s.listed, armed |-> s.armed, due |-> s.due]  BY DEF Typed
  <2> HIDE DEF a
  <2>2. c = [s EXCEPT !.armed = a, !.listed = @ \ {t}, !.due[t] = 0]  BY DEF CtimerStop, a
  <2> HIDE DEF c
  <2> QED  BY <2>1, <2>2
<1> HIDE DEF a, c
<1>3. s.due \in [Timer -> Int] /\ s.listed \subseteq Timer  BY DEF Typed
<1>4. [s.due EXCEPT ![t] = 0] \in [Timer -> Int]  BY <1>3
<1>5. Typed(c)  BY <1>1, <1>2, <1>3, <1>4 DEF Typed
<1>6. \A x \in Timer : c.due[x] = IF x = t THEN 0 ELSE s.due[x]  BY <1>2, <1>3
<1> QED  BY <1>1, <1>2, <1>5, <1>6 DEF c

(* Whatever a handler calls, every listed timer stays accounted for, and   *)
(* the periodic timer is not touched.                                      *)
LEMMA CallsServed ==
  ASSUME NEW s, NEW Q, Served(s, Q), NEW c \in Calls(s)
  PROVE  Served(c, Q) /\ SameTick(s, c)
<1>1. Typed(s) /\ s.listed \subseteq ToSet(s.armed) \cup Q  BY DEF Served
<1>2. CASE c = s  BY <1>2 DEF SameTick
<1>3. ASSUME NEW t \in OneShot, NEW i \in Interval, c = CtimerSet(s, t, i)
      PROVE  Served(c, Q) /\ SameTick(s, c)
  <2>1. t \in Timer /\ t # Periodic /\ i \in Int /\ Periodic \in Timer
    BY TimerAssumption DEF OneShot
  <2>2. c = [Arm(s, t, i) EXCEPT !.listed = @ \cup {t}]  BY <1>3 DEF CtimerSet
  <2>3. /\ Typed(c) /\ c.listed = s.listed \cup {t}
        /\ ToSet(c.armed) = ToSet(s.armed) \cup {t}
        /\ \A x \in Timer : c.due[x] = IF x = t THEN i ELSE s.due[x]
    BY <1>1, <2>1, <2>2, ArmTyped
  <2> QED  BY <1>1, <2>1, <2>3 DEF Served, SameTick
<1>4. ASSUME NEW t \in OneShot, c = CtimerStop(s, t)
      PROVE  Served(c, Q) /\ SameTick(s, c)
  <2>1. t \in Timer /\ t # Periodic /\ Periodic \in Timer
    BY TimerAssumption DEF OneShot
  <2>2. /\ Typed(c) /\ c.listed = s.listed \ {t}
        /\ ToSet(c.armed) = ToSet(s.armed) \ {t}
        /\ \A x \in Timer : c.due[x] = IF x = t THEN 0 ELSE s.due[x]
    <3>1. LET x == CtimerStop(s, t)
          IN  /\ Typed(x) /\ x.listed = s.listed \ {t}
              /\ ToSet(x.armed) = ToSet(s.armed) \ {t}
              /\ \A y \in Timer : x.due[y] = IF y = t THEN 0 ELSE s.due[y]
      BY <1>1, <2>1, StopTyped
    <3> QED  BY <3>1, <1>4
  <2> QED  BY <1>1, <2>1, <2>2 DEF Served, SameTick
<1> QED  BY <1>2, <1>3, <1>4 DEF Calls

-----------------------------------------------------------------------------
(* A poll: no pass of the scan loses or doubles a timer, and only timers   *)
(* that are due go into the queue.                                         *)
Polled ==
  {p \in [armed : Seq(Timer), queue : Seq(Timer \cup {Other})] :
     /\ IsInjective(p.armed) /\ Len(p.queue) <= NUMEVENTS /\ Placed(p.armed, p.queue)
     /\ ToSet(p.armed) \cup ToSet(p.queue) = ToSet(timers.armed) \cup ToSet(queue)
     /\ \A t \in Timer \cap ToSet(p.queue) : t \in ToSet(queue) \/ timers.due[t] <= 0}

LEMMA PostFirstStays == ASSUME NEW p \in Polled PROVE PostFirst(p) \in Polled
<1> DEFINE D == Due(p.armed)
           k == Min(D)
           t == p.armed[k]
<1>1. CASE D = {} \/ Len(p.queue) = NUMEVENTS  BY <1>1 DEF PostFirst
<1>2. CASE D # {} /\ Len(p.queue) # NUMEVENTS
  <2>1. /\ p.armed \in Seq(Timer) /\ IsInjective(p.armed) /\ Queued(p.queue)
        /\ p.queue \in Seq(Timer \cup {Other}) /\ Len(p.queue) \in Nat /\ Len(p.queue) <= NUMEVENTS
        /\ Len(p.armed) \in Nat /\ DOMAIN p.armed = 1 .. Len(p.armed)
    BY DEF Polled, Queued
  <2>2. k \in D
    <3>1. D \subseteq 1 .. Len(p.armed)  BY <2>1 DEF Due
    <3> HIDE DEF D
    <3> QED  BY <1>2, <2>1, <3>1, Extremes
  <2>3. k \in 1 .. Len(p.armed) /\ t \in Timer /\ timers.due[t] <= 0 /\ t \in ToSet(p.armed)
    <3>1. k \in DOMAIN p.armed /\ timers.due[t] <= 0  BY <2>2 DEF Due
    <3> QED  BY <3>1, <2>1 DEF ToSet
  <2>4. PostFirst(p) = [armed |-> RemoveAt(p.armed, k), queue |-> Append(p.queue, t)]
    BY <1>2 DEF PostFirst
  <2> HIDE DEF k, t, D
  <2> DEFINE r == RemoveAt(p.armed, k)
             q == Append(p.queue, t)
  <2>5. r \in Seq(Timer) /\ IsInjective(r) /\ ToSet(r) = ToSet(p.armed) \ {t}
    BY <2>1, <2>3, RemoveAtCorrect DEF t
  <2>6. Len(p.queue) < NUMEVENTS  BY <1>2, <2>1, TimerAssumption
  <2>7. /\ Queued(q) /\ ToSet(q) = ToSet(p.queue) \cup {t}
        /\ t # Periodic /\ Once(p.queue, Periodic) => Once(q, Periodic)
        /\ t = Periodic /\ Periodic \notin ToSet(p.queue) => Once(q, Periodic)
    BY <2>1, <2>3, <2>6, AddLast
  <2> HIDE DEF r, q
  <2>8. Placed(r, q)
    <3>1. Placed(p.armed, p.queue)  BY DEF Polled
    <3> QED  BY <2>3, <2>5, <2>7, <3>1 DEF Placed
  <2>9. PostFirst(p) = [armed |-> r, queue |-> q]  BY <2>4 DEF r, q
  <2>10. /\ ToSet(p.armed) \cup ToSet(p.queue) = ToSet(timers.armed) \cup ToSet(queue)
         /\ \A x \in Timer \cap ToSet(p.queue) : x \in ToSet(queue) \/ timers.due[x] <= 0
    BY DEF Polled
  <2>11. ToSet(r) \cup ToSet(q) = ToSet(timers.armed) \cup ToSet(queue)
    BY <2>3, <2>5, <2>7, <2>10
  <2>12. \A x \in Timer \cap ToSet(q) : x \in ToSet(queue) \/ timers.due[x] <= 0
    BY <2>3, <2>7, <2>10
  <2> QED  BY <2>5, <2>7, <2>8, <2>9, <2>11, <2>12 DEF Polled, Queued
<1> QED  BY <1>1, <1>2

LEMMA ScanStays ==
  ASSUME IInv
  PROVE  Scan \subseteq Polled
<1> DEFINE n == Len(timers.armed)
           start == {[armed |-> timers.armed, queue |-> queue]}
           Rec(f) == [i \in 0 .. n |-> IF i = 0 THEN start ELSE {PostFirst(p) : p \in f[i - 1]}]
           after == CHOOSE f : f = Rec(f)
           T == SUBSET Polled
           g == [X \in T |-> {PostFirst(p) : p \in X}]
<1>1. Scan = after[n]  BY DEF Scan
<1>2. start \in T  BY DEF IInv, Whole, Typed, Queued, Polled
<1>3. g \in [T -> T]  BY PostFirstStays
<1>5. n \in Nat  BY DEF IInv, Whole, Typed
<1> HIDE DEF g, n, start, T
<1>4. PICK h \in [Nat -> T] : h[0] = start /\ \A i \in Nat : h[i + 1] = g[h[i]]
  BY <1>2, <1>3, Iteration
<1> DEFINE c == [i \in 0 .. n |-> h[i]]
<1>6. c = Rec(c)
  <2>1. ASSUME NEW i \in 0 .. n, i # 0 PROVE h[i] = {PostFirst(p) : p \in c[i - 1]}
    <3>1. i - 1 \in Nat /\ i - 1 \in 0 .. n /\ (i - 1) + 1 = i  BY <1>5, <2>1
    <3>2. h[i] = g[h[i - 1]] /\ h[i - 1] \in T  BY <3>1, <1>4
    <3> QED  BY <3>1, <3>2 DEF g
  <2> HIDE DEF c
  <2>2. c = [i \in 0 .. n |-> h[i]]  BY DEF c
  <2> QED  BY <2>1, <2>2, <1>4, <1>5
<1>7. after = Rec(after)
  <2> HIDE DEF c, Rec
  <2> QED  BY <1>6
<1> HIDE DEF after, c
<1> DEFINE P == {i \in Nat : i <= n => after[i] \subseteq Polled}
<1>8. 0 \in P  BY <1>2, <1>5, <1>7 DEF T
<1>9. ASSUME NEW i \in Nat, i \in P PROVE i + 1 \in P
  <2> SUFFICES ASSUME i + 1 <= n PROVE after[i + 1] \subseteq Polled  OBVIOUS
  <2>1. i <= n /\ i + 1 \in 0 .. n /\ i + 1 # 0 /\ (i + 1) - 1 = i  BY <1>5
  <2>2. after[i] \subseteq Polled  BY <1>9, <2>1
  <2>3. after[i + 1] = {PostFirst(p) : p \in after[i]}  BY <1>7, <2>1
  <2> QED  BY <2>2, <2>3, PostFirstStays
<1>10. n \in P
  <2> HIDE DEF P
  <2> QED  BY <1>5, <1>8, <1>9, Induction
<1> QED  BY <1>1, <1>5, <1>10

-----------------------------------------------------------------------------
(* The queue without its first event: whoever handles it, the timers that  *)
(* wait elsewhere stay accounted for.                                      *)
LEMMA AfterEvent ==
  ASSUME IInv, queue # <<>>, Head(queue) # Periodic,
         NEW s, Served(s, ToSet(Tail(queue))), SameTick(timers, s), NEW c \in Calls(s)
  PROVE  Whole(c, Tail(queue))
<1>1. Whole(timers, queue)  BY DEF IInv
<1>2. /\ Queued(Tail(queue)) /\ ToSet(Tail(queue)) \subseteq ToSet(queue)
      /\ Once(queue, Periodic) => Once(Tail(queue), Periodic)
  BY <1>1, TakeHead DEF Whole
<1>3. Served(c, ToSet(Tail(queue))) /\ SameTick(s, c)  BY CallsServed
<1>4. SameTick(timers, c)  BY <1>3 DEF SameTick
<1>5. Placed(c.armed, Tail(queue))
  <2>1. Placed(timers.armed, queue)  BY <1>1 DEF Whole
  <2>2. Periodic \in ToSet(c.armed) <=> Periodic \in ToSet(timers.armed)  BY <1>4 DEF SameTick
  <2> QED  BY <2>1, <2>2, <1>2 DEF Placed
<1>6. Periodic \in c.listed /\ (Periodic \in ToSet(Tail(queue)) => c.due[Periodic] <= 0)
  BY <1>1, <1>2, <1>4 DEF Whole, SameTick
<1> QED  BY <1>2, <1>3, <1>5, <1>6 DEF Whole, Served

LEMMA EventKept == ASSUME IInv, CtimerEvent PROVE IInv'
<1> DEFINE t == Head(queue)
           Q == ToSet(Tail(queue))
<1>1. /\ Typed(timers) /\ Queued(queue) /\ Placed(timers.armed, queue)
      /\ timers.listed \subseteq ToSet(timers.armed) \cup ToSet(queue)
      /\ timers.listed \subseteq Timer /\ timers.armed \in Seq(Timer) /\ IsInjective(timers.armed)
      /\ timers.due \in [Timer -> Int]
      /\ timers = [listed |-> timers.listed, armed |-> timers.armed, due |-> timers.due]
  BY DEF IInv, Whole, Typed
<1>7. timers = [listed |-> timers.listed, armed |-> timers.armed, due |-> timers.due]  BY <1>1
<1>2. queue # <<>> /\ t \in timers.listed /\ queue' = Tail(queue) /\ ran' = t  BY DEF CtimerEvent
<1>3. /\ Queued(Tail(queue)) /\ ToSet(queue) = Q \cup {t}
      /\ Once(queue, Periodic) /\ t = Periodic => Periodic \notin Q
  BY <1>1, <1>2, TakeHead
<1>4. t \in Timer /\ Periodic \in Timer  BY <1>1, <1>2, TimerAssumption
<1> HIDE DEF t, Q
<1>5. CASE t = Periodic
  <2> DEFINE s == [timers EXCEPT !.listed = @ \ {t}]
  <2>1. PICK c \in Calls(s) : timers' = CtimerReset(c, t)  BY <1>5 DEF CtimerEvent, t
  <2>2. s = [listed |-> timers.listed \ {t}, armed |-> timers.armed, due |-> timers.due]  BY <1>7
  <2> HIDE DEF s
  <2>3. Served(s, Q)  BY <2>2, <1>1, <1>3 DEF Served, Typed
  <2>4. Served(c, Q)  BY <2>3, CallsServed
  <2>5. c.due[t] + Period \in Int
    <3>1. c.due \in [Timer -> Int]  BY <2>4 DEF Served, Typed
    <3> QED  BY <3>1, <1>4, TimerAssumption
  <2>6. timers' = [Arm(c, t, c.due[t] + Period) EXCEPT !.listed = @ \cup {t}]
    BY <2>1 DEF CtimerReset
  <2>7. /\ Typed(timers') /\ timers'.listed = c.listed \cup {t}
        /\ ToSet(timers'.armed) = ToSet(c.armed) \cup {t}
    <3>1. Typed(c)  BY <2>4 DEF Served
    <3> QED  BY <3>1, <2>5, <2>6, <1>4, ArmTyped
  <2>8. Periodic \notin Q
    <3>1. Periodic \in ToSet(queue)  BY <1>3, <1>5
    <3> QED  BY <3>1, <1>1, <1>3, <1>5 DEF Placed
  <2>9. Whole(timers', Tail(queue))
    BY <2>4, <2>7, <2>8, <1>3, <1>5 DEF Whole, Placed, Served, Q
  <2> QED  BY <2>9, <1>2, <1>4 DEF IInv
<1>6. CASE t # Periodic
  <2> DEFINE s == Unlist(timers, t)
  <2>1. timers' \in Calls(s)  BY <1>6 DEF CtimerEvent, t
  <2> DEFINE due == [timers.due EXCEPT ![t] = IF t \in ToSet(timers.armed) THEN @ ELSE 0]
             b == [timers EXCEPT !.listed = @ \ {t}]
  <2>2. s = [listed |-> timers.listed \ {t}, armed |-> timers.armed, due |-> due]
    <3>1. b = [listed |-> timers.listed \ {t}, armed |-> timers.armed, due |-> timers.due]  BY <1>7
    <3>2. s = [b EXCEPT !.due = due]  BY DEF Unlist
    <3> HIDE DEF b, due, s
    <3> QED  BY <3>1, <3>2
  <2>3. due \in [Timer -> Int] /\ due[Periodic] = timers.due[Periodic]  BY <1>1, <1>4, <1>6
  <2> HIDE DEF s, due, b
  <2>4. Served(s, Q)  BY <2>2, <2>3, <1>1, <1>3 DEF Served, Typed
  <2>5. SameTick(timers, s)  BY <2>2, <2>3, <1>6 DEF SameTick
  <2>6. Whole(timers', Tail(queue))
    BY <2>1, <2>4, <2>5, <1>2, <1>6, AfterEvent DEF t, Q
  <2> QED  BY <2>6, <1>2, <1>4 DEF IInv
<1> QED  BY <1>5, <1>6

LEMMA OtherKept == ASSUME IInv, OtherEvent PROVE IInv'
<1>1. queue # <<>> /\ Head(queue) \notin timers.listed /\ queue' = Tail(queue) /\ ran' = Other
  BY DEF OtherEvent
<1>2. Head(queue) # Periodic  BY <1>1 DEF IInv, Whole
<1>3. timers' \in Calls(timers)  BY DEF OtherEvent, Calls
<1>4. Served(timers, ToSet(Tail(queue))) /\ SameTick(timers, timers)
  <2>1. ToSet(queue) = ToSet(Tail(queue)) \cup {Head(queue)}  BY <1>1, TakeHead DEF IInv, Whole
  <2> QED  BY <2>1, <1>1 DEF IInv, Whole, Served, SameTick
<1>5. Whole(timers', Tail(queue))  BY <1>1, <1>2, <1>3, <1>4, AfterEvent
<1> QED  BY <1>1, <1>5 DEF IInv

LEMMA PollKept == ASSUME IInv, EtimerPoll PROVE IInv'
<1>1. PICK p \in Scan : queue' = p.queue /\ timers' = [timers EXCEPT !.armed = p.armed]
  BY DEF EtimerPoll
<1>2. p \in Polled  BY ScanStays
<1>3. timers = [listed |-> timers.listed, armed |-> timers.armed, due |-> timers.due]
  BY DEF IInv, Whole, Typed
<1>4. timers' = [listed |-> timers.listed, armed |-> p.armed, due |-> timers.due]  BY <1>1, <1>3
<1>5. /\ timers.listed \subseteq Timer /\ timers.due \in [Timer -> Int] /\ Periodic \in timers.listed
      /\ timers.listed \subseteq ToSet(timers.armed) \cup ToSet(queue)
      /\ Periodic \in ToSet(queue) => timers.due[Periodic] <= 0
  BY DEF IInv, Whole, Typed
<1>6. /\ p.armed \in Seq(Timer) /\ p.queue \in Seq(Timer \cup {Other})
      /\ IsInjective(p.armed) /\ Len(p.queue) <= NUMEVENTS /\ Placed(p.armed, p.queue)
      /\ ToSet(p.armed) \cup ToSet(p.queue) = ToSet(timers.armed) \cup ToSet(queue)
      /\ \A t \in Timer \cap ToSet(p.queue) : t \in ToSet(queue) \/ timers.due[t] <= 0
  BY <1>2 DEF Polled
<1>7. Periodic \in ToSet(p.queue) => timers.due[Periodic] <= 0
  BY <1>5, <1>6, TimerAssumption
<1>8. Whole(timers', queue')  BY <1>1, <1>4, <1>5, <1>6, <1>7 DEF Whole, Typed, Queued
<1>9. ran' = Other  BY DEF EtimerPoll
<1> QED  BY <1>8, <1>9 DEF IInv

LEMMA TickKept == ASSUME IInv, Tick PROVE IInv'
<1> DEFINE due == [t \in Timer |-> IF t \in Live(timers) THEN timers.due[t] - 1 ELSE 0]
<1>1. timers' = [timers EXCEPT !.due = due] /\ ran' = Other /\ queue' = queue  BY DEF Tick
<1>2. timers = [listed |-> timers.listed, armed |-> timers.armed, due |-> timers.due]
  BY DEF IInv, Whole, Typed
<1>3. timers.due \in [Timer -> Int] /\ Periodic \in timers.listed  BY DEF IInv, Whole, Typed
<1>4. due \in [Timer -> Int]  BY <1>3
<1>5. timers.due[Periodic] <= 0 => due[Periodic] <= 0  BY <1>3, TimerAssumption DEF Live
<1> HIDE DEF due
<1>6. timers' = [listed |-> timers.listed, armed |-> timers.armed, due |-> due]  BY <1>1, <1>2
<1>7. Whole(timers', queue)  BY <1>3, <1>4, <1>5, <1>6 DEF IInv, Whole, Typed
<1> QED  BY <1>1, <1>7 DEF IInv

LEMMA PostKept == ASSUME IInv, OtherPost PROVE IInv'
<1>1. Len(queue) < NUMEVENTS /\ queue' = Append(queue, Other) /\ ran' = Other /\ timers' = timers
  BY DEF OtherPost
<1>2. Other # Periodic  BY TimerAssumption
<1>3. /\ Queued(queue') /\ ToSet(queue') = ToSet(queue) \cup {Other}
      /\ Once(queue, Periodic) => Once(queue', Periodic)
  BY <1>1, <1>2, AddLast DEF IInv, Whole
<1>4. Placed(timers.armed, queue')  BY <1>2, <1>3 DEF IInv, Whole, Placed
<1> QED  BY <1>1, <1>2, <1>3, <1>4 DEF IInv, Whole

LEMMA InitKept == Init => IInv
<1> SUFFICES ASSUME Init PROVE IInv  OBVIOUS
<1> DEFINE s == [listed |-> {}, armed |-> <<>>, due |-> [t \in Timer |-> 0]]
<1>1. timers = [Arm(s, Periodic, Period) EXCEPT !.listed = @ \cup {Periodic}]
  BY DEF Init, CtimerSet
<1>2. Typed(s) /\ s.listed = {}
  <2>1. <<>> \in Seq(Timer) /\ IsInjective(<<>>)  BY DEF IsInjective
  <2> QED  BY <2>1 DEF Typed
<1>3. ToSet(s.armed) = {}  BY DEF ToSet
<1> HIDE DEF s
<1>4. /\ Typed(timers) /\ timers.listed = s.listed \cup {Periodic}
      /\ ToSet(timers.armed) = ToSet(s.armed) \cup {Periodic}
  BY <1>1, <1>2, TimerAssumption, ArmTyped
<1>5. queue = <<>> /\ ToSet(<<>>) = {} /\ Queued(<<>>)
  BY TimerAssumption DEF Init, ToSet, Queued
<1> QED  BY <1>2, <1>3, <1>4, <1>5 DEF IInv, Whole, Placed, Init

LEMMA NextKept == IInv /\ [Next]_vars => IInv'
<1> SUFFICES ASSUME IInv, [Next]_vars PROVE IInv'  OBVIOUS
<1>1. CASE Tick  BY <1>1, TickKept
<1>2. CASE EtimerPoll  BY <1>2, PollKept
<1>3. CASE CtimerEvent  BY <1>3, EventKept
<1>4. CASE OtherEvent  BY <1>4, OtherKept
<1>5. CASE OtherPost  BY <1>5, PostKept
<1>6. CASE UNCHANGED vars  BY <1>6 DEF vars, IInv
<1> QED  BY <1>1, <1>2, <1>3, <1>4, <1>5, <1>6 DEF Next

LEMMA Inductive == Spec => []IInv
BY InitKept, NextKept, PTL DEF Spec

(* Every variable has its type, and the event queue never holds more than  *)
(* it can, however many timers expire at once.                             *)
THEOREM TypeCorrect == Spec => []TypeOK
<1>1. IInv => TypeOK  BY DEF IInv, Whole, Typed, Queued, TypeOK
<1> QED  BY <1>1, Inductive, PTL

(* No callback is ever forgotten: a timer on ctimer_list has its etimer on *)
(* timerlist, once, or its event in the queue.                             *)
THEOREM NeverForgotten == Spec => []NotForgotten
<1>1. IInv => NotForgotten
  <2> SUFFICES ASSUME IInv PROVE NotForgotten  OBVIOUS
  <2> DEFINE b == [timers EXCEPT !.listed = {}]
  <2>1. timers = [listed |-> timers.listed, armed |-> timers.armed, due |-> timers.due]
    BY DEF IInv, Whole, Typed
  <2>2. b = [listed |-> {}, armed |-> timers.armed, due |-> timers.due]  BY <2>1
  <2> HIDE DEF b
  <2>3. Live(b) = ToSet(timers.armed)  BY <2>2 DEF Live
  <2> QED  BY <2>3 DEF IInv, Whole, Typed, NotForgotten, b
<1> QED  BY <1>1, Inductive, PTL

(* RPL's periodic timer is never doubled nor early: it always is in        *)
(* exactly one place, and in the queue only when it is due.                *)
THEOREM OneTickAlways == Spec => []OneTick
<1>1. IInv => OneTick
  <2> SUFFICES ASSUME IInv PROVE OneTick  OBVIOUS
  <2>1. Once(timers.armed \o queue, Periodic)
    BY OnceSplit DEF IInv, Whole, Typed, Queued
  <2> QED  BY <2>1 DEF IInv, Whole, OneTick
<1> QED  BY <1>1, Inductive, PTL
=============================================================================
