---------------------------- MODULE RouteProofs -----------------------------
(***************************************************************************)
(* Proofs about the radix tree and the walks over it (RouteTable), for     *)
(* every set of prefixes and of next hops.                                 *)
(*                                                                         *)
(* The loops of the code come first: a loop that stops defines a function  *)
(* (TailRecursion), so what the descent, the climb and the deletion return *)
(* follows by induction on the length of a prefix.  Then what one call     *)
(* does to a tree whose links agree with its prefixes: route_node_get      *)
(* (GetNodeCorrect), route_next (NextNodeCorrect) and route_node_delete    *)
(* (DeleteCorrect).                                                        *)
(*                                                                         *)
(* The invariant says of the walk that withdraws routes that every route   *)
(* above the node it stands on is locked (Held): a deletion that goes up   *)
(* from there comes to branching points only, which have no route to lose, *)
(* or stops.  That a walk of a tree at rest misses no node and comes to    *)
(* none twice (WalkCorrect) rests on the order in which route_next visits  *)
(* the nodes (Before), which is the order of their prefixes.               *)
(*                                                                         *)
(* Last comes the mirror.  A split below the top may lose routes, so what  *)
(* is claimed of the kernel is proved for behaviours in which every split  *)
(* is made at the top (OnTop).  The invariant, MInv, says what each mark   *)
(* of a node stands for in the kernel, and that at most one route differs  *)
(* from what the last poll left as long as polls are calm.                 *)
(***************************************************************************)
EXTENDS RouteSync, DataLemmas, SequenceTheorems, FiniteSetTheorems

-----------------------------------------------------------------------------
(* The ways a step can be taken again and again from x: there is one.      *)
Orbit(S, x, step) == {r \in [Nat -> S] : r[0] = x /\ \A n \in Nat : r[n + 1] = step[r[n]]}

LEMMA OrbitExists ==
  ASSUME NEW S, NEW x \in S, NEW step \in [S -> S]
  PROVE  Orbit(S, x, step) # {}
<1>1. \E r \in [Nat -> S] : r[0] = x /\ \A n \in Nat : r[n + 1] = step[r[n]]
  BY Iteration
<1> QED  BY <1>1 DEF Orbit

IsLoop(S, V, step, stop, val) ==
  V # {} /\ step \in [S -> S] /\ stop \in [S -> BOOLEAN] /\ val \in [S -> V]

(* The functions such that f[x] is where the loop from x ends, if it does. *)
Loops(S, V, step, stop, val) ==
  {f \in [S -> V] : \A x \in S : f[x] = IF stop[x] THEN val[x] ELSE f[step[x]]}

(* A loop that goes from x to step[x] until it stops defines a function,   *)
(* whether it ends everywhere or not.                                      *)
LEMMA TailRecursion ==
  ASSUME NEW S, NEW V, NEW step, NEW stop, NEW val, IsLoop(S, V, step, stop, val)
  PROVE  Loops(S, V, step, stop, val) # {}
<1> V # {} /\ step \in [S -> S] /\ stop \in [S -> BOOLEAN] /\ val \in [S -> V]
  BY DEF IsLoop
<1>0. ASSUME NEW x \in S
      PROVE  \E r \in [Nat -> S] : r[0] = x /\ \A n \in Nat : r[n + 1] = step[r[n]]
  <2>1. Orbit(S, x, step) # {}  BY OrbitExists
  <2> QED  BY <2>1 DEF Orbit
<1> DEFINE Run(x, r) == r \in [Nat -> S] /\ r[0] = x /\ \A n \in Nat : r[n + 1] = step[r[n]]
           run(x) == CHOOSE r : Run(x, r)
           Ends(x) == {n \in Nat : stop[run(x)[n]]}
           First(x, n) == n \in Ends(x) /\ \A m \in Ends(x) : n <= m
           end(x) == CHOOSE n : First(x, n)
           result(x) == IF Ends(x) = {} THEN CHOOSE v \in V : TRUE ELSE val[run(x)[end(x)]]
           f == [x \in S |-> result(x)]
<1>1. ASSUME NEW x \in S PROVE Run(x, run(x))
  <2>1. \E r : Run(x, r)
    <3>1. PICK r \in [Nat -> S] : r[0] = x /\ \A n \in Nat : r[n + 1] = step[r[n]]
      BY <1>0
    <3> QED  BY <3>1
  <2> HIDE DEF Run
  <2> QED  BY <2>1
<1>2. ASSUME NEW x \in S PROVE \A n \in Nat : run(step[x])[n] = run(x)[n + 1]
  <2> DEFINE P == {n \in Nat : run(step[x])[n] = run(x)[n + 1]}
  <2>1. Run(x, run(x)) /\ Run(step[x], run(step[x]))
    <3> HIDE DEF run, Run
    <3> QED  BY <1>1
  <2> HIDE DEF run
  <2>2. 0 \in P  BY <2>1
  <2>3. ASSUME NEW n \in Nat, n \in P PROVE n + 1 \in P
    <3>1. n + 1 \in Nat /\ run(step[x])[n] = run(x)[n + 1]  BY <2>3
    <3>2. run(step[x])[n + 1] = step[run(step[x])[n]]  BY <2>1
    <3>3. run(x)[(n + 1) + 1] = step[run(x)[n + 1]]  BY <2>1, <3>1
    <3> QED  BY <3>1, <3>2, <3>3
  <2> HIDE DEF P
  <2>4. \A n \in Nat : n \in P  BY <2>2, <2>3, Induction
  <2> QED  BY <2>4 DEF P
<1>3. ASSUME NEW x \in S, Ends(x) # {} PROVE First(x, end(x))
  <2>1. Ends(x) \subseteq Nat  OBVIOUS
  <2> HIDE DEF Ends
  <2>2. \E n : First(x, n)  BY <2>1, <1>3, LeastNatural
  <2> HIDE DEF First
  <2> QED  BY <2>2
<1> HIDE DEF run
<1>4. ASSUME NEW x \in S PROVE result(x) \in V
  <2>1. CASE Ends(x) = {}
    <3> HIDE DEF Ends
    <3> QED  BY <2>1
  <2>2. CASE Ends(x) # {}
    <3>1. First(x, end(x))
      <4> HIDE DEF First, end, Ends
      <4> QED  BY <2>2, <1>3
    <3> HIDE DEF end
    <3>2. end(x) \in Nat  BY <3>1
    <3>3. run(x)[end(x)] \in S  BY <3>2, <1>1
    <3> HIDE DEF Ends, First
    <3> QED  BY <2>2, <3>3
  <2> QED  BY <2>1, <2>2
<1>5. ASSUME NEW x \in S PROVE result(x) = IF stop[x] THEN val[x] ELSE result(step[x])
  <2>1. Run(x, run(x)) /\ step[x] \in S  BY <1>1
  <2>2. 0 \in Ends(x) <=> stop[x]  BY <2>1
  <2>3. \A n \in Nat : n \in Ends(step[x]) <=> n + 1 \in Ends(x)  BY <1>2
  <2>4. Ends(x) \subseteq Nat /\ Ends(step[x]) \subseteq Nat  OBVIOUS
  <2>5. Ends(x) # {} => First(x, end(x))
    <3> HIDE DEF First, end, Ends
    <3> QED  BY <1>3
  <2>6. Ends(step[x]) # {} => First(step[x], end(step[x]))
    <3> HIDE DEF First, end, Ends
    <3> QED  BY <1>3, <2>1
  <2> HIDE DEF end, Ends
  <2>7. CASE stop[x]
    <3>1. end(x) = 0  BY <2>7, <2>2, <2>4, <2>5
    <3>2. Ends(x) # {}  BY <2>7, <2>2
    <3> QED  BY <2>7, <2>1, <3>1, <3>2
  <2>8. CASE ~ stop[x]
    <3>1. \A n \in Ends(x) : n - 1 \in Nat /\ n - 1 \in Ends(step[x]) /\ (n - 1) + 1 = n
      <4> SUFFICES ASSUME NEW n \in Ends(x) PROVE n - 1 \in Nat /\ n - 1 \in Ends(step[x]) /\ (n - 1) + 1 = n
        OBVIOUS
      <4>1. n \in Nat /\ n # 0  BY <2>8, <2>2, <2>4
      <4>2. n - 1 \in Nat /\ (n - 1) + 1 = n  BY <4>1
      <4> QED  BY <4>2, <2>3
    <3>2. CASE Ends(step[x]) = {}
      <4>1. Ends(x) = {}  BY <3>1, <3>2
      <4> QED  BY <4>1, <3>2, <2>8
    <3>3. CASE Ends(step[x]) # {}
      <4>1. First(step[x], end(step[x]))  BY <3>3, <2>6
      <4>2. end(step[x]) \in Nat /\ end(step[x]) + 1 \in Ends(x)  BY <4>1, <2>3, <2>4
      <4>3. First(x, end(x))  BY <4>2, <2>5
      <4>4. end(x) <= end(step[x]) + 1 /\ end(x) \in Nat  BY <4>2, <4>3, <2>4
      <4>5. end(step[x]) <= end(x) - 1  BY <4>1, <4>3, <3>1
      <4>6. end(x) = end(step[x]) + 1  BY <4>2, <4>4, <4>5
      <4>7. run(step[x])[end(step[x])] = run(x)[end(x)]  BY <1>2, <4>2, <4>6
      <4> QED  BY <4>2, <4>7, <3>3, <2>8
    <3> QED  BY <3>2, <3>3
  <2> QED  BY <2>7, <2>8
<1> HIDE DEF result
<1>6. f \in [S -> V]  BY <1>4
<1>7. ASSUME NEW x \in S PROVE f[x] = IF stop[x] THEN val[x] ELSE f[step[x]]
  <2>1. step[x] \in S  OBVIOUS
  <2> QED  BY <2>1, <1>5
<1> HIDE DEF f
<1> QED  BY <1>6, <1>7 DEF Loops

-----------------------------------------------------------------------------
(* What the fields of a table are. *)
LEMMA NodeTypes ==
  ASSUME NEW t \in Table, NEW k \in Key
  PROVE  /\ t.top \in Pointer /\ t.used \subseteq Key /\ t.failed \in BOOLEAN
         /\ t.node \in [Key -> Node] /\ t.node[k] \in Node
         /\ t.node[k].parent \in Pointer /\ t.node[k].lock \in Nat
         /\ t.node[k].link \in [{0, 1} -> Pointer]
         /\ t.node[k].link[0] \in Pointer /\ t.node[k].link[1] \in Pointer
         /\ t.node[k].info \in Hop \cup {NULL} /\ t.node[k].status \in Status
<1>1. t.node \in [Key -> Node]  BY DEF Table
<1>2. t.node[k] \in Node  BY <1>1
<1>3. t.top \in Pointer /\ t.used \subseteq Key /\ t.failed \in BOOLEAN  BY DEF Table
<1>4. t.node[k].link \in [{0, 1} -> Pointer]  BY <1>2 DEF Node
<1>5. t.node[k].link[0] \in Pointer /\ t.node[k].link[1] \in Pointer  BY <1>4
<1> QED  BY <1>1, <1>2, <1>3, <1>4, <1>5 DEF Node

(* route_next's way up is a loop. *)
LEMMA ClimbStep ==
  ASSUME NEW t \in Table, NEW n \in Key
  PROVE  Climb(t, n) =
           LET parent == t.node[n].parent
           IN  IF parent = NULL THEN NULL
               ELSE IF t.node[parent].link[0] = n /\ t.node[parent].link[1] # NULL
               THEN t.node[parent].link[1]
               ELSE Climb(t, parent)
<1> DEFINE up(k) == t.node[k].parent
           turns(k) == t.node[up(k)].link[0] = k /\ t.node[up(k)].link[1] # NULL
           step == [k \in Key |-> IF up(k) = NULL THEN k ELSE up(k)]
           stop == [k \in Key |-> up(k) = NULL \/ turns(k)]
           val == [k \in Key |-> IF up(k) = NULL THEN NULL ELSE t.node[up(k)].link[1]]
           body(f, k) ==
             LET parent == t.node[k].parent
             IN  IF parent = NULL THEN NULL
                 ELSE IF t.node[parent].link[0] = k /\ t.node[parent].link[1] # NULL
                 THEN t.node[parent].link[1]
                 ELSE f[parent]
           Body(f) == [k \in Key |-> body(f, k)]
           climb == CHOOSE f : f = Body(f)
<1>1. \A k \in Key : up(k) \in Pointer /\ t.node[k].link[1] \in Pointer  BY NodeTypes
<1>2. \A k \in Key : up(k) # NULL => up(k) \in Key  BY <1>1 DEF Pointer
<1>3. step \in [Key -> Key] /\ stop \in [Key -> BOOLEAN] /\ val \in [Key -> Pointer]
  <2>1. step \in [Key -> Key]  BY <1>2
  <2>2. val \in [Key -> Pointer]  BY <1>1, <1>2 DEF Pointer
  <2> QED  BY <2>1, <2>2
<1>4. Loops(Key, Pointer, step, stop, val) # {}
  <2>1. IsLoop(Key, Pointer, step, stop, val)  BY <1>3 DEF IsLoop, Pointer
  <2> HIDE DEF step, stop, val
  <2> QED  BY <2>1, TailRecursion
<1>5. \E f : f = Body(f)
  <2>1. PICK f \in Loops(Key, Pointer, step, stop, val) : TRUE
    BY <1>4
  <2>2. f \in [Key -> Pointer] /\ \A k \in Key : f[k] = IF stop[k] THEN val[k] ELSE f[step[k]]
    BY <2>1 DEF Loops
  <2>3. ASSUME NEW k \in Key PROVE f[k] = body(f, k)
    <3>1. f[k] = IF stop[k] THEN val[k] ELSE f[step[k]]  BY <2>2
    <3> QED  BY <3>1
  <2>4. f = Body(f)
    <3>1. f \in [Key -> Pointer]  BY <2>2
    <3> HIDE DEF body
    <3> QED  BY <3>1, <2>3
  <2> HIDE DEF Body
  <2> QED  BY <2>4
<1>6. climb = Body(climb)
  <2> HIDE DEF Body
  <2> QED  BY <1>5
<1>7. \A k \in Key : Climb(t, k) = climb[k]  BY DEF Climb
<1> HIDE DEF climb
<1>8. climb[n] = body(climb, n)
  <2> HIDE DEF body
  <2> QED  BY <1>6
<1> QED  BY <1>2, <1>7, <1>8

-----------------------------------------------------------------------------
(* Prefixes as sequences of bits. *)
LEMMA KeyBits ==
  ASSUME NEW k \in Key
  PROVE  /\ k \in Seq({0, 1}) /\ Len(k) \in Nat
         /\ \A i \in 1 .. Len(k) : k[i] \in {0, 1}
         /\ k # NULL
<1>0. PICK p \in Prefix : \E n \in 0 .. Len(p) : k = SubSeq(p, 1, n)  BY DEF Key
<1>1. PICK n \in 0 .. Len(p) : k = SubSeq(p, 1, n)  BY <1>0
<1>2. p \in Seq({0, 1})  BY PrefixAssumption
<1>3. k \in Seq({0, 1})
  <2>1. \A i \in 1 .. n : p[i] \in {0, 1}  BY <1>2
  <2>2. n \in Int /\ 1 \in Int  BY <1>2
  <2> QED  BY <1>1, <2>1, <2>2, SubSeqProperties
<1>4. k # NULL  BY NullAssumption
<1> QED  BY <1>3, <1>4

LEMMA KeyPrefix ==
  ASSUME NEW k \in Key, NEW m \in 0 .. Len(k)
  PROVE  /\ SubSeq(k, 1, m) \in Key /\ Len(SubSeq(k, 1, m)) = m
         /\ \A i \in 1 .. m : SubSeq(k, 1, m)[i] = k[i]
<1>0. PICK p \in Prefix : \E n \in 0 .. Len(p) : k = SubSeq(p, 1, n)  BY DEF Key
<1>1. PICK n \in 0 .. Len(p) : k = SubSeq(p, 1, n)  BY <1>0
<1>2. p \in Seq({0, 1}) /\ n \in Nat /\ n <= Len(p) /\ Len(p) \in Nat  BY PrefixAssumption
<1>3. Len(k) = n /\ \A i \in 1 .. n : k[i] = p[i]
  BY <1>1, <1>2
<1>4. m \in Nat /\ m <= n  BY <1>3, KeyBits
<1>5. k \in Seq({0, 1})  BY KeyBits
<1>6. /\ SubSeq(k, 1, m) \in Seq({0, 1}) /\ Len(SubSeq(k, 1, m)) = m
      /\ \A i \in 1 .. m : SubSeq(k, 1, m)[i] = k[i]
  BY <1>3, <1>4, <1>5
<1>7. /\ SubSeq(p, 1, m) \in Seq({0, 1}) /\ Len(SubSeq(p, 1, m)) = m
      /\ \A i \in 1 .. m : SubSeq(p, 1, m)[i] = p[i]
  BY <1>2, <1>4
<1>8. SubSeq(k, 1, m) = SubSeq(p, 1, m)
  <2>1. \A i \in 1 .. m : SubSeq(k, 1, m)[i] = SubSeq(p, 1, m)[i]
    BY <1>3, <1>4, <1>6, <1>7
  <2> QED  BY <1>6, <1>7, <2>1, SeqEqual
<1>9. m \in 0 .. Len(p)  BY <1>2, <1>4
<1>10. SubSeq(p, 1, m) \in Key  BY <1>9 DEF Key
<1> QED  BY <1>6, <1>8, <1>10

(* prefix_match, bit by bit. *)
LEMMA CoversBits ==
  ASSUME NEW q \in Key, NEW p \in Key
  PROVE  Covers(q, p) <=> Len(q) <= Len(p) /\ \A i \in 1 .. Len(q) : q[i] = p[i]
<1>1. q \in Seq({0, 1}) /\ p \in Seq({0, 1}) /\ Len(q) \in Nat /\ Len(p) \in Nat  BY KeyBits
<1>2. CASE Len(q) <= Len(p)
  <2>1. Len(q) \in 0 .. Len(p)  BY <1>1, <1>2
  <2> DEFINE s == SubSeq(p, 1, Len(q))
  <2>2. s \in Key /\ Len(s) = Len(q) /\ \A i \in 1 .. Len(q) : s[i] = p[i]
    BY <2>1, KeyPrefix
  <2>3. s \in Seq({0, 1})  BY <2>2, KeyBits
  <2>4. Covers(q, p) <=> s = q  BY <1>2 DEF Covers
  <2> HIDE DEF s
  <2>5. (\A i \in 1 .. Len(q) : q[i] = p[i]) => s = q
    <3>1. SUFFICES ASSUME \A i \in 1 .. Len(q) : q[i] = p[i] PROVE s = q  OBVIOUS
    <3>2. \A i \in 1 .. Len(s) : s[i] = q[i]  BY <2>2, <3>1
    <3> QED  BY <1>1, <2>2, <2>3, <3>2, SeqEqual
  <2> QED  BY <1>2, <2>2, <2>4, <2>5
<1>3. CASE ~ (Len(q) <= Len(p))
  BY <1>3 DEF Covers
<1> QED  BY <1>2, <1>3

(* Prefixes that cover one another. *)
LEMMA CoversOrder ==
  /\ \A k \in Key : Covers(k, k)
  /\ \A a, b, c \in Key : Covers(a, b) /\ Covers(b, c) => Covers(a, c)
  /\ \A a, b \in Key : Covers(a, b) => Len(a) <= Len(b)
  /\ \A a, b \in Key : Covers(a, b) /\ Len(b) <= Len(a) => a = b
  /\ \A a, b, c \in Key : Covers(a, c) /\ Covers(b, c) /\ Len(a) <= Len(b) => Covers(a, b)
<1> USE KeyBits
<1>1. ASSUME NEW k \in Key PROVE Covers(k, k)  BY CoversBits
<1>2. ASSUME NEW a \in Key, NEW b \in Key, NEW c \in Key, Covers(a, b), Covers(b, c)
      PROVE  Covers(a, c)
  <2>1. Len(a) <= Len(b) /\ Len(b) <= Len(c)  BY <1>2 DEF Covers
  <2>2. ASSUME NEW i \in 1 .. Len(a) PROVE a[i] = c[i]
    <3>1. a[i] = b[i]  BY <1>2, CoversBits
    <3>2. i \in 1 .. Len(b)  BY <2>1
    <3>3. b[i] = c[i]  BY <3>2, <1>2, CoversBits
    <3> QED  BY <3>1, <3>3
  <2>3. Len(a) <= Len(c)  BY <2>1
  <2> QED  BY <2>2, <2>3, CoversBits
<1>3. ASSUME NEW a \in Key, NEW b \in Key, Covers(a, b) PROVE Len(a) <= Len(b)
  BY <1>3 DEF Covers
<1>4. ASSUME NEW a \in Key, NEW b \in Key, Covers(a, b), Len(b) <= Len(a) PROVE a = b
  <2>1. Len(a) = Len(b)  BY <1>3, <1>4
  <2>2. \A i \in 1 .. Len(a) : a[i] = b[i]  BY <1>4, CoversBits
  <2>3. a \in Seq({0, 1}) /\ b \in Seq({0, 1})  OBVIOUS
  <2> QED  BY <2>1, <2>2, <2>3, SeqEqual
<1>5. ASSUME NEW a \in Key, NEW b \in Key, NEW c \in Key,
             Covers(a, c), Covers(b, c), Len(a) <= Len(b)
      PROVE  Covers(a, b)
  <2>1. ASSUME NEW i \in 1 .. Len(a) PROVE a[i] = b[i]
    <3>1. i \in 1 .. Len(b)  BY <1>5
    <3>2. a[i] = c[i]  BY <1>5, CoversBits
    <3>3. b[i] = c[i]  BY <3>1, <1>5, CoversBits
    <3> QED  BY <3>2, <3>3
  <2> QED  BY <1>5, <2>1, CoversBits
<1> QED  BY <1>1, <1>2, <1>3, <1>4, <1>5

(* check_bit returns a bit, the same for a prefix and all it covers. *)
LEMMA BitOfKey ==
  ASSUME NEW p \in Key, NEW n \in Nat, n < Len(p)
  PROVE  /\ Bit(p, n) \in {0, 1}
         /\ \A q \in Key : Covers(p, q) => Bit(q, n) = Bit(p, n)
<1>1. n + 1 \in 1 .. Len(p)  BY KeyBits
<1>2. p[n + 1] \in {0, 1}  BY <1>1, KeyBits
<1>3. ASSUME NEW q \in Key, Covers(p, q) PROVE q[n + 1] = p[n + 1]  BY <1>1, <1>3, CoversBits
<1> QED  BY <1>2, <1>3 DEF Bit

(* route_common: the longest prefix that two share, where they part.       *)
LEMMA CommonCorrect ==
  ASSUME NEW q \in Key, NEW p \in Key
  PROVE  LET c == Common(q, p)
         IN  /\ c \in Key /\ Covers(c, q) /\ Covers(c, p)
             /\ \A k \in Key : Covers(k, q) /\ Covers(k, p) => Covers(k, c)
             /\ Len(c) < Len(q) /\ Len(c) < Len(p) => Bit(q, Len(c)) # Bit(p, Len(c))
<1> DEFINE Shared == {k \in Key : Covers(k, q) /\ Covers(k, p)}
           L == {n \in Nat : \E k \in Shared : n = Len(p) - Len(k)}
           c == Common(q, p)
<1>1. Len(q) \in Nat /\ Len(p) \in Nat  BY KeyBits
<1>2. \A k \in Shared : Len(k) \in Nat /\ Len(k) <= Len(p) /\ k \in Key
  BY KeyBits, CoversOrder
<1>3. \E k \in Shared : \A l \in Shared : Len(l) <= Len(k)
  <2>1. SubSeq(p, 1, 0) \in Shared
    <3> DEFINE e == SubSeq(p, 1, 0)
    <3>1. 0 \in 0 .. Len(p)  BY <1>1
    <3>2. e \in Key /\ Len(e) = 0  BY <3>1, KeyPrefix
    <3> HIDE DEF e
    <3>3. \A i \in 1 .. Len(e) : FALSE  BY <3>2
    <3>4. Covers(e, q)  BY <3>2, <3>3, <1>1, CoversBits
    <3>5. Covers(e, p)  BY <3>2, <3>3, <1>1, CoversBits
    <3>6. e \in Shared  BY <3>2, <3>4, <3>5
    <3> QED  BY <3>6 DEF e
  <2> HIDE DEF Shared
  <2>2. ASSUME NEW k \in Shared PROVE Len(p) - Len(k) \in L
    BY <1>1, <1>2
  <2>3. L \subseteq Nat /\ L # {}  BY <2>1, <2>2
  <2>4. PICK n \in L : \A m \in L : n <= m
    <3> HIDE DEF L
    <3> QED  BY <2>3, LeastNatural
  <2>5. PICK k \in Shared : n = Len(p) - Len(k)  BY <2>4
  <2>6. ASSUME NEW l \in Shared PROVE Len(l) <= Len(k)
    <3>1. n <= Len(p) - Len(l)
      <4> HIDE DEF L
      <4> QED  BY <2>2, <2>4
    <3> QED  BY <3>1, <2>5, <1>1, <1>2
  <2> QED  BY <2>6
<1>4. c \in Shared /\ \A l \in Shared : Len(l) <= Len(c)
  <2>1. \E k \in Key : /\ Covers(k, q) /\ Covers(k, p)
                       /\ \A l \in Key : Covers(l, q) /\ Covers(l, p) => Len(l) <= Len(k)
    <3>1. PICK k \in Shared : \A l \in Shared : Len(l) <= Len(k)  BY <1>3
    <3>2. \A l \in Key : Covers(l, q) /\ Covers(l, p) => Len(l) <= Len(k)  BY <3>1
    <3>3. k \in Key /\ Covers(k, q) /\ Covers(k, p)  OBVIOUS
    <3> QED  BY <3>2, <3>3
  <2>2. /\ c \in Key /\ Covers(c, q) /\ Covers(c, p)
        /\ \A l \in Key : Covers(l, q) /\ Covers(l, p) => Len(l) <= Len(c)
    BY <2>1 DEF Common
  <2> HIDE DEF c
  <2> QED  BY <2>2
<1> HIDE DEF c
<1>5. ASSUME NEW k \in Key, Covers(k, q), Covers(k, p) PROVE Covers(k, c)
  <2>1. k \in Shared  BY <1>5
  <2> QED  BY <2>1, <1>4, <1>5, CoversOrder
<1>6. ASSUME Len(c) < Len(q), Len(c) < Len(p), Bit(q, Len(c)) = Bit(p, Len(c)) PROVE FALSE
  <2> DEFINE m == Len(c) + 1
             k == SubSeq(p, 1, m)
  <2>1. Len(c) \in Nat /\ c \in Key  BY <1>4, KeyBits
  <2>2. m \in 0 .. Len(p) /\ m <= Len(q) /\ m \in Nat  BY <1>1, <1>6, <2>1
  <2>3. k \in Key /\ Len(k) = m /\ \A i \in 1 .. m : k[i] = p[i]  BY <2>2, KeyPrefix
  <2>4. q[m] = p[m]  BY <1>6 DEF Bit
  <2> HIDE DEF k
  <2>5. Covers(k, p)  BY <2>2, <2>3, CoversBits
  <2>6. ASSUME NEW i \in 1 .. m PROVE k[i] = q[i]
    <3>1. CASE i = m  BY <3>1, <2>3, <2>4
    <3>2. CASE i # m
      <4>1. i \in 1 .. Len(c)  BY <3>2, <2>1, <2>2
      <4>2. c[i] = q[i] /\ c[i] = p[i]  BY <4>1, <1>4, CoversBits
      <4> QED  BY <4>2, <2>3
    <3> QED  BY <3>1, <3>2
  <2>7. Covers(k, q)  BY <2>2, <2>3, <2>6, CoversBits
  <2>8. Len(k) <= Len(c)  BY <2>3, <2>5, <2>7, <1>4
  <2> QED  BY <2>1, <2>3, <2>8
<1> QED  BY <1>4, <1>5, <1>6 DEF c

-----------------------------------------------------------------------------
(* What the links of a table that is linked up say of a child and of a     *)
(* parent.                                                                 *)
LEMMA ChildFacts ==
  ASSUME NEW t \in Table, Linked(t), NEW k \in t.used, NEW b \in {0, 1}, t.node[k].link[b] # NULL
  PROVE  LET c == t.node[k].link[b]
         IN  /\ c \in t.used /\ c \in Key /\ c # t.top /\ t.node[c].parent = k
             /\ Len(k) < Len(c) /\ Covers(k, c) /\ Bit(c, Len(k)) = b
<1> DEFINE c == t.node[k].link[b]
<1>1. t.used \subseteq Key /\ k \in Key /\ k # NULL  BY NodeTypes, KeyBits DEF Table
<1>2. c \in t.used /\ t.node[c].parent = k /\ Bit(c, Len(k)) = b  BY DEF Linked
<1>3. c # t.top
  <2>1. t.top # NULL => t.node[t.top].parent = NULL  BY DEF Linked
  <2>2. c # NULL  OBVIOUS
  <2> QED  BY <1>1, <1>2, <2>1, <2>2
<1>4. Hangs(t, k, c)  BY <1>2, <1>3 DEF Linked
<1> QED  BY <1>1, <1>2, <1>3, <1>4 DEF Hangs

LEMMA ParentFacts ==
  ASSUME NEW t \in Table, Linked(t), NEW k \in t.used, k # t.top
  PROVE  LET q == t.node[k].parent
         IN  /\ q \in t.used /\ q \in Key /\ q # NULL /\ Len(q) < Len(k) /\ Covers(q, k)
             /\ t.node[q].link[Bit(k, Len(q))] = k /\ Bit(k, Len(q)) \in {0, 1}
<1> DEFINE q == t.node[k].parent
<1>1. t.used \subseteq Key  BY DEF Table
<1>2. Hangs(t, q, k)  BY DEF Linked
<1>3. q \in Key /\ k \in Key /\ Len(q) \in Nat /\ Len(q) < Len(k) /\ q # NULL
  BY <1>1, <1>2, KeyBits DEF Hangs
<1>4. Bit(k, Len(q)) \in {0, 1}  BY <1>3, BitOfKey
<1> QED  BY <1>2, <1>3, <1>4 DEF Hangs

(* Every node lies below the top, and what lies below a node hangs under   *)
(* its child on that side.                                                 *)
LEMMA TopCovers ==
  ASSUME NEW t \in Table, Linked(t), NEW k \in t.used
  PROVE  Covers(t.top, k) /\ t.top \in t.used /\ t.top \in Key
<1>1. t.used \subseteq Key  BY DEF Table
<1>2. t.top \in t.used /\ t.top \in Key  BY <1>1 DEF Linked
<1> DEFINE P == {n \in Nat : \A l \in t.used : Len(l) <= n => Covers(t.top, l)}
<1>3. \A l \in t.used : l = t.top => Covers(t.top, l)  BY <1>2, CoversOrder
<1>4. ASSUME NEW n \in Nat, \A l \in t.used : Len(l) < n => Covers(t.top, l)
      PROVE  \A l \in t.used : Len(l) <= n => Covers(t.top, l)
  <2> SUFFICES ASSUME NEW l \in t.used, Len(l) <= n, l # t.top PROVE Covers(t.top, l)
    BY <1>3
  <2> DEFINE q == t.node[l].parent
  <2>1. q \in t.used /\ q \in Key /\ Len(q) < Len(l) /\ Covers(q, l)  BY ParentFacts
  <2>2. Len(q) \in Nat /\ Len(l) \in Nat /\ l \in Key  BY <1>1, <2>1, KeyBits
  <2>3. Len(q) < n  BY <2>1, <2>2
  <2> HIDE DEF q
  <2>4. Covers(t.top, q)  BY <1>4, <2>1, <2>3
  <2> QED  BY <2>1, <2>2, <2>4, <1>2, CoversOrder
<1>5. 0 \in P
  <2>1. \A l \in t.used : Len(l) \in Nat  BY <1>1, KeyBits
  <2> QED  BY <2>1, <1>4
<1>6. ASSUME NEW n \in Nat, n \in P PROVE n + 1 \in P
  <2>1. \A l \in t.used : Len(l) \in Nat  BY <1>1, KeyBits
  <2>2. \A l \in t.used : Len(l) < n + 1 => Covers(t.top, l)  BY <1>6, <2>1
  <2>3. n + 1 \in Nat  OBVIOUS
  <2>4. \A l \in t.used : Len(l) <= n + 1 => Covers(t.top, l)  BY <1>4, <2>2, <2>3
  <2> QED  BY <2>3, <2>4
<1>7. \A n \in Nat : n \in P
  <2> HIDE DEF P
  <2> QED  BY <1>5, <1>6, Induction
<1>8. Len(k) \in Nat /\ Len(k) <= Len(k)  BY <1>1, KeyBits
<1> QED  BY <1>2, <1>7, <1>8

LEMMA Subtree ==
  ASSUME NEW t \in Table, Linked(t), NEW m \in t.used, NEW k \in t.used,
         Covers(m, k), m # k
  PROVE  LET c == t.node[m].link[Bit(k, Len(m))]
         IN  /\ c # NULL /\ c \in t.used /\ c \in Key /\ Covers(c, k) /\ c # t.top
             /\ t.node[c].parent = m /\ Len(m) < Len(c) /\ Covers(m, c)
<1> DEFINE Under(m_1, l) == Covers(t.node[m_1].link[Bit(l, Len(m_1))], l)
                            /\ t.node[m_1].link[Bit(l, Len(m_1))] \in Key
           P == {n \in Nat : \A a, l \in t.used :
                   Len(l) <= n /\ Covers(a, l) /\ a # l => Under(a, l)}
<1>1. t.used \subseteq Key /\ \A l \in t.used : l \in Key /\ Len(l) \in Nat
  BY KeyBits DEF Table
<1>2. ASSUME NEW n \in Nat,
             \A a, l \in t.used : Len(l) < n /\ Covers(a, l) /\ a # l => Under(a, l)
      PROVE  \A a, l \in t.used : Len(l) <= n /\ Covers(a, l) /\ a # l => Under(a, l)
  <2> SUFFICES ASSUME NEW a \in t.used, NEW l \in t.used, Len(l) <= n, Covers(a, l), a # l
               PROVE  Under(a, l)
    OBVIOUS
  <2>1. l # t.top
    <3>1. Covers(t.top, a) /\ t.top \in Key  BY TopCovers
    <3>2. Len(t.top) <= Len(a) /\ Len(a) <= Len(l)  BY <1>1, <3>1, CoversOrder
    <3> QED  BY <3>1, <3>2, <1>1, CoversOrder
  <2> DEFINE q == t.node[l].parent
  <2>2. /\ q \in t.used /\ q \in Key /\ Len(q) < Len(l) /\ Covers(q, l)
        /\ t.node[q].link[Bit(l, Len(q))] = l
    BY <2>1, ParentFacts
  <2> HIDE DEF q
  <2>3. Len(q) < n /\ Len(q) \in Nat /\ Len(a) \in Nat  BY <1>1, <2>2
  <2>4. CASE a = q
    BY <2>2, <2>4, <1>1, CoversOrder
  <2>5. CASE a # q /\ Len(a) <= Len(q)
    <3>1. Covers(a, q)  BY <2>2, <2>5, <1>1, CoversOrder
    <3>2. Under(a, q)  BY <3>1, <2>2, <2>3, <2>5, <1>2
    <3>3. Len(a) < Len(q)  BY <3>1, <2>3, <2>5, <1>1, <2>2, CoversOrder
    <3>4. Bit(l, Len(a)) = Bit(q, Len(a))  BY <3>3, <2>2, <2>3, <1>1, BitOfKey
    <3>5. Covers(t.node[a].link[Bit(l, Len(a))], q) /\ t.node[a].link[Bit(l, Len(a))] \in Key
      BY <3>2, <3>4
    <3> QED  BY <3>5, <2>2, <1>1, CoversOrder
  <2>6. CASE Len(q) < Len(a)
    <3>1. Covers(q, a) /\ q # a  BY <2>2, <2>3, <2>6, <1>1, CoversOrder
    <3>2. Len(a) < Len(l)
      <4>1. Len(a) <= Len(l)  BY <1>1, CoversOrder
      <4>2. Len(a) # Len(l)  BY <1>1, CoversOrder
      <4> QED  BY <4>1, <4>2, <1>1
    <3>3. Len(a) < n  BY <3>2, <2>3, <1>1
    <3>4. Under(q, a)  BY <3>1, <3>3, <2>2, <1>2
    <3>5. Bit(l, Len(q)) = Bit(a, Len(q))  BY <2>2, <2>3, <2>6, <1>1, BitOfKey
    <3>6. Covers(l, a)  BY <3>4, <3>5, <2>2
    <3> QED  BY <3>2, <3>6, <1>1, CoversOrder
  <2> QED  BY <2>3, <2>4, <2>5, <2>6
<1> HIDE DEF Under
<1>3. 0 \in P
  <2>1. \A a, l \in t.used : Len(l) < 0 /\ Covers(a, l) /\ a # l => Under(a, l)  BY <1>1
  <2>2. 0 \in Nat  OBVIOUS
  <2>3. \A a, l \in t.used : Len(l) <= 0 /\ Covers(a, l) /\ a # l => Under(a, l)
    BY <2>1, <2>2, <1>2
  <2> QED  BY <2>2, <2>3
<1>4. ASSUME NEW n \in Nat, n \in P PROVE n + 1 \in P
  <2>1. \A a, l \in t.used : Len(l) < n + 1 /\ Covers(a, l) /\ a # l => Under(a, l)
    BY <1>1, <1>4
  <2>2. n + 1 \in Nat  OBVIOUS
  <2>3. \A a, l \in t.used : Len(l) <= n + 1 /\ Covers(a, l) /\ a # l => Under(a, l)
    BY <2>1, <2>2, <1>2
  <2> QED  BY <2>2, <2>3
<1>5. \A n \in Nat : n \in P
  <2> HIDE DEF P
  <2> QED  BY <1>3, <1>4, Induction
<1>6. Len(k) \in Nat /\ Len(k) <= Len(k)  BY <1>1
<1>7. Under(m, k)  BY <1>5, <1>6
<1> DEFINE c == t.node[m].link[Bit(k, Len(m))]
<1>8. c \in Key /\ Covers(c, k) /\ c # NULL  BY <1>7, KeyBits DEF Under
<1>9. Bit(k, Len(m)) \in {0, 1}
  <2>1. Len(m) \in Nat /\ Len(m) <= Len(k) /\ Len(m) # Len(k)  BY <1>1, CoversOrder
  <2> QED  BY <2>1, <1>1, BitOfKey
<1> HIDE DEF c
<1>10. /\ c \in t.used /\ c # t.top /\ t.node[c].parent = m /\ Len(m) < Len(c) /\ Covers(m, c)
  BY <1>8, <1>9, ChildFacts DEF c
<1> QED  BY <1>8, <1>10 DEF c

-----------------------------------------------------------------------------
(* What the walk towards p can come to from the node q it has passed. *)
Stopped(t, p, w) ==
  /\ w.match \in t.used /\ w.match \in Above(p) /\ Stops(w.node, p)
  /\ w.node = t.node[w.match].link[Bit(p, Len(w.match))]

(* A strict prefix of p is shorter, and the next bit of p is a bit. *)
LEMMA AboveFacts ==
  ASSUME NEW p \in Key, NEW q \in Above(p)
  PROVE  /\ q \in Key /\ Covers(q, p) /\ q # p /\ Len(q) < Len(p) /\ Bit(p, Len(q)) \in {0, 1}
<1>1. q \in Key /\ Covers(q, p) /\ q # p /\ Len(q) \in Nat /\ Len(p) \in Nat
  BY KeyBits DEF Above
<1>2. Len(q) <= Len(p) /\ Len(q) # Len(p)  BY <1>1, CoversOrder
<1>3. Len(q) < Len(p)  BY <1>1, <1>2
<1> QED  BY <1>1, <1>3, BitOfKey

(* The walk of route_node_lookup and route_node_get stops at the top, or   *)
(* below the last node it has passed.                                      *)
LEMMA DescendCorrect ==
  ASSUME NEW t \in Table, Linked(t), NEW p \in Key
  PROVE  LET w == Descend(t, p)
         IN  \/ w.match = NULL /\ w.node = t.top /\ Stops(t.top, p)
             \/ Stopped(t, p, w)
<1> DEFINE Step(q) == t.node[q].link[Bit(p, Len(q))]
           Result == [match : Key, node : Pointer]
           step == [q \in Above(p) |-> IF Stops(Step(q), p) THEN q ELSE Step(q)]
           stop == [q \in Above(p) |-> Stops(Step(q), p)]
           val == [q \in Above(p) |-> [match |-> q, node |-> Step(q)]]
           body(f, q) == IF Stops(Step(q), p) THEN [match |-> q, node |-> Step(q)] ELSE f[Step(q)]
           Body(f) == [q \in Above(p) |-> body(f, q)]
           walk == CHOOSE f : f = Body(f)
<1>1. ASSUME NEW q \in Above(p) PROVE Step(q) \in Pointer /\ q \in Key
  <2>1. q \in Key /\ Bit(p, Len(q)) \in {0, 1}  BY AboveFacts
  <2>2. t.node[q].link \in [{0, 1} -> Pointer]  BY <2>1, NodeTypes
  <2> QED  BY <2>1, <2>2
<1>2. ASSUME NEW q \in Above(p), ~ Stops(Step(q), p) PROVE Step(q) \in Above(p)
  BY <1>1, <1>2 DEF Stops, Above, Pointer
<1> HIDE DEF Step
<1>3. \E f : f = Body(f)
  <2>1. step \in [Above(p) -> Above(p)]  BY <1>2
  <2>2. val \in [Above(p) -> Result]  BY <1>1
  <2>3. stop \in [Above(p) -> BOOLEAN]  BY DEF Stops
  <2>4. Result # {}
    <3>1. [match |-> p, node |-> NULL] \in Result  BY DEF Pointer
    <3> QED  BY <3>1
  <2>5. IsLoop(Above(p), Result, step, stop, val)
    <3> HIDE DEF step, stop, val, Result
    <3> QED  BY <2>1, <2>2, <2>3, <2>4 DEF IsLoop
  <2>6. Loops(Above(p), Result, step, stop, val) # {}
    <3> HIDE DEF step, stop, val, Result
    <3> QED  BY <2>5, TailRecursion
  <2>7. PICK f \in Loops(Above(p), Result, step, stop, val) : TRUE
    BY <2>6
  <2>8. /\ f \in [Above(p) -> Result]
        /\ \A q \in Above(p) : f[q] = IF stop[q] THEN val[q] ELSE f[step[q]]
    BY <2>7 DEF Loops
  <2>9. ASSUME NEW q \in Above(p) PROVE f[q] = body(f, q)
    <3>1. f[q] = IF stop[q] THEN val[q] ELSE f[step[q]]  BY <2>8
    <3> QED  BY <3>1
  <2>10. f = Body(f)
    <3>1. f \in [Above(p) -> Result]  BY <2>8
    <3> HIDE DEF body, Result
    <3> QED  BY <3>1, <2>9
  <2> HIDE DEF Body
  <2> QED  BY <2>10
<1>4. walk = Body(walk)
  <2> HIDE DEF Body
  <2> QED  BY <1>3
<1>5. Descend(t, p) = IF Stops(t.top, p) THEN [match |-> NULL, node |-> t.top] ELSE walk[t.top]
  BY DEF Descend, Step
<1> HIDE DEF walk
<1>6. ASSUME NEW q \in Above(p) PROVE walk[q] = body(walk, q)
  <2> HIDE DEF body
  <2> QED  BY <1>4
<1>7. CASE Stops(t.top, p)
  <2>1. Descend(t, p) = [match |-> NULL, node |-> t.top]  BY <1>5, <1>7
  <2> QED  BY <2>1, <1>7
<1>8. CASE ~ Stops(t.top, p)
  <2> DEFINE P == {n \in Nat : \A q \in Above(p) \cap t.used :
                     Len(p) - Len(q) <= n => Stopped(t, p, walk[q])}
  <2>1. \A q \in Above(p) \cap t.used :
          q \in Key /\ Len(q) \in Nat /\ Len(p) \in Nat /\ Len(q) < Len(p) /\ Bit(p, Len(q)) \in {0, 1}
    BY KeyBits, AboveFacts
  <2>2. 0 \in P  BY <2>1
  <2>3. ASSUME NEW n \in Nat, n \in P PROVE n + 1 \in P
    <3> SUFFICES ASSUME NEW q \in Above(p) \cap t.used, Len(p) - Len(q) <= n + 1
                 PROVE  Stopped(t, p, walk[q])
      OBVIOUS
    <3>1. walk[q] = IF Stops(Step(q), p) THEN [match |-> q, node |-> Step(q)] ELSE walk[Step(q)]
      BY <1>6
    <3>2. CASE Stops(Step(q), p)
      <4>1. walk[q] = [match |-> q, node |-> Step(q)]  BY <3>1, <3>2
      <4>2. walk[q].match = q /\ walk[q].node = Step(q)  BY <4>1
      <4> QED  BY <4>2, <3>2 DEF Stopped, Step
    <3>3. CASE ~ Stops(Step(q), p)
      <4>1. Step(q) \in Above(p) /\ Step(q) # NULL  BY <1>2, <3>3 DEF Stops
      <4>2. Step(q) \in t.used /\ Len(q) < Len(Step(q))
        BY <2>1, <4>1, ChildFacts DEF Step
      <4>3. Len(Step(q)) \in Nat  BY <2>1, <4>1, <4>2
      <4>4. Len(p) - Len(Step(q)) <= n  BY <2>1, <4>2, <4>3
      <4>5. Stopped(t, p, walk[Step(q)])  BY <2>3, <4>1, <4>2, <4>4
      <4> QED  BY <3>1, <3>3, <4>5
    <3> QED  BY <3>2, <3>3
  <2>4. \A n \in Nat : n \in P
    <3> HIDE DEF P
    <3> QED  BY <2>2, <2>3, Induction
  <2>5. t.top \in Above(p) \cap t.used
    <3>1. t.top \in Pointer /\ t.top # NULL  BY <1>8 DEF Stops, Table
    <3>2. t.top \in t.used  BY <3>1 DEF Linked
    <3> QED  BY <3>1, <3>2, <1>8 DEF Stops, Above, Pointer
  <2>6. Len(p) - Len(t.top) \in Nat /\ Len(p) - Len(t.top) <= Len(p) - Len(t.top)  BY <2>1, <2>5
  <2>7. Stopped(t, p, walk[t.top])  BY <2>4, <2>5, <2>6
  <2> QED  BY <2>7, <1>5, <1>8
<1> QED  BY <1>7, <1>8

-----------------------------------------------------------------------------
(* What the steps of the insertion do to the fields of a table. *)
LEMMA BlankNode ==
  /\ Blank \in Node /\ Blank.parent = NULL /\ Blank.info = NULL /\ Blank.lock = 0
  /\ \A b \in {0, 1} : Blank.link[b] = NULL
<1>1. NULL \in Pointer /\ "NONE" \in Status  BY DEF Pointer, Status
<1> QED  BY <1>1 DEF Blank, Node

LEMMA FreshFields ==
  ASSUME NEW t \in Table, NEW p \in Key
  PROVE  LET u == Fresh(t, p)
         IN  /\ u \in Table /\ u.top = t.top /\ u.failed = t.failed
             /\ u.used = t.used \cup {p} /\ u.node[p] = Blank
             /\ \A k \in Key : k # p => u.node[k] = t.node[k]
<1> DEFINE u == Fresh(t, p)
<1>1. /\ u.top = t.top /\ u.failed = t.failed /\ u.used = t.used \cup {p}
      /\ u.node = [t.node EXCEPT ![p] = Blank]
  BY DEF Fresh, Table
<1>2. t.node \in [Key -> Node] /\ t.used \subseteq Key  BY DEF Table
<1>3. u.node \in [Key -> Node]  BY <1>1, <1>2, BlankNode
<1>4. u \in Table  BY BlankNode DEF Fresh, Table
<1>5. u.node[p] = Blank /\ \A k \in Key : k # p => u.node[k] = t.node[k]
  BY <1>1, <1>2
<1> HIDE DEF u
<1> QED  BY <1>1, <1>4, <1>5 DEF u

LEMMA SetLinkFields ==
  ASSUME NEW t \in Table, NEW q \in Key, NEW p \in Key, q # p, Bit(p, Len(q)) \in {0, 1}
  PROVE  LET u == SetLink(t, q, p)
             b == Bit(p, Len(q))
         IN  /\ u \in Table /\ u.top = t.top /\ u.failed = t.failed /\ u.used = t.used
             /\ \A k \in Key \ {q, p} : u.node[k] = t.node[k]
             /\ u.node[q].link[b] = p
             /\ \A a \in {0, 1} : a # b => u.node[q].link[a] = t.node[q].link[a]
             /\ u.node[q].parent = t.node[q].parent /\ u.node[q].info = t.node[q].info
             /\ u.node[q].lock = t.node[q].lock /\ u.node[q].status = t.node[q].status
             /\ u.node[p].parent = q /\ u.node[p].link = t.node[p].link
             /\ u.node[p].info = t.node[p].info /\ u.node[p].lock = t.node[p].lock
             /\ u.node[p].status = t.node[p].status
<1> DEFINE u == SetLink(t, q, p)
           b == Bit(p, Len(q))
           n == [t.node[q] EXCEPT !.link[b] = p]
           m == [t.node[p] EXCEPT !.parent = q]
<1>1. t.node \in [Key -> Node] /\ t.used \subseteq Key /\ t.node[q] \in Node /\ t.node[p] \in Node
  BY DEF Table
<1>2. /\ n \in Node /\ n.parent = t.node[q].parent /\ n.info = t.node[q].info
      /\ n.lock = t.node[q].lock /\ n.status = t.node[q].status
      /\ n.link[b] = p /\ \A a \in {0, 1} : a # b => n.link[a] = t.node[q].link[a]
  <2>1. t.node[q].link \in [{0, 1} -> Pointer] /\ p \in Pointer  BY <1>1 DEF Node, Pointer
  <2>2. n.link = [t.node[q].link EXCEPT ![b] = p]  BY <1>1 DEF Node
  <2>3. n.link \in [{0, 1} -> Pointer]  BY <2>1, <2>2
  <2>4. n.link[b] = p /\ \A a \in {0, 1} : a # b => n.link[a] = t.node[q].link[a]
    BY <2>1, <2>2
  <2>5. /\ n.parent = t.node[q].parent /\ n.info = t.node[q].info
        /\ n.lock = t.node[q].lock /\ n.status = t.node[q].status
    BY <1>1 DEF Node
  <2>6. n \in Node  BY <1>1, <2>1 DEF Node
  <2> HIDE DEF n
  <2> QED  BY <2>4, <2>5, <2>6
<1>3. /\ m \in Node /\ m.parent = q /\ m.link = t.node[p].link /\ m.info = t.node[p].info
      /\ m.lock = t.node[p].lock /\ m.status = t.node[p].status
  BY <1>1 DEF Node, Pointer
<1>4. /\ u.top = t.top /\ u.failed = t.failed /\ u.used = t.used
      /\ u.node = [[t.node EXCEPT ![q].link[b] = p] EXCEPT ![p].parent = q]
  BY DEF SetLink, Table
<1>5. u.node = [[t.node EXCEPT ![q] = n] EXCEPT ![p] = m]
  BY <1>1, <1>4
<1>6. u.node[q] = n /\ u.node[p] = m /\ \A k \in Key \ {q, p} : u.node[k] = t.node[k]
  <2> HIDE DEF n, m, u
  <2> QED  BY <1>1, <1>5
<1>7. u.node \in [Key -> Node]
  <2> HIDE DEF n, m, u
  <2> QED  BY <1>1, <1>2, <1>3, <1>5
<1>8. u \in Table
  <2>1. u = [[t EXCEPT !.node[q].link[b] = p] EXCEPT !.node[p].parent = q]
    BY DEF SetLink
  <2>2. [t EXCEPT !.node[q].link[b] = p] = [t EXCEPT !.node = [@ EXCEPT ![q] = n]]
    OBVIOUS
  <2>3. n \in Node  BY <1>2
  <2> HIDE DEF u, n
  <2>4. [t EXCEPT !.node = [@ EXCEPT ![q] = n]] \in Table  BY <2>3 DEF Table
  <2> DEFINE v == [t EXCEPT !.node[q].link[b] = p]
  <2>5. v \in Table  BY <2>2, <2>4
  <2> HIDE DEF v
  <2>6. v.node[p] \in Node /\ q \in Pointer  BY <2>5 DEF Table, Pointer
  <2>7. [v EXCEPT !.node[p].parent = q] \in Table  BY <2>5, <2>6 DEF Table, Node
  <2> QED  BY <2>1, <2>7 DEF v
<1>9. /\ u.node[q] = n /\ u.node[p] = m  BY <1>6
<1>10. /\ u.node[q].link[b] = p /\ \A a \in {0, 1} : a # b => u.node[q].link[a] = t.node[q].link[a]
       /\ u.node[q].parent = t.node[q].parent /\ u.node[q].info = t.node[q].info
       /\ u.node[q].lock = t.node[q].lock /\ u.node[q].status = t.node[q].status
  <2> HIDE DEF n, u
  <2> QED  BY <1>2, <1>9
<1>11. /\ u.node[p].parent = q /\ u.node[p].link = t.node[p].link
       /\ u.node[p].info = t.node[p].info /\ u.node[p].lock = t.node[p].lock
       /\ u.node[p].status = t.node[p].status
  <2> HIDE DEF m, u
  <2> QED  BY <1>3, <1>9
<1> HIDE DEF u
<1> QED  BY <1>4, <1>6, <1>8, <1>9, <1>10, <1>11 DEF u

(* A new node hung under one that has room for it: the table stays linked  *)
(* up, and no other node loses anything.                                   *)
LEMMA HangUnder ==
  ASSUME NEW t \in Table, Linked(t), NEW p \in Key, p \notin t.used,
         NEW q \in t.used, q # p, Covers(q, p), t.node[q].link[Bit(p, Len(q))] = NULL
  PROVE  LET u == Hang(t, q, p)
         IN  /\ u \in Table /\ Linked(u) /\ u.used = t.used \cup {p} /\ u.failed = t.failed
             /\ u.node[p].info = NULL /\ u.node[p].lock = 0
             /\ u.node[q].link[Bit(p, Len(q))] = p
             /\ \A k \in t.used :
                  /\ u.node[k].info = t.node[k].info /\ u.node[k].lock = t.node[k].lock
                  /\ u.node[k].status = t.node[k].status
                  /\ \A b \in {0, 1} : t.node[k].link[b] # NULL => u.node[k].link[b] = t.node[k].link[b]
<1> DEFINE b == Bit(p, Len(q))
           v == Fresh(t, p)
           u == SetLink(v, q, p)
<1>1. t.used \subseteq Key /\ q \in Key /\ q # NULL  BY KeyBits DEF Table
<1>2. b \in {0, 1} /\ Len(q) < Len(p)
  <2>1. q \in Above(p)  BY <1>1 DEF Above
  <2> QED  BY <2>1, AboveFacts
<1>3. /\ v \in Table /\ v.top = t.top /\ v.failed = t.failed
      /\ v.used = t.used \cup {p} /\ v.node[p] = Blank
      /\ \A k \in Key : k # p => v.node[k] = t.node[k]
  BY FreshFields
<1> HIDE DEF v
<1>4. /\ u \in Table /\ u.top = v.top /\ u.failed = v.failed /\ u.used = v.used
      /\ \A k \in Key \ {q, p} : u.node[k] = v.node[k]
      /\ u.node[q].link[b] = p
      /\ \A a \in {0, 1} : a # b => u.node[q].link[a] = v.node[q].link[a]
      /\ u.node[q].parent = v.node[q].parent /\ u.node[q].info = v.node[q].info
      /\ u.node[q].lock = v.node[q].lock
      /\ u.node[q].status = v.node[q].status
      /\ u.node[p].parent = q /\ u.node[p].link = v.node[p].link
      /\ u.node[p].info = v.node[p].info /\ u.node[p].lock = v.node[p].lock
      /\ u.node[p].status = v.node[p].status
  <2>1. v \in Table /\ q \in Key /\ p \in Key /\ q # p /\ Bit(p, Len(q)) \in {0, 1}
    BY <1>1, <1>2, <1>3
  <2> QED  BY ONLY <2>1, SetLinkFields
<1>5. Hang(t, q, p) = u  BY <1>1 DEF Hang, v
<1> HIDE DEF u
<1>6. /\ u.top = t.top /\ u.failed = t.failed /\ u.used = t.used \cup {p}
      /\ u.node[p].info = NULL /\ u.node[p].lock = 0 /\ u.node[p].parent = q
      /\ \A a \in {0, 1} : u.node[p].link[a] = NULL
  BY <1>3, <1>4, BlankNode
<1>7. ASSUME NEW k \in t.used
      PROVE  /\ k \in Key /\ k # p /\ u.node[k].info = t.node[k].info /\ u.node[k].lock = t.node[k].lock
                                   /\ u.node[k].status = t.node[k].status
             /\ u.node[k].parent = t.node[k].parent
             /\ \A a \in {0, 1} : ~ (k = q /\ a = b) => u.node[k].link[a] = t.node[k].link[a]
  <2>1. k \in Key /\ k # p  BY <1>1
  <2>2. v.node[k] = t.node[k]  BY <2>1, <1>3
  <2>3. CASE k = q  BY <2>1, <2>2, <2>3, <1>4
  <2>4. CASE k # q
    <3>1. u.node[k] = t.node[k]  BY <2>1, <2>2, <2>4, <1>4
    <3> QED  BY <3>1, <2>1, <2>4
  <2> QED  BY <2>3, <2>4
<1>8. Linked(u)
  <2>1. t.top \in t.used /\ t.top # NULL /\ u.top = t.top  BY <1>1, <1>6, TopCovers, KeyBits
  <2>2. u.node[u.top].parent = NULL  BY <2>1, <1>7 DEF Linked
  <2>3. ASSUME NEW k \in u.used \ {u.top} PROVE Hangs(u, u.node[k].parent, k)
    <3>1. CASE k = p
      BY <3>1, <1>2, <1>4, <1>6 DEF Hangs
    <3>2. CASE k # p
      <4> DEFINE m == t.node[k].parent
      <4>1. k \in t.used /\ k # t.top  BY <3>2, <2>1, <1>6
      <4>2. /\ m \in t.used /\ Len(m) < Len(k) /\ Covers(m, k) /\ Bit(k, Len(m)) \in {0, 1}
            /\ t.node[m].link[Bit(k, Len(m))] = k
        BY <4>1, ParentFacts
      <4>3. u.node[k].parent = m  BY <4>1, <1>7
      <4> HIDE DEF m
      <4>4. k # NULL  BY <4>1, <1>1, KeyBits
      <4>5. ~ (m = q /\ Bit(k, Len(m)) = b)  BY <4>2, <4>4
      <4>6. u.node[m].link[Bit(k, Len(m))] = k  BY <4>2, <4>5, <1>7
      <4> QED  BY <4>2, <4>3, <4>6, <1>6 DEF Hangs
    <3> QED  BY <3>1, <3>2
  <2>4. ASSUME NEW k \in u.used, NEW a \in {0, 1}, u.node[k].link[a] # NULL
        PROVE  LET c == u.node[k].link[a]
               IN  c \in u.used /\ u.node[c].parent = k /\ Bit(c, Len(k)) = a
    <3>1. k \in t.used  BY <2>4, <1>6
    <3>2. CASE k = q /\ a = b
      BY <3>2, <1>4, <1>6
    <3>3. CASE ~ (k = q /\ a = b)
      <4> DEFINE c == t.node[k].link[a]
      <4>1. u.node[k].link[a] = c  BY <3>1, <3>3, <1>7
      <4>2. c \in t.used /\ t.node[c].parent = k /\ Bit(c, Len(k)) = a
        BY <4>1, <2>4, <3>1, ChildFacts
      <4> HIDE DEF c
      <4> QED  BY <4>1, <4>2, <1>6, <1>7
    <3> QED  BY <3>2, <3>3
  <2>5. u.top = NULL <=> u.used = {}  BY <2>1, <1>6
  <2>6. u.top \in u.used  BY <2>1, <1>6
  <2> QED  BY <2>2, <2>3, <2>4, <2>5, <2>6 DEF Linked
<1>9. \A k \in t.used, a \in {0, 1} : t.node[k].link[a] # NULL => ~ (k = q /\ a = b)
  OBVIOUS
<1>10. \A k \in t.used, a \in {0, 1} : t.node[k].link[a] # NULL => u.node[k].link[a] = t.node[k].link[a]
  BY <1>7, <1>9
<1> QED  BY <1>4, <1>5, <1>6, <1>7, <1>8, <1>10

(* The first node of a table. *)
LEMMA HangFirst ==
  ASSUME NEW t \in Table, t.used = {}, NEW p \in Key
  PROVE  LET u == Hang(t, NULL, p)
         IN  /\ u \in Table /\ Linked(u) /\ u.used = {p} /\ u.failed = t.failed
             /\ u.node[p].info = NULL /\ u.node[p].lock = 0
<1> DEFINE v == Fresh(t, p)
           u == [v EXCEPT !.top = p]
<1>1. /\ v \in Table /\ v.failed = t.failed /\ v.used = {p} /\ v.node[p] = Blank
  BY FreshFields
<1>2. p \in Pointer /\ p # NULL  BY KeyBits DEF Pointer
<1> HIDE DEF v
<1>3. u \in Table /\ u.top = p /\ u.failed = v.failed /\ u.used = v.used /\ u.node = v.node
  BY <1>1, <1>2 DEF Table
<1>4. Hang(t, NULL, p) = u  BY DEF Hang, v
<1> HIDE DEF u
<1>5. Linked(u)  BY <1>1, <1>2, <1>3, BlankNode DEF Linked
<1> QED  BY <1>1, <1>3, <1>4, <1>5, BlankNode

(* A new top c above the node q: what q had below it is kept, and the rest *)
(* is lost.                                                                *)
Topped(t, q, c, u) ==
  /\ u \in Table /\ Linked(u) /\ u.failed = t.failed
  /\ u.used = {c} \cup {k \in t.used : Covers(q, k)}
  /\ u.node[c].info = NULL /\ u.node[c].lock = 0
  /\ u.node[c].link[Bit(q, Len(c))] = q /\ Bit(q, Len(c)) \in {0, 1}
  /\ \A a \in {0, 1} : a # Bit(q, Len(c)) => u.node[c].link[a] = NULL
  /\ \A k \in t.used :
       /\ u.node[k].info = t.node[k].info /\ u.node[k].lock = t.node[k].lock
       /\ u.node[k].status = t.node[k].status
       /\ u.node[k].link = t.node[k].link

LEMMA TopAbove ==
  ASSUME NEW t \in Table, Linked(t), NEW q \in t.used, NEW c \in Key, c # q, Covers(c, q),
         c \notin t.used, \A k \in t.used : Covers(c, k) <=> Covers(q, k)
  PROVE  Topped(t, q, c, FromTop([SetLink(Fresh(t, c), c, q) EXCEPT !.top = c]))
<1> DEFINE b == Bit(q, Len(c))
           v == Fresh(t, c)
           w == SetLink(v, c, q)
           x == [w EXCEPT !.top = c]
           u == FromTop(x)
           Kept == {k \in t.used : Covers(q, k)}
<1>1. t.used \subseteq Key /\ q \in Key /\ c # NULL /\ q # NULL  BY KeyBits DEF Table
<1>2. b \in {0, 1} /\ Len(c) < Len(q)
  <2>1. c \in Above(q)  BY <1>1 DEF Above
  <2> QED  BY <1>1, <2>1, AboveFacts
<1>3. /\ v \in Table /\ v.failed = t.failed
      /\ v.used = t.used \cup {c} /\ v.node[c] = Blank
      /\ \A k \in Key : k # c => v.node[k] = t.node[k]
  BY FreshFields
<1> HIDE DEF v
<1>4. /\ w \in Table /\ w.failed = v.failed /\ w.used = v.used
      /\ \A k \in Key \ {c, q} : w.node[k] = v.node[k]
      /\ w.node[c].link[b] = q
      /\ \A a \in {0, 1} : a # b => w.node[c].link[a] = v.node[c].link[a]
      /\ w.node[c].parent = v.node[c].parent /\ w.node[c].info = v.node[c].info
      /\ w.node[c].lock = v.node[c].lock
      /\ w.node[c].status = v.node[c].status
      /\ w.node[q].parent = c /\ w.node[q].link = v.node[q].link
      /\ w.node[q].info = v.node[q].info /\ w.node[q].lock = v.node[q].lock
      /\ w.node[q].status = v.node[q].status
  <2>1. v \in Table /\ c \in Key /\ q \in Key /\ c # q /\ Bit(q, Len(c)) \in {0, 1}
    BY <1>1, <1>2, <1>3
  <2> QED  BY ONLY <2>1, SetLinkFields
<1> HIDE DEF w
<1>5. /\ x \in Table /\ x.top = c /\ x.failed = w.failed /\ x.used = w.used /\ x.node = w.node
  <2>1. c \in Pointer  BY DEF Pointer
  <2> QED  BY <2>1, <1>4 DEF Table
<1> HIDE DEF x
<1>6. /\ u \in Table /\ u.top = x.top /\ u.failed = x.failed /\ u.node = x.node
      /\ u.used = {k \in x.used : Covers(x.top, k)}
  BY <1>5 DEF FromTop, Table
<1> HIDE DEF u
<1>7. Covers(c, c) /\ Covers(q, q)  BY <1>1, CoversOrder
<1>8. u.used = {c} \cup Kept
  <2>1. u.used = {k \in t.used \cup {c} : Covers(c, k)}  BY <1>3, <1>4, <1>5, <1>6
  <2> QED  BY <2>1, <1>7
<1>9. /\ u.top = c /\ u.failed = t.failed
      /\ u.node[c].info = NULL /\ u.node[c].lock = 0 /\ u.node[c].parent = NULL
      /\ u.node[c].link[b] = q /\ \A a \in {0, 1} : a # b => u.node[c].link[a] = NULL
      /\ u.node[q].parent = c
  BY <1>3, <1>4, <1>5, <1>6, BlankNode
<1>10. ASSUME NEW k \in t.used
       PROVE  /\ k \in Key /\ k # c /\ u.node[k].info = t.node[k].info /\ u.node[k].lock = t.node[k].lock
                                    /\ u.node[k].status = t.node[k].status
              /\ u.node[k].link = t.node[k].link
              /\ k # q => u.node[k].parent = t.node[k].parent
  <2>1. k \in Key /\ k # c  BY <1>1
  <2>2. v.node[k] = t.node[k]  BY <2>1, <1>3
  <2>3. u.node[k] = w.node[k]  BY <1>5, <1>6
  <2>4. CASE k = q  BY <2>1, <2>2, <2>3, <2>4, <1>4
  <2>5. CASE k # q
    <3>1. w.node[k] = v.node[k]  BY <2>1, <2>5, <1>4
    <3> QED  BY <3>1, <2>1, <2>2, <2>3
  <2> QED  BY <2>4, <2>5
<1>11. Linked(u)
  <2>1. ASSUME NEW k \in Kept, k # q
        PROVE  LET m == t.node[k].parent
               IN  /\ m \in Kept /\ Len(m) < Len(k) /\ Covers(m, k)
                   /\ t.node[m].link[Bit(k, Len(m))] = k
    <3> DEFINE m == t.node[k].parent
    <3>1. k \in t.used /\ k \in Key /\ Covers(q, k)  BY <1>1
    <3>2. k # t.top
      <4>1. Covers(t.top, q) /\ t.top \in Key  BY TopCovers
      <4>2. Len(t.top) <= Len(q)  BY <4>1, <1>1, CoversOrder
      <4> QED  BY <4>2, <3>1, <2>1, <1>1, CoversOrder
    <3>3. /\ m \in t.used /\ m \in Key /\ Len(m) < Len(k) /\ Covers(m, k)
          /\ t.node[m].link[Bit(k, Len(m))] = k
      BY <3>1, <3>2, ParentFacts
    <3> HIDE DEF m
    <3>4. Len(m) \in Nat /\ Len(q) \in Nat  BY <3>3, <1>1, KeyBits
    <3>5. CASE Len(q) <= Len(m)
      <4>1. Covers(q, m)  BY <3>1, <3>3, <3>5, <1>1, CoversOrder
      <4> QED  BY <4>1, <3>3 DEF m
    <3>6. CASE Len(m) < Len(q)
      <4>1. Covers(m, q) /\ m # q  BY <3>1, <3>3, <3>4, <3>6, <1>1, CoversOrder
      <4>2. Covers(t.node[m].link[Bit(q, Len(m))], q)  BY <4>1, <3>3, Subtree
      <4>3. Bit(k, Len(m)) = Bit(q, Len(m))  BY <3>1, <3>4, <3>6, <1>1, BitOfKey
      <4>4. Covers(k, q)  BY <4>2, <4>3, <3>3
      <4>5. Len(q) <= Len(k)  BY <3>1, <1>1, CoversOrder
      <4> QED  BY <4>4, <4>5, <3>1, <2>1, <1>1, CoversOrder
    <3> QED  BY <3>4, <3>5, <3>6
  <2>2. ASSUME NEW k \in u.used \ {u.top} PROVE Hangs(u, u.node[k].parent, k)
    <3>1. k \in Kept  BY <1>8, <1>9
    <3>2. CASE k = q
      BY <3>2, <1>1, <1>2, <1>8, <1>9 DEF Hangs
    <3>3. CASE k # q
      <4> DEFINE m == t.node[k].parent
      <4>1. /\ m \in Kept /\ Len(m) < Len(k) /\ Covers(m, k)
            /\ t.node[m].link[Bit(k, Len(m))] = k
        BY <3>1, <3>3, <2>1
      <4>2. u.node[k].parent = m  BY <3>1, <3>3, <1>10
      <4> HIDE DEF m
      <4>3. u.node[m].link = t.node[m].link  BY <4>1, <1>10
      <4> QED  BY <4>1, <4>2, <4>3, <1>8 DEF Hangs
    <3> QED  BY <3>2, <3>3
  <2>3. ASSUME NEW k \in u.used, NEW a \in {0, 1}, u.node[k].link[a] # NULL
        PROVE  LET d == u.node[k].link[a]
               IN  d \in u.used /\ u.node[d].parent = k /\ Bit(d, Len(k)) = a
    <3>1. CASE k = c
      <4>1. a = b /\ u.node[k].link[a] = q  BY <2>3, <3>1, <1>9
      <4>2. q \in u.used  BY <1>7, <1>8
      <4> QED  BY <4>1, <4>2, <3>1, <1>9
    <3>2. CASE k # c
      <4> DEFINE d == t.node[k].link[a]
      <4>1. k \in t.used /\ Covers(q, k) /\ k \in Key  BY <3>2, <1>1, <1>8
      <4>2. u.node[k].link[a] = d /\ d # NULL  BY <4>1, <2>3, <1>10
      <4>3. /\ d \in t.used /\ d \in Key /\ t.node[d].parent = k /\ Bit(d, Len(k)) = a
            /\ Covers(k, d) /\ Len(k) < Len(d)
        BY <4>1, <4>2, ChildFacts
      <4> HIDE DEF d
      <4>4. Covers(q, d)  BY <4>1, <4>3, <1>1, CoversOrder
      <4>5. d # q
        <5>1. Len(q) <= Len(k) /\ Len(k) \in Nat /\ Len(q) \in Nat  BY <4>1, <1>1, CoversOrder, KeyBits
        <5> QED  BY <5>1, <4>3
      <4>6. u.node[d].parent = k  BY <4>3, <4>5, <1>10
      <4> QED  BY <4>2, <4>3, <4>4, <4>6, <1>8
    <3> QED  BY <3>1, <3>2
  <2>4. u.top = c /\ c \in u.used /\ u.node[u.top].parent = NULL  BY <1>8, <1>9
  <2> QED  BY <1>1, <2>2, <2>3, <2>4 DEF Linked
<1>12. u = FromTop([SetLink(Fresh(t, c), c, q) EXCEPT !.top = c])  BY DEF u, x, w, v
<1>13. Topped(t, q, c, u)  BY <1>2, <1>6, <1>8, <1>9, <1>10, <1>11 DEF Topped
<1> QED  BY <1>12, <1>13

-----------------------------------------------------------------------------
(* The tables route_node_get may make of t: there is a node for p, which   *)
(* may have no route and be a stub, and every other node is one of t or a  *)
(* branching point.                                                        *)
Got(t, u, p) ==
  /\ u \in Table /\ Linked(u) /\ u.failed = t.failed /\ p \in u.used
  /\ IsFiniteSet(t.used) => IsFiniteSet(u.used)
  /\ \A k \in u.used \ {p} : NotStub(u.node[k])
  /\ \A k \in u.used :
       \/ /\ k \in t.used
          /\ u.node[k].info = t.node[k].info /\ u.node[k].lock = t.node[k].lock
          /\ u.node[k].status = t.node[k].status
       \/ k \notin t.used /\ u.node[k].info = NULL /\ u.node[k].lock = 0

(* A node keeps two children if it keeps its links. *)
LEMMA NotStubKept ==
  ASSUME NEW m, NEW n, NotStub(m), n.info = m.info,
         \A b \in {0, 1} : m.link[b] # NULL => n.link[b] = m.link[b]
  PROVE  NotStub(n)
BY DEF NotStub

LEMMA SplitCorrect ==
  ASSUME NEW t \in Table, WellFormed(t), NEW p \in Key, NEW q \in t.used, ~ Covers(q, p),
         Common(q, p) \notin t.used, \A k \in t.used : Covers(Common(q, p), k) <=> Covers(q, k)
  PROVE  /\ Got(t, Split(t, q, p), p)
         /\ \A k \in t.used : Covers(q, k) => k \in Split(t, q, p).used
         /\ Split(t, q, p).used \subseteq t.used \cup {p, Common(q, p)}
<1> DEFINE c == Common(q, p)
           u == FromTop([SetLink(Fresh(t, c), c, q) EXCEPT !.top = c])
           v == Hang(u, c, p)
<1>1. t.used \subseteq Key /\ q \in Key /\ Linked(t)  BY DEF Table, WellFormed
<1>2. /\ c \in Key /\ Covers(c, q) /\ Covers(c, p)
      /\ Len(c) < Len(q) /\ Len(c) < Len(p) => Bit(q, Len(c)) # Bit(p, Len(c))
  BY <1>1, CommonCorrect
<1>3. c # q /\ c \notin t.used /\ \A k \in t.used : Covers(c, k) <=> Covers(q, k)
  BY <1>2
<1> HIDE DEF c
<1>4. /\ u \in Table /\ Linked(u) /\ u.failed = t.failed
      /\ u.used = {c} \cup {k \in t.used : Covers(q, k)}
      /\ u.node[c].info = NULL /\ u.node[c].lock = 0
      /\ u.node[c].link[Bit(q, Len(c))] = q /\ Bit(q, Len(c)) \in {0, 1}
      /\ \A a \in {0, 1} : a # Bit(q, Len(c)) => u.node[c].link[a] = NULL
      /\ \A k \in t.used :
           /\ u.node[k].info = t.node[k].info /\ u.node[k].lock = t.node[k].lock
           /\ u.node[k].status = t.node[k].status
           /\ u.node[k].link = t.node[k].link
  <2>1. /\ t \in Table /\ Linked(t) /\ q \in t.used /\ c \in Key /\ c # q /\ Covers(c, q)
        /\ c \notin t.used /\ \A k \in t.used : Covers(c, k) <=> Covers(q, k)
    BY <1>1, <1>2, <1>3
  <2>2. Topped(t, q, c, u)  BY ONLY <2>1, TopAbove
  <2> HIDE DEF u
  <2> QED  BY <2>2 DEF Topped
<1>5. Split(t, q, p) = IF c = p THEN u ELSE v  BY DEF Split, c
<1> HIDE DEF u
<1>6. \A k \in t.used : NotStub(t.node[k])  BY DEF WellFormed
<1>7. ASSUME NEW k \in t.used PROVE NotStub(u.node[k])
  BY <1>4, <1>6, <1>7 DEF NotStub
<1>10. IsFiniteSet(t.used) => IsFiniteSet(u.used) /\ IsFiniteSet(u.used \cup {p})
  <2> SUFFICES ASSUME IsFiniteSet(t.used)
               PROVE  IsFiniteSet(u.used) /\ IsFiniteSet(u.used \cup {p})
    OBVIOUS
  <2>1. u.used \subseteq t.used \cup {c}  BY <1>4
  <2>2. IsFiniteSet(t.used \cup {c})  BY FS_AddElement
  <2>3. IsFiniteSet(u.used)  BY <2>1, <2>2, FS_Subset
  <2> QED  BY <2>3, FS_AddElement
<1>8. CASE c = p
  <2>1. Got(t, u, p)  BY <1>3, <1>4, <1>7, <1>8, <1>10 DEF Got
  <2>2. /\ \A k \in t.used : Covers(q, k) => k \in u.used
        /\ u.used \subseteq t.used \cup {c}
    BY <1>4
  <2> QED  BY <2>1, <2>2, <1>5, <1>8
<1>9. CASE c # p
  <2>1. q # NULL  BY <1>1, KeyBits
  <2>2. Len(c) < Len(q) /\ Len(c) < Len(p) /\ Bit(p, Len(c)) \in {0, 1}
    <3>1. c \in Above(p) /\ c \in Above(q)  BY <1>2, <1>3, <1>9 DEF Above
    <3> QED  BY <3>1, <1>1, AboveFacts
  <2>3. u.node[c].link[Bit(p, Len(c))] = NULL  BY <2>2, <1>2, <1>4
  <2>4. p \notin u.used  BY <1>4, <1>9
  <2>5. c \in u.used  BY <1>4
  <2>6. /\ v \in Table /\ Linked(v) /\ v.used = u.used \cup {p} /\ v.failed = u.failed
        /\ v.node[p].info = NULL /\ v.node[p].lock = 0
        /\ v.node[c].link[Bit(p, Len(c))] = p
        /\ \A k \in u.used :
             /\ v.node[k].info = u.node[k].info /\ v.node[k].lock = u.node[k].lock
             /\ v.node[k].status = u.node[k].status
             /\ \A b \in {0, 1} : u.node[k].link[b] # NULL => v.node[k].link[b] = u.node[k].link[b]
    BY <2>3, <2>4, <2>5, <1>2, <1>4, <1>9, HangUnder
  <2> HIDE DEF v
  <2>7. ASSUME NEW k \in v.used, k # p PROVE NotStub(v.node[k])
    <3>1. k \in u.used  BY <2>6, <2>7
    <3>2. CASE k = c
      <4>1. v.node[c].link[Bit(q, Len(c))] = q  BY <2>1, <2>5, <2>6, <1>4
      <4>2. v.node[c].link[Bit(p, Len(c))] = p /\ p # NULL  BY <2>6, KeyBits
      <4>3. {Bit(p, Len(c)), Bit(q, Len(c))} = {0, 1}  BY <2>2, <1>2, <1>4
      <4> QED  BY <2>1, <3>2, <4>1, <4>2, <4>3 DEF NotStub
    <3>3. CASE k # c
      <4>1. k \in t.used  BY <3>1, <3>3, <1>4
      <4>2. NotStub(u.node[k])  BY <4>1, <1>7
      <4> QED  BY <3>1, <4>2, <2>6, NotStubKept
    <3> QED  BY <3>2, <3>3
  <2>8. p \notin t.used
    <3>1. p \in t.used => (Covers(c, p) <=> Covers(q, p))  BY <1>3
    <3> QED  BY <3>1, <1>2
  <2>9. ASSUME NEW k \in v.used
        PROVE  \/ /\ k \in t.used
                  /\ v.node[k].info = t.node[k].info /\ v.node[k].lock = t.node[k].lock
                  /\ v.node[k].status = t.node[k].status
               \/ k \notin t.used /\ v.node[k].info = NULL /\ v.node[k].lock = 0
    <3>1. CASE k = p  BY <3>1, <2>6, <2>8
    <3>2. CASE k = c  BY <3>2, <2>5, <2>6, <1>3, <1>4
    <3>3. CASE k # p /\ k # c
      <4>1. k \in u.used /\ k \in t.used  BY <3>3, <2>6, <1>4
      <4> QED  BY <4>1, <2>6, <1>4
    <3> QED  BY <3>1, <3>2, <3>3
  <2>10. IsFiniteSet(t.used) => IsFiniteSet(v.used)  BY <2>6, <1>10
  <2>11. Got(t, v, p)  BY <2>6, <2>7, <2>9, <2>10, <1>4 DEF Got
  <2>12. /\ \A k \in t.used : Covers(q, k) => k \in v.used
         /\ v.used \subseteq t.used \cup {p, c}
    BY <2>6, <1>4
  <2> QED  BY <2>11, <2>12, <1>5, <1>9 DEF c
<1> QED  BY <1>8, <1>9

(* The walk to p does not end in a split below the top. *)
SplitsOnTop(t, p) == Descend(t, p).node \in {NULL, p, t.top}

(* New are the node of p and the branching points with it.                 *)
Grown(t, u, p) ==
  \A k \in u.used : \/ k \in t.used \cup {p}
                    \/ \E q \in t.used : ~ Covers(q, p) /\ k = Common(q, p)

(* route_node_get gives p a node and keeps the table well formed; no node  *)
(* is lost unless it splits below the top.                                 *)
LEMMA GetNodeCorrect ==
  ASSUME NEW t \in Table, WellFormed(t), NEW p \in Key
  PROVE  /\ Got(t, GetNode(t, p), p)
         /\ SplitsOnTop(t, p) => t.used \subseteq GetNode(t, p).used
         /\ Grown(t, GetNode(t, p), p)
<1> DEFINE w == Descend(t, p)
<1>1. t.used \subseteq Key /\ Linked(t) /\ \A k \in t.used : NotStub(t.node[k])
  BY DEF Table, WellFormed
<1>2. \/ w.match = NULL /\ w.node = t.top /\ Stops(t.top, p)
      \/ Stopped(t, p, w)
  BY <1>1, DescendCorrect
<1>3. GetNode(t, p) = IF w.node = p THEN t
                      ELSE IF w.node = NULL THEN Hang(t, w.match, p)
                      ELSE Split(t, w.node, p)
  BY DEF GetNode
<1> SUFFICES /\ Got(t, GetNode(t, p), p)
             /\ w.node \in {NULL, p, t.top} => t.used \subseteq GetNode(t, p).used
             /\ Grown(t, GetNode(t, p), p)
  BY DEF SplitsOnTop
<1> HIDE DEF w
<1>4. ASSUME Stopped(t, p, w)
      PROVE  /\ w.match \in t.used /\ w.match \in Key /\ w.match # p /\ Covers(w.match, p)
             /\ Len(w.match) < Len(p) /\ Bit(p, Len(w.match)) \in {0, 1}
             /\ w.node = t.node[w.match].link[Bit(p, Len(w.match))]
             /\ w.node # NULL => w.node \in t.used /\ Covers(w.match, w.node)
                                 /\ Len(w.match) < Len(w.node)
                                 /\ Bit(w.node, Len(w.match)) = Bit(p, Len(w.match))
  <2>1. /\ w.match \in t.used /\ w.match \in Above(p)
        /\ w.node = t.node[w.match].link[Bit(p, Len(w.match))]
    BY <1>4 DEF Stopped
  <2>2. /\ w.match \in Key /\ w.match # p /\ Covers(w.match, p) /\ Len(w.match) < Len(p)
        /\ Bit(p, Len(w.match)) \in {0, 1}
    BY <2>1, AboveFacts
  <2>3. w.node # NULL => w.node \in t.used /\ Covers(w.match, w.node)
                         /\ Len(w.match) < Len(w.node)
                         /\ Bit(w.node, Len(w.match)) = Bit(p, Len(w.match))
    BY <2>1, <2>2, <1>1, ChildFacts
  <2> QED  BY <2>1, <2>2, <2>3
<1>5. CASE w.node = p
  <2>1. p \in t.used
    <3>1. p # NULL  BY KeyBits
    <3>2. CASE Stopped(t, p, w)  BY <3>1, <3>2, <1>4, <1>5
    <3>3. CASE w.node = t.top  BY <3>1, <3>3, <1>1, <1>5 DEF Linked
    <3> QED  BY <3>2, <3>3, <1>2
  <2> QED  BY <2>1, <1>1, <1>3, <1>5 DEF Got, Grown
<1>6. CASE w.node = NULL
  <2>1. GetNode(t, p) = Hang(t, w.match, p)  BY <1>3, <1>6, KeyBits
  <2>2. CASE Stopped(t, p, w)
    <3> DEFINE m == w.match
               u == Hang(t, m, p)
    <3>1. /\ m \in t.used /\ m \in Key /\ m # p /\ Covers(m, p)
          /\ t.node[m].link[Bit(p, Len(m))] = NULL
      BY <2>2, <1>4, <1>6
    <3> HIDE DEF m
    <3>2. p \notin t.used  BY <3>1, <1>1, Subtree
    <3>3. /\ u \in Table /\ Linked(u) /\ u.used = t.used \cup {p} /\ u.failed = t.failed
          /\ u.node[p].info = NULL /\ u.node[p].lock = 0
          /\ \A k \in t.used :
               /\ u.node[k].info = t.node[k].info /\ u.node[k].lock = t.node[k].lock
               /\ u.node[k].status = t.node[k].status
               /\ \A b \in {0, 1} : t.node[k].link[b] # NULL => u.node[k].link[b] = t.node[k].link[b]
      BY <3>1, <3>2, <1>1, HangUnder
    <3> HIDE DEF u
    <3>4. ASSUME NEW k \in t.used PROVE NotStub(u.node[k])
      <4>1. NotStub(t.node[k])  BY <1>1
      <4> QED  BY <4>1, <3>3, NotStubKept
    <3>5. Got(t, u, p)  BY <3>2, <3>3, <3>4, FS_AddElement DEF Got
    <3>6. Grown(t, u, p)  BY <3>3 DEF Grown
    <3> QED  BY <3>3, <3>5, <3>6, <2>1 DEF u, m
  <2>3. CASE w.match = NULL /\ w.node = t.top
    <3> DEFINE u == Hang(t, NULL, p)
    <3>1. t.used = {}  BY <2>3, <1>1, <1>6 DEF Linked
    <3>2. /\ u \in Table /\ Linked(u) /\ u.used = {p} /\ u.failed = t.failed
          /\ u.node[p].info = NULL /\ u.node[p].lock = 0
      BY <3>1, HangFirst
    <3> HIDE DEF u
    <3>3. Got(t, u, p)  BY <3>1, <3>2, FS_Singleton DEF Got
    <3>4. Grown(t, u, p)  BY <3>2 DEF Grown
    <3> QED  BY <3>1, <3>3, <3>4, <2>1, <2>3 DEF u
  <2> QED  BY <2>2, <2>3, <1>2
<1>7. CASE w.node # p /\ w.node # NULL
  <2> DEFINE q == w.node
             c == Common(q, p)
  <2>1. q \in t.used /\ q \in Key
    <3>1. CASE Stopped(t, p, w)  BY <3>1, <1>1, <1>4, <1>7
    <3>2. CASE q = t.top  BY <3>2, <1>1, <1>7 DEF Linked
    <3> QED  BY <3>1, <3>2, <1>2
  <2>2. ~ Covers(q, p)  BY <1>2, <1>7 DEF Stops, Stopped
  <2>3. GetNode(t, p) = Split(t, q, p)  BY <1>3, <1>7
  <2>4. /\ c \in Key /\ Covers(c, q) /\ Covers(c, p)
        /\ \A k \in Key : Covers(k, q) /\ Covers(k, p) => Covers(k, c)
        /\ Len(c) < Len(q) /\ Len(c) < Len(p) => Bit(q, Len(c)) # Bit(p, Len(c))
    BY <2>1, CommonCorrect
  <2> HIDE DEF c
  <2>5. \A k \in t.used : Covers(q, k) => Covers(c, k)  BY <2>1, <2>4, <1>1, CoversOrder
  <2>6. ASSUME NEW k \in t.used, Covers(c, k) PROVE Covers(q, k)
    <3>1. CASE q = t.top  BY <3>1, <1>1, TopCovers
    <3>2. CASE Stopped(t, p, w)
      <4> DEFINE m == w.match
      <4>1. /\ m \in t.used /\ m \in Key /\ m # p /\ Covers(m, p) /\ Len(m) < Len(p)
            /\ q = t.node[m].link[Bit(p, Len(m))] /\ Covers(m, q) /\ Len(m) < Len(q)
            /\ Bit(q, Len(m)) = Bit(p, Len(m))
        BY <3>2, <1>4, <1>7
      <4> HIDE DEF m, q
      <4>2. Covers(m, c) /\ m # c
        <5>1. Covers(m, c)  BY <4>1, <2>4
        <5>2. m = c => Bit(q, Len(m)) # Bit(p, Len(m))  BY <4>1, <2>4
        <5> QED  BY <4>1, <5>1, <5>2
      <4>3. Len(m) < Len(c) /\ Len(m) \in Nat
        <5>1. m \in Above(c)  BY <4>1, <4>2 DEF Above
        <5> QED  BY <5>1, <2>4, <4>1, AboveFacts, KeyBits
      <4>4. Covers(m, k) /\ m # k
        <5>1. k \in Key  BY <1>1
        <5>2. Covers(m, k)  BY <5>1, <4>1, <4>2, <2>4, <2>6, CoversOrder
        <5>3. Len(c) <= Len(k)  BY <5>1, <2>4, <2>6, CoversOrder
        <5>4. Len(c) \in Nat /\ Len(k) \in Nat  BY <5>1, <2>4, KeyBits
        <5> QED  BY <5>2, <5>3, <5>4, <4>3
      <4>5. Bit(k, Len(m)) = Bit(p, Len(m))
        <5>1. Bit(k, Len(m)) = Bit(c, Len(m))  BY <4>3, <2>4, <2>6, <1>1, BitOfKey
        <5>2. Bit(p, Len(m)) = Bit(c, Len(m))  BY <4>3, <2>4, BitOfKey
        <5> QED  BY <5>1, <5>2
      <4>6. Covers(t.node[m].link[Bit(k, Len(m))], k)  BY <4>1, <4>4, <1>1, Subtree
      <4> QED  BY <4>1, <4>5, <4>6
    <3> QED  BY <3>1, <3>2, <1>2
  <2>7. c \notin t.used
    <3> SUFFICES ASSUME c \in t.used PROVE FALSE  OBVIOUS
    <3>1. Covers(c, c)  BY <2>4, CoversOrder
    <3>2. Covers(q, c)  BY <3>1, <2>6
    <3>3. Len(q) <= Len(c)  BY <3>2, <2>1, <2>4, CoversOrder
    <3>4. c = q  BY <3>3, <2>1, <2>4, CoversOrder
    <3> QED  BY <3>4, <2>2, <2>4
  <2>8. \A k \in t.used : Covers(Common(q, p), k) <=> Covers(q, k)  BY <2>5, <2>6 DEF c
  <2>9. Common(q, p) \notin t.used  BY <2>7 DEF c
  <2>11. q \in {NULL, p, t.top} => \A k \in t.used : Covers(q, k)  BY <1>1, <1>7, TopCovers
  <2> HIDE DEF q
  <2>10. /\ Got(t, Split(t, q, p), p)
         /\ \A k \in t.used : Covers(q, k) => k \in Split(t, q, p).used
         /\ Split(t, q, p).used \subseteq t.used \cup {p, Common(q, p)}
    BY <2>1, <2>2, <2>8, <2>9, SplitCorrect
  <2>12. Grown(t, Split(t, q, p), p)  BY <2>1, <2>2, <2>10 DEF Grown
  <2> QED  BY <2>3, <2>10, <2>11, <2>12 DEF q
<1> QED  BY <1>5, <1>6, <1>7

-----------------------------------------------------------------------------
(* The order in which a walk comes to the nodes: a node before what lies   *)
(* below it, and the side of bit 0 before that of bit 1.                   *)
Left(a, b) ==
  \E c \in Key : /\ Covers(c, a) /\ Covers(c, b) /\ Len(c) < Len(a) /\ Len(c) < Len(b)
                 /\ Bit(a, Len(c)) = 0 /\ Bit(b, Len(c)) = 1

Before(a, b) == (Covers(a, b) /\ a # b) \/ Left(a, b)

LEMMA LeftFacts ==
  /\ \A a, b, m \in Key : Left(a, b) /\ Covers(b, m) => Left(a, m)
  /\ \A a, b, m \in Key : Left(a, b) /\ Covers(a, m) => Left(m, b)
  /\ \A a, n \in Key : Covers(n, a) => ~ Left(a, n) /\ ~ Left(n, a)
<1>1. ASSUME NEW a \in Key, NEW b \in Key, NEW m \in Key, Left(a, b)
      PROVE  /\ Covers(b, m) => Left(a, m)
             /\ Covers(a, m) => Left(m, b)
  <2>1. PICK c \in Key : /\ Covers(c, a) /\ Covers(c, b) /\ Len(c) < Len(a) /\ Len(c) < Len(b)
                         /\ Bit(a, Len(c)) = 0 /\ Bit(b, Len(c)) = 1
    BY <1>1 DEF Left
  <2>2. ASSUME NEW k \in Key, Covers(c, k), Len(c) < Len(k), Covers(k, m)
        PROVE  Covers(c, m) /\ Len(c) < Len(m) /\ Bit(m, Len(c)) = Bit(k, Len(c))
    <3>1. Covers(c, m) /\ Len(k) <= Len(m)  BY <2>2, CoversOrder
    <3>2. Len(c) \in Nat /\ Len(k) \in Nat /\ Len(m) \in Nat  BY KeyBits
    <3> QED  BY <3>1, <3>2, <2>2, BitOfKey
  <2>3. Covers(b, m) => Left(a, m)  BY <2>1, <2>2 DEF Left
  <2>4. Covers(a, m) => Left(m, b)  BY <2>1, <2>2 DEF Left
  <2> QED  BY <2>3, <2>4
<1>2. ASSUME NEW a \in Key, NEW n \in Key, Covers(n, a)
      PROVE  ~ Left(a, n) /\ ~ Left(n, a)
  <2>1. ASSUME NEW c \in Key, Len(c) < Len(n) PROVE Bit(a, Len(c)) = Bit(n, Len(c))
    <3>1. Len(c) \in Nat  BY KeyBits
    <3> QED  BY <3>1, <1>2, <2>1, BitOfKey
  <2> QED  BY <2>1 DEF Left
<1> QED  BY <1>1, <1>2

(* Which nodes the visits go to: what lies above a child lies above its    *)
(* parent or is its parent.                                                *)
LEMMA AboveChild ==
  ASSUME NEW t \in Table, Linked(t), NEW x \in t.used, NEW b \in {0, 1}, t.node[x].link[b] # NULL,
         NEW k \in t.used, Covers(k, t.node[x].link[b]), k # t.node[x].link[b]
  PROVE  Covers(k, x)
<1> DEFINE c == t.node[x].link[b]
<1>1. c \in t.used /\ c \in Key /\ Len(x) < Len(c) /\ Covers(x, c) /\ Bit(c, Len(x)) = b
  BY ChildFacts
<1> HIDE DEF c
<1>2. x \in Key /\ k \in Key /\ Len(x) \in Nat /\ Len(k) \in Nat  BY KeyBits DEF Table
<1>3. Covers(k, c) /\ k # c  BY DEF c
<1>4. CASE Len(k) <= Len(x)
  BY <1>1, <1>2, <1>3, <1>4, CoversOrder
<1>5. CASE Len(x) < Len(k)
  <2>1. Covers(x, k) /\ x # k  BY <1>1, <1>2, <1>3, <1>5, CoversOrder
  <2>2. Bit(c, Len(x)) = Bit(k, Len(x))  BY <1>1, <1>2, <1>3, <1>5, BitOfKey
  <2>3. Covers(t.node[x].link[Bit(k, Len(x))], k)  BY <2>1, Subtree
  <2>4. Covers(c, k)  BY <2>2, <2>3, <1>1 DEF c
  <2>5. Len(k) <= Len(c)  BY <1>1, <1>2, <1>3, CoversOrder
  <2> QED  BY <2>4, <2>5, <1>1, <1>2, <1>3, CoversOrder
<1> QED  BY <1>2, <1>4, <1>5

(* Where route_next may go from below n: to a node in use, and all that    *)
(* lies above that node is n or lies above n.                              *)
Onward(t, n, k) ==
  k # NULL => /\ k \in t.used
              /\ \A a \in t.used : Covers(a, k) /\ a # k => Covers(a, n)

(* The way up leads to the right as well. *)
Rises(t, n, k) == Onward(t, n, k) /\ (k # NULL => Left(n, k))

LEMMA ClimbCorrect ==
  ASSUME NEW t \in Table, Linked(t), NEW n \in t.used
  PROVE  Rises(t, n, Climb(t, n))
<1> DEFINE P == {i \in Nat : \A k \in t.used : Len(k) <= i => Rises(t, k, Climb(t, k))}
<1>1. t.used \subseteq Key /\ \A k \in t.used : k \in Key /\ Len(k) \in Nat /\ k # NULL
  BY KeyBits DEF Table
<1>2. ASSUME NEW i \in Nat, \A k \in t.used : Len(k) < i => Rises(t, k, Climb(t, k))
      PROVE  \A k \in t.used : Len(k) <= i => Rises(t, k, Climb(t, k))
  <2> SUFFICES ASSUME NEW k \in t.used, Len(k) <= i PROVE Rises(t, k, Climb(t, k))
    OBVIOUS
  <2> DEFINE m == t.node[k].parent
  <2>1. Climb(t, k) = IF m = NULL THEN NULL
                      ELSE IF t.node[m].link[0] = k /\ t.node[m].link[1] # NULL
                      THEN t.node[m].link[1]
                      ELSE Climb(t, m)
    BY <1>1, ClimbStep
  <2>2. CASE m = NULL
    BY <2>1, <2>2 DEF Onward, Rises
  <2>3. CASE m # NULL
    <3>1. k # t.top  BY <2>3, <1>1 DEF Linked
    <3>2. m \in t.used /\ Len(m) < Len(k) /\ Covers(m, k)  BY <3>1, ParentFacts
    <3> HIDE DEF m
    <3>3. CASE t.node[m].link[0] = k /\ t.node[m].link[1] # NULL
      <4> DEFINE c == t.node[m].link[1]
      <4>1. c \in t.used /\ Covers(m, c) /\ Len(m) < Len(c) /\ Bit(c, Len(m)) = 1
        BY <3>2, <3>3, ChildFacts
      <4>2. ASSUME NEW a \in t.used, Covers(a, c), a # c PROVE Covers(a, k)
        <5>1. Covers(a, m)  BY <3>2, <3>3, <4>2, AboveChild
        <5> QED  BY <5>1, <3>2, <1>1, CoversOrder
      <4>3. Climb(t, k) = c  BY <2>1, <2>3, <3>3
      <4>4. Bit(k, Len(m)) = 0
        <5>1. t.node[m].link[0] # NULL  BY <3>3, <1>1
        <5> QED  BY <5>1, <3>2, <3>3, ChildFacts
      <4> HIDE DEF c
      <4>5. Left(k, c)  BY <4>1, <4>4, <3>2, <1>1 DEF Left
      <4> QED  BY <4>1, <4>2, <4>3, <4>5 DEF Onward, Rises
    <3>4. CASE ~ (t.node[m].link[0] = k /\ t.node[m].link[1] # NULL)
      <4>1. Len(m) < i /\ Climb(t, k) = Climb(t, m)  BY <2>1, <2>3, <3>2, <3>4, <1>1
      <4>2. Rises(t, m, Climb(t, m))  BY <4>1, <3>2, <1>2
      <4>3. \A a \in t.used : Covers(a, m) => Covers(a, k)  BY <3>2, <1>1, CoversOrder
      <4> DEFINE c == Climb(t, m)
      <4>4. c # NULL => c \in Key /\ Left(m, c)  BY <4>2, <1>1 DEF Onward, Rises
      <4> HIDE DEF c
      <4>5. c # NULL => Left(k, c)  BY <4>4, <3>2, <1>1, LeftFacts
      <4> QED  BY <4>1, <4>2, <4>3, <4>5 DEF Onward, Rises, c
    <3> QED  BY <3>3, <3>4
  <2> QED  BY <2>2, <2>3
<1>3. 0 \in P
  <2>1. \A k \in t.used : Len(k) < 0 => Rises(t, k, Climb(t, k))  BY <1>1
  <2>2. 0 \in Nat  OBVIOUS
  <2>3. \A k \in t.used : Len(k) <= 0 => Rises(t, k, Climb(t, k))  BY <1>2, <2>1, <2>2
  <2> QED  BY <2>2, <2>3
<1>4. ASSUME NEW i \in Nat, i \in P PROVE i + 1 \in P
  <2>1. \A k \in t.used : Len(k) < i + 1 => Rises(t, k, Climb(t, k))  BY <1>1, <1>4
  <2>2. i + 1 \in Nat  OBVIOUS
  <2>3. \A k \in t.used : Len(k) <= i + 1 => Rises(t, k, Climb(t, k))  BY <1>2, <2>1, <2>2
  <2> QED  BY <2>2, <2>3
<1>5. \A i \in Nat : i \in P
  <2> HIDE DEF P
  <2> QED  BY <1>3, <1>4, Induction
<1>6. Len(n) \in Nat /\ Len(n) <= Len(n)  BY <1>1
<1> QED  BY <1>5, <1>6

LEMMA NextNodeCorrect ==
  ASSUME NEW t \in Table, Linked(t), NEW n \in t.used
  PROVE  Onward(t, n, NextNode(t, n))
<1> DEFINE c == Child(t.node[n])
<1>1. CASE c = NULL
  <2>1. NextNode(t, n) = Climb(t, n)  BY <1>1 DEF NextNode
  <2> QED  BY <2>1, ClimbCorrect DEF Rises
<1>2. CASE c # NULL
  <2>1. NextNode(t, n) = c  BY <1>2 DEF NextNode
  <2>2. PICK b \in {0, 1} : c = t.node[n].link[b]  BY DEF Child
  <2> HIDE DEF c
  <2>3. c \in t.used  BY <1>2, <2>2, ChildFacts
  <2>4. \A a \in t.used : Covers(a, c) /\ a # c => Covers(a, n)  BY <1>2, <2>2, AboveChild
  <2> QED  BY <2>1, <2>3, <2>4 DEF Onward
<1> QED  BY <1>1, <1>2

-----------------------------------------------------------------------------
(* What taking a node out of the tree does to the fields of a table. *)
SetParent(t, k, q) == [t EXCEPT !.node[k].parent = q]
SetSide(t, q, b, c) == [t EXCEPT !.node[q].link[b] = c]

LEMMA SetParentFields ==
  ASSUME NEW t \in Table, NEW k \in Key, NEW q \in Pointer
  PROVE  LET u == SetParent(t, k, q)
         IN  /\ u \in Table /\ u.top = t.top /\ u.failed = t.failed /\ u.used = t.used
             /\ \A l \in Key \ {k} : u.node[l] = t.node[l]
             /\ u.node[k].parent = q /\ u.node[k].link = t.node[k].link
             /\ u.node[k].info = t.node[k].info /\ u.node[k].lock = t.node[k].lock
             /\ u.node[k].status = t.node[k].status
<1> DEFINE u == SetParent(t, k, q)
           m == [t.node[k] EXCEPT !.parent = q]
<1>1. t.node \in [Key -> Node] /\ t.node[k] \in Node  BY DEF Table
<1>2. /\ m \in Node /\ m.parent = q /\ m.link = t.node[k].link
      /\ m.info = t.node[k].info /\ m.lock = t.node[k].lock
      /\ m.status = t.node[k].status
  BY <1>1 DEF Node
<1>3. /\ u.top = t.top /\ u.failed = t.failed /\ u.used = t.used
      /\ u.node = [t.node EXCEPT ![k] = m]
  BY DEF SetParent, Table
<1>4. u \in Table  BY <1>1 DEF SetParent, Table, Node
<1>5. u.node[k] = m /\ \A l \in Key \ {k} : u.node[l] = t.node[l]
  <2> HIDE DEF u, m
  <2> QED  BY <1>1, <1>3
<1> HIDE DEF u, m
<1>6. /\ u.node[k].parent = q /\ u.node[k].link = t.node[k].link
      /\ u.node[k].info = t.node[k].info /\ u.node[k].lock = t.node[k].lock
      /\ u.node[k].status = t.node[k].status
  BY <1>2, <1>5
<1> QED  BY <1>3, <1>4, <1>5, <1>6 DEF u

SideSet(t, q, b, c, u) ==
  /\ u \in Table /\ u.top = t.top /\ u.failed = t.failed /\ u.used = t.used
  /\ \A k \in Key \ {q} : u.node[k] = t.node[k]
  /\ u.node[q].link[b] = c
  /\ \A a \in {0, 1} : a # b => u.node[q].link[a] = t.node[q].link[a]
  /\ u.node[q].parent = t.node[q].parent
  /\ u.node[q].info = t.node[q].info /\ u.node[q].lock = t.node[q].lock
  /\ u.node[q].status = t.node[q].status

LEMMA SetSideFields ==
  ASSUME NEW t \in Table, NEW q \in Key, NEW b \in {0, 1}, NEW c \in Pointer
  PROVE  SideSet(t, q, b, c, SetSide(t, q, b, c))
<1> DEFINE u == SetSide(t, q, b, c)
           n == [t.node[q] EXCEPT !.link[b] = c]
<1>1. t.node \in [Key -> Node] /\ t.node[q] \in Node  BY DEF Table
<1>2. t.node[q].link \in [{0, 1} -> Pointer]  BY <1>1 DEF Node
<1>3. /\ n \in Node /\ n.parent = t.node[q].parent /\ n.info = t.node[q].info
      /\ n.lock = t.node[q].lock /\ n.status = t.node[q].status
      /\ n.link = [t.node[q].link EXCEPT ![b] = c]
  BY <1>1, <1>2 DEF Node
<1>4. n.link[b] = c /\ \A a \in {0, 1} : a # b => n.link[a] = t.node[q].link[a]
  <2> HIDE DEF n
  <2> QED  BY <1>2, <1>3
<1>5. /\ u.top = t.top /\ u.failed = t.failed /\ u.used = t.used
      /\ u.node = [t.node EXCEPT ![q] = n]
  BY DEF SetSide, Table
<1>6. u = [t EXCEPT !.node = [@ EXCEPT ![q] = n]]  BY DEF SetSide
<1> HIDE DEF n, u
<1>7. u \in Table  BY <1>3, <1>6 DEF Table
<1>8. u.node[q] = n /\ \A k \in Key \ {q} : u.node[k] = t.node[k]  BY <1>1, <1>5
<1>9. /\ u.node[q].link[b] = c /\ \A a \in {0, 1} : a # b => u.node[q].link[a] = t.node[q].link[a]
      /\ u.node[q].parent = t.node[q].parent
      /\ u.node[q].info = t.node[q].info /\ u.node[q].lock = t.node[q].lock
      /\ u.node[q].status = t.node[q].status
  BY <1>3, <1>4, <1>8
<1>10. SideSet(t, q, b, c, u)  BY <1>5, <1>7, <1>8, <1>9 DEF SideSet
<1> QED  BY <1>10 DEF u

Passed(t, n, c, u) ==
  LET q == t.node[n].parent
      side == IF t.node[q].link[0] = n THEN 0 ELSE 1
  IN  /\ u \in Table /\ u.failed = t.failed /\ u.used = t.used \ {n}
      /\ u.top = IF q = NULL THEN c ELSE t.top
      /\ \A k \in Key : /\ u.node[k].info = t.node[k].info /\ u.node[k].lock = t.node[k].lock
                        /\ u.node[k].status = t.node[k].status
                        /\ u.node[k].parent = IF k = c THEN q ELSE t.node[k].parent
                        /\ k # q => u.node[k].link = t.node[k].link
      /\ q # NULL => /\ u.node[q].link[side] = c
                     /\ \A a \in {0, 1} : a # side => u.node[q].link[a] = t.node[q].link[a]

LEMMA BypassFields ==
  ASSUME NEW t \in Table, NEW n \in Key, NEW c \in Pointer
  PROVE  Passed(t, n, c, Bypass(t, n, c))
<1> DEFINE q == t.node[n].parent
           side == IF t.node[q].link[0] = n THEN 0 ELSE 1
           up == IF c = NULL THEN t ELSE SetParent(t, c, q)
           down == IF q = NULL THEN [up EXCEPT !.top = c] ELSE SetSide(up, q, side, c)
           u == [down EXCEPT !.used = @ \ {n}]
<1>1. q \in Pointer  BY NodeTypes
<1>2. c # NULL => c \in Key  BY DEF Pointer
<1>3. q # NULL => q \in Key  BY <1>1 DEF Pointer
<1>4. /\ up \in Table /\ up.top = t.top /\ up.failed = t.failed /\ up.used = t.used
      /\ \A k \in Key : /\ up.node[k].info = t.node[k].info /\ up.node[k].lock = t.node[k].lock
                        /\ up.node[k].status = t.node[k].status
                        /\ up.node[k].parent = IF k = c THEN q ELSE t.node[k].parent
                        /\ up.node[k].link = t.node[k].link
  <2>1. CASE c = NULL
    <3>1. up = t  BY <2>1
    <3> HIDE DEF up
    <3> QED  BY <2>1, <3>1, KeyBits
  <2>2. CASE c # NULL
    <3>1. up = SetParent(t, c, q)  BY <2>2
    <3>2. c \in Key  BY <2>2, <1>2
    <3> DEFINE v == SetParent(t, c, q)
    <3>3. /\ v \in Table /\ v.top = t.top /\ v.failed = t.failed /\ v.used = t.used
          /\ \A l \in Key \ {c} : v.node[l] = t.node[l]
          /\ v.node[c].parent = q /\ v.node[c].link = t.node[c].link
          /\ v.node[c].info = t.node[c].info /\ v.node[c].lock = t.node[c].lock
          /\ v.node[c].status = t.node[c].status
      <4> HIDE DEF q
      <4> QED  BY <1>1, <3>2, SetParentFields
    <3> HIDE DEF v, up
    <3>4. ASSUME NEW k \in Key
          PROVE  /\ v.node[k].info = t.node[k].info /\ v.node[k].lock = t.node[k].lock
                 /\ v.node[k].status = t.node[k].status
                 /\ v.node[k].parent = IF k = c THEN q ELSE t.node[k].parent
                 /\ v.node[k].link = t.node[k].link
      <4>1. CASE k = c  BY <4>1, <3>3
      <4>2. CASE k # c  BY <4>2, <3>3
      <4> QED  BY <4>1, <4>2
    <3> QED  BY <3>1, <3>3, <3>4 DEF v
  <2> QED  BY <2>1, <2>2
<1>5. Bypass(t, n, c) = u  BY DEF Bypass, SetParent, SetSide
<1> HIDE DEF up
<1>6. /\ down \in Table /\ down.failed = t.failed /\ down.used = t.used
      /\ down.top = IF q = NULL THEN c ELSE t.top
      /\ \A k \in Key : /\ down.node[k].info = t.node[k].info /\ down.node[k].lock = t.node[k].lock
                        /\ down.node[k].status = t.node[k].status
                        /\ down.node[k].parent = IF k = c THEN q ELSE t.node[k].parent
                        /\ k # q => down.node[k].link = t.node[k].link
      /\ q # NULL => /\ down.node[q].link[side] = c
                     /\ \A a \in {0, 1} : a # side => down.node[q].link[a] = t.node[q].link[a]
  <2>1. CASE q = NULL
    <3>1. down = [up EXCEPT !.top = c]  BY <2>1
    <3>2. /\ [up EXCEPT !.top = c] \in Table /\ [up EXCEPT !.top = c].top = c
          /\ [up EXCEPT !.top = c].failed = up.failed /\ [up EXCEPT !.top = c].used = up.used
          /\ [up EXCEPT !.top = c].node = up.node
      BY <1>4 DEF Table
    <3> HIDE DEF down, q
    <3> QED  BY <2>1, <3>1, <3>2, <1>4
  <2>2. CASE q # NULL
    <3> DEFINE v == SetSide(up, q, side, c)
    <3>1. down = v  BY <2>2
    <3>2. q \in Key /\ side \in {0, 1} /\ up \in Table  BY <2>2, <1>3, <1>4
    <3>3. /\ v \in Table /\ v.top = up.top /\ v.failed = up.failed /\ v.used = up.used
          /\ \A k \in Key \ {q} : v.node[k] = up.node[k]
          /\ v.node[q].link[side] = c
          /\ \A a \in {0, 1} : a # side => v.node[q].link[a] = up.node[q].link[a]
          /\ v.node[q].parent = up.node[q].parent
          /\ v.node[q].info = up.node[q].info /\ v.node[q].lock = up.node[q].lock
          /\ v.node[q].status = up.node[q].status
      <4>1. up \in Table /\ q \in Key /\ side \in {0, 1} /\ c \in Pointer  BY <3>2
      <4> HIDE DEF q, side, up
      <4>2. SideSet(up, q, side, c, SetSide(up, q, side, c))  BY ONLY <4>1, SetSideFields
      <4> QED  BY <4>2 DEF SideSet
    <3> HIDE DEF v, down
    <3>4. ASSUME NEW k \in Key
          PROVE  /\ v.node[k].info = up.node[k].info /\ v.node[k].lock = up.node[k].lock
                 /\ v.node[k].status = up.node[k].status
                 /\ v.node[k].parent = up.node[k].parent
                 /\ k # q => v.node[k].link = up.node[k].link
      <4> HIDE DEF q, side
      <4>1. CASE k = q  BY <4>1, <3>3
      <4>2. CASE k # q  BY <4>2, <3>3
      <4> QED  BY <4>1, <4>2
    <3>5. v.top = t.top /\ v.failed = t.failed /\ v.used = t.used  BY <3>3, <1>4
    <3>6. \A a \in {0, 1} : a # side => v.node[q].link[a] = t.node[q].link[a]
      <4> HIDE DEF q, side
      <4> QED  BY <3>2, <3>3, <1>4
    <3> HIDE DEF side, q
    <3> QED  BY <2>2, <3>1, <3>3, <3>4, <3>5, <3>6, <1>4
  <2> QED  BY <2>1, <2>2
<1> HIDE DEF down
<1>7. /\ u \in Table /\ u.failed = down.failed /\ u.used = down.used \ {n}
      /\ u.top = down.top /\ u.node = down.node
  BY <1>6 DEF Table
<1> HIDE DEF u, side, q
<1>8. /\ u \in Table /\ u.failed = t.failed /\ u.used = t.used \ {n}
      /\ u.top = IF q = NULL THEN c ELSE t.top
      /\ \A k \in Key : /\ u.node[k].info = t.node[k].info /\ u.node[k].lock = t.node[k].lock
                        /\ u.node[k].status = t.node[k].status
                        /\ u.node[k].parent = IF k = c THEN q ELSE t.node[k].parent
                        /\ k # q => u.node[k].link = t.node[k].link
      /\ q # NULL => /\ u.node[q].link[side] = c
                     /\ \A a \in {0, 1} : a # side => u.node[q].link[a] = t.node[q].link[a]
  BY <1>6, <1>7
<1>9. Passed(t, n, c, u)  BY <1>8 DEF Passed, q, side
<1> QED  BY <1>5, <1>9

(* The table without the node n, which had one child at most. *)
Bypassed(t, n, u) ==
  LET q == t.node[n].parent
      c == Child(t.node[n])
      b == Bit(n, Len(q))
  IN  /\ u \in Table /\ Linked(u) /\ u.failed = t.failed /\ u.used = t.used \ {n}
      /\ \A k \in Key : u.node[k].info = t.node[k].info /\ u.node[k].lock = t.node[k].lock
                        /\ u.node[k].status = t.node[k].status
      /\ \A k \in Key : k # c => u.node[k].parent = t.node[k].parent
      /\ \A k \in Key : k # q => u.node[k].link = t.node[k].link
      /\ q # NULL => /\ q \in u.used /\ b \in {0, 1} /\ Len(q) < Len(n) /\ Covers(q, n) /\ n # t.top
                     /\ t.node[q].link[b] = n /\ u.node[q].link[b] = c
                     /\ \A a \in {0, 1} : a # b => u.node[q].link[a] = t.node[q].link[a]
      /\ c # NULL => c \in u.used /\ Len(n) < Len(c) /\ Covers(n, c)

LEMMA BypassCorrect ==
  ASSUME NEW t \in Table, Linked(t), NEW n \in t.used,
         ~ (t.node[n].link[0] # NULL /\ t.node[n].link[1] # NULL)
  PROVE  Bypassed(t, n, Bypass(t, n, Child(t.node[n])))
<1> DEFINE q == t.node[n].parent
           c == Child(t.node[n])
           b == Bit(n, Len(q))
           side == IF t.node[q].link[0] = n THEN 0 ELSE 1
           u == Bypass(t, n, c)
<1>1. /\ t.used \subseteq Key /\ n \in Key /\ q \in Pointer /\ c \in Pointer
      /\ \A k \in t.used : k \in Key /\ k # NULL /\ Len(k) \in Nat
  BY NodeTypes, KeyBits DEF Child, Table
<1>2. \A a \in {0, 1} : t.node[n].link[a] # NULL => t.node[n].link[a] = c  BY DEF Child
<1>3. c # NULL => /\ c \in t.used /\ c # n /\ c # t.top /\ t.node[c].parent = n
                  /\ Len(n) < Len(c) /\ Covers(n, c)
  <2> SUFFICES ASSUME c # NULL
               PROVE  /\ c \in t.used /\ c # n /\ c # t.top /\ t.node[c].parent = n
                      /\ Len(n) < Len(c) /\ Covers(n, c)
    OBVIOUS
  <2>1. PICK a \in {0, 1} : c = t.node[n].link[a]  BY DEF Child
  <2> HIDE DEF c
  <2>2. /\ c \in t.used /\ c # t.top /\ t.node[c].parent = n
        /\ Len(n) < Len(c) /\ Covers(n, c)
    BY <2>1, ChildFacts
  <2>3. c # n  BY <2>2, <1>1
  <2> QED  BY <2>2, <2>3
<1>4. q # NULL => /\ q \in t.used /\ b \in {0, 1} /\ Len(q) < Len(n) /\ Covers(q, n) /\ n # t.top
                  /\ t.node[q].link[b] = n /\ side = b /\ q # n
  <2> SUFFICES ASSUME q # NULL
               PROVE  /\ q \in t.used /\ b \in {0, 1} /\ Len(q) < Len(n) /\ Covers(q, n) /\ n # t.top
                      /\ t.node[q].link[b] = n /\ side = b /\ q # n
    OBVIOUS
  <2>1. n # t.top  BY <1>1 DEF Linked
  <2>2. /\ q \in t.used /\ b \in {0, 1} /\ Len(q) < Len(n) /\ Covers(q, n)
        /\ t.node[q].link[b] = n
    BY <2>1, ParentFacts
  <2>3. t.node[q].link[0] = n => b = 0  BY <2>2, <1>1 DEF Linked
  <2>4. side = b  BY <2>2, <2>3
  <2>5. q # n  BY <2>2, <1>1
  <2> QED  BY <2>1, <2>2, <2>4, <2>5
<1>5. q = NULL => n = t.top
  <2>1. n # t.top => q # NULL  BY ParentFacts
  <2> QED  BY <2>1
<1>6. /\ u \in Table /\ u.failed = t.failed /\ u.used = t.used \ {n}
      /\ u.top = IF q = NULL THEN c ELSE t.top
      /\ \A k \in Key : /\ u.node[k].info = t.node[k].info /\ u.node[k].lock = t.node[k].lock
                        /\ u.node[k].status = t.node[k].status
                        /\ u.node[k].parent = IF k = c THEN q ELSE t.node[k].parent
                        /\ k # q => u.node[k].link = t.node[k].link
      /\ q # NULL => /\ u.node[q].link[side] = c
                     /\ \A a \in {0, 1} : a # side => u.node[q].link[a] = t.node[q].link[a]
  <2>1. t \in Table /\ n \in Key /\ c \in Pointer  BY <1>1
  <2>2. Passed(t, n, c, u)
    <3> HIDE DEF c
    <3> QED  BY <2>1, BypassFields
  <2> HIDE DEF c, u
  <2> QED  BY <2>2 DEF Passed
<1> HIDE DEF u, side
<1>7. q # NULL => /\ u.node[q].link[b] = c
                  /\ \A a \in {0, 1} : a # b => u.node[q].link[a] = t.node[q].link[a]
  BY <1>4, <1>6
<1> HIDE DEF q, c, b
<1>8. ASSUME NEW k \in u.used, NEW a \in {0, 1}, ~ (k = q /\ a = b)
      PROVE  u.node[k].link[a] = t.node[k].link[a] /\ k \in t.used /\ k \in Key /\ k # n
  <2>1. k \in t.used /\ k \in Key /\ k # n /\ k # NULL  BY <1>1, <1>6
  <2>2. CASE k = q  BY <2>1, <2>2, <1>7, <1>8
  <2>3. CASE k # q  BY <2>1, <2>3, <1>6
  <2> QED  BY <2>1, <2>2, <2>3
<1>9. ASSUME NEW k \in u.used, k # t.top, k # c
      PROVE  LET m == t.node[k].parent
             IN  /\ m \in u.used /\ Len(m) < Len(k) /\ Covers(m, k) /\ u.node[k].parent = m
                 /\ u.node[m].link[Bit(k, Len(m))] = k
  <2> DEFINE m == t.node[k].parent
  <2>1. k \in t.used /\ k # n /\ k \in Key /\ k # NULL  BY <1>1, <1>6
  <2>2. /\ m \in t.used /\ Len(m) < Len(k) /\ Covers(m, k) /\ Bit(k, Len(m)) \in {0, 1}
        /\ t.node[m].link[Bit(k, Len(m))] = k
    BY <2>1, <1>9, ParentFacts
  <2>3. u.node[k].parent = m  BY <2>1, <1>6, <1>9
  <2> HIDE DEF m
  <2>4. m # n  BY <2>1, <2>2, <1>2, <1>9
  <2>5. m \in u.used  BY <2>2, <2>4, <1>6
  <2>6. m # NULL  BY <2>2, <1>1
  <2>7. ~ (m = q /\ Bit(k, Len(m)) = b)  BY <2>1, <2>2, <2>6, <1>4
  <2>8. u.node[m].link[Bit(k, Len(m))] = k  BY <2>2, <2>5, <2>7, <1>8
  <2> QED  BY <2>2, <2>3, <2>5, <2>8 DEF m
<1>10. ASSUME NEW k \in u.used, NEW a \in {0, 1}, ~ (k = q /\ a = b), u.node[k].link[a] # NULL
       PROVE  LET d == u.node[k].link[a]
              IN  d \in u.used /\ u.node[d].parent = k /\ Bit(d, Len(k)) = a
  <2> DEFINE d == t.node[k].link[a]
  <2>1. u.node[k].link[a] = d /\ k \in t.used /\ k \in Key /\ k # n  BY <1>8, <1>10
  <2>2. /\ d \in t.used /\ d \in Key /\ d # t.top /\ t.node[d].parent = k /\ Bit(d, Len(k)) = a
    BY <2>1, <1>10, ChildFacts
  <2> HIDE DEF d
  <2>3. d # n
    <3> SUFFICES ASSUME d = n PROVE FALSE  OBVIOUS
    <3>1. k = q  BY <2>2 DEF q
    <3>2. q # NULL  BY <3>1, <2>1, <1>1
    <3>3. a = b  BY <3>1, <2>2 DEF b
    <3> QED  BY <3>1, <3>3, <1>10
  <2>4. d # c
    <3>1. c # NULL => t.node[c].parent # k  BY <2>1, <1>3
    <3> QED  BY <3>1, <2>2, <1>1
  <2>5. u.node[d].parent = k  BY <2>2, <2>4, <1>6
  <2> QED  BY <2>1, <2>2, <2>3, <2>5, <1>6
<1>11. Linked(u)
  <2>1. CASE q = NULL
    <3>1. n = t.top /\ u.top = c  BY <2>1, <1>5, <1>6
    <3>2. CASE c = NULL
      <4>1. t.used = {n}
        <5> SUFFICES ASSUME NEW k \in t.used, k # n PROVE FALSE  OBVIOUS
        <5>1. Covers(n, k)  BY <3>1, TopCovers
        <5>2. t.node[n].link[Bit(k, Len(n))] # NULL  BY <5>1, Subtree
        <5>3. n \in Above(k)  BY <5>1, <1>1 DEF Above
        <5>4. Bit(k, Len(n)) \in {0, 1}  BY <5>3, <1>1, AboveFacts
        <5> QED  BY <5>2, <5>4, <3>2, <1>2
      <4>2. u.used = {} /\ u.top = NULL  BY <4>1, <3>1, <3>2, <1>6
      <4> QED  BY <4>2 DEF Linked
    <3>3. CASE c # NULL
      <4>1. c \in u.used /\ u.node[c].parent = NULL  BY <3>3, <2>1, <1>1, <1>3, <1>6
      <4>2. ASSUME NEW k \in u.used \ {u.top} PROVE Hangs(u, u.node[k].parent, k)
        <5>1. k \in u.used /\ k # t.top /\ k # c  BY <3>1, <1>6
        <5> QED  BY <5>1, <1>9 DEF Hangs
      <4>3. ASSUME NEW k \in u.used, NEW a \in {0, 1}, u.node[k].link[a] # NULL
            PROVE  LET d == u.node[k].link[a]
                   IN  d \in u.used /\ u.node[d].parent = k /\ Bit(d, Len(k)) = a
        <5>1. k # q  BY <2>1, <1>1, <1>6
        <5> QED  BY <5>1, <4>3, <1>10
      <4>4. u.top # NULL /\ u.used # {} /\ u.top \in u.used /\ u.node[u.top].parent = NULL
        BY <4>1, <3>1, <3>3
      <4> QED  BY <4>2, <4>3, <4>4 DEF Linked
    <3> QED  BY <3>2, <3>3
  <2>2. CASE q # NULL
    <3>1. n # t.top /\ u.top = t.top /\ q \in u.used  BY <2>2, <1>4, <1>6
    <3>2. /\ t.top \in u.used /\ t.top \in Key /\ t.top # NULL /\ t.top # c
          /\ t.node[t.top].parent = NULL
      <4>1. t.top \in t.used  BY TopCovers
      <4>2. t.top # NULL  BY <4>1, <1>1
      <4>3. t.top # c  BY <4>2, <1>3
      <4>4. t.node[t.top].parent = NULL  BY <4>2 DEF Linked
      <4> QED  BY <4>1, <4>2, <4>3, <4>4, <3>1, <1>1, <1>6
    <3>3. u.node[t.top].parent = NULL  BY <3>2, <1>6
    <3>4. ASSUME c # NULL
          PROVE  /\ c \in u.used /\ u.node[c].parent = q /\ Bit(c, Len(q)) = b
                 /\ Len(q) < Len(c) /\ Covers(q, c) /\ u.node[q].link[Bit(c, Len(q))] = c
      <4>1. c \in u.used /\ c \in Key /\ u.node[c].parent = q  BY <3>4, <1>1, <1>3, <1>6
      <4>2. /\ Len(q) < Len(n) /\ Len(n) < Len(c) /\ Len(q) \in Nat /\ Len(n) \in Nat
            /\ Len(c) \in Nat /\ q \in Key
        BY <4>1, <3>4, <2>2, <1>1, <1>3, <1>4, KeyBits
      <4>3. Covers(q, c)  BY <4>1, <4>2, <3>4, <2>2, <1>1, <1>3, <1>4, CoversOrder
      <4>4. Bit(c, Len(q)) = Bit(n, Len(q))  BY <4>1, <4>2, <3>4, <1>1, <1>3, BitOfKey
      <4> QED  BY <4>1, <4>2, <4>3, <4>4, <2>2, <1>7 DEF b
    <3>5. ASSUME NEW k \in u.used \ {u.top} PROVE Hangs(u, u.node[k].parent, k)
      <4>1. CASE k = c
        <5>1. c # NULL  BY <4>1, <1>1, <1>6
        <5> QED  BY <5>1, <4>1, <3>1, <3>4 DEF Hangs
      <4>2. CASE k # c
        <5>1. k \in u.used /\ k # t.top  BY <3>1
        <5> QED  BY <5>1, <4>2, <1>9 DEF Hangs
      <4> QED  BY <4>1, <4>2
    <3>6. ASSUME NEW k \in u.used, NEW a \in {0, 1}, u.node[k].link[a] # NULL
          PROVE  LET d == u.node[k].link[a]
                 IN  d \in u.used /\ u.node[d].parent = k /\ Bit(d, Len(k)) = a
      <4>1. CASE k = q /\ a = b
        BY <4>1, <3>4, <3>6, <2>2, <1>7
      <4>2. CASE ~ (k = q /\ a = b)
        BY <4>2, <3>6, <1>10
      <4> QED  BY <4>1, <4>2
    <3>7. u.top # NULL /\ u.used # {} /\ u.top \in u.used /\ u.node[u.top].parent = NULL
      BY <3>1, <3>2, <3>3
    <3> QED  BY <3>5, <3>6, <3>7 DEF Linked
  <2> QED  BY <2>1, <2>2
<1>12. /\ \A k \in Key : u.node[k].info = t.node[k].info /\ u.node[k].lock = t.node[k].lock
                         /\ u.node[k].status = t.node[k].status
       /\ \A k \in Key : k # c => u.node[k].parent = t.node[k].parent
       /\ \A k \in Key : k # q => u.node[k].link = t.node[k].link
  BY <1>6
<1>13. q # NULL => q \in u.used  BY <1>4, <1>6
<1>14. c # NULL => c \in u.used  BY <1>3, <1>6
<1>15. Bypassed(t, n, u)
  BY <1>3, <1>4, <1>6, <1>7, <1>11, <1>12, <1>13, <1>14 DEF Bypassed, q, c, b
<1> QED  BY <1>15 DEF u, c

-----------------------------------------------------------------------------
(* route_node_delete, one node and on with its parent. *)
LEMMA DeleteOneType ==
  ASSUME NEW t \in Table, NEW n \in Key
  PROVE  DeleteOne(t, n) \in Table
<1> DEFINE m == t.node[n]
           v == Bypass(t, n, Child(m))
<1>1. [t EXCEPT !.failed = TRUE] \in Table  BY DEF Table
<1>2. v \in Table
  <2>1. Child(m) \in Pointer  BY NodeTypes DEF Child
  <2>2. Passed(t, n, Child(m), v)
    <3> HIDE DEF m
    <3> QED  BY <2>1, BypassFields
  <2> QED  BY <2>2 DEF Passed
<1>3. DeleteOne(t, n) = IF m.lock # 0 \/ m.info # NULL THEN [t EXCEPT !.failed = TRUE]
                        ELSE IF m.link[0] # NULL /\ m.link[1] # NULL THEN t ELSE v
  BY DEF DeleteOne
<1> HIDE DEF m, v
<1> QED  BY <1>1, <1>2, <1>3

LEMMA DeleteStep ==
  ASSUME NEW t \in Table, NEW n \in Key
  PROVE  Delete(t, n) =
           LET u == DeleteOne(t, n)
               parent == t.node[n].parent
           IN  IF n \in u.used \/ parent = NULL \/ u.node[parent].lock # 0 THEN u
               ELSE Delete(u, parent)
<1> DEFINE S == Table \X Key
           one(x) == DeleteOne(x[1], x[2])
           up(x) == x[1].node[x[2]].parent
           ends(x) == x[2] \in one(x).used \/ up(x) = NULL \/ one(x).node[up(x)].lock # 0
           step == [x \in S |-> IF ends(x) THEN x ELSE <<one(x), up(x)>>]
           stop == [x \in S |-> ends(x)]
           val == [x \in S |-> one(x)]
           body(f, x) == IF ends(x) THEN one(x) ELSE f[<<one(x), up(x)>>]
           Body(f) == [x \in S |-> body(f, x)]
           delete == CHOOSE f : f = Body(f)
<1>1. ASSUME NEW x \in S PROVE one(x) \in Table /\ up(x) \in Pointer
  BY DeleteOneType, NodeTypes
<1>2. ASSUME NEW x \in S, ~ ends(x) PROVE <<one(x), up(x)>> \in S
  <2>1. up(x) # NULL  BY <1>2
  <2> HIDE DEF one, up, ends
  <2> QED  BY <2>1, <1>1 DEF Pointer
<1>3. \A x \in S : ends(x) \in BOOLEAN  OBVIOUS
<1>4. \E f : f = Body(f)
  <2> HIDE DEF one, up, ends, S
  <2>1. step \in [S -> S]  BY <1>2
  <2>2. val \in [S -> Table]  BY <1>1
  <2>3. stop \in [S -> BOOLEAN]  BY <1>3
  <2>4. IsLoop(S, Table, step, stop, val)
    <3> HIDE DEF step, stop, val
    <3>1. Table # {}  OBVIOUS
    <3> QED  BY <2>1, <2>2, <2>3, <3>1 DEF IsLoop
  <2>5. Loops(S, Table, step, stop, val) # {}
    <3> HIDE DEF step, stop, val
    <3> QED  BY <2>4, TailRecursion
  <2>6. PICK f \in Loops(S, Table, step, stop, val) : TRUE
    BY <2>5
  <2>7. f \in [S -> Table] /\ \A x \in S : f[x] = IF stop[x] THEN val[x] ELSE f[step[x]]
    BY <2>6 DEF Loops
  <2>8. ASSUME NEW x \in S PROVE f[x] = body(f, x)
    <3>1. f[x] = IF stop[x] THEN val[x] ELSE f[step[x]]  BY <2>7
    <3> QED  BY <3>1
  <2>9. f = Body(f)
    <3>1. f \in [S -> Table]  BY <2>7
    <3> HIDE DEF body
    <3> QED  BY <3>1, <2>8
  <2> HIDE DEF Body
  <2> QED  BY <2>9
<1>5. delete = Body(delete)
  <2> HIDE DEF Body
  <2> QED  BY <1>4
<1>6. \A s, k : Delete(s, k) = delete[<<s, k>>]  BY DEF Delete
<1> HIDE DEF delete
<1>7. <<t, n>> \in S  OBVIOUS
<1>8. delete[<<t, n>>] = body(delete, <<t, n>>)
  <2> HIDE DEF body, S
  <2> QED  BY <1>5, <1>7
<1>9. one(<<t, n>>) = DeleteOne(t, n) /\ up(<<t, n>>) = t.node[n].parent  OBVIOUS
<1> QED  BY <1>6, <1>8, <1>9

(* What holds when a deletion comes to n, and what it leaves. *)
Deletable(t, n) ==
  /\ t \in Table /\ Linked(t) /\ ~ t.failed /\ n \in t.used
  /\ t.node[n].info = NULL
  /\ \A k \in t.used : t.node[k].info = NULL => t.node[k].lock = 0
  /\ \A k \in t.used \ {n} : NotStub(t.node[k])
  /\ \A k \in t.used : Covers(k, n) /\ t.node[k].info # NULL => t.node[k].lock # 0

Deleted(t, n, u) ==
  /\ u \in Table /\ WellFormed(u) /\ ~ u.failed /\ u.used \subseteq t.used
  /\ \A k \in t.used \ u.used : t.node[k].info = NULL
  /\ \A k \in Key : u.node[k].info = t.node[k].info /\ u.node[k].lock = t.node[k].lock
                    /\ u.node[k].status = t.node[k].status
  /\ \A k \in Key \ t.used : u.node[k].parent = t.node[k].parent /\ u.node[k].link = t.node[k].link
  /\ n \in u.used => u = t
  /\ u.node[n].parent = t.node[n].parent /\ u.node[n].link = t.node[n].link
  /\ n \notin u.used => /\ Rises(u, n, Climb(u, n))
                        /\ Child(t.node[n]) # NULL => Child(t.node[n]) \in u.used

(* A deletion that stops at n, or goes on to its parent. *)
LEMMA DeletableStep ==
  ASSUME NEW t, NEW n, Deletable(t, n)
  PROVE  LET v == DeleteOne(t, n)
             q == t.node[n].parent
         IN  \/ v = t /\ WellFormed(t)
             \/ /\ Bypassed(t, n, v)
                /\ \/ /\ q = NULL \/ v.node[q].lock # 0
                      /\ WellFormed(v)
                   \/ /\ q # NULL /\ v.node[q].lock = 0
                      /\ Deletable(v, q) /\ ~ v.failed
                      /\ Child(t.node[n]) # NULL => WellFormed(v)
<1> DEFINE m == t.node[n]
           c == Child(m)
           q == m.parent
           v == Bypass(t, n, c)
<1>1. /\ t \in Table /\ Linked(t) /\ ~ t.failed /\ n \in t.used /\ n \in Key
      /\ m.info = NULL /\ m.lock = 0 /\ t.used \subseteq Key
  BY DEF Deletable, Table
<1>2. CASE m.link[0] # NULL /\ m.link[1] # NULL
  <2>1. DeleteOne(t, n) = t  BY <1>1, <1>2 DEF DeleteOne
  <2>2. NotStub(t.node[n])  BY <1>2 DEF NotStub
  <2>3. WellFormed(t)  BY <1>1, <2>2 DEF WellFormed, Deletable
  <2> QED  BY <2>1, <2>3
<1>3. CASE ~ (m.link[0] # NULL /\ m.link[1] # NULL)
  <2>1. DeleteOne(t, n) = v  BY <1>1, <1>3 DEF DeleteOne
  <2>2. Bypassed(t, n, v)
    <3>1. t \in Table /\ Linked(t) /\ n \in t.used
          /\ ~ (t.node[n].link[0] # NULL /\ t.node[n].link[1] # NULL)
      BY <1>1, <1>3
    <3> QED  BY ONLY <3>1, BypassCorrect
  <2> HIDE DEF v
  <2>3. ASSUME NEW k \in v.used, k # q PROVE NotStub(v.node[k])
    <3>1. k \in t.used \ {n} /\ k \in Key  BY <1>1, <2>2 DEF Bypassed
    <3>2. NotStub(t.node[k])  BY <3>1 DEF Deletable
    <3>3. v.node[k].link = t.node[k].link /\ v.node[k].info = t.node[k].info
      BY <3>1, <2>2, <2>3 DEF Bypassed
    <3> QED  BY <3>2, <3>3 DEF NotStub
  <2>4. CASE q = NULL
    <3>1. \A k \in v.used : k # q  BY <2>2, <2>4, KeyBits DEF Bypassed, Table
    <3>2. WellFormed(v)  BY <3>1, <2>2, <2>3 DEF WellFormed, Bypassed
    <3> QED  BY <3>2, <2>1, <2>2, <2>4
  <2>5. CASE q # NULL
    <3>1. /\ q \in v.used /\ q \in t.used /\ q \in Key /\ q # n /\ Covers(q, n)
          /\ v.node[q].info = t.node[q].info /\ v.node[q].lock = t.node[q].lock
          /\ v.node[q].status = t.node[q].status
      <4>1. q \in v.used /\ v.used = t.used \ {n} /\ Covers(q, n)
        BY <2>2, <2>5 DEF Bypassed
      <4> QED  BY <4>1, <1>1, <2>2 DEF Bypassed
    <3>2. v.node[q].info = NULL => v.node[q].lock = 0  BY <3>1 DEF Deletable
    <3>3. CASE v.node[q].lock # 0
      <4>1. NotStub(v.node[q])  BY <3>2, <3>3 DEF NotStub
      <4>2. WellFormed(v)  BY <4>1, <2>2, <2>3 DEF WellFormed, Bypassed
      <4> QED  BY <4>2, <2>1, <2>2, <3>3
    <3>4. CASE v.node[q].lock = 0
      <4>1. v.node[q].info = NULL  BY <3>1, <3>4 DEF Deletable
      <4>2. ASSUME NEW k \in v.used
            PROVE  /\ v.node[k].info = NULL => v.node[k].lock = 0
                   /\ Covers(k, q) /\ v.node[k].info # NULL => v.node[k].lock # 0
        <5>1. k \in t.used /\ k \in Key  BY <1>1, <2>2 DEF Bypassed
        <5>2. v.node[k].info = t.node[k].info /\ v.node[k].lock = t.node[k].lock
              /\ v.node[k].status = t.node[k].status
          BY <5>1, <2>2 DEF Bypassed
        <5>3. Covers(k, q) => Covers(k, n)  BY <5>1, <3>1, <1>1, CoversOrder
        <5> QED  BY <5>1, <5>2, <5>3 DEF Deletable
      <4>3. Deletable(v, q)
        BY <4>1, <4>2, <2>2, <2>3, <3>1, <1>1 DEF Deletable, Bypassed
      <4>4. ASSUME c # NULL PROVE NotStub(v.node[q])
        <5> DEFINE b == Bit(n, Len(q))
        <5>1. /\ b \in {0, 1} /\ v.node[q].link[b] = c
              /\ \A a \in {0, 1} : a # b => v.node[q].link[a] = t.node[q].link[a]
          BY <2>2, <2>5 DEF Bypassed
        <5> HIDE DEF b
        <5>2. NotStub(t.node[q]) /\ t.node[q].info = NULL  BY <3>1, <4>1 DEF Deletable
        <5> QED  BY <5>1, <5>2, <4>4 DEF NotStub
      <4>5. c # NULL => WellFormed(v)  BY <4>4, <2>2, <2>3 DEF WellFormed, Bypassed
      <4> QED  BY <4>3, <4>5, <2>1, <2>2, <2>5, <3>4, <1>1 DEF Bypassed
    <3> QED  BY <3>3, <3>4
  <2> QED  BY <2>4, <2>5
<1> QED  BY <1>2, <1>3

(* From a freed node route_next goes where it goes from its parent. *)
LEMMA ClimbFromFreed ==
  ASSUME NEW t, NEW n \in Key, NEW v, Bypassed(t, n, v), NEW u \in Table,
         u.node[n].parent = t.node[n].parent,
         t.node[n].parent # NULL =>
           /\ u.node[t.node[n].parent].link[0] # n
           /\ Rises(u, t.node[n].parent, Climb(u, t.node[n].parent))
  PROVE  Rises(u, n, Climb(u, n))
<1> DEFINE q == t.node[n].parent
<1>1. Climb(u, n) = IF q = NULL THEN NULL
                    ELSE IF u.node[q].link[0] = n /\ u.node[q].link[1] # NULL
                    THEN u.node[q].link[1]
                    ELSE Climb(u, q)
  <2>1. Climb(u, n) =
           LET parent == u.node[n].parent
           IN  IF parent = NULL THEN NULL
               ELSE IF u.node[parent].link[0] = n /\ u.node[parent].link[1] # NULL
               THEN u.node[parent].link[1]
               ELSE Climb(u, parent)
    BY ClimbStep
  <2> QED  BY <2>1
<1>2. CASE q = NULL
  BY <1>1, <1>2 DEF Onward, Rises
<1>3. CASE q # NULL
  <2>1. Climb(u, n) = Climb(u, q) /\ Rises(u, q, Climb(u, q))  BY <1>1, <1>3
  <2>2. q \in v.used /\ v \in Table /\ Covers(q, n)  BY <1>3 DEF Bypassed
  <2>3. q \in Key /\ u.used \subseteq Key  BY <2>2 DEF Table
  <2> HIDE DEF q
  <2>4. \A a \in u.used : Covers(a, q) => Covers(a, n)  BY <2>2, <2>3, CoversOrder
  <2> DEFINE c == Climb(u, q)
  <2>5. c # NULL => c \in Key /\ Left(q, c)  BY <2>1, <2>3 DEF Onward, Rises
  <2> HIDE DEF c
  <2>6. c # NULL => Left(n, c)  BY <2>2, <2>3, <2>5, LeftFacts
  <2> QED  BY <2>1, <2>4, <2>6 DEF Onward, Rises, c
<1> QED  BY <1>2, <1>3

(* route_node_delete takes out nodes that nothing needs, up to the first   *)
(* that something does; no assertion fails, and route_next goes on from    *)
(* the node it was called for as if that were still in the tree.           *)
LEMMA DeleteCorrect ==
  ASSUME NEW t, NEW n, Deletable(t, n)
  PROVE  Deleted(t, n, Delete(t, n))
<1> DEFINE Claim(i) == \A s, k : Deletable(s, k) /\ Len(k) <= i => Deleted(s, k, Delete(s, k))
           P == {i \in Nat : Claim(i)}
<1>1. ASSUME NEW s, NEW k, Deletable(s, k)
      PROVE  s \in Table /\ k \in s.used /\ k \in Key /\ Len(k) \in Nat /\ s.used \subseteq Key
  BY <1>1, KeyBits DEF Deletable, Table
<1>2. ASSUME NEW i \in Nat,
             \A s, k : Deletable(s, k) /\ Len(k) < i => Deleted(s, k, Delete(s, k))
      PROVE  Claim(i)
  <2> SUFFICES ASSUME NEW s, NEW k, Deletable(s, k), Len(k) <= i
               PROVE  Deleted(s, k, Delete(s, k))
    OBVIOUS
  <2> DEFINE v == DeleteOne(s, k)
             q == s.node[k].parent
             c == Child(s.node[k])
  <2>1. s \in Table /\ k \in s.used /\ k \in Key /\ Len(k) \in Nat /\ ~ s.failed
        /\ s.used \subseteq Key
    BY <1>1 DEF Deletable
  <2>2. Delete(s, k) = IF k \in v.used \/ q = NULL \/ v.node[q].lock # 0 THEN v
                       ELSE Delete(v, q)
    <3>1. Delete(s, k) =
           LET u == DeleteOne(s, k)
               parent == s.node[k].parent
           IN  IF k \in u.used \/ parent = NULL \/ u.node[parent].lock # 0 THEN u
               ELSE Delete(u, parent)
      BY <2>1, DeleteStep
    <3> QED  BY <3>1
  <2>3. \/ v = s /\ WellFormed(s)
        \/ /\ Bypassed(s, k, v)
           /\ \/ /\ q = NULL \/ v.node[q].lock # 0
                 /\ WellFormed(v)
              \/ /\ q # NULL /\ v.node[q].lock = 0
                 /\ Deletable(v, q) /\ ~ v.failed
                 /\ c # NULL => WellFormed(v)
    BY DeletableStep
  <2> HIDE DEF v
  <2>4. CASE v = s /\ WellFormed(s)
    <3>1. Delete(s, k) = s  BY <2>1, <2>2, <2>4
    <3>2. Deleted(s, k, s)  BY <2>1, <2>4 DEF Deleted
    <3> QED  BY <3>1, <3>2
  <2>5. ASSUME Bypassed(s, k, v)
        PROVE  /\ v \in Table /\ Linked(v) /\ v.failed = s.failed /\ v.used = s.used \ {k}
               /\ \A l \in Key : v.node[l].info = s.node[l].info /\ v.node[l].lock = s.node[l].lock
                                 /\ v.node[l].status = s.node[l].status
               /\ \A l \in Key \ s.used : /\ v.node[l].parent = s.node[l].parent
                                          /\ v.node[l].link = s.node[l].link
               /\ v.node[k].parent = q /\ v.node[k].link = s.node[k].link
               /\ c # NULL => c \in v.used
               /\ q # NULL => q \in v.used /\ q \in Key /\ Len(q) < Len(k)
    <3>1. /\ v \in Table /\ Linked(v) /\ v.failed = s.failed /\ v.used = s.used \ {k}
          /\ \A l \in Key : v.node[l].info = s.node[l].info /\ v.node[l].lock = s.node[l].lock
                            /\ v.node[l].status = s.node[l].status
          /\ \A l \in Key : l # c => v.node[l].parent = s.node[l].parent
          /\ \A l \in Key : l # q => v.node[l].link = s.node[l].link
          /\ c # NULL => c \in v.used
          /\ q # NULL => q \in v.used /\ Len(q) < Len(k)
      BY <2>5 DEF Bypassed
    <3> HIDE DEF c, q
    <3>2. \A l \in Key : l # NULL  BY KeyBits
    <3>3. k # c /\ k # q
      <4>1. k \notin v.used  BY <3>1
      <4> QED  BY <4>1, <3>1, <3>2, <2>1
    <3>4. \A l \in Key \ s.used : l # c /\ l # q  BY <3>1, <3>2
    <3> QED  BY <3>1, <3>3, <3>4, <2>1 DEF q
  <2>6. CASE Bypassed(s, k, v) /\ (q = NULL \/ v.node[q].lock # 0) /\ WellFormed(v)
    <3>1. Delete(s, k) = v  BY <2>2, <2>6
    <3>2. q # NULL => v.node[q].link[0] # k /\ Rises(v, q, Climb(v, q))
      <4> SUFFICES ASSUME q # NULL PROVE v.node[q].link[0] # k /\ Rises(v, q, Climb(v, q))
        OBVIOUS
      <4>1. q \in v.used /\ v \in Table /\ Linked(v) /\ v.used = s.used \ {k}  BY <2>5, <2>6
      <4> HIDE DEF q
      <4>2. v.node[q].link[0] # NULL => v.node[q].link[0] \in v.used  BY <4>1 DEF Linked
      <4>3. k # NULL  BY <2>1, KeyBits
      <4> QED  BY <4>1, <4>2, <4>3, ClimbCorrect
    <3>3. Rises(v, k, Climb(v, k))
      <4>1. Bypassed(s, k, v) /\ v \in Table /\ v.node[k].parent = s.node[k].parent
        BY <2>5, <2>6
      <4> QED  BY <4>1, <3>2, <2>1, ClimbFromFreed
    <3>4. Deleted(s, k, v)
      <4>1. /\ v \in Table /\ WellFormed(v) /\ ~ v.failed /\ v.used \subseteq s.used /\ k \notin v.used
            /\ \A l \in s.used \ v.used : s.node[l].info = NULL
        BY <2>1, <2>5, <2>6 DEF Deletable
      <4> QED  BY <4>1, <3>3, <2>5, <2>6 DEF Deleted
    <3> QED  BY <3>1, <3>4
  <2>7. CASE Bypassed(s, k, v) /\ q # NULL /\ v.node[q].lock = 0 /\ Deletable(v, q)
             /\ (c # NULL => WellFormed(v))
    <3> DEFINE u == Delete(v, q)
    <3>1. q \in v.used /\ q \in Key /\ Len(q) < Len(k) /\ k \notin v.used /\ v.used \subseteq s.used
      BY <2>5, <2>7
    <3>2. Delete(s, k) = u  BY <3>1, <2>2, <2>7
    <3>3. Deleted(v, q, u)
      <4>1. Len(q) < i  BY <3>1, <2>1, KeyBits
      <4> QED  BY <4>1, <2>7, <1>2
    <3>4. c # NULL => u = v
      <4> SUFFICES ASSUME c # NULL PROVE u = v  OBVIOUS
      <4>1. NotStub(v.node[q])  BY <3>1, <2>7 DEF WellFormed
      <4>2. v.node[q].info = NULL  BY <2>7 DEF Deletable
      <4> HIDE DEF q, c
      <4>3. DeleteOne(v, q) = v  BY <4>1, <4>2, <2>7 DEF DeleteOne, NotStub
      <4>4. v \in Table  BY <2>5, <2>7
      <4>5. Delete(v, q) =
           LET w == DeleteOne(v, q)
               parent == v.node[q].parent
           IN  IF q \in w.used \/ parent = NULL \/ w.node[parent].lock # 0 THEN w
               ELSE Delete(w, parent)
        BY <4>4, <3>1, DeleteStep
      <4> QED  BY <4>3, <4>5, <3>1
    <3> HIDE DEF u
    <3>5. /\ u \in Table /\ WellFormed(u) /\ ~ u.failed /\ u.used \subseteq v.used
          /\ \A l \in v.used \ u.used : v.node[l].info = NULL
          /\ \A l \in Key : u.node[l].info = v.node[l].info /\ u.node[l].lock = v.node[l].lock
                            /\ u.node[l].status = v.node[l].status
          /\ \A l \in Key \ v.used : u.node[l].parent = v.node[l].parent /\ u.node[l].link = v.node[l].link
          /\ q \in u.used => u = v
          /\ u.node[q].parent = v.node[q].parent /\ u.node[q].link = v.node[q].link
          /\ q \notin u.used => Rises(u, q, Climb(u, q))
      <4> HIDE DEF q
      <4> QED  BY <3>3 DEF Deleted
    <3>6. u.node[k].parent = q /\ u.node[k].link = s.node[k].link  BY <3>1, <3>5, <2>1, <2>5, <2>7
    <3>7. u.node[q].link[0] # k
      <4>1. v.node[q].link[0] # NULL => v.node[q].link[0] \in v.used
        <5>1. Linked(v)  BY <2>5, <2>7
        <5> HIDE DEF q
        <5> QED  BY <5>1, <3>1 DEF Linked
      <4>2. k # NULL  BY <2>1, KeyBits
      <4> HIDE DEF q
      <4> QED  BY <4>1, <4>2, <3>1, <3>5
    <3>8. Rises(u, q, Climb(u, q))
      <4> HIDE DEF q
      <4>1. CASE q \in u.used
        BY <4>1, <3>5, ClimbCorrect DEF WellFormed
      <4> QED  BY <4>1, <3>5
    <3>9. Rises(u, k, Climb(u, k))
      <4>1. Bypassed(s, k, v) /\ u \in Table /\ u.node[k].parent = s.node[k].parent
        BY <3>5, <3>6, <2>7
      <4> QED  BY <4>1, <3>7, <3>8, <2>1, ClimbFromFreed
    <3>10. c # NULL => c \in u.used  BY <3>4, <2>5, <2>7
    <3>11. /\ \A l \in Key : u.node[l].info = s.node[l].info /\ u.node[l].lock = s.node[l].lock
                             /\ u.node[l].status = s.node[l].status
           /\ \A l \in Key \ s.used : u.node[l].parent = s.node[l].parent /\ u.node[l].link = s.node[l].link
      BY <3>1, <3>5, <2>5, <2>7
    <3>12. u.used \subseteq s.used /\ k \notin u.used  BY <3>1, <3>5
    <3>14. \A l \in s.used \ u.used : s.node[l].info = NULL
      <4>1. s.node[k].info = NULL /\ v.used = s.used \ {k}  BY <2>5, <2>7 DEF Deletable
      <4>2. \A l \in v.used \ u.used : s.node[l].info = NULL  BY <3>5, <2>5, <2>7, <2>1, <4>1
      <4> QED  BY <4>1, <4>2
    <3>13. Deleted(s, k, u)  BY <3>5, <3>6, <3>9, <3>10, <3>11, <3>12, <3>14 DEF Deleted
    <3> QED  BY <3>2, <3>13
  <2> QED  BY <2>3, <2>4, <2>6, <2>7
<1> HIDE DEF Claim
<1>3. 0 \in P
  <2>1. \A s, k : Deletable(s, k) /\ Len(k) < 0 => Deleted(s, k, Delete(s, k))  BY <1>1
  <2>2. 0 \in Nat  OBVIOUS
  <2>3. Claim(0)  BY <2>1, <2>2, <1>2
  <2> QED  BY <2>2, <2>3
<1>4. ASSUME NEW i \in Nat, i \in P PROVE i + 1 \in P
  <2>1. \A s, k : Deletable(s, k) /\ Len(k) <= i => Deleted(s, k, Delete(s, k))
    BY <1>4 DEF Claim
  <2>2. \A s, k : Deletable(s, k) /\ Len(k) < i + 1 => Deleted(s, k, Delete(s, k))
    BY <2>1, <1>1
  <2>3. i + 1 \in Nat  OBVIOUS
  <2>4. Claim(i + 1)  BY <2>2, <2>3, <1>2
  <2> QED  BY <2>3, <2>4
<1>5. \A i \in Nat : i \in P
  <2> HIDE DEF P
  <2> QED  BY <1>3, <1>4, Induction
<1>6. Len(n) \in Nat /\ Len(n) <= Len(n)  BY <1>1
<1>7. Claim(Len(n))  BY <1>5, <1>6
<1> QED  BY <1>6, <1>7 DEF Claim

-----------------------------------------------------------------------------
(* What every table is between two steps of the daemon: nodes that have a  *)
(* route are for prefixes of routes, and only they are locked.             *)
NodesOK(t) ==
  \A k \in t.used : /\ t.node[k].info # NULL => k \in Prefix
                    /\ t.node[k].info = NULL => t.node[k].lock = 0

Sound(t) ==
  t \in Table /\ WellFormed(t) /\ ~ t.failed /\ NodesOK(t) /\ IsFiniteSet(t.used)

(* The routes above the node the walk stands on are locked. *)
Held(t, n) ==
  \A k \in t.used : Covers(k, n) /\ k # n /\ t.node[k].info # NULL => t.node[k].lock # 0

Stands(t, n) == n # NULL => n \in t.used /\ Held(t, n)

LEMMA PrefixIsKey == ASSUME NEW p \in Prefix PROVE p \in Key /\ p # NULL
<1>1. p \in Seq({0, 1})  BY PrefixAssumption
<1>2. Len(p) \in Nat /\ Len(p) \in 0 .. Len(p)  BY <1>1
<1>3. p \in Key
  <2> DEFINE s == SubSeq(p, 1, Len(p))
  <2>1. s \in Seq({0, 1}) /\ Len(s) = Len(p) /\ \A i \in 1 .. Len(p) : s[i] = p[i]
    BY <1>1, <1>2
  <2>2. s \in Key  BY <1>2 DEF Key
  <2> HIDE DEF s
  <2>3. s = p  BY <1>1, <2>1, SeqEqual
  <2> QED  BY <2>2, <2>3
<1> QED  BY <1>3, KeyBits

(* Tables that agree on the links of the nodes in use. *)
SameTree(t, u) ==
  /\ u.top = t.top /\ u.used = t.used
  /\ \A k \in t.used : u.node[k].parent = t.node[k].parent /\ u.node[k].link = t.node[k].link

LEMMA SameTreeLinked ==
  ASSUME NEW t \in Table, Linked(t), NEW u, SameTree(t, u)
  PROVE  Linked(u)
<1>1. /\ u.top = t.top /\ u.used = t.used
      /\ \A k \in t.used : u.node[k].parent = t.node[k].parent /\ u.node[k].link = t.node[k].link
  BY DEF SameTree
<1>2. t.top = NULL <=> t.used = {}  BY DEF Linked
<1>3. t.top # NULL => t.top \in t.used /\ u.node[t.top].parent = NULL  BY <1>1 DEF Linked
<1>4. ASSUME NEW k \in t.used \ {t.top} PROVE Hangs(u, u.node[k].parent, k)
  <2> DEFINE q == t.node[k].parent
  <2>1. u.node[k].parent = q  BY <1>1
  <2>2. q \in t.used /\ Len(q) < Len(k) /\ Covers(q, k) /\ t.node[q].link[Bit(k, Len(q))] = k
    BY ParentFacts
  <2> HIDE DEF q
  <2>3. u.node[q].link = t.node[q].link  BY <1>1, <2>2
  <2> QED  BY <2>1, <2>2, <2>3, <1>1 DEF Hangs
<1>5. ASSUME NEW k \in t.used, NEW b \in {0, 1}, u.node[k].link[b] # NULL
      PROVE  LET c == u.node[k].link[b]
             IN  c \in t.used /\ u.node[c].parent = k /\ Bit(c, Len(k)) = b
  <2> DEFINE c == t.node[k].link[b]
  <2>1. u.node[k].link[b] = c /\ c # NULL  BY <1>1, <1>5
  <2>2. c \in t.used /\ t.node[c].parent = k /\ Bit(c, Len(k)) = b  BY <2>1, ChildFacts
  <2> HIDE DEF c
  <2> QED  BY <2>1, <2>2, <1>1
<1> QED  BY <1>1, <1>2, <1>3, <1>4, <1>5 DEF Linked

(* Freed memory that is used for something else is none of the tree's. *)
LEMMA ScrubFields ==
  ASSUME NEW t \in Table
  PROVE  LET u == Scrub(t)
         IN  /\ u \in Table /\ u.top = t.top /\ u.used = t.used /\ u.failed = t.failed
             /\ \A k \in t.used : u.node[k] = t.node[k]
<1> DEFINE node == [k \in Key |-> IF k \in t.used THEN t.node[k] ELSE Blank]
           u == Scrub(t)
<1>1. t.node \in [Key -> Node] /\ t.used \subseteq Key  BY DEF Table
<1>2. node \in [Key -> Node]  BY <1>1, BlankNode
<1>3. u = [t EXCEPT !.node = node]  BY DEF Scrub
<1>4. \A k \in t.used : node[k] = t.node[k]  BY <1>1
<1> HIDE DEF u, node
<1>5. u \in Table /\ u.top = t.top /\ u.used = t.used /\ u.failed = t.failed /\ u.node = node
  BY <1>2, <1>3 DEF Table
<1> QED  BY <1>4, <1>5 DEF u

LEMMA ScrubSound ==
  ASSUME NEW t, Sound(t)
  PROVE  /\ Sound(Scrub(t)) /\ Scrub(t).used = t.used
         /\ \A n : Stands(t, n) => Stands(Scrub(t), n)
<1> DEFINE u == Scrub(t)
<1>1. /\ t \in Table /\ Linked(t) /\ ~ t.failed /\ NodesOK(t) /\ IsFiniteSet(t.used)
      /\ \A k \in t.used : NotStub(t.node[k])
  BY DEF Sound, WellFormed
<1>2. /\ u \in Table /\ u.top = t.top /\ u.used = t.used /\ u.failed = t.failed
      /\ \A k \in t.used : u.node[k] = t.node[k]
  BY <1>1, ScrubFields
<1> HIDE DEF u
<1>3. SameTree(t, u)  BY <1>2 DEF SameTree
<1>4. Linked(u)  BY <1>1, <1>3, SameTreeLinked
<1>5. \A k \in u.used : NotStub(u.node[k])  BY <1>1, <1>2
<1>6. NodesOK(u)  BY <1>1, <1>2 DEF NodesOK
<1>7. Sound(u)  BY <1>1, <1>2, <1>4, <1>5, <1>6 DEF Sound, WellFormed
<1>8. \A n : Stands(t, n) => Stands(u, n)  BY <1>2 DEF Stands, Held
<1> QED  BY <1>2, <1>7, <1>8 DEF u

(* A table in which one node has its route, status and locks set anew. *)
Routed(u, p, w) ==
  /\ w \in Table /\ SameTree(u, w) /\ w.failed = u.failed
  /\ \A k \in Key \ {p} : w.node[k] = u.node[k]
  /\ w.node[p].info \in Hop

LEMMA RoutedSound ==
  ASSUME NEW t, Sound(t), NEW p \in Prefix, NEW u, Got(t, u, p), NEW w, Routed(u, p, w)
  PROVE  Sound(w)
<1>1. /\ u \in Table /\ Linked(u) /\ ~ u.failed /\ p \in u.used /\ IsFiniteSet(u.used)
      /\ \A k \in u.used \ {p} : NotStub(u.node[k])
  BY DEF Got, Sound
<1>2. /\ w \in Table /\ SameTree(u, w) /\ ~ w.failed /\ w.used = u.used
      /\ \A k \in Key \ {p} : w.node[k] = u.node[k]
      /\ w.node[p].info # NULL
  BY <1>1, NullAssumption DEF Routed, SameTree
<1>3. Linked(w)  BY <1>1, <1>2, SameTreeLinked
<1>4. \A k \in w.used : k # p => w.node[k] = u.node[k]  BY <1>2 DEF Table
<1>5. \A k \in w.used : NotStub(w.node[k])
  <2>1. NotStub(w.node[p])  BY <1>2 DEF NotStub
  <2>2. \A k \in w.used : k # p => NotStub(w.node[k])  BY <1>1, <1>2, <1>4
  <2> QED  BY <2>1, <2>2
<1>6. ASSUME NEW k \in w.used
      PROVE  /\ w.node[k].info # NULL => k \in Prefix
             /\ w.node[k].info = NULL => w.node[k].lock = 0
  <2>1. CASE k = p  BY <2>1, <1>2
  <2>2. CASE k # p
    <3>1. w.node[k] = u.node[k] /\ k \in u.used  BY <2>2, <1>2, <1>4
    <3>2. \/ k \in t.used /\ u.node[k].info = t.node[k].info /\ u.node[k].lock = t.node[k].lock
                          /\ u.node[k].status = t.node[k].status
          \/ u.node[k].info = NULL /\ u.node[k].lock = 0
      BY <3>1 DEF Got
    <3> QED  BY <3>1, <3>2 DEF Sound, NodesOK
  <2> QED  BY <2>1, <2>2
<1>7. NodesOK(w)  BY <1>6 DEF NodesOK
<1> QED  BY <1>1, <1>2, <1>3, <1>5, <1>7 DEF Sound, WellFormed

(* Locks are no part of the tree. *)
LEMMA UnlockAllSound ==
  ASSUME NEW t, Sound(t)
  PROVE  Sound(UnlockAll(t))
<1> DEFINE node == [k \in Key |-> IF k \in Walked(t) /\ t.node[k].lock > 0
                                  THEN Unlock(t.node[k]) ELSE t.node[k]]
           u == UnlockAll(t)
<1>1. /\ t \in Table /\ Linked(t) /\ ~ t.failed /\ NodesOK(t) /\ IsFiniteSet(t.used)
      /\ \A k \in t.used : NotStub(t.node[k])
  BY DEF Sound, WellFormed
<1>2. ASSUME NEW k \in Key
      PROVE  /\ node[k] \in Node /\ node[k].parent = t.node[k].parent /\ node[k].link = t.node[k].link
             /\ node[k].info = t.node[k].info
             /\ t.node[k].lock = 0 => node[k].lock = 0
  <2> DEFINE m == t.node[k]
  <2>1. m \in Node  BY <1>1 DEF Table
  <2>2. node[k] = IF k \in Walked(t) /\ m.lock > 0 THEN Unlock(m) ELSE m
    OBVIOUS
  <2> HIDE DEF node, m
  <2>3. CASE m.lock > 0
    <3>1. Unlock(m) \in Node  BY <2>1, <2>3 DEF Unlock, Node
    <3>2. Unlock(m).parent = m.parent /\ Unlock(m).link = m.link /\ Unlock(m).info = m.info
      BY <2>1 DEF Unlock, Node
    <3> QED  BY <3>1, <3>2, <2>1, <2>2, <2>3 DEF m
  <2>4. CASE ~ (m.lock > 0)
    <3>1. node[k] = m  BY <2>2, <2>4
    <3> QED  BY <3>1, <2>1 DEF m
  <2> QED  BY <2>3, <2>4
<1>3. u = [t EXCEPT !.node = node]  BY DEF UnlockAll
<1>4. node \in [Key -> Node]
  <2>1. \A k \in Key : node[k] \in Node
    <3> HIDE DEF node
    <3> QED  BY <1>2
  <2> QED  BY <2>1
<1> HIDE DEF u, node
<1>5. u \in Table /\ u.top = t.top /\ u.used = t.used /\ u.failed = t.failed /\ u.node = node
  BY <1>1, <1>3, <1>4 DEF Table
<1>6. t.used \subseteq Key  BY <1>1 DEF Table
<1>7. SameTree(t, u)  BY <1>2, <1>5, <1>6 DEF SameTree
<1>8. Linked(u)  BY <1>1, <1>7, SameTreeLinked
<1>9. \A k \in u.used : NotStub(u.node[k])
  <2> SUFFICES ASSUME NEW k \in u.used PROVE NotStub(u.node[k])  OBVIOUS
  <2>1. NotStub(t.node[k]) /\ u.node[k].info = t.node[k].info /\ u.node[k].link = t.node[k].link
    BY <1>1, <1>2, <1>5, <1>6
  <2> QED  BY <2>1 DEF NotStub
<1>10. NodesOK(u)
  <2> SUFFICES ASSUME NEW k \in u.used
               PROVE  /\ u.node[k].info # NULL => k \in Prefix
                      /\ u.node[k].info = NULL => u.node[k].lock = 0
    BY DEF NodesOK
  <2>1. k \in t.used /\ k \in Key  BY <1>5, <1>6
  <2> QED  BY <2>1, <1>1, <1>2, <1>5 DEF NodesOK
<1>11. Sound(u)  BY <1>1, <1>5, <1>8, <1>9, <1>10 DEF Sound, WellFormed
<1> QED  BY <1>11 DEF u

(* Every walk starts and goes on at a node in use, below locked routes. *)
LEMMA TopStands ==
  ASSUME NEW t, Sound(t)
  PROVE  Stands(t, t.top)
<1>1. t \in Table /\ Linked(t) /\ t.used \subseteq Key  BY DEF Sound, WellFormed, Table
<1>2. SUFFICES ASSUME t.top # NULL PROVE t.top \in t.used /\ Held(t, t.top)  BY DEF Stands
<1>3. t.top \in t.used /\ t.top \in Key  BY <1>1, <1>2 DEF Linked
<1>4. ASSUME NEW k \in t.used, Covers(k, t.top) PROVE k = t.top
  <2>1. Covers(t.top, k) /\ k \in Key  BY <1>1, TopCovers
  <2>2. Len(t.top) <= Len(k)  BY <2>1, <1>3, CoversOrder
  <2> QED  BY <2>1, <2>2, <1>3, <1>4, CoversOrder
<1> QED  BY <1>3, <1>4 DEF Held

LEMMA NextStands ==
  ASSUME NEW t, Sound(t), NEW n \in t.used, Held(t, n),
         t.node[n].info # NULL => t.node[n].lock # 0
  PROVE  Stands(t, NextNode(t, n))
<1> DEFINE k == NextNode(t, n)
<1>1. t \in Table /\ Linked(t)  BY DEF Sound, WellFormed
<1>2. Onward(t, n, k)  BY <1>1, NextNodeCorrect
<1> HIDE DEF k
<1>3. ASSUME k # NULL PROVE k \in t.used /\ Held(t, k)
  <2>1. k \in t.used /\ \A a \in t.used : Covers(a, k) /\ a # k => Covers(a, n)
    BY <1>2, <1>3 DEF Onward
  <2> QED  BY <2>1 DEF Held
<1> QED  BY <1>3 DEF Stands, k

(* A node with no route is as good as gone. *)
LEMMA WithdrawnDeletable ==
  ASSUME NEW t, Sound(t), NEW n \in t.used, Held(t, n), t.node[n].lock = 0
  PROVE  LET s == [t EXCEPT !.node[n].info = NULL]
         IN  /\ Deletable(s, n) /\ s.used = t.used
             /\ s.node[n].info = NULL /\ s.node[n].lock = 0
             /\ \A k \in t.used : k # n => s.node[k] = t.node[k]
<1> DEFINE s == [t EXCEPT !.node[n].info = NULL]
           m == [t.node[n] EXCEPT !.info = NULL]
<1>1. /\ t \in Table /\ Linked(t) /\ ~ t.failed /\ NodesOK(t) /\ IsFiniteSet(t.used)
      /\ \A k \in t.used : NotStub(t.node[k])
  BY DEF Sound, WellFormed
<1>2. t.node \in [Key -> Node] /\ t.used \subseteq Key /\ n \in Key /\ t.node[n] \in Node
  BY <1>1 DEF Table
<1>3. /\ m \in Node /\ m.info = NULL /\ m.lock = 0 /\ m.parent = t.node[n].parent
      /\ m.link = t.node[n].link
  BY <1>2 DEF Node
<1>4. /\ s \in Table /\ s.top = t.top /\ s.used = t.used /\ s.failed = t.failed
      /\ s.node = [t.node EXCEPT ![n] = m]
  <2>1. s \in Table  BY <1>1, <1>2 DEF Table, Node
  <2> QED  BY <2>1, <1>1 DEF Table
<1> HIDE DEF s, m
<1>5. s.node[n] = m /\ \A k \in t.used : k # n => s.node[k] = t.node[k]  BY <1>2, <1>4
<1>6. SameTree(t, s)  BY <1>3, <1>4, <1>5 DEF SameTree
<1>7. Linked(s)  BY <1>1, <1>6, SameTreeLinked
<1>8. \A k \in s.used \ {n} : NotStub(s.node[k])  BY <1>1, <1>4, <1>5
<1>9. \A k \in s.used : s.node[k].info = NULL => s.node[k].lock = 0
  BY <1>1, <1>3, <1>4, <1>5 DEF NodesOK
<1>10. \A k \in s.used : Covers(k, n) /\ s.node[k].info # NULL => s.node[k].lock # 0
  BY <1>3, <1>4, <1>5 DEF Held
<1>11. Deletable(s, n)  BY <1>1, <1>3, <1>4, <1>5, <1>7, <1>8, <1>9, <1>10 DEF Deletable
<1> QED  BY <1>3, <1>4, <1>5, <1>11 DEF s

LEMMA AfterWithdrawSound ==
  ASSUME NEW t, Sound(t), NEW n \in t.used, Held(t, n), t.node[n].lock = 0
  PROVE  LET u == AfterWithdraw(t, n)
         IN  Sound(u) /\ Stands(u, NextNode(u, n))
<1> DEFINE s == [t EXCEPT !.node[n].info = NULL]
           u == Delete(s, n)
           k == NextNode(u, n)
           c == Child(s.node[n])
<1>1. /\ Deletable(s, n) /\ s.used = t.used /\ s.node[n].info = NULL
      /\ \A a \in t.used : a # n => s.node[a] = t.node[a]
  BY WithdrawnDeletable
<1>2. u = AfterWithdraw(t, n)  BY DEF AfterWithdraw
<1> HIDE DEF s
<1>3. Deleted(s, n, u)  BY <1>1, DeleteCorrect
<1> HIDE DEF u
<1>4. /\ u \in Table /\ WellFormed(u) /\ Linked(u) /\ ~ u.failed /\ u.used \subseteq s.used
      /\ \A a \in Key : u.node[a].info = s.node[a].info /\ u.node[a].lock = s.node[a].lock
                        /\ u.node[a].status = s.node[a].status
      /\ n \in u.used => u = s
      /\ u.node[n].link = s.node[n].link
      /\ n \notin u.used => /\ Onward(u, n, Climb(u, n))
                            /\ c # NULL => c \in u.used
  BY <1>3 DEF Deleted, WellFormed, Rises
<1>5. /\ s \in Table /\ Linked(s) /\ s.used \subseteq Key /\ n \in s.used /\ n \in Key
      /\ t.used \subseteq Key
  BY <1>1 DEF Deletable, Table
<1>6. ASSUME NEW a \in u.used, u.node[a].info # NULL
      PROVE  a # n /\ a \in t.used /\ u.node[a].info = t.node[a].info /\ u.node[a].lock = t.node[a].lock
                                   /\ u.node[a].status = t.node[a].status
  BY <1>1, <1>4, <1>5, <1>6
<1>7. NodesOK(u)
  <2> SUFFICES ASSUME NEW a \in u.used
               PROVE  /\ u.node[a].info # NULL => a \in Prefix
                      /\ u.node[a].info = NULL => u.node[a].lock = 0
    BY DEF NodesOK
  <2>1. u.node[a].info # NULL => a \in Prefix  BY <1>6 DEF Sound, NodesOK
  <2>2. a \in s.used /\ u.node[a].info = s.node[a].info /\ u.node[a].lock = s.node[a].lock
                     /\ u.node[a].status = s.node[a].status
    BY <1>4, <1>5
  <2>3. u.node[a].info = NULL => u.node[a].lock = 0  BY <2>2, <1>1 DEF Deletable
  <2> QED  BY <2>1, <2>3
<1>12. IsFiniteSet(u.used)  BY <1>1, <1>4, FS_Subset DEF Sound
<1>8. Sound(u)  BY <1>4, <1>7, <1>12 DEF Sound
<1>9. Onward(u, n, k)
  <2>1. CASE n \in u.used
    BY <2>1, <1>4, NextNodeCorrect
  <2>2. CASE n \notin u.used
    <3>1. Child(u.node[n]) = c  BY <1>4 DEF Child
    <3>2. CASE c = NULL
      <4>1. k = Climb(u, n)  BY <3>1, <3>2 DEF NextNode
      <4> HIDE DEF k
      <4> QED  BY <4>1, <2>2, <1>4
    <3>3. CASE c # NULL
      <4>1. k = c  BY <3>1, <3>3 DEF NextNode
      <4>2. PICK b \in {0, 1} : c = s.node[n].link[b]  BY DEF Child
      <4> HIDE DEF k, c
      <4>3. c \in u.used  BY <2>2, <3>3, <1>4
      <4>4. \A a \in s.used : Covers(a, c) /\ a # c => Covers(a, n)
        BY <4>2, <3>3, <1>5, AboveChild
      <4> QED  BY <4>1, <4>3, <4>4, <1>4 DEF Onward
    <3> QED  BY <3>2, <3>3
  <2> QED  BY <2>1, <2>2
<1> HIDE DEF k
<1>10. ASSUME k # NULL PROVE k \in u.used /\ Held(u, k)
  <2>1. k \in u.used /\ \A a \in u.used : Covers(a, k) /\ a # k => Covers(a, n)
    BY <1>9, <1>10 DEF Onward
  <2>2. ASSUME NEW a \in u.used, Covers(a, k), a # k, u.node[a].info # NULL
        PROVE  u.node[a].lock # 0
    BY <2>1, <2>2, <1>6 DEF Held
  <2> QED  BY <2>1, <2>2 DEF Held
<1>11. Stands(u, k)  BY <1>10 DEF Stands
<1> QED  BY <1>2, <1>8, <1>11 DEF k

-----------------------------------------------------------------------------
(* The inductive invariant: the tree is sound, and the walk that withdraws *)
(* routes stands below locked ones only, so that a deletion that goes up   *)
(* comes to branching points only, or stops.                               *)
IInv ==
  /\ TypeOK
  /\ Sound(table)
  /\ pc \notin {"update", "recreate"} => cursor = NULL
  /\ Stands(table, cursor)
  /\ pc = "recreate" => cursor # NULL /\ table.node[cursor].info # NULL

LEMMA StandsType ==
  ASSUME NEW t, Sound(t), NEW n, Stands(t, n)
  PROVE  t \in Table /\ n \in Pointer
BY DEF Sound, Stands, Table, Pointer

LEMMA EmptySound == Sound(EmptyTable) /\ Stands(EmptyTable, NULL)
<1> DEFINE node == [k \in Key |-> Blank]
<1>1. node \in [Key -> Node]  BY BlankNode
<1>2. EmptyTable = [top |-> NULL, used |-> {}, node |-> node, failed |-> FALSE]
  BY DEF EmptyTable
<1> HIDE DEF node
<1>3. /\ EmptyTable \in Table /\ EmptyTable.top = NULL /\ EmptyTable.used = {}
      /\ ~ EmptyTable.failed
  BY <1>1, <1>2 DEF Table, Pointer
<1> QED  BY <1>3, FS_EmptySet DEF Sound, WellFormed, Linked, NodesOK, Stands

(* A node holds a route. *)
RouteSet(u, p, hop, status, w) ==
  /\ w \in Table /\ w.top = u.top /\ w.used = u.used /\ w.failed = u.failed
  /\ \A k \in Key \ {p} : w.node[k] = u.node[k]
  /\ w.node[p].parent = u.node[p].parent /\ w.node[p].link = u.node[p].link
  /\ w.node[p].info = hop /\ w.node[p].status = status /\ w.node[p].lock = u.node[p].lock + 1

LEMMA SetRouteFields ==
  ASSUME NEW u \in Table, NEW p \in Key, NEW hop \in Hop, NEW status \in Status
  PROVE  RouteSet(u, p, hop, status, [u EXCEPT !.node[p] = SetRoute(@, hop, status)])
<1> DEFINE m == SetRoute(u.node[p], hop, status)
           w == [u EXCEPT !.node[p] = m]
<1>1. u.node \in [Key -> Node] /\ u.node[p] \in Node  BY DEF Table
<1>2. /\ m \in Node /\ m.info = hop /\ m.parent = u.node[p].parent /\ m.link = u.node[p].link
      /\ m.status = status /\ m.lock = u.node[p].lock + 1
  <2> DEFINE n == u.node[p]
  <2>1. n \in Node /\ m = SetRoute(n, hop, status)  BY <1>1
  <2> HIDE DEF n, m
  <2>2. n.lock + 1 \in Nat  BY <2>1 DEF Node
  <2>3. m = [n EXCEPT !.info = hop, !.status = status, !.lock = n.lock + 1]  BY <2>1 DEF SetRoute
  <2>4. m \in Node  BY <2>1, <2>2, <2>3 DEF Node
  <2>5. /\ m.info = hop /\ m.parent = n.parent /\ m.link = n.link
        /\ m.status = status /\ m.lock = n.lock + 1
    BY <2>1, <2>3 DEF Node
  <2> QED  BY <2>4, <2>5 DEF n
<1> HIDE DEF m
<1>3. /\ w \in Table /\ w.top = u.top /\ w.used = u.used /\ w.failed = u.failed
      /\ w.node = [u.node EXCEPT ![p] = m]
  BY ONLY <1>1, <1>2 DEF Table
<1>4. w = [u EXCEPT !.node[p] = SetRoute(@, hop, status)]  BY DEF m
<1> HIDE DEF w
<1>5. w.node[p] = m /\ \A k \in Key \ {p} : w.node[k] = u.node[k]  BY <1>1, <1>3
<1>6. RouteSet(u, p, hop, status, w)  BY <1>2, <1>3, <1>5 DEF RouteSet
<1> QED  BY <1>4, <1>6

(* A node got for a route and marked, by br_init or by br_poll. *)
LEMMA MarkedSound ==
  ASSUME NEW t, Sound(t), NEW p \in Prefix, NEW hop \in Hop, NEW status \in Status,
         NEW w, w = [GetNode(t, p) EXCEPT !.node[p] = SetRoute(@, hop, status)]
  PROVE  Sound(w) /\ RouteSet(GetNode(t, p), p, hop, status, w)
<1> DEFINE u == GetNode(t, p)
<1>1. p \in Key  BY PrefixIsKey
<1>2. Got(t, u, p)  BY <1>1, GetNodeCorrect DEF Sound
<1>3. w = [u EXCEPT !.node[p] = SetRoute(@, hop, status)]  OBVIOUS
<1> HIDE DEF u
<1>4. u \in Table  BY <1>2 DEF Got
<1>5. RouteSet(u, p, hop, status, w)
  <2> DEFINE v == [u EXCEPT !.node[p] = SetRoute(@, hop, status)]
  <2>1. hop \in Hop /\ status \in Status /\ p \in Key /\ u \in Table  BY <1>1, <1>4
  <2>2. RouteSet(u, p, hop, status, v)  BY ONLY <2>1, SetRouteFields
  <2>3. w = v  BY <1>3
  <2> HIDE DEF v
  <2> QED  BY <2>2, <2>3
<1>6. u.used \subseteq Key  BY <1>4 DEF Table
<1>7. Routed(u, p, w)
  <2>1. /\ w \in Table /\ w.top = u.top /\ w.used = u.used /\ w.failed = u.failed
        /\ \A k \in Key \ {p} : w.node[k] = u.node[k]
        /\ w.node[p].parent = u.node[p].parent /\ w.node[p].link = u.node[p].link
        /\ w.node[p].info = hop
    BY <1>5 DEF RouteSet
  <2>2. \A k \in u.used : w.node[k].parent = u.node[k].parent /\ w.node[k].link = u.node[k].link
    BY <2>1, <1>6
  <2> QED  BY <2>1, <2>2 DEF Routed, SameTree
<1>8. Sound(w)  BY <1>2, <1>7, RoutedSound
<1> QED  BY <1>5, <1>8 DEF u

(* The rest of a visit leaves a sound table, and the walk where it may be. *)
LEMMA LeaveSound ==
  ASSUME NEW t, Sound(t), NEW n \in t.used, Held(t, n), NEW f \in SUBSET (Prefix \X Hop),
         Leave(t, f, n)
  PROVE  Sound(table') /\ Stands(table', cursor') /\ fib' \subseteq Prefix \X Hop
<1>1. t \in Table /\ n \in Key /\ t.node[n].lock \in Nat  BY NodeTypes DEF Sound, Table
<1>2. CASE t.node[n].lock > 0
  <2>1. table' = t /\ fib' = f /\ cursor' = NextNode(t, n)  BY <1>2 DEF Leave
  <2>2. Stands(t, NextNode(t, n))  BY <1>1, <1>2, NextStands
  <2> QED  BY <2>1, <2>2
<1>3. CASE ~ (t.node[n].lock > 0)
  <2> DEFINE u == AfterWithdraw(t, n)
  <2>1. table' = Scrub(u) /\ fib' \in KernelDelete(f, n) /\ cursor' = NextNode(u, n)
    BY <1>3 DEF Leave
  <2>2. t.node[n].lock = 0  BY <1>1, <1>3
  <2>3. Sound(u) /\ Stands(u, NextNode(u, n))  BY <2>2, AfterWithdrawSound
  <2> HIDE DEF u
  <2>4. Sound(table') /\ Stands(table', cursor')  BY <2>1, <2>3, ScrubSound
  <2>5. fib' \subseteq f  BY <2>1 DEF KernelDelete
  <2> QED  BY <2>4, <2>5
<1> QED  BY <1>2, <1>3

(* A route a former run left stays locked. *)
LEMMA HoldKernelSound ==
  ASSUME NEW t, Sound(t), NEW n \in t.used, Held(t, n), t.node[n].info # NULL
  PROVE  /\ Sound(HoldKernel(t, n)) /\ n \in HoldKernel(t, n).used
         /\ Held(HoldKernel(t, n), n)
<1> DEFINE u == HoldKernel(t, n)
           m == [t.node[n] EXCEPT !.lock = @ + 1]
<1>1. /\ t \in Table /\ Linked(t) /\ ~ t.failed /\ NodesOK(t) /\ IsFiniteSet(t.used)
      /\ \A k \in t.used : NotStub(t.node[k])
  BY DEF Sound, WellFormed
<1>2. t.node \in [Key -> Node] /\ t.used \subseteq Key /\ n \in Key /\ t.node[n] \in Node
  BY <1>1 DEF Table
<1>3. /\ m \in Node /\ m.info = t.node[n].info /\ m.parent = t.node[n].parent
      /\ m.link = t.node[n].link
  BY <1>2 DEF Node
<1>4. u = [t EXCEPT !.node[n] = m]  BY DEF HoldKernel
<1> HIDE DEF u, m
<1>5. /\ u \in Table /\ u.top = t.top /\ u.used = t.used /\ u.failed = t.failed
      /\ u.node = [t.node EXCEPT ![n] = m]
  BY <1>1, <1>2, <1>3, <1>4 DEF Table
<1>6. u.node[n] = m /\ \A k \in t.used : k # n => u.node[k] = t.node[k]  BY <1>2, <1>5
<1>7. SameTree(t, u)  BY <1>3, <1>5, <1>6 DEF SameTree
<1>8. Linked(u)  BY <1>1, <1>7, SameTreeLinked
<1>9. \A k \in u.used : NotStub(u.node[k])
  <2>1. NotStub(u.node[n])  BY <1>3, <1>6 DEF NotStub
  <2> QED  BY <2>1, <1>1, <1>5, <1>6
<1>10. NodesOK(u)  BY <1>1, <1>3, <1>5, <1>6 DEF NodesOK
<1>11. Sound(u)  BY <1>1, <1>5, <1>8, <1>9, <1>10 DEF Sound, WellFormed
<1>12. Held(u, n)  BY <1>5, <1>6 DEF Held
<1> QED  BY <1>5, <1>11, <1>12 DEF u

LEMMA KernelCreateType ==
  ASSUME NEW t, Sound(t), NEW n \in t.used, t.node[n].info # NULL, NEW f \in SUBSET (Prefix \X Hop)
  PROVE  KernelCreate(f, n, t.node[n].info) \in SUBSET (Prefix \X Hop)
<1>1. t \in Table /\ n \in Key /\ n \in Prefix  BY DEF Sound, NodesOK, Table
<1>2. t.node[n].info \in Hop \cup {NULL}  BY <1>1, NodeTypes
<1> QED  BY <1>1, <1>2 DEF KernelCreate

LEMMA InitIInv == Init => IInv
<1> SUFFICES ASSUME Init PROVE IInv  OBVIOUS
<1>1. Sound(table) /\ Stands(table, cursor)  BY EmptySound DEF Init
<1>2. table \in Table /\ cursor \in Pointer  BY <1>1, StandsType
<1>3. TypeOK  BY <1>2, MaxChangesAssumption, RouteNBAssumption DEF Init, TypeOK
<1>4. pc = "load" /\ cursor = NULL  BY DEF Init
<1> QED  BY <1>1, <1>3, <1>4 DEF IInv

LEMMA LearnIInv == ASSUME IInv, Learn \/ Forget PROVE IInv'
<1>1. PICK p \in Prefix, hop \in Hop \cup {NULL} : Change(p, hop)
  BY DEF Learn, Forget, Learned
<1>2. /\ ds6' = [ds6 EXCEPT ![p] = hop] /\ changes' = changes + 1 /\ changes < MaxChanges
      /\ calm' = (calm /\ changes = 0) /\ UNCHANGED <<table, fib, pc, todo, cursor>>
  BY <1>1 DEF Change
<1>3. ds6' \in [Prefix -> Hop \cup {NULL}]  BY <1>2 DEF IInv, TypeOK
<1>4. changes' \in 0 .. MaxChanges  BY <1>2, MaxChangesAssumption DEF IInv, TypeOK
<1>5. calm' \in BOOLEAN  BY <1>2
<1>6. place' \in [Prefix -> 0 .. RouteNB]
  <2>1. CASE Learn
    <3>1. place' = place \/ \E q \in Prefix, i \in Slot : place' = [place EXCEPT ![q] = i]
      BY <2>1 DEF Learn
    <3> QED  BY <3>1, RouteNBAssumption DEF IInv, TypeOK, Slot
  <2>2. CASE Forget
    <3>1. \E q \in Prefix : place' = [place EXCEPT ![q] = 0]  BY <2>2 DEF Forget, Learned
    <3> QED  BY <3>1, RouteNBAssumption DEF IInv, TypeOK
  <2> QED  BY <2>1, <2>2
<1>7. TypeOK'  BY <1>2, <1>3, <1>4, <1>5, <1>6 DEF IInv, TypeOK
<1> QED  BY <1>2, <1>7 DEF IInv

LEMMA LoadIInv == ASSUME IInv, Load PROVE IInv'
<1>1. PICK r \in todo : /\ table' = Scrub(FromKernel(table, r[1], r[2]))
                        /\ todo' = todo \ {r}
  BY DEF Load
<1>2. pc = "load" /\ UNCHANGED <<ds6, place, fib, pc, cursor, changes, calm>>  BY DEF Load
<1> DEFINE w == FromKernel(table, r[1], r[2])
<1>3. r[1] \in Prefix /\ r[2] \in Hop /\ Sound(table) /\ "KERNEL" \in Status
  BY DEF IInv, TypeOK, Status
<1>4. w = [GetNode(table, r[1]) EXCEPT !.node[r[1]] = SetRoute(@, r[2], "KERNEL")]
  BY DEF FromKernel
<1> HIDE DEF w
<1>5. Sound(Scrub(w))  BY <1>3, <1>4, MarkedSound, ScrubSound
<1>6. Sound(table')  BY <1>1, <1>5 DEF w
<1>7. cursor = NULL  BY <1>2 DEF IInv
<1>8. Stands(table', cursor')  BY <1>2, <1>7 DEF Stands
<1>9. TypeOK'  BY <1>1, <1>2, <1>6, <1>8, StandsType DEF IInv, TypeOK
<1> QED  BY <1>2, <1>6, <1>7, <1>8, <1>9 DEF IInv

LEMMA PollIInv == ASSUME IInv, Poll PROVE IInv'
<1>1. /\ pc = "idle" /\ pc' = "sync" /\ table' = UnlockAll(table)
      /\ todo' = {<<p, ds6[p]>> : p \in Learned} /\ changes' = 0
      /\ UNCHANGED <<ds6, place, fib, cursor, calm>>
  BY DEF Poll
<1>2. Sound(table')  BY <1>1, UnlockAllSound DEF IInv
<1>3. cursor = NULL /\ Stands(table', cursor')  BY <1>1 DEF IInv, Stands
<1>4. todo' \subseteq Prefix \X Hop  BY <1>1 DEF IInv, TypeOK, Learned
<1>5. TypeOK'  BY <1>1, <1>2, <1>3, <1>4, StandsType, MaxChangesAssumption DEF IInv, TypeOK
<1> QED  BY <1>1, <1>2, <1>3, <1>5 DEF IInv

LEMMA SyncIInv == ASSUME IInv, Sync PROVE IInv'
<1>1. PICK r \in todo :
        LET p == r[1]
        IN  /\ table' = Scrub([GetNode(table, p) EXCEPT
                                 !.node[p] = SetRoute(@, r[2], Mark(table, p, r[2]))])
            /\ todo' = todo \ {r}
  BY DEF Sync
<1>2. pc = "sync" /\ UNCHANGED <<ds6, place, fib, pc, cursor, changes, calm>>  BY DEF Sync
<1> DEFINE s == Mark(table, r[1], r[2])
           w == [GetNode(table, r[1]) EXCEPT !.node[r[1]] = SetRoute(@, r[2], s)]
<1>3. r[1] \in Prefix /\ r[2] \in Hop /\ Sound(table) /\ s \in Status
  BY DEF IInv, TypeOK, Status, Mark
<1>4. table' = Scrub(w) /\ todo' = todo \ {r}  BY <1>1
<1> HIDE DEF s
<1>5. w = [GetNode(table, r[1]) EXCEPT !.node[r[1]] = SetRoute(@, r[2], s)]  OBVIOUS
<1> HIDE DEF w
<1>6. Sound(Scrub(w))  BY <1>3, <1>5, MarkedSound, ScrubSound
<1>7. Sound(table')  BY <1>4, <1>6
<1>8. cursor = NULL  BY <1>2 DEF IInv
<1>9. Stands(table', cursor')  BY <1>2, <1>8 DEF Stands
<1>10. TypeOK'  BY <1>2, <1>4, <1>7, <1>9, StandsType DEF IInv, TypeOK
<1> QED  BY <1>2, <1>7, <1>8, <1>9, <1>10 DEF IInv

LEMMA VisitIInv == ASSUME IInv, Visit PROVE IInv'
<1>1. TypeOK /\ Sound(table) /\ Stands(table, cursor)  BY DEF IInv
<1>2. ASSUME NEW n \in Key, cursor = n PROVE n \in table.used /\ Held(table, n) /\ n # NULL
  BY <1>1, <1>2, KeyBits DEF Stands
<1>3. ASSUME Sound(table'), Stands(table', cursor'), fib' \subseteq Prefix \X Hop, pc' = "update",
             UNCHANGED <<ds6, place, todo, changes, calm>>
      PROVE  IInv'
  <2>1. TypeOK'  BY <1>1, <1>3, StandsType DEF TypeOK
  <2> QED  BY <1>3, <2>1 DEF IInv
<1>4. CASE VisitBare
  <2>1. PICK n \in Key : /\ Visiting(n) /\ table.node[n].info = NULL
                         /\ cursor' = NextNode(table, n)
    BY <1>4 DEF VisitBare
  <2>2. n \in table.used /\ Held(table, n) /\ pc = "update"  BY <1>2, <2>1 DEF Visiting
  <2>3. Stands(table, NextNode(table, n))  BY <1>1, <2>1, <2>2, NextStands
  <2>4. UNCHANGED <<table, ds6, place, fib, pc, todo, changes, calm>>  BY <1>4 DEF VisitBare
  <2> QED  BY <1>1, <1>3, <2>1, <2>2, <2>3, <2>4 DEF TypeOK
<1>5. CASE VisitCreated
  <2>1. PICK n \in Key : /\ Visiting(n) /\ table.node[n].info # NULL
                         /\ Leave(table, KernelCreate(fib, n, table.node[n].info), n)
    BY <1>5 DEF VisitCreated
  <2>2. n \in table.used /\ Held(table, n) /\ pc = "update"  BY <1>2, <2>1 DEF Visiting
  <2> DEFINE f == KernelCreate(fib, n, table.node[n].info)
  <2>3. f \in SUBSET (Prefix \X Hop)  BY <1>1, <2>1, <2>2, KernelCreateType DEF TypeOK
  <2> HIDE DEF f
  <2>4. Leave(table, f, n)  BY <2>1 DEF f
  <2>5. Sound(table') /\ Stands(table', cursor') /\ fib' \subseteq Prefix \X Hop
    BY <1>1, <2>2, <2>3, <2>4, LeaveSound
  <2>6. UNCHANGED <<ds6, place, pc, todo, changes, calm>>  BY <1>5 DEF VisitCreated
  <2> QED  BY <1>3, <2>2, <2>5, <2>6
<1>6. CASE VisitUpdated
  <2>1. PICK n \in Key : Visiting(n) /\ Leave(table, fib, n)  BY <1>6 DEF VisitUpdated
  <2>2. n \in table.used /\ Held(table, n) /\ pc = "update"  BY <1>2, <2>1 DEF Visiting
  <2>3. fib \in SUBSET (Prefix \X Hop)  BY <1>1 DEF TypeOK
  <2>4. Sound(table') /\ Stands(table', cursor') /\ fib' \subseteq Prefix \X Hop
    BY <1>1, <2>1, <2>2, <2>3, LeaveSound
  <2>5. UNCHANGED <<ds6, place, pc, todo, changes, calm>>  BY <1>6 DEF VisitUpdated
  <2> QED  BY <1>3, <2>2, <2>4, <2>5
<1>7. CASE VisitKernel
  <2>1. PICK n \in Key : /\ Visiting(n) /\ table.node[n].info # NULL
                         /\ Leave(HoldKernel(table, n), fib, n)
    BY <1>7 DEF VisitKernel
  <2>2. n \in table.used /\ Held(table, n) /\ pc = "update"  BY <1>2, <2>1 DEF Visiting
  <2>3. fib \in SUBSET (Prefix \X Hop)  BY <1>1 DEF TypeOK
  <2> DEFINE t == HoldKernel(table, n)
  <2>4. Sound(t) /\ n \in t.used /\ Held(t, n)  BY <1>1, <2>1, <2>2, HoldKernelSound
  <2>5. Leave(t, fib, n)  BY <2>1
  <2> HIDE DEF t
  <2>6. Sound(table') /\ Stands(table', cursor') /\ fib' \subseteq Prefix \X Hop
    BY <2>3, <2>4, <2>5, LeaveSound
  <2>7. UNCHANGED <<ds6, place, pc, todo, changes, calm>>  BY <1>7 DEF VisitKernel
  <2> QED  BY <1>3, <2>2, <2>6, <2>7
<1>8. CASE VisitModified
  <2>1. PICK n \in Key : /\ Visiting(n) /\ table.node[n].info # NULL
                         /\ fib' \in KernelDelete(fib, n)
    BY <1>8 DEF VisitModified
  <2>2. cursor = n /\ n # NULL  BY <1>2, <2>1 DEF Visiting
  <2>3. pc' = "recreate" /\ UNCHANGED <<table, ds6, place, todo, cursor, changes, calm>>
    BY <1>8 DEF VisitModified
  <2>4. fib' \subseteq fib  BY <2>1 DEF KernelDelete
  <2>5. TypeOK'  BY <1>1, <2>3, <2>4 DEF TypeOK
  <2> QED  BY <1>1, <2>1, <2>2, <2>3, <2>5 DEF IInv
<1>9. CASE Recreate
  <2>1. PICK n \in Key : /\ pc = "recreate" /\ cursor = n
                         /\ Leave(table, KernelCreate(fib, n, table.node[n].info), n)
    BY <1>9 DEF Recreate
  <2>2. n \in table.used /\ Held(table, n) /\ table.node[n].info # NULL
    BY <1>2, <2>1 DEF IInv
  <2> DEFINE f == KernelCreate(fib, n, table.node[n].info)
  <2>3. f \in SUBSET (Prefix \X Hop)  BY <1>1, <2>2, KernelCreateType DEF TypeOK
  <2> HIDE DEF f
  <2>4. Leave(table, f, n)  BY <2>1 DEF f
  <2>5. Sound(table') /\ Stands(table', cursor') /\ fib' \subseteq Prefix \X Hop
    BY <1>1, <2>2, <2>3, <2>4, LeaveSound
  <2>6. pc' = "update" /\ UNCHANGED <<ds6, place, todo, changes, calm>>  BY <1>9 DEF Recreate
  <2> QED  BY <1>3, <2>5, <2>6
<1> QED  BY <1>4, <1>5, <1>6, <1>7, <1>8, <1>9 DEF Visit

LEMMA NextIInv == IInv /\ [Next]_vars => IInv'
<1> SUFFICES ASSUME IInv, [Next]_vars PROVE IInv'  OBVIOUS
<1>1. TypeOK /\ Sound(table) /\ Stands(table, cursor)  BY DEF IInv
<1>2. CASE Load  BY <1>2, LoadIInv
<1>3. CASE Loaded
  <2>1. /\ pc = "load" /\ pc' = "idle"
        /\ UNCHANGED <<table, ds6, place, fib, todo, cursor, changes, calm>>
    BY <1>3 DEF Loaded
  <2>2. cursor = NULL  BY <2>1 DEF IInv
  <2>3. TypeOK'  BY <1>1, <2>1 DEF TypeOK
  <2> QED  BY <1>1, <2>1, <2>2, <2>3 DEF IInv
<1>4. CASE Poll  BY <1>4, PollIInv
<1>5. CASE Sync  BY <1>5, SyncIInv
<1>6. CASE Synced
  <2>1. /\ pc = "sync" /\ pc' = "update" /\ cursor' = table.top
        /\ UNCHANGED <<table, ds6, place, fib, todo, changes, calm>>
    BY <1>6 DEF Synced
  <2>2. Stands(table', cursor')  BY <1>1, <2>1, TopStands
  <2>3. TypeOK'  BY <1>1, <2>1, <2>2, StandsType DEF TypeOK
  <2> QED  BY <1>1, <2>1, <2>2, <2>3 DEF IInv
<1>7. CASE Visit  BY <1>7, VisitIInv
<1>8. CASE Updated
  <2>1. /\ pc = "update" /\ cursor = NULL /\ pc' = "idle"
        /\ UNCHANGED <<table, ds6, place, fib, todo, cursor, changes, calm>>
    BY <1>8 DEF Updated
  <2>2. TypeOK'  BY <1>1, <2>1 DEF TypeOK
  <2> QED  BY <1>1, <2>1, <2>2 DEF IInv
<1>9. CASE Learn \/ Forget  BY <1>9, LearnIInv
<1>10. CASE Crash
  <2>1. /\ table' = EmptyTable /\ ds6' = [p \in Prefix |-> NULL]
        /\ place' = [p \in Prefix |-> 0] /\ pc' = "load" /\ todo' = fib /\ cursor' = NULL
        /\ changes' = 0 /\ calm' = TRUE /\ fib' = fib
    BY <1>10 DEF Crash
  <2>2. Sound(table') /\ Stands(table', cursor')  BY <2>1, EmptySound
  <2>3. TypeOK'
    BY <1>1, <2>1, <2>2, StandsType, MaxChangesAssumption, RouteNBAssumption DEF TypeOK
  <2> QED  BY <2>1, <2>2, <2>3 DEF IInv
<1>11. CASE UNCHANGED vars  BY <1>11 DEF vars, IInv, TypeOK
<1> QED  BY <1>2, <1>3, <1>4, <1>5, <1>6, <1>7, <1>8, <1>9, <1>10, <1>11 DEF Next, Daemon

-----------------------------------------------------------------------------
(* What lies below a node on one side is what its child there covers. *)
Side(t, q, b, k) == t.node[q].link[b] # NULL /\ Covers(t.node[q].link[b], k)

LEMMA SideFacts ==
  ASSUME NEW t \in Table, Linked(t), NEW q \in t.used, NEW k \in t.used
  PROVE  /\ \A b \in {0, 1} :
              Side(t, q, b, k) <=> Covers(q, k) /\ q # k /\ Bit(k, Len(q)) = b
         /\ Covers(q, k) <=> q = k \/ Side(t, q, 0, k) \/ Side(t, q, 1, k)
<1>1. q \in Key /\ k \in Key /\ Len(q) \in Nat /\ Len(k) \in Nat  BY KeyBits DEF Table
<1>2. ASSUME NEW b \in {0, 1}, Side(t, q, b, k)
      PROVE  Covers(q, k) /\ q # k /\ Bit(k, Len(q)) = b
  <2> DEFINE c == t.node[q].link[b]
  <2>1. c # NULL /\ Covers(c, k)  BY <1>2 DEF Side
  <2>2. c \in Key /\ Len(q) < Len(c) /\ Covers(q, c) /\ Bit(c, Len(q)) = b  BY <2>1, ChildFacts
  <2> HIDE DEF c
  <2>3. Covers(q, k) /\ Len(c) <= Len(k)  BY <2>1, <2>2, <1>1, CoversOrder
  <2>4. Bit(k, Len(q)) = b  BY <2>1, <2>2, <1>1, BitOfKey
  <2>5. q # k  BY <2>2, <2>3, <1>1, KeyBits
  <2> QED  BY <2>3, <2>4, <2>5
<1>3. ASSUME Covers(q, k), q # k PROVE Side(t, q, Bit(k, Len(q)), k) /\ Bit(k, Len(q)) \in {0, 1}
  <2>1. q \in Above(k)  BY <1>1, <1>3 DEF Above
  <2>2. Bit(k, Len(q)) \in {0, 1}  BY <2>1, <1>1, AboveFacts
  <2> DEFINE c == t.node[q].link[Bit(k, Len(q))]
  <2>3. c # NULL /\ Covers(c, k)  BY <1>3, Subtree
  <2> QED  BY <2>2, <2>3 DEF Side
<1>4. Covers(q, q)  BY <1>1, CoversOrder
<1>5. ASSUME NEW b \in {0, 1}
      PROVE  Side(t, q, b, k) <=> Covers(q, k) /\ q # k /\ Bit(k, Len(q)) = b
  BY <1>2, <1>3
<1>6. Covers(q, k) <=> q = k \/ Side(t, q, 0, k) \/ Side(t, q, 1, k)  BY <1>2, <1>3, <1>4
<1> QED  BY <1>5, <1>6

(* What comes before a child: what comes before its parent, the parent,    *)
(* and the other child's subtree if that is the first.                     *)
LEMMA BeforeChild ==
  ASSUME NEW t \in Table, Linked(t), NEW q \in t.used, NEW b \in {0, 1},
         t.node[q].link[b] # NULL, NEW k \in t.used
  PROVE  Before(k, t.node[q].link[b]) <=>
           Before(k, q) \/ k = q \/ (b = 1 /\ Side(t, q, 0, k))
<1> DEFINE n == t.node[q].link[b]
<1>1. /\ n \in t.used /\ n \in Key /\ Len(q) < Len(n) /\ Covers(q, n) /\ Bit(n, Len(q)) = b
  BY ChildFacts
<1>2. q \in Key /\ k \in Key /\ Len(q) \in Nat /\ Len(k) \in Nat /\ Len(n) \in Nat
  BY <1>1, KeyBits DEF Table
<1>3. Covers(k, n) /\ k # n => Covers(k, q)  BY AboveChild
<1>4. Side(t, q, b, k) <=> Covers(n, k)  BY DEF Side
<1> HIDE DEF n
<1>5. ASSUME Covers(k, q) PROVE Covers(k, n) /\ k # n
  <2>1. Covers(k, n) /\ Len(k) <= Len(q)  BY <1>1, <1>2, <1>5, CoversOrder
  <2> QED  BY <2>1, <1>1, <1>2
<1>6. Covers(q, q)  BY <1>2, CoversOrder
<1>7. ASSUME Left(k, n) PROVE Left(k, q) \/ (b = 1 /\ Side(t, q, 0, k))
  <2>1. PICK c \in Key : /\ Covers(c, k) /\ Covers(c, n) /\ Len(c) < Len(k) /\ Len(c) < Len(n)
                         /\ Bit(k, Len(c)) = 0 /\ Bit(n, Len(c)) = 1
    BY <1>7 DEF Left
  <2>2. Len(c) \in Nat  BY KeyBits
  <2>3. CASE Len(c) < Len(q)
    <3>1. Covers(c, q)  BY <2>1, <2>2, <2>3, <1>1, <1>2, CoversOrder
    <3>2. Bit(q, Len(c)) = 1  BY <2>1, <2>2, <2>3, <1>1, <1>2, BitOfKey
    <3> QED  BY <3>1, <3>2, <2>1, <2>3 DEF Left
  <2>4. CASE ~ (Len(c) < Len(q))
    <3>1. Covers(q, c)  BY <2>1, <2>2, <2>4, <1>1, <1>2, CoversOrder
    <3>2. Covers(q, k)  BY <3>1, <2>1, <1>2, CoversOrder
    <3>3. q # k
      <4>1. Len(q) <= Len(c)  BY <2>2, <2>4, <1>2
      <4> QED  BY <4>1, <2>1, <2>2, <1>2
    <3>4. Bit(k, Len(q)) # b
      <4> SUFFICES ASSUME Bit(k, Len(q)) = b PROVE FALSE  OBVIOUS
      <4>1. Side(t, q, b, k)  BY <3>2, <3>3, SideFacts
      <4>2. Covers(n, k)  BY <4>1, <1>4
      <4> QED  BY <4>2, <1>1, <1>2, <1>7, LeftFacts
    <3>5. Len(c) = Len(q)
      <4> SUFFICES ASSUME Len(q) < Len(c) PROVE FALSE  BY <2>2, <2>4, <1>2
      <4>1. Bit(k, Len(q)) = Bit(c, Len(q))  BY <2>1, <1>2, BitOfKey
      <4>2. Bit(n, Len(q)) = Bit(c, Len(q))  BY <2>1, <1>1, <1>2, BitOfKey
      <4> QED  BY <4>1, <4>2, <3>4, <1>1
    <3>6. b = 1 /\ Bit(k, Len(q)) = 0  BY <3>5, <2>1, <1>1
    <3>7. Side(t, q, 0, k)  BY <3>2, <3>3, <3>6, SideFacts
    <3> QED  BY <3>6, <3>7
  <2> QED  BY <2>3, <2>4
<1>8. Left(k, q) => Left(k, n)  BY <1>1, <1>2, LeftFacts
<1>9. ASSUME b = 1, Side(t, q, 0, k) PROVE Left(k, n)
  <2>1. Covers(q, k) /\ q # k /\ Bit(k, Len(q)) = 0  BY <1>9, SideFacts
  <2>2. q \in Above(k)  BY <2>1, <1>2 DEF Above
  <2>3. Len(q) < Len(k)  BY <2>2, <1>2, AboveFacts
  <2> QED  BY <2>1, <2>3, <1>1, <1>2, <1>9 DEF Left
<1>10. Before(k, n) <=> Before(k, q) \/ k = q \/ (b = 1 /\ Side(t, q, 0, k))
  BY <1>3, <1>5, <1>6, <1>7, <1>8, <1>9 DEF Before, n
<1> QED  BY <1>10 DEF n

(* Where route_next's way up leads from n: to the first node after the     *)
(* subtree of n, or, if there is none, nowhere.                            *)
Passes(t, n, m) ==
  IF m = NULL THEN \A k \in t.used : Before(k, n) \/ Covers(n, k)
  ELSE \A k \in t.used : Before(k, m) <=> Before(k, n) \/ Covers(n, k)

LEMMA ClimbPasses ==
  ASSUME NEW t \in Table, Linked(t), NEW n \in t.used
  PROVE  Passes(t, n, Climb(t, n))
<1> DEFINE P == {i \in Nat : \A k \in t.used : Len(k) <= i => Passes(t, k, Climb(t, k))}
<1>1. t.used \subseteq Key /\ \A k \in t.used : k \in Key /\ Len(k) \in Nat /\ k # NULL
  BY KeyBits DEF Table
<1>2. ASSUME NEW i \in Nat, \A k \in t.used : Len(k) < i => Passes(t, k, Climb(t, k))
      PROVE  \A k \in t.used : Len(k) <= i => Passes(t, k, Climb(t, k))
  <2> SUFFICES ASSUME NEW m \in t.used, Len(m) <= i PROVE Passes(t, m, Climb(t, m))
    OBVIOUS
  <2> DEFINE q == t.node[m].parent
  <2>1. Climb(t, m) = IF q = NULL THEN NULL
                      ELSE IF t.node[q].link[0] = m /\ t.node[q].link[1] # NULL
                      THEN t.node[q].link[1]
                      ELSE Climb(t, q)
    BY <1>1, ClimbStep
  <2>2. CASE q = NULL
    <3>1. m = t.top
      <4>1. m # t.top => q # NULL  BY ParentFacts
      <4> QED  BY <4>1, <2>2
    <3>2. \A k \in t.used : Covers(m, k)  BY <3>1, TopCovers
    <3>3. Climb(t, m) = NULL  BY <2>1, <2>2
    <3> QED  BY <3>2, <3>3 DEF Passes
  <2>3. CASE q # NULL
    <3>1. m # t.top  BY <2>3, <1>1 DEF Linked
    <3> DEFINE b == Bit(m, Len(q))
    <3>2. q \in t.used /\ Len(q) < Len(m) /\ t.node[q].link[b] = m /\ b \in {0, 1}
      BY <3>1, ParentFacts
    <3>3. t.node[q].link[0] = m => b = 0  BY <3>2, <1>1 DEF Linked
    <3> HIDE DEF q, b
    <3>4. m # NULL  BY <1>1
    <3>5. ASSUME NEW k \in t.used
          PROVE  /\ Before(k, m) <=> Before(k, q) \/ k = q \/ (b = 1 /\ Side(t, q, 0, k))
                 /\ Covers(m, k) <=> Side(t, q, b, k)
                 /\ Covers(q, k) <=> q = k \/ Side(t, q, 0, k) \/ Side(t, q, 1, k)
      <4>1. t.node[q].link[b] # NULL  BY <3>2, <3>4
      <4>2. Before(k, t.node[q].link[b]) <=> Before(k, q) \/ k = q \/ (b = 1 /\ Side(t, q, 0, k))
        BY <4>1, <3>2, BeforeChild
      <4>3. Covers(m, k) <=> Side(t, q, b, k)  BY <3>2, <3>4 DEF Side
      <4>4. Covers(q, k) <=> q = k \/ Side(t, q, 0, k) \/ Side(t, q, 1, k)  BY <3>2, SideFacts
      <4> QED  BY <4>2, <4>3, <4>4, <3>2
    <3>6. CASE t.node[q].link[0] = m /\ t.node[q].link[1] # NULL
      <4> DEFINE s == t.node[q].link[1]
      <4>1. Climb(t, m) = s  BY <2>1, <2>3, <3>6
      <4>2. ASSUME NEW k \in t.used
            PROVE  Before(k, s) <=> Before(k, q) \/ k = q \/ Side(t, q, 0, k)
        BY <3>2, <3>6, BeforeChild
      <4> HIDE DEF s
      <4>3. b = 0 /\ s # NULL  BY <3>3, <3>6 DEF s
      <4> QED  BY <4>1, <4>2, <4>3, <3>5 DEF Passes
    <3>7. CASE ~ (t.node[q].link[0] = m /\ t.node[q].link[1] # NULL)
      <4>1. Climb(t, m) = Climb(t, q)  BY <2>1, <2>3, <3>7
      <4>2. Len(q) < i  BY <3>2, <1>1
      <4>3. Passes(t, q, Climb(t, q))  BY <4>2, <3>2, <1>2
      <4>4. b = 1 \/ \A k : ~ Side(t, q, 1, k)  BY <3>2, <3>7 DEF Side
      <4>5. ASSUME NEW k \in t.used
            PROVE  Before(k, m) \/ Covers(m, k) <=> Before(k, q) \/ Covers(q, k)
        BY <4>4, <3>2, <3>5
      <4> QED  BY <4>1, <4>3, <4>5 DEF Passes
    <3> QED  BY <3>6, <3>7
  <2> QED  BY <2>2, <2>3
<1>3. 0 \in P
  <2>1. \A k \in t.used : Len(k) < 0 => Passes(t, k, Climb(t, k))  BY <1>1
  <2>2. 0 \in Nat  OBVIOUS
  <2>3. \A k \in t.used : Len(k) <= 0 => Passes(t, k, Climb(t, k))  BY <1>2, <2>1, <2>2
  <2> QED  BY <2>2, <2>3
<1>4. ASSUME NEW i \in Nat, i \in P PROVE i + 1 \in P
  <2>1. \A k \in t.used : Len(k) < i + 1 => Passes(t, k, Climb(t, k))  BY <1>1, <1>4
  <2>2. i + 1 \in Nat  OBVIOUS
  <2>3. \A k \in t.used : Len(k) <= i + 1 => Passes(t, k, Climb(t, k))  BY <1>2, <2>1, <2>2
  <2> QED  BY <2>2, <2>3
<1>5. \A i \in Nat : i \in P
  <2> HIDE DEF P
  <2> QED  BY <1>3, <1>4, Induction
<1>6. Len(n) \in Nat /\ Len(n) <= Len(n)  BY <1>1
<1> QED  BY <1>5, <1>6

(* route_next goes to the node that comes next. *)
LEMMA NextInOrder ==
  ASSUME NEW t \in Table, Linked(t), NEW n \in t.used
  PROVE  LET m == NextNode(t, n)
         IN  IF m = NULL THEN \A k \in t.used : Before(k, n) \/ k = n
             ELSE m \in t.used /\ \A k \in t.used : Before(k, m) <=> Before(k, n) \/ k = n
<1> DEFINE m == NextNode(t, n)
           c == Child(t.node[n])
<1>1. Onward(t, n, m)  BY NextNodeCorrect
<1>2. CASE c = NULL
  <2>1. m = Climb(t, n)  BY <1>2 DEF NextNode
  <2>2. Passes(t, n, m)  BY <2>1, ClimbPasses
  <2>3. t.node[n].link[0] = NULL /\ t.node[n].link[1] = NULL  BY <1>2 DEF Child
  <2>4. \A k \in t.used : Covers(n, k) <=> k = n  BY <2>3, SideFacts DEF Side
  <2> HIDE DEF m
  <2>5. m = NULL => \A k \in t.used : Before(k, n) \/ k = n  BY <2>2, <2>4 DEF Passes
  <2>6. m # NULL => m \in t.used /\ \A k \in t.used : Before(k, m) <=> Before(k, n) \/ k = n
    BY <2>2, <2>4, <1>1 DEF Passes, Onward
  <2> QED  BY <2>5, <2>6 DEF m
<1>3. CASE c # NULL
  <2>1. m = c  BY <1>3 DEF NextNode
  <2> HIDE DEF m
  <2>2. ASSUME NEW k \in t.used PROVE Before(k, c) <=> Before(k, n) \/ k = n
    <3>1. CASE t.node[n].link[0] # NULL
      <4>1. c = t.node[n].link[0]  BY <3>1 DEF Child
      <4> HIDE DEF c
      <4>2. Before(k, t.node[n].link[0]) <=> Before(k, n) \/ k = n \/ (0 = 1 /\ Side(t, n, 0, k))
        BY <3>1, BeforeChild
      <4> QED  BY <4>1, <4>2
    <3>2. CASE t.node[n].link[0] = NULL
      <4>1. c = t.node[n].link[1]  BY <3>2 DEF Child
      <4>2. t.node[n].link[1] # NULL  BY <4>1, <1>3
      <4> HIDE DEF c
      <4>3. Before(k, t.node[n].link[1]) <=> Before(k, n) \/ k = n \/ (1 = 1 /\ Side(t, n, 0, k))
        BY <4>2, BeforeChild
      <4>4. ~ Side(t, n, 0, k)  BY <3>2 DEF Side
      <4> QED  BY <4>1, <4>3, <4>4
    <3> QED  BY <3>1, <3>2
  <2>3. c \in t.used  BY <1>1, <1>3, <2>1 DEF Onward
  <2> HIDE DEF c
  <2> QED  BY <2>1, <2>2, <2>3, <1>3 DEF m
<1> QED  BY <1>2, <1>3

(* A loop from route_top with route_next, visit by visit. *)
LEMMA WalkSteps ==
  ASSUME NEW t \in Table, Linked(t)
  PROVE  /\ Walk(t)[0] = t.top
         /\ \A i \in Nat : /\ Walk(t)[i] \in t.used \cup {NULL}
                           /\ Walk(t)[i + 1] = IF Walk(t)[i] = NULL THEN NULL
                                               ELSE NextNode(t, Walk(t)[i])
<1> DEFINE S == t.used \cup {NULL}
           step == [x \in S |-> IF x = NULL THEN NULL ELSE NextNode(t, x)]
           body(f, i) == IF i = 0 THEN t.top
                         ELSE IF f[i - 1] = NULL THEN NULL ELSE NextNode(t, f[i - 1])
           Body(f) == [i \in Nat |-> body(f, i)]
           at == CHOOSE f : f = Body(f)
<1>1. \A k \in t.used : k # NULL  BY KeyBits DEF Table
<1>2. ASSUME NEW x \in t.used PROVE NextNode(t, x) \in S
  <2>1. Onward(t, x, NextNode(t, x))  BY NextNodeCorrect
  <2> QED  BY <2>1 DEF Onward
<1>3. t.top \in S  BY DEF Linked
<1>4. \E f : f = Body(f)
  <2>1. step \in [S -> S]  BY <1>1, <1>2
  <2>2. Orbit(S, t.top, step) # {}
    <3> HIDE DEF step, S
    <3> QED  BY <2>1, <1>3, OrbitExists
  <2>3. PICK r \in Orbit(S, t.top, step) : TRUE
    <3> HIDE DEF step, S
    <3> QED  BY <2>2
  <2>4. r \in [Nat -> S] /\ r[0] = t.top /\ \A i \in Nat : r[i + 1] = step[r[i]]
    <3> HIDE DEF step, S
    <3> QED  BY <2>3 DEF Orbit
  <2>5. ASSUME NEW i \in Nat PROVE r[i] = body(r, i)
    <3>1. CASE i = 0  BY <3>1, <2>4
    <3>2. CASE i # 0
      <4>1. i - 1 \in Nat /\ (i - 1) + 1 = i  BY <3>2
      <4>2. r[i] = step[r[i - 1]] /\ r[i - 1] \in S
        <5> HIDE DEF step, S
        <5> QED  BY <4>1, <2>4
      <4> QED  BY <3>2, <4>2
    <3> QED  BY <3>1, <3>2
  <2>6. r = Body(r)
    <3>1. r \in [Nat -> S]  BY <2>4
    <3> HIDE DEF body, S
    <3> QED  BY <3>1, <2>5
  <2> HIDE DEF Body
  <2> QED  BY <2>6
<1>5. at = Body(at)
  <2> HIDE DEF Body
  <2> QED  BY <1>4
<1>6. Walk(t) = at  BY DEF Walk
<1> HIDE DEF at
<1>7. ASSUME NEW i \in Nat PROVE at[i] = body(at, i)
  <2> HIDE DEF body
  <2> QED  BY <1>5
<1>8. at[0] = t.top  BY <1>7
<1>9. ASSUME NEW i \in Nat
      PROVE  at[i + 1] = IF at[i] = NULL THEN NULL ELSE NextNode(t, at[i])
  <2>1. i + 1 \in Nat /\ i + 1 # 0 /\ (i + 1) - 1 = i  OBVIOUS
  <2>2. at[i + 1] = body(at, i + 1)
    <3> HIDE DEF body
    <3> QED  BY <2>1, <1>7
  <2> QED  BY <2>1, <2>2
<1> DEFINE P == {i \in Nat : at[i] \in S}
<1>10. 0 \in P  BY <1>3, <1>8
<1>11. ASSUME NEW i \in Nat, i \in P PROVE i + 1 \in P
  <2>1. at[i] = NULL \/ at[i] \in t.used  BY <1>11
  <2> QED  BY <2>1, <1>2, <1>9
<1>12. \A i \in Nat : i \in P
  <2> HIDE DEF P
  <2> QED  BY <1>10, <1>11, Induction
<1> QED  BY <1>6, <1>8, <1>9, <1>12

(* The loop comes to every node once, and then ends. *)
LEMMA WalkCorrect ==
  ASSUME NEW t \in Table, Linked(t), IsFiniteSet(t.used)
  PROVE  Walked(t) = t.used /\ Walk(t)[Cardinality(t.used)] = NULL
<1> DEFINE at(i) == Walk(t)[i]
           W(i) == {at(j) : j \in 0 .. (i - 1)} \ {NULL}
           Claim(i) ==
             IF at(i) = NULL THEN W(i) = t.used
             ELSE /\ at(i) \in t.used /\ W(i) \subseteq t.used
                  /\ \A k \in t.used : k \in W(i) <=> Before(k, at(i))
                  /\ IsFiniteSet(W(i)) /\ Cardinality(W(i)) = i
           P == {i \in Nat : Claim(i)}
<1>1. t.used \subseteq Key /\ \A k \in t.used : k \in Key /\ k # NULL  BY KeyBits DEF Table
<1>2. at(0) = t.top /\ \A i \in Nat : /\ at(i) \in t.used \cup {NULL}
                                      /\ at(i + 1) = IF at(i) = NULL THEN NULL ELSE NextNode(t, at(i))
  BY WalkSteps
<1> HIDE DEF at
<1>3. W(0) = {}  OBVIOUS
<1>4. ASSUME NEW i \in Nat PROVE W(i + 1) = W(i) \cup ({at(i)} \ {NULL})
  <2>1. 0 .. ((i + 1) - 1) = (0 .. (i - 1)) \cup {i}  OBVIOUS
  <2> QED  BY <2>1
<1>5. ASSUME NEW n \in t.used PROVE ~ Before(n, n)
  <2>1. Covers(n, n)  BY <1>1, CoversOrder
  <2> QED  BY <2>1, <1>1, LeftFacts DEF Before
<1> HIDE DEF W
<1>6. Claim(0)
  <2>1. CASE t.top = NULL
    BY <2>1, <1>2, <1>3 DEF Linked
  <2>2. CASE t.top # NULL
    <3>1. t.top \in t.used /\ t.top \in Key  BY <2>2, <1>1 DEF Linked
    <3>2. ASSUME NEW k \in t.used PROVE ~ Before(k, t.top)
      <4>1. Covers(t.top, k) /\ k \in Key  BY <1>1, TopCovers
      <4>2. Len(t.top) <= Len(k)  BY <4>1, <3>1, CoversOrder
      <4>3. Covers(k, t.top) => k = t.top  BY <4>1, <4>2, <3>1, CoversOrder
      <4>4. ~ Left(k, t.top)  BY <4>1, <3>1, LeftFacts
      <4> QED  BY <4>3, <4>4 DEF Before
    <3>3. IsFiniteSet({}) /\ Cardinality({}) = 0  BY FS_EmptySet
    <3> QED  BY <2>2, <3>1, <3>2, <3>3, <1>2, <1>3
  <2> QED  BY <2>1, <2>2
<1>7. ASSUME NEW i \in Nat, Claim(i) PROVE Claim(i + 1)
  <2>1. CASE at(i) = NULL
    <3>1. at(i + 1) = NULL /\ W(i + 1) = W(i)  BY <2>1, <1>2, <1>4
    <3> QED  BY <3>1, <2>1, <1>7
  <2>2. CASE at(i) # NULL
    <3> DEFINE n == at(i)
               m == at(i + 1)
    <3>1. /\ n \in t.used /\ W(i) \subseteq t.used /\ \A k \in t.used : k \in W(i) <=> Before(k, n)
          /\ IsFiniteSet(W(i)) /\ Cardinality(W(i)) = i
      BY <2>2, <1>7
    <3>2. W(i + 1) = W(i) \cup {n}  BY <2>2, <1>4
    <3>3. m = NextNode(t, n)  BY <2>2, <1>2
    <3> HIDE DEF n, m
    <3>4. IF m = NULL THEN \A k \in t.used : Before(k, n) \/ k = n
          ELSE m \in t.used /\ \A k \in t.used : Before(k, m) <=> Before(k, n) \/ k = n
      BY <3>1, <3>3, NextInOrder
    <3>5. W(i + 1) \subseteq t.used /\ \A k \in t.used : k \in W(i + 1) <=> Before(k, n) \/ k = n
      BY <3>1, <3>2
    <3>6. n \notin W(i)  BY <3>1, <1>5
    <3>7. IsFiniteSet(W(i + 1)) /\ Cardinality(W(i + 1)) = i + 1
      BY <3>1, <3>2, <3>6, FS_AddElement
    <3>8. CASE m = NULL
      <4>1. W(i + 1) = t.used  BY <3>4, <3>5, <3>8
      <4> QED  BY <4>1, <3>8 DEF m
    <3>9. CASE m # NULL
      <4>1. m \in t.used /\ \A k \in t.used : k \in W(i + 1) <=> Before(k, m)
        BY <3>4, <3>5, <3>9
      <4> QED  BY <4>1, <3>5, <3>7, <3>9 DEF m
    <3> QED  BY <3>8, <3>9
  <2> QED  BY <2>1, <2>2
<1>8. \A i \in Nat : i \in P
  <2> HIDE DEF Claim
  <2>1. 0 \in P  BY <1>6
  <2>2. \A i \in Nat : i \in P => i + 1 \in P  BY <1>7
  <2> HIDE DEF P
  <2> QED  BY <2>1, <2>2, Induction
<1> DEFINE N == Cardinality(t.used)
<1>9. N \in Nat  BY FS_CardinalityType
<1>10. Claim(N)
  <2> HIDE DEF Claim
  <2> QED  BY <1>8, <1>9
<1>11. at(N) = NULL
  <2> SUFFICES ASSUME at(N) # NULL PROVE FALSE  OBVIOUS
  <2>1. /\ at(N) \in t.used /\ W(N) \subseteq t.used /\ IsFiniteSet(W(N)) /\ Cardinality(W(N)) = N
        /\ (at(N) \in W(N) <=> Before(at(N), at(N)))
    BY <1>10
  <2>2. at(N) \notin W(N)  BY <2>1, <1>5
  <2>3. W(N) = t.used
    <3> HIDE DEF W
    <3> QED  BY <2>1, FS_Subset
  <2> QED  BY <2>1, <2>2, <2>3
<1>12. W(N) = t.used  BY <1>10, <1>11
<1>13. Walked(t) = W(N + 1)
  <2>1. (N + 1) - 1 = N  BY <1>9
  <2> QED  BY <2>1 DEF Walked, W, at
<1>14. W(N + 1) = W(N)  BY <1>4, <1>9, <1>11
<1> QED  BY <1>11, <1>12, <1>13, <1>14 DEF at

-----------------------------------------------------------------------------
(* IInv holds in every state that can be reached.                          *)
LEMMA IInvAlways == Spec => []IInv
<1> QED  BY InitIInv, NextIInv, PTL DEF Spec

(* Every variable keeps its type, for every set of prefixes and next hops: *)
(* no lock goes below zero, and every link is NULL or a prefix of a route  *)
(* (route_table_unlock, set_link, route_node_delete).                      *)
THEOREM TypeCorrect == Spec => []TypeOK
<1>1. IInv => TypeOK  BY DEF IInv
<1> QED  BY <1>1, IInvAlways, PTL

(* Whatever prefixes RPL learns and forgets, in whatever order, the tree   *)
(* stays a radix tree without stubs, a walk comes to each of its nodes     *)
(* exactly once and ends, no assertion of route_node_delete fails, and the *)
(* walk of kernel_route_update never stands on a node that is free.        *)
THEOREM TreeCorrect == Spec => []TreeOK
<1>1. IInv => TreeOK
  <2> SUFFICES ASSUME IInv PROVE TreeOK  OBVIOUS
  <2>1. Sound(table) /\ Stands(table, cursor)  BY DEF IInv
  <2>2. /\ table \in Table /\ WellFormed(table) /\ ~ table.failed
        /\ Linked(table) /\ IsFiniteSet(table.used)
    BY <2>1 DEF Sound, WellFormed
  <2>3. WalkComplete  BY <2>2, WalkCorrect DEF WalkComplete
  <2>4. cursor # NULL => cursor \in table.used  BY <2>1 DEF Stands
  <2> QED  BY <2>2, <2>3, <2>4 DEF TreeOK
<1> QED  BY <1>1, IInvAlways, PTL

-----------------------------------------------------------------------------
(* What the steps do to the routes the tree holds, where no split is made  *)
(* below the top: each changes one route at most.                          *)
Routes(t) == {k \in t.used : t.node[k].info # NULL}

SameRoute(m, n) == n.info = m.info /\ n.status = m.status /\ n.lock = m.lock

OthersKept(t, u, p) ==
  \A k \in Key \ {p} : /\ k \in Routes(u) <=> k \in Routes(t)
                       /\ k \in Routes(t) => SameRoute(t.node[k], u.node[k])

(* route_node_lookup finds the prefixes that have a route. *)
LEMMA HasCorrect ==
  ASSUME NEW t \in Table, Linked(t), NEW p \in Key
  PROVE  Has(t, p) <=> p \in Routes(t)
<1> DEFINE w == Descend(t, p)
<1>1. \/ w.match = NULL /\ w.node = t.top /\ Stops(t.top, p)
      \/ Stopped(t, p, w)
  BY DescendCorrect
<1>2. Has(t, p) <=> w.node = p /\ t.node[p].info # NULL  BY DEF Has
<1> HIDE DEF w
<1>3. p # NULL /\ t.used \subseteq Key  BY KeyBits DEF Table
<1>4. CASE w.match = NULL /\ w.node = t.top /\ Stops(t.top, p)
  <2>1. w.node = p => p \in t.used  BY <1>3, <1>4 DEF Linked
  <2>2. p \in t.used => w.node = p
    <3> SUFFICES ASSUME p \in t.used PROVE w.node = p  OBVIOUS
    <3>1. Covers(t.top, p) /\ t.top \in Key  BY TopCovers
    <3>2. t.top # NULL  BY <3>1, KeyBits
    <3> QED  BY <3>1, <3>2, <1>4 DEF Stops
  <2> QED  BY <2>1, <2>2, <1>2 DEF Routes
<1>5. CASE Stopped(t, p, w)
  <2> DEFINE m == w.match
             b == Bit(p, Len(m))
  <2>1. /\ m \in t.used /\ m \in Above(p) /\ Stops(w.node, p) /\ w.node = t.node[m].link[b]
    BY <1>5 DEF Stopped
  <2>2. m # p /\ Covers(m, p) /\ b \in {0, 1}  BY <2>1, AboveFacts
  <2> HIDE DEF m
  <2>3. w.node = p => p \in t.used
    <3> SUFFICES ASSUME t.node[m].link[b] # NULL PROVE t.node[m].link[b] \in t.used
      BY <2>1, <1>3
    <3> QED  BY <2>1, <2>2, ChildFacts
  <2>4. p \in t.used => w.node # NULL /\ Covers(w.node, p)  BY <2>1, <2>2, Subtree
  <2>5. p \in t.used => w.node = p  BY <2>1, <2>4 DEF Stops
  <2> QED  BY <2>3, <2>5, <1>2 DEF Routes
<1> QED  BY <1>1, <1>4, <1>5

(* The table after br_init or br_poll has looked at a route. *)
LEMMA MarkedRoutes ==
  ASSUME NEW t, Sound(t), NEW p \in Prefix, NEW hop \in Hop, NEW status \in Status,
         SplitsOnTop(t, p),
         NEW w, w = [GetNode(t, p) EXCEPT !.node[p] = SetRoute(@, hop, status)]
  PROVE  LET u == Scrub(w)
         IN  /\ OthersKept(t, u, p) /\ p \in Routes(u)
             /\ u.node[p].info = hop /\ u.node[p].status = status
             /\ u.node[p].lock = (IF p \in Routes(t) THEN t.node[p].lock ELSE 0) + 1
<1> DEFINE v == GetNode(t, p)
           u == Scrub(w)
<1>1. p \in Key /\ hop # NULL  BY PrefixIsKey, NullAssumption
<1>2. Got(t, v, p) /\ t.used \subseteq v.used
  <2>1. t \in Table /\ WellFormed(t)  BY DEF Sound
  <2> QED  BY <2>1, <1>1, GetNodeCorrect
<1>3. Sound(w) /\ RouteSet(v, p, hop, status, w)  BY MarkedSound
<1> HIDE DEF v
<1>4. /\ v \in Table /\ p \in v.used
      /\ \A k \in v.used :
           \/ /\ k \in t.used /\ v.node[k].info = t.node[k].info
              /\ v.node[k].lock = t.node[k].lock /\ v.node[k].status = t.node[k].status
           \/ k \notin t.used /\ v.node[k].info = NULL /\ v.node[k].lock = 0
  BY <1>2 DEF Got
<1>5. /\ w \in Table /\ w.used = v.used /\ \A k \in Key \ {p} : w.node[k] = v.node[k]
      /\ w.node[p].info = hop /\ w.node[p].status = status /\ w.node[p].lock = v.node[p].lock + 1
  BY <1>3 DEF RouteSet
<1>6. u.used = w.used /\ \A k \in w.used : u.node[k] = w.node[k]  BY <1>5, ScrubFields
<1> HIDE DEF u
<1>7. \A k \in t.used : t.node[k].info = NULL => t.node[k].lock = 0  BY DEF Sound, NodesOK
<1>8. v.node[p].lock = IF p \in Routes(t) THEN t.node[p].lock ELSE 0
  BY <1>4, <1>7 DEF Routes
<1>9. p \in Routes(u)  BY <1>1, <1>4, <1>5, <1>6 DEF Routes
<1>10. ASSUME NEW k \in Key \ {p}
       PROVE  /\ k \in Routes(u) <=> k \in Routes(t)
              /\ k \in Routes(t) => SameRoute(t.node[k], u.node[k])
  <2>1. w.node[k] = v.node[k]  BY <1>5
  <2>2. k \in v.used => u.node[k] = v.node[k]  BY <2>1, <1>5, <1>6
  <2>3. k \in Routes(u) <=> k \in v.used /\ v.node[k].info # NULL  BY <2>2, <1>5, <1>6 DEF Routes
  <2>4. k \in t.used => k \in v.used  BY <1>2
  <2>5. k \in v.used /\ v.node[k].info # NULL => k \in Routes(t)  BY <1>4 DEF Routes
  <2>6. k \in Routes(t) => SameRoute(t.node[k], v.node[k]) /\ v.node[k].info # NULL
    BY <2>4, <1>4 DEF Routes, SameRoute
  <2>7. k \in Routes(t) => k \in v.used  BY <2>4 DEF Routes
  <2> QED  BY <2>2, <2>3, <2>5, <2>6, <2>7
<1>11. p \in w.used  BY <1>4, <1>5
<1> QED  BY <1>5, <1>6, <1>8, <1>9, <1>10, <1>11 DEF OthersKept, u

(* One lock less on every route, until there is none. *)
LEMMA UnlockRoutes ==
  ASSUME NEW t, Sound(t)
  PROVE  LET u == UnlockAll(t)
         IN  /\ Routes(u) = Routes(t)
             /\ \A k \in Routes(t) :
                  /\ u.node[k].info = t.node[k].info /\ u.node[k].status = t.node[k].status
                  /\ u.node[k].lock = IF t.node[k].lock > 0 THEN t.node[k].lock - 1 ELSE 0
<1> DEFINE node == [k \in Key |-> IF k \in Walked(t) /\ t.node[k].lock > 0
                                  THEN Unlock(t.node[k]) ELSE t.node[k]]
           u == UnlockAll(t)
<1>1. t \in Table /\ Linked(t) /\ IsFiniteSet(t.used) /\ t.used \subseteq Key
  BY DEF Sound, WellFormed, Table
<1>2. Walked(t) = t.used  BY <1>1, WalkCorrect
<1>3. u = [t EXCEPT !.node = node]  BY DEF UnlockAll
<1> HIDE DEF u
<1>4. u.used = t.used /\ u.node = node
  <2> HIDE DEF node
  <2> QED  BY <1>1, <1>3 DEF Table
<1>5. ASSUME NEW k \in t.used
      PROVE  /\ u.node[k].info = t.node[k].info /\ u.node[k].status = t.node[k].status
             /\ u.node[k].lock = IF t.node[k].lock > 0 THEN t.node[k].lock - 1 ELSE 0
  <2> DEFINE m == t.node[k]
  <2>1. m \in Node /\ k \in Key  BY <1>1 DEF Table
  <2>2. u.node[k] = IF m.lock > 0 THEN Unlock(m) ELSE m  BY <2>1, <1>2, <1>4
  <2> HIDE DEF m
  <2>3. /\ Unlock(m).info = m.info /\ Unlock(m).status = m.status /\ Unlock(m).lock = m.lock - 1
    BY <2>1 DEF Unlock, Node
  <2>4. m.lock \in Nat  BY <2>1 DEF Node
  <2> QED  BY <2>2, <2>3, <2>4 DEF m
<1> HIDE DEF node
<1>6. Routes(u) = Routes(t)  BY <1>4, <1>5 DEF Routes
<1>7. \A k \in Routes(t) : k \in t.used  BY DEF Routes
<1> QED  BY <1>5, <1>6, <1>7 DEF u

(* A withdrawn route is gone, and no other; the walk goes on after it. *)
LEMMA AfterWithdrawRoutes ==
  ASSUME NEW t, Sound(t), NEW n \in t.used, Held(t, n), t.node[n].lock = 0
  PROVE  LET u == AfterWithdraw(t, n)
             m == NextNode(u, n)
         IN  /\ OthersKept(t, Scrub(u), n) /\ n \notin Routes(Scrub(u))
             /\ m # NULL => m \in u.used /\ Before(n, m)
<1> DEFINE s == [t EXCEPT !.node[n].info = NULL]
           u == Delete(s, n)
           m == NextNode(u, n)
           c == Child(s.node[n])
           v == Scrub(u)
<1>1. /\ Deletable(s, n) /\ s.used = t.used /\ s.node[n].info = NULL
      /\ \A a \in t.used : a # n => s.node[a] = t.node[a]
  BY WithdrawnDeletable
<1>2. u = AfterWithdraw(t, n)  BY DEF AfterWithdraw
<1> HIDE DEF s
<1>3. Deleted(s, n, u)  BY <1>1, DeleteCorrect
<1> HIDE DEF u
<1>4. /\ u \in Table /\ Linked(u) /\ u.used \subseteq t.used
      /\ \A a \in t.used \ u.used : s.node[a].info = NULL
      /\ \A a \in Key : /\ u.node[a].info = s.node[a].info /\ u.node[a].lock = s.node[a].lock
                        /\ u.node[a].status = s.node[a].status
      /\ n \in u.used => u = s
      /\ u.node[n].link = s.node[n].link
      /\ n \notin u.used => /\ Rises(u, n, Climb(u, n))
                            /\ c # NULL => c \in u.used
  BY <1>1, <1>3 DEF Deleted, WellFormed
<1>5. /\ s \in Table /\ Linked(s) /\ n \in Key /\ t.used \subseteq Key /\ u.used \subseteq Key
  BY <1>1, <1>4 DEF Deletable, Table
<1>6. v.used = u.used /\ \A a \in u.used : v.node[a] = u.node[a]  BY <1>4, ScrubFields
<1> HIDE DEF v
<1>7. n \notin Routes(v)  BY <1>1, <1>4, <1>5, <1>6 DEF Routes
<1>8. ASSUME NEW a \in Key \ {n}
      PROVE  /\ a \in Routes(v) <=> a \in Routes(t)
             /\ a \in Routes(t) => SameRoute(t.node[a], v.node[a])
  <2>1. a \in t.used =>
          u.node[a].info = t.node[a].info /\ u.node[a].lock = t.node[a].lock
          /\ u.node[a].status = t.node[a].status
    BY <1>1, <1>4
  <2>2. a \in t.used /\ a \notin u.used => t.node[a].info = NULL  BY <1>1, <1>4
  <2>3. a \in Routes(v) <=> a \in u.used /\ u.node[a].info # NULL  BY <1>6 DEF Routes
  <2>4. a \in Routes(t) <=> a \in t.used /\ t.node[a].info # NULL  BY DEF Routes
  <2>5. a \in u.used => v.node[a] = u.node[a] /\ a \in t.used  BY <1>4, <1>6
  <2>6. a \in Routes(v) <=> a \in Routes(t)  BY <2>1, <2>2, <2>3, <2>4, <2>5
  <2> QED  BY <2>1, <2>3, <2>5, <2>6 DEF SameRoute
<1>9. m # NULL => m \in u.used /\ Before(n, m)
  <2>1. CASE n \in u.used
    <3> DEFINE k == NextNode(u, n)
    <3>1. IF k = NULL THEN \A a \in u.used : Before(a, n) \/ a = n
          ELSE k \in u.used /\ \A a \in u.used : Before(a, k) <=> Before(a, n) \/ a = n
      BY <2>1, <1>4, NextInOrder
    <3> HIDE DEF k
    <3>2. k # NULL => k \in u.used /\ Before(n, k)  BY <2>1, <3>1
    <3> QED  BY <3>2 DEF k
  <2>2. CASE n \notin u.used
    <3>1. Child(u.node[n]) = c  BY <1>4 DEF Child
    <3>2. CASE c = NULL
      <4>1. m = Climb(u, n)  BY <3>1, <3>2 DEF NextNode
      <4> HIDE DEF m
      <4> QED  BY <4>1, <2>2, <1>4 DEF Rises, Onward, Before
    <3>3. CASE c # NULL
      <4>1. m = c  BY <3>1, <3>3 DEF NextNode
      <4>2. PICK b \in {0, 1} : c = s.node[n].link[b]  BY DEF Child
      <4> HIDE DEF m
      <4>3. s.node[n].link[b] # NULL /\ n \in s.used  BY <4>2, <3>3, <1>1
      <4>4. Len(n) < Len(s.node[n].link[b]) /\ Covers(n, s.node[n].link[b])
        BY <4>3, <1>5, ChildFacts
      <4> HIDE DEF c
      <4>5. Covers(n, c) /\ n # c
        <5>1. Len(n) \in Nat  BY <1>5, KeyBits
        <5> QED  BY <5>1, <4>2, <4>4
      <4> QED  BY <4>1, <4>5, <2>2, <3>3, <1>4 DEF Before
    <3> QED  BY <3>2, <3>3
  <2> QED  BY <2>1, <2>2
<1> HIDE DEF m
<1> QED  BY <1>2, <1>7, <1>8, <1>9 DEF OthersKept, v, m

(* A node does not come before itself, and the order is transitive. *)
LEMMA BeforeOrder ==
  /\ \A k \in Key : ~ Before(k, k)
  /\ \A k, n, m \in Key : Before(k, n) /\ Before(n, m) => Before(k, m)
<1>1. ASSUME NEW k \in Key PROVE ~ Before(k, k)
  <2>1. Covers(k, k)  BY CoversOrder
  <2> QED  BY <2>1, LeftFacts DEF Before
<1>2. ASSUME NEW k \in Key, NEW n \in Key, NEW m \in Key, Before(k, n), Before(n, m)
      PROVE  Before(k, m)
  <2>1. Len(k) \in Nat /\ Len(n) \in Nat /\ Len(m) \in Nat  BY KeyBits
  <2>2. CASE Covers(k, n) /\ k # n /\ Covers(n, m) /\ n # m
    <3>1. Covers(k, m)  BY <2>2, CoversOrder
    <3>2. Len(k) <= Len(n)  BY <2>2, CoversOrder
    <3>3. k = m => n = m  BY <2>2, <3>2, CoversOrder
    <3> QED  BY <2>2, <3>1, <3>3 DEF Before
  <2>3. CASE Covers(k, n) /\ k # n /\ Left(n, m)
    <3>1. PICK c \in Key : /\ Covers(c, n) /\ Covers(c, m) /\ Len(c) < Len(n) /\ Len(c) < Len(m)
                           /\ Bit(n, Len(c)) = 0 /\ Bit(m, Len(c)) = 1
      BY <2>3 DEF Left
    <3>2. Len(c) \in Nat  BY KeyBits
    <3>3. CASE Len(k) <= Len(c)
      <4>1. Covers(k, c)  BY <2>3, <3>1, <3>3, CoversOrder
      <4>2. Covers(k, m)  BY <4>1, <3>1, CoversOrder
      <4>3. k # m  BY <2>1, <3>1, <3>2, <3>3
      <4> QED  BY <4>2, <4>3 DEF Before
    <3>4. CASE Len(c) < Len(k)
      <4>1. Covers(c, k)  BY <2>1, <2>3, <3>1, <3>2, <3>4, CoversOrder
      <4>2. Bit(k, Len(c)) = 0  BY <2>3, <3>1, <3>2, <3>4, BitOfKey
      <4>3. Left(k, m)  BY <4>1, <4>2, <3>1, <3>4 DEF Left
      <4> QED  BY <4>3 DEF Before
    <3> QED  BY <2>1, <3>2, <3>3, <3>4
  <2>4. CASE Left(k, n) /\ Covers(n, m)
    BY <2>4, LeftFacts DEF Before
  <2>5. CASE Left(k, n) /\ Left(n, m)
    <3>1. PICK c \in Key : /\ Covers(c, k) /\ Covers(c, n) /\ Len(c) < Len(k) /\ Len(c) < Len(n)
                           /\ Bit(k, Len(c)) = 0 /\ Bit(n, Len(c)) = 1
      BY <2>5 DEF Left
    <3>2. PICK d \in Key : /\ Covers(d, n) /\ Covers(d, m) /\ Len(d) < Len(n) /\ Len(d) < Len(m)
                           /\ Bit(n, Len(d)) = 0 /\ Bit(m, Len(d)) = 1
      BY <2>5 DEF Left
    <3>3. Len(c) \in Nat /\ Len(d) \in Nat  BY KeyBits
    <3>4. CASE Len(c) < Len(d)
      <4>1. Covers(c, d)  BY <3>1, <3>2, <3>3, <3>4, CoversOrder
      <4>2. Covers(c, m) /\ Len(c) < Len(m)  BY <4>1, <3>2, <3>3, <3>4, <2>1, CoversOrder
      <4>3. Bit(m, Len(c)) = Bit(d, Len(c)) /\ Bit(n, Len(c)) = Bit(d, Len(c))
        BY <3>2, <3>3, <3>4, BitOfKey
      <4>4. Left(k, m)  BY <4>2, <4>3, <3>1 DEF Left
      <4> QED  BY <4>4 DEF Before
    <3>5. CASE Len(d) < Len(c)
      <4>1. Covers(d, c)  BY <3>1, <3>2, <3>3, <3>5, CoversOrder
      <4>2. Covers(d, k) /\ Len(d) < Len(k)  BY <4>1, <3>1, <3>3, <3>5, <2>1, CoversOrder
      <4>3. Bit(k, Len(d)) = Bit(c, Len(d)) /\ Bit(n, Len(d)) = Bit(c, Len(d))
        BY <3>1, <3>3, <3>5, BitOfKey
      <4>4. Left(k, m)  BY <4>2, <4>3, <3>2 DEF Left
      <4> QED  BY <4>4 DEF Before
    <3>6. CASE Len(c) = Len(d)
      <4>1. Covers(c, d)  BY <3>1, <3>2, <3>3, <3>6, CoversOrder
      <4>2. c = d  BY <4>1, <3>3, <3>6, CoversOrder
      <4> QED  BY <4>2, <3>1, <3>2
    <3> QED  BY <3>3, <3>4, <3>5, <3>6
  <2> QED  BY <1>2, <2>2, <2>3, <2>4, <2>5 DEF Before
<1> QED  BY <1>1, <1>2

(* One lock more on a route a former run left. *)
LEMMA HoldKernelRoutes ==
  ASSUME NEW t, Sound(t), NEW n \in t.used, t.node[n].info # NULL
  PROVE  LET u == HoldKernel(t, n)
         IN  /\ OthersKept(t, u, n) /\ n \in Routes(u) /\ u.used = t.used /\ t.node[n].lock \in Nat
             /\ u.node[n].info = t.node[n].info /\ u.node[n].status = t.node[n].status
             /\ u.node[n].lock = t.node[n].lock + 1
<1> DEFINE u == HoldKernel(t, n)
           m == [t.node[n] EXCEPT !.lock = @ + 1]
<1>1. t \in Table /\ t.node \in [Key -> Node] /\ n \in Key /\ t.used \subseteq Key
  BY DEF Sound, Table
<1>2. t.node[n] \in Node /\ t.node[n].lock \in Nat  BY <1>1, NodeTypes
<1>3. m.info = t.node[n].info /\ m.status = t.node[n].status /\ m.lock = t.node[n].lock + 1
  BY <1>2 DEF Node
<1>4. u = [t EXCEPT !.node[n] = m]  BY DEF HoldKernel
<1> HIDE DEF u, m
<1>5. u.used = t.used /\ u.node = [t.node EXCEPT ![n] = m]  BY <1>1, <1>4 DEF Table
<1>6. u.node[n] = m /\ \A k \in Key \ {n} : u.node[k] = t.node[k]  BY <1>1, <1>5
<1>7. OthersKept(t, u, n)  BY <1>5, <1>6 DEF OthersKept, Routes, SameRoute
<1>8. n \in Routes(u)  BY <1>3, <1>5, <1>6 DEF Routes
<1> QED  BY <1>2, <1>3, <1>5, <1>6, <1>7, <1>8 DEF u

LEMMA RoutesArePrefixes ==
  ASSUME NEW t, Sound(t), NEW k \in Routes(t)
  PROVE  /\ k \in Prefix /\ k \in Key /\ k \in t.used /\ k # NULL
         /\ t.node[k].info \in Hop /\ t.node[k].info # NULL
         /\ t.node[k].lock \in Nat /\ t.node[k].status \in Status
<1>1. t \in Table /\ k \in t.used /\ k \in Prefix /\ t.node[k].info # NULL
  BY DEF Routes, Sound, NodesOK
<1>2. k \in Key /\ k # NULL  BY <1>1, PrefixIsKey
<1> QED  BY <1>1, <1>2, NodeTypes

(* A delete takes out the only route of the prefix. *)
OneHop(f) == \A r, s \in f : r[1] = s[1] => r = s

LEMMA KernelDeleteOne ==
  ASSUME NEW f, OneHop(f), NEW p, NEW g \in KernelDelete(f, p)
  PROVE  g = {r \in f : r[1] # p}
<1> DEFINE of == {r \in f : r[1] = p}
<1>1. g \in IF of = {} THEN {f} ELSE {f \ {r} : r \in of}  BY DEF KernelDelete
<1>2. CASE of = {}
  BY <1>1, <1>2
<1>3. CASE of # {}
  <2>1. PICK r \in of : g = f \ {r}  BY <1>1, <1>3
  <2>2. \A s \in of : s = r  BY <2>1 DEF OneHop
  <2> QED  BY <2>1, <2>2
<1> QED  BY <1>2, <1>3

-----------------------------------------------------------------------------
(* What a visit does to the routes: the walk leaves a locked node behind,  *)
(* or takes out the one it stands on.                                      *)
Seen(k) == cursor = NULL \/ Before(k, cursor)

LeftLive(t, f, n) ==
  /\ t.node[n].lock > 0 /\ table' = t /\ fib' = f
  /\ \A k \in Routes(t) : Seen(k)' <=> Before(k, n) \/ k = n

LeftGone(t, f, n) ==
  /\ t.node[n].lock = 0 /\ OthersKept(t, table', n) /\ n \notin Routes(table')
  /\ fib' = {r \in f : r[1] # n}
  /\ \A k \in Key : Before(k, n) => Seen(k)'

LEMMA LeaveRoutes ==
  ASSUME NEW t, Sound(t), NEW n \in Routes(t), Held(t, n), NEW f, OneHop(f), Leave(t, f, n)
  PROVE  LeftLive(t, f, n) \/ LeftGone(t, f, n)
<1>1. /\ t \in Table /\ Linked(t) /\ n \in t.used /\ n \in Key /\ t.node[n].lock \in Nat
      /\ t.used \subseteq Key
  BY RoutesArePrefixes DEF Sound, WellFormed, Table
<1>2. CASE t.node[n].lock > 0
  <2> DEFINE m == NextNode(t, n)
  <2>1. table' = t /\ fib' = f /\ cursor' = m  BY <1>2 DEF Leave
  <2>2. IF m = NULL THEN \A k \in t.used : Before(k, n) \/ k = n
        ELSE m \in t.used /\ \A k \in t.used : Before(k, m) <=> Before(k, n) \/ k = n
    BY <1>1, NextInOrder
  <2> HIDE DEF m
  <2>3. \A k \in Routes(t) : Seen(k)' <=> Before(k, n) \/ k = n
    BY <2>1, <2>2 DEF Seen, Routes
  <2> QED  BY <2>1, <2>3, <1>2 DEF LeftLive
<1>3. CASE ~ (t.node[n].lock > 0)
  <2> DEFINE u == AfterWithdraw(t, n)
             m == NextNode(u, n)
  <2>1. table' = Scrub(u) /\ fib' \in KernelDelete(f, n) /\ cursor' = m
    BY <1>3 DEF Leave
  <2>2. t.node[n].lock = 0  BY <1>1, <1>3
  <2>3. /\ OthersKept(t, Scrub(u), n) /\ n \notin Routes(Scrub(u))
        /\ m # NULL => m \in u.used /\ Before(n, m)
    BY <2>2, <1>1, AfterWithdrawRoutes
  <2>4. Sound(u)  BY <2>2, <1>1, AfterWithdrawSound
  <2> HIDE DEF u, m
  <2>5. u.used \subseteq Key  BY <2>4 DEF Sound, Table
  <2>6. fib' = {r \in f : r[1] # n}  BY <2>1, KernelDeleteOne
  <2>7. \A k \in Key : Before(k, n) => Seen(k)'
    BY <2>1, <2>3, <2>5, <1>1, BeforeOrder DEF Seen
  <2> QED  BY <2>1, <2>2, <2>3, <2>6, <2>7 DEF LeftGone
<1> QED  BY <1>2, <1>3

-----------------------------------------------------------------------------
(* The mirror, where no split is made below the top: what the kernel, the  *)
(* tree and the learned routes have to do with each other at every step.   *)
OnTop ==
  Load \/ Sync => \E r \in todo : todo' = todo \ {r} /\ SplitsOnTop(table, r[1])

R == Routes(table)
Told(k) == <<k, table.node[k].info>> \in fib

(* A learned route that br_poll has marked, and one it left alone. *)
Marked(p) ==
  p \in R /\ table.node[p].info = ds6[p] /\ table.node[p].status # "KERNEL"
          /\ table.node[p].lock = 1
Agrees(p) ==
  ds6[p] = IF p \in R /\ table.node[p].status # "KERNEL" THEN table.node[p].info ELSE NULL

(* br_init: the routes of the dump are in the tree or still to come. *)
Loading ==
  pc = "load" =>
    /\ \A p \in Prefix : ds6[p] = NULL
    /\ todo \subseteq fib
    /\ \A r \in fib : r \in todo \/ (r[1] \in R /\ table.node[r[1]].info = r[2])
    /\ \A k \in R : /\ table.node[k].status = "KERNEL"
                    /\ Told(k) /\ <<k, table.node[k].info>> \notin todo

Syncing ==
  /\ pc = "sync" => /\ todo \subseteq {<<p, ds6[p]>> : p \in Learned}
                    /\ \A p \in Learned : <<p, ds6[p]>> \in todo \/ Marked(p)
  /\ pc \in {"update", "recreate"} => \A p \in Learned : Marked(p)

(* A route is locked once by being learned, or by being a former run's. *)
Locking ==
  /\ \A k \in R : table.node[k].lock <= 1
  /\ pc = "sync" =>
       \A k \in R : table.node[k].lock = 1 => k \in Learned /\ <<k, ds6[k]>> \notin todo
  /\ pc \in {"update", "recreate"} =>
       \A k \in R : table.node[k].lock = 1 => k \in Learned \/ Seen(k)

(* The kernel has routes of the tree only, and the one of a created node. *)
Marks ==
  pc # "load" =>
    /\ \A r \in fib : r[1] \in R
    /\ \A k \in R : /\ table.node[k].status # "NONE"
                    /\ table.node[k].status = "CREATED" =>
                         \A r \in fib : r[1] = k => r[2] = table.node[k].info
    /\ pc = "recreate" => /\ table.node[cursor].status = "MODIFIED"
                          /\ \A r \in fib : r[1] # cursor

CalmIdle ==
  calm /\ pc = "idle" =>
    /\ \A k \in R : Told(k)
    /\ \E x \in Prefix \cup {NULL} : \A p \in Prefix \ {x} : Agrees(p)
    /\ changes = 0 => \A p \in Prefix : Agrees(p)

(* One route x at most differs from what the last poll left. *)
SyncedBut(x) ==
  /\ \A p \in Prefix \ {x} : Agrees(p)
  /\ \A k \in R :
       /\ table.node[k].lock = 0 => Told(k)
       /\ table.node[k].lock = 1 =>
            /\ table.node[k].status = "UPDATED" => Told(k)
            /\ table.node[k].status = "MODIFIED" => ~ Told(k)
            /\ k # x => table.node[k].status = "UPDATED"

CalmSync ==
  calm /\ pc = "sync" => \E x \in Prefix \cup {NULL} : SyncedBut(x)

MirrorsBut(x) ==
  \A p \in Prefix \ {x} :
    Agrees(p) /\ (p \in R => Told(p) /\ table.node[p].status \in {"UPDATED", "KERNEL"})

Changing(x) ==
  x \in R =>
    /\ Seen(x) => Told(x) /\ (x \in Learned \/ table.node[x].status = "KERNEL")
    /\ ~ Seen(x) => /\ table.node[x].status = "KERNEL" => Told(x)
                    /\ x \in Learned => /\ table.node[x].status = "UPDATED" => Told(x)
                                        /\ table.node[x].status = "MODIFIED" => ~ Told(x)

CalmUpdate ==
  calm /\ pc \in {"update", "recreate"} =>
    \E x \in Prefix \cup {NULL} : MirrorsBut(x) /\ Changing(x)

MInv ==
  /\ IInv /\ OneHop(fib) /\ Loading /\ Syncing /\ Locking /\ Marks
  /\ CalmIdle /\ CalmSync /\ CalmUpdate

-----------------------------------------------------------------------------
LEMMA NoRoutes == Routes(EmptyTable) = {}
BY DEF Routes, EmptyTable

LEMMA InitMInv == Init => MInv
<1> SUFFICES ASSUME Init PROVE MInv  OBVIOUS
<1>1. IInv /\ R = {} /\ fib = {} /\ pc = "load" /\ todo = {} /\ \A p \in Prefix : ds6[p] = NULL
  BY InitIInv, NoRoutes DEF Init, R
<1> QED  BY <1>1 DEF MInv, OneHop, Loading, Syncing, Locking, Marks, CalmIdle, CalmSync, CalmUpdate

LEMMA CrashMInv == ASSUME MInv, IInv', Crash PROVE MInv'
<1>1. /\ fib' = fib /\ pc' = "load" /\ todo' = fib /\ ds6' = [p \in Prefix |-> NULL]
      /\ table' = EmptyTable
  BY DEF Crash
<1>2. R' = {}  BY <1>1, NoRoutes DEF R
<1>3. \A p \in Prefix : ds6'[p] = NULL  BY <1>1
<1> QED  BY <1>1, <1>2, <1>3 DEF MInv, OneHop, Loading, Syncing, Locking, Marks, CalmIdle,
  CalmSync, CalmUpdate

LEMMA LoadedMInv == ASSUME MInv, IInv', Loaded PROVE MInv'
<1>1. /\ pc = "load" /\ todo = {} /\ pc' = "idle"
      /\ UNCHANGED <<table, ds6, place, fib, todo, cursor, changes, calm>>
  BY DEF Loaded
<1>2. /\ \A p \in Prefix : ds6[p] = NULL
      /\ \A r \in fib : r[1] \in R
      /\ \A k \in R : table.node[k].status = "KERNEL" /\ Told(k)
  BY <1>1 DEF MInv, Loading
<1>3. R' = R /\ \A k \in R : Told(k)' <=> Told(k)  BY <1>1 DEF R, Told
<1>4. \A p \in Prefix : Agrees(p)'  BY <1>1, <1>2, <1>3 DEF Agrees
<1>5. Marks'  BY <1>1, <1>2, <1>3 DEF Marks
<1>6. CalmIdle'  BY <1>2, <1>3, <1>4 DEF CalmIdle
<1>7. Locking'  BY <1>1, <1>3 DEF MInv, Locking
<1> QED  BY <1>1, <1>5, <1>6, <1>7 DEF MInv, OneHop, Loading, Syncing, CalmSync, CalmUpdate

LEMMA ChangeMInv == ASSUME MInv, IInv', Learn \/ Forget PROVE MInv'
<1>1. PICK x \in Prefix, hop \in Hop \cup {NULL} : Change(x, hop)
  BY DEF Learn, Forget, Learned
<1>2. /\ pc = "idle" /\ ds6' = [ds6 EXCEPT ![x] = hop] /\ calm' = (calm /\ changes = 0)
      /\ changes' = changes + 1 /\ UNCHANGED <<table, fib, pc, todo, cursor>>
  BY <1>1 DEF Change
<1>3. \A p \in Prefix \ {x} : ds6'[p] = ds6[p]  BY <1>2 DEF MInv, IInv, TypeOK
<1>4. R' = R /\ \A k \in R : Told(k)' <=> Told(k)  BY <1>2 DEF R, Told
<1>5. ASSUME calm' PROVE calm /\ \A p \in Prefix \ {x} : Agrees(p)'
  <2>1. calm /\ \A p \in Prefix : Agrees(p)  BY <1>2, <1>5 DEF MInv, CalmIdle
  <2> QED  BY <2>1, <1>2, <1>3, <1>4 DEF Agrees
<1>6. changes' # 0  BY <1>2 DEF MInv, IInv, TypeOK
<1>7. CalmIdle'  BY <1>2, <1>4, <1>5, <1>6 DEF MInv, CalmIdle
<1>8. Marks'  BY <1>2, <1>4 DEF MInv, Marks
<1>9. Locking'  BY <1>2, <1>4 DEF MInv, Locking
<1> QED  BY <1>2, <1>7, <1>8, <1>9 DEF MInv, OneHop, Loading, Syncing, CalmSync, CalmUpdate

LEMMA PollMInv == ASSUME MInv, IInv', Poll PROVE MInv'
<1>1. /\ pc = "idle" /\ pc' = "sync" /\ table' = UnlockAll(table)
      /\ todo' = {<<p, ds6[p]>> : p \in Learned} /\ changes' = 0
      /\ UNCHANGED <<ds6, place, fib, cursor, calm>>
  BY DEF Poll
<1>2. /\ R' = R
      /\ \A k \in R : /\ table'.node[k].info = table.node[k].info
                      /\ table'.node[k].status = table.node[k].status
                      /\ table'.node[k].lock = IF table.node[k].lock > 0
                                               THEN table.node[k].lock - 1 ELSE 0
  BY <1>1, UnlockRoutes DEF MInv, IInv, R
<1>3. ASSUME NEW k \in R PROVE table'.node[k].lock = 0
  <2>1. table.node[k].lock \in Nat /\ table.node[k].lock <= 1
    BY RoutesArePrefixes DEF MInv, IInv, Locking, R
  <2> QED  BY <2>1, <1>2
<1>4. Learned' = Learned /\ \A k \in R : Told(k)' <=> Told(k)  BY <1>1, <1>2 DEF Learned, Told
<1>5. \A p \in Prefix : Agrees(p)' <=> Agrees(p)  BY <1>1, <1>2 DEF Agrees
<1>6. Marks'  BY <1>1, <1>2 DEF MInv, Marks
<1>7. Locking'  BY <1>1, <1>2, <1>3 DEF Locking
<1>8. Syncing'  BY <1>1, <1>4 DEF Syncing
<1>9. CalmSync'
  <2> SUFFICES ASSUME calm PROVE \E x \in Prefix \cup {NULL} : SyncedBut(x)'
    BY <1>1 DEF CalmSync
  <2>1. \A k \in R : Told(k)  BY <1>1 DEF MInv, CalmIdle
  <2>2. PICK x \in Prefix \cup {NULL} : \A p \in Prefix \ {x} : Agrees(p)
    BY <1>1 DEF MInv, CalmIdle
  <2>3. SyncedBut(x)'  BY <2>1, <2>2, <1>2, <1>3, <1>4, <1>5 DEF SyncedBut
  <2> QED  BY <2>3
<1> QED  BY <1>1, <1>6, <1>7, <1>8, <1>9 DEF MInv, OneHop, Loading, CalmIdle, CalmUpdate

(* What br_init or br_poll makes of the node it looked up. *)
Looked(p, hop, status) ==
  /\ OthersKept(table, table', p) /\ p \in R'
  /\ table'.node[p].info = hop /\ table'.node[p].status = status
  /\ table'.node[p].lock = (IF p \in R THEN table.node[p].lock ELSE 0) + 1

LEMMA LookedOthers ==
  ASSUME IInv, IInv', NEW p, NEW hop, NEW status, Looked(p, hop, status), UNCHANGED <<fib, ds6>>
  PROVE  /\ R' = R \cup {p} /\ R \subseteq Key
         /\ \A k \in R' \ {p} :
              /\ k \in R /\ table'.node[k].info = table.node[k].info /\ (Told(k)' <=> Told(k))
              /\ table'.node[k].status = table.node[k].status
              /\ table'.node[k].lock = table.node[k].lock
         /\ \A k \in Prefix \ {p} : Agrees(k)' <=> Agrees(k)
<1>1. Sound(table) /\ Sound(table')  BY DEF IInv
<1>2. R \subseteq Key /\ R' \subseteq Key  BY <1>1, RoutesArePrefixes DEF R
<1>3. \A k \in Key \ {p} : /\ k \in R' <=> k \in R
                           /\ k \in R => SameRoute(table.node[k], table'.node[k])
  BY DEF Looked, OthersKept, R
<1>4. p \in R'  BY DEF Looked
<1>5. R' = R \cup {p}  BY <1>2, <1>3, <1>4
<1>6. ASSUME NEW k \in R' \ {p}
      PROVE  /\ k \in R /\ table'.node[k].info = table.node[k].info
             /\ table'.node[k].status = table.node[k].status
             /\ table'.node[k].lock = table.node[k].lock
  BY <1>2, <1>3 DEF SameRoute
<1>7. \A k \in R' \ {p} : Told(k)' <=> Told(k)  BY <1>6 DEF Told
<1>8. \A k \in Prefix \ {p} : Agrees(k)' <=> Agrees(k)  BY <1>5, <1>6 DEF Agrees
<1> QED  BY <1>2, <1>5, <1>6, <1>7, <1>8

LEMMA LoadMInv == ASSUME MInv, IInv', Load, OnTop PROVE MInv'
<1>1. PICK r \in todo : table' = Scrub(FromKernel(table, r[1], r[2])) /\ todo' = todo \ {r}
  BY DEF Load
<1>2. pc = "load" /\ UNCHANGED <<ds6, place, fib, pc, cursor, changes, calm>>  BY DEF Load
<1>3. SplitsOnTop(table, r[1])
  <2>1. PICK s \in todo : todo' = todo \ {s} /\ SplitsOnTop(table, s[1])  BY DEF OnTop
  <2>2. s = r  BY <1>1, <2>1
  <2> QED  BY <2>1, <2>2
<1> DEFINE p == r[1]
           hop == r[2]
           w == FromKernel(table, p, hop)
<1>4. p \in Prefix /\ hop \in Hop /\ Sound(table) /\ "KERNEL" \in Status /\ r = <<p, hop>>
  BY DEF MInv, IInv, TypeOK, Status
<1>5. w = [GetNode(table, p) EXCEPT !.node[p] = SetRoute(@, hop, "KERNEL")]
  BY DEF FromKernel
<1>6. table' = Scrub(w) /\ SplitsOnTop(table, p)  BY <1>1, <1>3
<1> HIDE DEF w, p, hop
<1>7. Looked(p, hop, "KERNEL")
  BY <1>4, <1>5, <1>6, MarkedRoutes DEF Looked, R
<1>8. /\ \A q \in Prefix : ds6[q] = NULL
      /\ todo \subseteq fib /\ OneHop(fib)
      /\ \A s \in fib : s \in todo \/ (s[1] \in R /\ table.node[s[1]].info = s[2])
      /\ \A k \in R : /\ table.node[k].status = "KERNEL"
                      /\ Told(k) /\ <<k, table.node[k].info>> \notin todo
      /\ \A k \in R : table.node[k].lock <= 1
  BY <1>2 DEF MInv, Loading, Locking
<1>9. IInv  BY DEF MInv
<1>10. /\ R' = R \cup {p}
       /\ \A k \in R' \ {p} :
              /\ k \in R /\ table'.node[k].info = table.node[k].info /\ (Told(k)' <=> Told(k))
              /\ table'.node[k].status = table.node[k].status
              /\ table'.node[k].lock = table.node[k].lock
  BY <1>2, <1>7, <1>9, LookedOthers
<1>11. p \notin R
  <2> SUFFICES ASSUME p \in R PROVE FALSE  OBVIOUS
  <2>1. <<p, table.node[p].info>> \in fib /\ <<p, table.node[p].info>> \notin todo
    BY <1>8 DEF Told
  <2>2. <<p, hop>> \in todo  BY <1>4
  <2>3. <<p, hop>> = <<p, table.node[p].info>>  BY <2>1, <2>2, <1>8 DEF OneHop
  <2> QED  BY <2>1, <2>2, <2>3
<1>12. /\ table'.node[p].info = hop /\ table'.node[p].status = "KERNEL" /\ table'.node[p].lock = 1
  BY <1>7, <1>11 DEF Looked
<1>13. Loading'
  <2>1. todo' \subseteq fib'  BY <1>1, <1>2, <1>8
  <2>2. \A s \in fib' : s \in todo' \/ (s[1] \in R' /\ table'.node[s[1]].info = s[2])
    <3> SUFFICES ASSUME NEW s \in fib, s \notin todo'
                 PROVE  s[1] \in R' /\ table'.node[s[1]].info = s[2]
      BY <1>2
    <3>1. CASE s = r
      <4>1. s[1] = p /\ s[2] = hop  BY <3>1 DEF p, hop
      <4> QED  BY <4>1, <1>10, <1>12
    <3>2. CASE s # r
      <4>1. s[1] \in R /\ table.node[s[1]].info = s[2]  BY <3>2, <1>1, <1>8
      <4> QED  BY <4>1, <1>10, <1>11
    <3> QED  BY <3>1, <3>2
  <2>3. ASSUME NEW k \in R'
        PROVE  /\ table'.node[k].status = "KERNEL"
               /\ Told(k)' /\ <<k, table'.node[k].info>> \notin todo'
    <3>1. CASE k = p
      <4>1. <<k, table'.node[k].info>> = r  BY <3>1, <1>4, <1>12
      <4> QED  BY <4>1, <3>1, <1>1, <1>2, <1>8, <1>12 DEF Told
    <3>2. CASE k # p
      BY <3>2, <1>1, <1>8, <1>10
    <3> QED  BY <3>1, <3>2
  <2> QED  BY <2>1, <2>2, <2>3, <1>2, <1>8 DEF Loading
<1>14. Locking'  BY <1>2, <1>8, <1>10, <1>12 DEF Locking
<1> QED  BY <1>2, <1>13, <1>14 DEF MInv, OneHop, Syncing, Marks, CalmIdle, CalmSync, CalmUpdate

(* What br_poll makes of a learned route depends on what the tree holds.   *)
LEMMA SyncLooked ==
  ASSUME MInv, Sync, OnTop
  PROVE  /\ pc = "sync" /\ UNCHANGED <<ds6, place, fib, pc, cursor, changes, calm>>
         /\ \E p \in Learned :
              /\ <<p, ds6[p]>> \in todo /\ todo' = todo \ {<<p, ds6[p]>>}
              /\ \/ p \notin R /\ Looked(p, ds6[p], "CREATED")
                 \/ p \in R /\ table.node[p].info = ds6[p] /\ Looked(p, ds6[p], "UPDATED")
                 \/ p \in R /\ table.node[p].info # ds6[p] /\ Looked(p, ds6[p], "MODIFIED")
<1>1. PICK r \in todo :
        LET p == r[1]
        IN  /\ table' = Scrub([GetNode(table, p) EXCEPT
                                 !.node[p] = SetRoute(@, r[2], Mark(table, p, r[2]))])
            /\ todo' = todo \ {r}
  BY DEF Sync
<1>2. pc = "sync" /\ UNCHANGED <<ds6, place, fib, pc, cursor, changes, calm>>  BY DEF Sync
<1>3. SplitsOnTop(table, r[1])
  <2>1. PICK s \in todo : todo' = todo \ {s} /\ SplitsOnTop(table, s[1])  BY DEF OnTop
  <2>2. s = r  BY <1>1, <2>1
  <2> QED  BY <2>1, <2>2
<1>4. PICK p \in Learned : r = <<p, ds6[p]>>  BY <1>2 DEF MInv, Syncing
<1>5. r[1] = p /\ r[2] = ds6[p]  BY <1>4
<1> DEFINE hop == ds6[p]
           s == Mark(table, p, hop)
           w == [GetNode(table, p) EXCEPT !.node[p] = SetRoute(@, hop, s)]
<1>6. /\ p \in Prefix /\ p \in Key /\ hop \in Hop /\ Sound(table) /\ s \in Status
      /\ table \in Table /\ Linked(table)
  BY PrefixIsKey DEF MInv, IInv, TypeOK, Status, Mark, Learned, Sound, WellFormed
<1>7. s = IF p \notin R THEN "CREATED" ELSE IF table.node[p].info = hop THEN "UPDATED" ELSE "MODIFIED"
  <2>1. Has(table, p) <=> p \in R  BY <1>6, HasCorrect DEF R
  <2> QED  BY <2>1 DEF Mark
<1>8. table' = Scrub(w) /\ SplitsOnTop(table, p)
  BY <1>1, <1>3, <1>5
<1> HIDE DEF s, hop
<1>9. w = [GetNode(table, p) EXCEPT !.node[p] = SetRoute(@, hop, s)]  OBVIOUS
<1> HIDE DEF w
<1>10. Looked(p, hop, s)  BY <1>6, <1>8, <1>9, MarkedRoutes DEF Looked, R
<1> QED  BY <1>1, <1>2, <1>4, <1>7, <1>10 DEF hop

LEMMA SyncMInv == ASSUME MInv, IInv', Sync, OnTop PROVE MInv'
<1>1. pc = "sync" /\ UNCHANGED <<ds6, place, fib, pc, cursor, changes, calm>>  BY SyncLooked
<1>2. PICK p \in Learned :
        /\ <<p, ds6[p]>> \in todo /\ todo' = todo \ {<<p, ds6[p]>>}
        /\ \/ p \notin R /\ Looked(p, ds6[p], "CREATED")
           \/ p \in R /\ table.node[p].info = ds6[p] /\ Looked(p, ds6[p], "UPDATED")
           \/ p \in R /\ table.node[p].info # ds6[p] /\ Looked(p, ds6[p], "MODIFIED")
  BY SyncLooked
<1>3. IInv /\ p \in Prefix /\ ds6[p] # NULL /\ Learned' = Learned
  BY <1>1 DEF MInv, Learned
<1>4. PICK s \in {"CREATED", "UPDATED", "MODIFIED"} :
        /\ Looked(p, ds6[p], s)
        /\ s = "CREATED" <=> p \notin R
        /\ s = "UPDATED" => table.node[p].info = ds6[p]
        /\ s = "MODIFIED" => table.node[p].info # ds6[p]
  BY <1>2
<1>5. /\ R' = R \cup {p}
      /\ \A k \in R' \ {p} :
             /\ k \in R /\ table'.node[k].info = table.node[k].info /\ (Told(k)' <=> Told(k))
             /\ table'.node[k].status = table.node[k].status
             /\ table'.node[k].lock = table.node[k].lock
      /\ \A k \in Prefix \ {p} : Agrees(k)' <=> Agrees(k)
  BY <1>1, <1>3, <1>4, LookedOthers
<1>6. p \in R => table.node[p].lock = 0
  <2> SUFFICES ASSUME p \in R PROVE table.node[p].lock = 0  OBVIOUS
  <2>1. table.node[p].lock \in Nat  BY <1>3, RoutesArePrefixes DEF IInv, R
  <2>2. table.node[p].lock <= 1 /\ table.node[p].lock # 1
    BY <1>1, <1>2 DEF MInv, Locking
  <2> QED  BY <2>1, <2>2
<1>7. table'.node[p].info = ds6[p] /\ table'.node[p].status = s /\ table'.node[p].lock = 1
  BY <1>4, <1>6 DEF Looked
<1>8. OneHop(fib) /\ (\A r \in fib : r[1] \in R)
      /\ \A k \in R : /\ table.node[k].status # "NONE"
                      /\ table.node[k].status = "CREATED" =>
                           \A r \in fib : r[1] = k => r[2] = table.node[k].info
  BY <1>1 DEF MInv, Marks
<1>9. todo \subseteq {<<q, ds6[q]>> : q \in Learned}
      /\ \A q \in Learned : <<q, ds6[q]>> \in todo \/ Marked(q)
  BY <1>1 DEF MInv, Syncing
<1>10. \A q \in Learned \ {p} : Marked(q) => Marked(q)'
  BY <1>1, <1>5 DEF Marked
<1>11. Marked(p)'  BY <1>1, <1>4, <1>5, <1>7 DEF Marked
<1>12. Syncing'
  <2>1. todo' \subseteq {<<q, ds6[q]>> : q \in Learned}  BY <1>2, <1>9
  <2>2. ASSUME NEW q \in Learned PROVE <<q, ds6[q]>> \in todo' \/ Marked(q)'
    BY <1>2, <1>9, <1>10, <1>11
  <2> QED  BY <2>1, <2>2, <1>1, <1>3 DEF Syncing
<1>13. Locking'
  <2>1. \A k \in R' : table'.node[k].lock <= 1  BY <1>5, <1>7 DEF MInv, Locking
  <2>2. ASSUME NEW k \in R', table'.node[k].lock = 1
        PROVE  k \in Learned /\ <<k, ds6[k]>> \notin todo'
    BY <2>2, <1>1, <1>2, <1>5 DEF MInv, Locking
  <2> QED  BY <2>1, <2>2, <1>1, <1>3 DEF Locking
<1>14. Marks'
  <2>1. ASSUME NEW k \in R'
        PROVE  /\ table'.node[k].status # "NONE"
               /\ table'.node[k].status = "CREATED" =>
                    \A r \in fib : r[1] = k => r[2] = table'.node[k].info
    <3>1. CASE k = p
      <4>1. s = "CREATED" => \A r \in fib : r[1] # k  BY <3>1, <1>4, <1>8
      <4> QED  BY <3>1, <4>1, <1>7
    <3>2. CASE k # p
      BY <3>2, <1>5, <1>8
    <3> QED  BY <3>1, <3>2
  <2> QED  BY <2>1, <1>1, <1>5, <1>8 DEF Marks
<1>15. CalmSync'
  <2> SUFFICES ASSUME calm PROVE \E x \in Prefix \cup {NULL} : SyncedBut(x)'
    BY <1>1 DEF CalmSync
  <2>1. PICK x \in Prefix \cup {NULL} : SyncedBut(x)  BY <1>1 DEF MInv, CalmSync
  <2>2. \A q \in Prefix \ {x} : Agrees(q)'
    <3>1. Agrees(p)'  BY <1>1, <1>4, <1>5, <1>7 DEF Agrees
    <3> QED  BY <3>1, <2>1, <1>5 DEF SyncedBut
  <2>3. p # x => s = "UPDATED"
    <3> SUFFICES ASSUME p # x PROVE p \in R /\ table.node[p].info = ds6[p]
      BY <1>4
    <3>1. Agrees(p)  BY <2>1, <1>3 DEF SyncedBut
    <3> QED  BY <3>1, <1>3 DEF Agrees
  <2>4. s = "UPDATED" => Told(p)'
    <3> SUFFICES ASSUME s = "UPDATED" PROVE <<p, ds6[p]>> \in fib
      BY <1>1, <1>7 DEF Told
    <3>1. Told(p) /\ table.node[p].info = ds6[p]  BY <2>1, <1>4, <1>6 DEF SyncedBut
    <3> QED  BY <3>1 DEF Told
  <2>5. s = "MODIFIED" => ~ Told(p)'
    <3> SUFFICES ASSUME s = "MODIFIED", <<p, ds6[p]>> \in fib PROVE FALSE
      BY <1>1, <1>7 DEF Told
    <3>1. Told(p) /\ table.node[p].info # ds6[p]  BY <2>1, <1>4, <1>6 DEF SyncedBut
    <3>2. <<p, table.node[p].info>> = <<p, ds6[p]>>  BY <3>1, <1>8 DEF Told, OneHop
    <3> QED  BY <3>1, <3>2
  <2>6. ASSUME NEW k \in R'
        PROVE  /\ table'.node[k].lock = 0 => Told(k)'
               /\ table'.node[k].lock = 1 =>
                    /\ table'.node[k].status = "UPDATED" => Told(k)'
                    /\ table'.node[k].status = "MODIFIED" => ~ Told(k)'
                    /\ k # x => table'.node[k].status = "UPDATED"
    <3>1. CASE k = p
      BY <3>1, <2>3, <2>4, <2>5, <1>7
    <3>2. CASE k # p
      BY <3>2, <2>1, <1>5 DEF SyncedBut
    <3> QED  BY <3>1, <3>2
  <2>7. SyncedBut(x)'  BY <2>2, <2>6 DEF SyncedBut
  <2> QED  BY <2>7
<1> QED  BY <1>1, <1>12, <1>13, <1>14, <1>15 DEF MInv, OneHop, Loading, CalmIdle, CalmUpdate

LEMMA SyncedMInv == ASSUME MInv, IInv', Synced PROVE MInv'
<1>1. /\ pc = "sync" /\ todo = {} /\ pc' = "update" /\ cursor' = table.top
      /\ UNCHANGED <<table, ds6, place, fib, todo, changes, calm>>
  BY DEF Synced
<1>2. /\ \A p \in Learned : Marked(p)
      /\ \A k \in R : table.node[k].lock <= 1
      /\ \A k \in R : table.node[k].lock = 1 => k \in Learned
  BY <1>1 DEF MInv, Syncing, Locking
<1>3. /\ R' = R /\ Learned' = Learned /\ \A k : Told(k)' <=> Told(k)
      /\ \A p : (Marked(p)' <=> Marked(p)) /\ (Agrees(p)' <=> Agrees(p))
  BY <1>1 DEF R, Learned, Told, Marked, Agrees
<1>4. Syncing'  BY <1>1, <1>2, <1>3 DEF Syncing
<1>5. Locking'  BY <1>1, <1>2, <1>3 DEF Locking
<1>6. Marks'  BY <1>1, <1>3 DEF MInv, Marks
<1>7. CalmUpdate'
  <2> SUFFICES ASSUME calm PROVE \E x \in Prefix \cup {NULL} : MirrorsBut(x)' /\ Changing(x)'
    BY <1>1 DEF CalmUpdate
  <2>1. PICK x \in Prefix \cup {NULL} : SyncedBut(x)  BY <1>1 DEF MInv, CalmSync
  <2>2. ASSUME NEW k \in R PROVE table.node[k].lock \in {0, 1} /\ k \in Prefix /\ table.node[k].info # NULL
    BY <1>2, RoutesArePrefixes DEF MInv, IInv, R
  <2>3. ASSUME NEW k \in R, k # x
        PROVE  Told(k) /\ table.node[k].status \in {"UPDATED", "KERNEL"}
    <3>1. Agrees(k)  BY <2>1, <2>2, <2>3 DEF SyncedBut
    <3>2. CASE ds6[k] = NULL
      <4>1. table.node[k].status = "KERNEL"  BY <3>1, <3>2, <2>2, <2>3 DEF Agrees
      <4>2. table.node[k].lock = 0  BY <3>2, <2>2, <1>2 DEF Learned
      <4> QED  BY <4>1, <4>2, <2>1 DEF SyncedBut
    <3>3. CASE ds6[k] # NULL
      <4>1. table.node[k].lock = 1  BY <3>3, <2>2, <1>2 DEF Learned, Marked
      <4> QED  BY <4>1, <2>1, <2>3 DEF SyncedBut
    <3> QED  BY <3>2, <3>3
  <2>4. MirrorsBut(x)'
    BY <2>1, <2>3, <1>1, <1>3 DEF MirrorsBut, SyncedBut
  <2>5. Changing(x)'
    <3> SUFFICES ASSUME x \in R PROVE Changing(x)'  BY <1>3 DEF Changing
    <3>1. ~ Seen(x)'
      <4>1. /\ table \in Table /\ Linked(table) /\ x \in table.used /\ x \in Key
        BY RoutesArePrefixes DEF MInv, IInv, R, Sound, WellFormed
      <4>2. Covers(table.top, x) /\ table.top \in Key /\ table.top # NULL
        BY <4>1, TopCovers, KeyBits
      <4>3. ~ Before(x, table.top)
        <5>1. ~ Left(x, table.top)  BY <4>1, <4>2, LeftFacts
        <5>2. Covers(x, table.top) => x = table.top
          <6>1. Len(table.top) <= Len(x)  BY <4>1, <4>2, CoversOrder
          <6> QED  BY <6>1, <4>1, <4>2, CoversOrder
        <5> QED  BY <5>1, <5>2 DEF Before
      <4> QED  BY <4>2, <4>3, <1>1 DEF Seen
    <3>2. table.node[x].status = "KERNEL" => Told(x)
      <4> SUFFICES ASSUME table.node[x].status = "KERNEL" PROVE table.node[x].lock = 0
        BY <2>1 DEF SyncedBut
      <4> QED  BY <2>2, <1>2 DEF Marked
    <3>3. x \in Learned => /\ table.node[x].status = "UPDATED" => Told(x)
                           /\ table.node[x].status = "MODIFIED" => ~ Told(x)
      BY <2>1, <1>2 DEF SyncedBut, Marked
    <3> QED  BY <3>1, <3>2, <3>3, <1>1, <1>3 DEF Changing
  <2> QED  BY <2>4, <2>5
<1> QED  BY <1>1, <1>4, <1>5, <1>6, <1>7 DEF MInv, OneHop, Loading, CalmIdle, CalmSync

LEMMA UpdatedMInv == ASSUME MInv, IInv', Updated PROVE MInv'
<1>1. /\ pc = "update" /\ cursor = NULL /\ pc' = "idle"
      /\ UNCHANGED <<table, ds6, place, fib, todo, cursor, changes, calm>>
  BY DEF Updated
<1>2. /\ R' = R /\ \A k : (Told(k)' <=> Told(k)) /\ (Agrees(k)' <=> Agrees(k))
  BY <1>1 DEF R, Told, Agrees
<1>3. Locking'  BY <1>1, <1>2 DEF MInv, Locking
<1>4. Marks'  BY <1>1, <1>2 DEF MInv, Marks
<1>5. ASSUME calm PROVE (\A k \in R : Told(k)) /\ \A p \in Prefix : Agrees(p)
  <2>1. PICK x \in Prefix \cup {NULL} : MirrorsBut(x) /\ Changing(x)
    BY <1>1, <1>5 DEF MInv, CalmUpdate
  <2>2. \A k \in R : k \in Prefix  BY RoutesArePrefixes DEF MInv, IInv, R
  <2>3. x \in R => Told(x) /\ (x \in Learned \/ table.node[x].status = "KERNEL")
    BY <2>1, <1>1 DEF Changing, Seen
  <2>4. \A p \in Learned : Marked(p)  BY <1>1 DEF MInv, Syncing
  <2>5. x \in Prefix => Agrees(x)  BY <2>3, <2>4 DEF Agrees, Marked, Learned
  <2> QED  BY <2>1, <2>2, <2>3, <2>5 DEF MirrorsBut
<1>6. CalmIdle'  BY <1>1, <1>2, <1>5 DEF CalmIdle
<1> QED  BY <1>1, <1>3, <1>4, <1>6 DEF MInv, OneHop, Loading, Syncing, CalmSync, CalmUpdate

-----------------------------------------------------------------------------
(* The visit of a node that has a route: it stays in the tree, locked once *)
(* and left behind, or it goes, with its route in the kernel.              *)
Visited(n) ==
  /\ pc \in {"update", "recreate"} /\ cursor = n /\ n \in R
  /\ pc = "recreate" <=> table.node[n].status = "MODIFIED"

Stays(n) ==
  /\ R' = R
  /\ \A k \in R : /\ table'.node[k].info = table.node[k].info
                  /\ table'.node[k].status = table.node[k].status
                  /\ k # n => table'.node[k].lock = table.node[k].lock
                  /\ Seen(k)' <=> Seen(k) \/ k = n
  /\ table'.node[n].lock = 1
  /\ n \in Learned \/ table.node[n].status = "KERNEL"
  /\ fib' = IF table.node[n].status \in {"CREATED", "MODIFIED"}
            THEN fib \cup {<<n, table.node[n].info>>} ELSE fib

Goes(n) ==
  /\ OthersKept(table, table', n) /\ n \notin R'
  /\ n \notin Learned /\ table.node[n].status # "KERNEL"
  /\ fib' = {r \in fib : r[1] # n}
  /\ \A k \in Key : Seen(k) => Seen(k)'

LEMMA VisitedFacts ==
  ASSUME MInv, NEW n, pc \in {"update", "recreate"}, cursor = n, n \in R
  PROVE  /\ ~ Seen(n) /\ Sound(table) /\ Held(table, n)
         /\ n \in Prefix /\ n \in Key /\ n \in table.used /\ n # NULL
         /\ table.node[n].info \in Hop /\ table.node[n].info # NULL
         /\ table.node[n].lock \in {0, 1} /\ (table.node[n].lock = 1 <=> n \in Learned)
         /\ n \in Learned => Marked(n)
         /\ \A k \in Key : Seen(k) <=> Before(k, n)
         /\ R \subseteq Key
<1>1. Sound(table) /\ Stands(table, n)  BY DEF MInv, IInv
<1>2. /\ n \in Prefix /\ n \in Key /\ n \in table.used /\ n # NULL
      /\ table.node[n].info \in Hop /\ table.node[n].info # NULL /\ table.node[n].lock \in Nat
  BY <1>1, RoutesArePrefixes DEF R
<1>3. \A k \in Key : Seen(k) <=> Before(k, n)  BY <1>2 DEF Seen
<1>4. ~ Seen(n)  BY <1>2, <1>3, BeforeOrder
<1>5. table.node[n].lock <= 1 /\ (table.node[n].lock = 1 => n \in Learned)
  BY <1>4 DEF MInv, Locking
<1>6. n \in Learned => Marked(n)  BY DEF MInv, Syncing
<1>7. table.node[n].lock \in {0, 1} /\ (table.node[n].lock = 1 <=> n \in Learned)
  BY <1>2, <1>5, <1>6 DEF Marked
<1>8. Held(table, n)  BY <1>1, <1>2 DEF Stands
<1>9. R \subseteq Key  BY <1>1, RoutesArePrefixes DEF R
<1> QED  BY <1>1, <1>2, <1>3, <1>4, <1>6, <1>7, <1>8, <1>9

(* The routes of the kernel with that of a created or modified node. *)
Sent(n) ==
  IF table.node[n].status \in {"CREATED", "MODIFIED"}
  THEN fib \cup {<<n, table.node[n].info>>} ELSE fib

LEMMA SentOneHop ==
  ASSUME MInv, NEW n, Visited(n)
  PROVE  OneHop(Sent(n)) /\ {r \in Sent(n) : r[1] # n} = {r \in fib : r[1] # n}
<1>1. OneHop(fib) /\ fib \subseteq Prefix \X Hop  BY DEF MInv, IInv, TypeOK
<1>2. CASE table.node[n].status \notin {"CREATED", "MODIFIED"}
  BY <1>1, <1>2 DEF Sent
<1>3. CASE table.node[n].status \in {"CREATED", "MODIFIED"}
  <2>1. Sent(n) = fib \cup {<<n, table.node[n].info>>}  BY <1>3 DEF Sent
  <2>2. \A r \in fib : r[1] = n => r[2] = table.node[n].info
    BY <1>3 DEF MInv, Marks, Visited
  <2>3. \A r \in fib : r = <<r[1], r[2]>>  BY <1>1
  <2>4. \A r \in fib : r[1] = n => r = <<n, table.node[n].info>>  BY <2>2, <2>3
  <2>5. OneHop(Sent(n))  BY <1>1, <2>1, <2>4 DEF OneHop
  <2> QED  BY <2>1, <2>5
<1> QED  BY <1>2, <1>3

LEMMA LeaveVisited ==
  ASSUME MInv, NEW n, Visited(n), table.node[n].status # "KERNEL", Leave(table, Sent(n), n)
  PROVE  Stays(n) \/ Goes(n)
<1>1. /\ ~ Seen(n) /\ Sound(table) /\ Held(table, n) /\ n \in Key
      /\ table.node[n].lock \in {0, 1} /\ (table.node[n].lock = 1 <=> n \in Learned)
      /\ \A k \in Key : Seen(k) <=> Before(k, n)
      /\ R \subseteq Key
  BY VisitedFacts DEF Visited
<1>2. OneHop(Sent(n)) /\ {r \in Sent(n) : r[1] # n} = {r \in fib : r[1] # n}
  BY SentOneHop
<1>3. LeftLive(table, Sent(n), n) \/ LeftGone(table, Sent(n), n)
  BY <1>1, <1>2, LeaveRoutes DEF R, Visited
<1>4. CASE LeftLive(table, Sent(n), n)
  <2>1. /\ table.node[n].lock > 0 /\ table' = table /\ fib' = Sent(n)
        /\ \A k \in R : Seen(k)' <=> Before(k, n) \/ k = n
    BY <1>4 DEF LeftLive, R
  <2>2. table.node[n].lock = 1 /\ n \in Learned  BY <2>1, <1>1
  <2>3. \A k \in R : Seen(k)' <=> Seen(k) \/ k = n  BY <2>1, <1>1
  <2>4. R' = R  BY <2>1 DEF R
  <2>5. Stays(n)  BY <2>1, <2>2, <2>3, <2>4 DEF Stays, Sent
  <2> QED  BY <2>5
<1>5. CASE LeftGone(table, Sent(n), n)
  <2>1. /\ table.node[n].lock = 0 /\ OthersKept(table, table', n) /\ n \notin Routes(table')
        /\ fib' = {r \in Sent(n) : r[1] # n}
        /\ \A k \in Key : Before(k, n) => Seen(k)'
    BY <1>5 DEF LeftGone
  <2>2. n \notin Learned  BY <2>1, <1>1
  <2>3. Goes(n)  BY <2>1, <2>2, <1>1, <1>2 DEF Goes, R
  <2> QED  BY <2>3
<1> QED  BY <1>3, <1>4, <1>5

LEMMA LeaveInherited ==
  ASSUME MInv, NEW n, Visited(n), table.node[n].status = "KERNEL",
         Leave(HoldKernel(table, n), fib, n)
  PROVE  Stays(n)
<1>1. /\ ~ Seen(n) /\ Sound(table) /\ Held(table, n) /\ n \in Key /\ n \in table.used
      /\ table.node[n].info # NULL
      /\ table.node[n].lock \in {0, 1} /\ (table.node[n].lock = 1 <=> n \in Learned)
      /\ n \in Learned => Marked(n)
      /\ \A k \in Key : Seen(k) <=> Before(k, n)
      /\ R \subseteq Key
  BY VisitedFacts DEF Visited
<1>2. table.node[n].lock = 0  BY <1>1 DEF Marked
<1> DEFINE t == HoldKernel(table, n)
<1>3. /\ OthersKept(table, t, n) /\ n \in Routes(t)
      /\ t.node[n].info = table.node[n].info /\ t.node[n].status = table.node[n].status
      /\ t.node[n].lock = table.node[n].lock + 1
  BY <1>1, HoldKernelRoutes
<1>4. Sound(t) /\ Held(t, n)  BY <1>1, HoldKernelSound
<1>5. Leave(t, fib, n) /\ OneHop(fib)  BY DEF MInv
<1> HIDE DEF t
<1>6. LeftLive(t, fib, n) \/ LeftGone(t, fib, n)  BY <1>3, <1>4, <1>5, LeaveRoutes
<1>7. t.node[n].lock = 1  BY <1>2, <1>3
<1>8. /\ table' = t /\ fib' = fib
      /\ \A k \in Routes(t) : Seen(k)' <=> Before(k, n) \/ k = n
  BY <1>6, <1>7 DEF LeftLive, LeftGone
<1>9. Routes(t) \subseteq Key  BY <1>4, RoutesArePrefixes
<1>10. Routes(t) = R
  BY <1>1, <1>3, <1>9 DEF OthersKept, R, Visited
<1>11. R' = R  BY <1>8, <1>10 DEF R
<1>12. ASSUME NEW k \in R
       PROVE  /\ t.node[k].info = table.node[k].info /\ t.node[k].status = table.node[k].status
              /\ k # n => t.node[k].lock = table.node[k].lock
  BY <1>1, <1>3 DEF OthersKept, SameRoute, R
<1>13. \A k \in R : Seen(k)' <=> Seen(k) \/ k = n  BY <1>1, <1>8, <1>10
<1> QED  BY <1>7, <1>8, <1>11, <1>12, <1>13 DEF Stays

(* What a step does to the kernel follows the learned routes. *)
Follows ==
  calm => /\ \A r \in fib' \ fib : ds6[r[1]] = r[2]
          /\ \A r \in fib \ fib' : ds6[r[1]] # r[2]

LEMMA StaysMInv ==
  ASSUME MInv, IInv', NEW n, Visited(n), Stays(n), pc' = "update",
         UNCHANGED <<ds6, place, todo, changes, calm>>
  PROVE  MInv' /\ Follows
<1>1. /\ ~ Seen(n) /\ Sound(table) /\ n \in Prefix /\ n \in Key
      /\ n \in Learned => Marked(n)
  BY VisitedFacts DEF Visited
<1>2. /\ R' = R
      /\ \A k \in R : /\ table'.node[k].info = table.node[k].info
                      /\ table'.node[k].status = table.node[k].status
                      /\ k # n => table'.node[k].lock = table.node[k].lock
                      /\ Seen(k)' <=> Seen(k) \/ k = n
      /\ table'.node[n].lock = 1
      /\ n \in Learned \/ table.node[n].status = "KERNEL"
      /\ fib' = Sent(n)
  BY DEF Stays, Sent
<1>3. pc \in {"update", "recreate"} /\ n \in R /\ Learned' = Learned  BY DEF Visited, Learned
<1>4. OneHop(fib')  BY <1>2, SentOneHop
<1>5. /\ fib \subseteq fib'
      /\ \A r \in fib' \ fib : /\ r = <<n, table.node[n].info>>
                               /\ table.node[n].status \in {"CREATED", "MODIFIED"}
      /\ table.node[n].status \in {"CREATED", "MODIFIED"} => <<n, table.node[n].info>> \in fib'
  BY <1>2 DEF Sent
<1>6. Syncing'
  <2>1. ASSUME NEW p \in Learned PROVE Marked(p)'
    <3>1. Marked(p)  BY <1>3 DEF MInv, Syncing
    <3> QED  BY <3>1, <1>2 DEF Marked
  <2> QED  BY <2>1, <1>3 DEF Syncing
<1>7. Locking'
  <2>1. ASSUME NEW k \in R
        PROVE  table'.node[k].lock <= 1 /\ (table'.node[k].lock = 1 => k \in Learned \/ Seen(k)')
    <3>1. CASE k = n  BY <3>1, <1>2
    <3>2. CASE k # n  BY <3>2, <1>2, <1>3 DEF MInv, Locking
    <3> QED  BY <3>1, <3>2
  <2> QED  BY <2>1, <1>2, <1>3 DEF Locking
<1>8. /\ \A r \in fib : r[1] \in R
      /\ \A k \in R : /\ table.node[k].status # "NONE"
                      /\ table.node[k].status = "CREATED" =>
                           \A r \in fib : r[1] = k => r[2] = table.node[k].info
  BY <1>3 DEF MInv, Marks
<1>9. Marks'
  <2>1. \A r \in fib' : r[1] \in R'  BY <1>2, <1>3, <1>5, <1>8
  <2>2. ASSUME NEW k \in R, table.node[k].status = "CREATED", NEW r \in fib', r[1] = k
        PROVE  r[2] = table.node[k].info
    BY <2>2, <1>5, <1>8
  <2> QED  BY <2>1, <2>2, <1>2, <1>8 DEF Marks
<1>10. \A k \in R : k # n => (Told(k)' <=> Told(k))  BY <1>2, <1>5 DEF Told
<1>11. CalmUpdate'
  <2> SUFFICES ASSUME calm PROVE \E x \in Prefix \cup {NULL} : MirrorsBut(x)' /\ Changing(x)'
    BY DEF CalmUpdate
  <2>1. PICK x \in Prefix \cup {NULL} : MirrorsBut(x) /\ Changing(x)
    BY <1>3 DEF MInv, CalmUpdate
  <2>2. \A k \in R : Told(k) => Told(k)'  BY <1>2, <1>5 DEF Told
  <2>3. \A p \in Prefix : Agrees(p) => Agrees(p)'  BY <1>2 DEF Agrees
  <2>4. MirrorsBut(x)'  BY <2>1, <2>2, <2>3, <1>2 DEF MirrorsBut
  <2>5. Changing(x)'
    <3> SUFFICES ASSUME x \in R PROVE Changing(x)'  BY <1>2 DEF Changing
    <3>1. CASE x = n
      <4>1. table.node[n].status \in {"CREATED", "UPDATED", "MODIFIED", "KERNEL"}
        BY <1>1, <1>3, <1>8, RoutesArePrefixes DEF R, Status
      <4>2. Told(n)'
        <5>1. CASE table.node[n].status \in {"CREATED", "MODIFIED"}
          BY <5>1, <1>2, <1>3, <1>5 DEF Told
        <5>2. CASE table.node[n].status \in {"UPDATED", "KERNEL"}
          <6>1. Told(n)  BY <5>2, <3>1, <2>1, <1>1, <1>2 DEF Changing
          <6> QED  BY <6>1, <2>2, <1>3
        <5> QED  BY <4>1, <5>1, <5>2
      <4> QED  BY <3>1, <4>2, <1>2, <1>3 DEF Changing
    <3>2. CASE x # n
      BY <3>2, <2>1, <1>2, <1>3, <1>10 DEF Changing
    <3> QED  BY <3>1, <3>2
  <2> QED  BY <2>4, <2>5
<1>12. Follows
  <2>1. ASSUME NEW r \in fib' \ fib PROVE ds6[r[1]] = r[2]
    <3>1. n \in Learned  BY <1>2, <1>5
    <3> QED  BY <3>1, <1>1, <1>5 DEF Marked
  <2> QED  BY <2>1, <1>5 DEF Follows
<1> QED  BY <1>4, <1>6, <1>7, <1>9, <1>11, <1>12 DEF MInv, Loading, CalmIdle, CalmSync

LEMMA GoesMInv ==
  ASSUME MInv, IInv', NEW n, Visited(n), Goes(n), pc' = "update",
         UNCHANGED <<ds6, place, todo, changes, calm>>
  PROVE  MInv' /\ Follows
<1>1. /\ n \in Prefix /\ n \in Key /\ R \subseteq Key /\ table.node[n].info # NULL
  BY VisitedFacts DEF Visited
<1>2. R' \subseteq Key  BY RoutesArePrefixes DEF IInv, R
<1>3. /\ OthersKept(table, table', n) /\ n \notin R'
      /\ n \notin Learned /\ table.node[n].status # "KERNEL"
      /\ fib' = {r \in fib : r[1] # n}
      /\ \A k \in Key : Seen(k) => Seen(k)'
  BY DEF Goes
<1>4. R' = R \ {n} /\ \A k \in R' : SameRoute(table.node[k], table'.node[k])
  BY <1>1, <1>2, <1>3 DEF OthersKept, R
<1>5. pc \in {"update", "recreate"} /\ n \in R /\ Learned' = Learned  BY DEF Visited, Learned
<1>6. OneHop(fib')  BY <1>3 DEF MInv, OneHop
<1>7. Syncing'
  <2>1. ASSUME NEW p \in Learned PROVE Marked(p)'
    <3>1. Marked(p) /\ p # n  BY <1>3, <1>5 DEF MInv, Syncing
    <3> QED  BY <3>1, <1>4 DEF Marked, SameRoute
  <2> QED  BY <2>1, <1>5 DEF Syncing
<1>8. Locking'
  <2>1. ASSUME NEW k \in R'
        PROVE  table'.node[k].lock <= 1 /\ (table'.node[k].lock = 1 => k \in Learned \/ Seen(k)')
    BY <1>1, <1>3, <1>4, <1>5 DEF MInv, Locking, SameRoute
  <2> QED  BY <2>1, <1>5 DEF Locking
<1>9. Marks'  BY <1>3, <1>4, <1>5 DEF MInv, Marks, SameRoute
<1>10. CalmUpdate'
  <2> SUFFICES ASSUME calm PROVE \E x \in Prefix \cup {NULL} : MirrorsBut(x)' /\ Changing(x)'
    BY DEF CalmUpdate
  <2>1. PICK x \in Prefix \cup {NULL} : MirrorsBut(x) /\ Changing(x)
    BY <1>5 DEF MInv, CalmUpdate
  <2>2. x = n
    <3> SUFFICES ASSUME x # n PROVE FALSE  OBVIOUS
    <3>1. Agrees(n)  BY <2>1, <1>1 DEF MirrorsBut
    <3>2. ds6[n] # NULL  BY <3>1, <1>1, <1>3, <1>5 DEF Agrees
    <3> QED  BY <3>2, <1>1, <1>3 DEF Learned
  <2>3. ASSUME NEW p \in Prefix \ {n}
        PROVE  Agrees(p)' /\ (p \in R' => Told(p)' /\ table'.node[p].status \in {"UPDATED", "KERNEL"})
    <3>1. Agrees(p) /\ (p \in R => Told(p) /\ table.node[p].status \in {"UPDATED", "KERNEL"})
      BY <2>1, <2>2 DEF MirrorsBut
    <3>2. p \in R' <=> p \in R  BY <1>4
    <3>3. p \in R => table'.node[p].info = table.node[p].info
                     /\ table'.node[p].status = table.node[p].status
      BY <1>4 DEF SameRoute
    <3>4. Agrees(p)'  BY <3>1, <3>2, <3>3 DEF Agrees
    <3>5. p \in R => Told(p)'  BY <3>1, <3>3, <1>3 DEF Told
    <3> QED  BY <3>1, <3>2, <3>3, <3>4, <3>5
  <2>4. MirrorsBut(x)'  BY <2>2, <2>3 DEF MirrorsBut
  <2>5. Changing(x)'  BY <2>2, <1>3 DEF Changing
  <2> QED  BY <2>4, <2>5
<1>11. Follows
  <2>1. ASSUME NEW r \in fib \ fib' PROVE ds6[r[1]] # r[2]
    <3>1. r[1] = n /\ r[2] \in Hop  BY <1>3 DEF MInv, IInv, TypeOK
    <3>2. ds6[n] = NULL  BY <1>1, <1>3 DEF Learned
    <3> QED  BY <3>1, <3>2, NullAssumption
  <2> QED  BY <2>1, <1>3 DEF Follows
<1> QED  BY <1>6, <1>7, <1>8, <1>9, <1>10, <1>11 DEF MInv, Loading, CalmIdle, CalmSync

LEMMA BareMInv == ASSUME MInv, IInv', VisitBare PROVE MInv' /\ Follows
<1>1. PICK n \in Key : /\ Visiting(n) /\ table.node[n].info = NULL
                       /\ cursor' = NextNode(table, n)
  BY DEF VisitBare
<1>2. UNCHANGED <<table, ds6, place, fib, pc, todo, changes, calm>>  BY DEF VisitBare
<1>3. pc = "update" /\ cursor = n  BY <1>1 DEF Visiting
<1>4. n # NULL /\ n \in table.used /\ table \in Table /\ Linked(table) /\ n \notin R
  BY <1>1, <1>3, KeyBits DEF MInv, IInv, Stands, Sound, WellFormed, R, Routes
<1>5. ASSUME NEW k \in R PROVE Seen(k)' <=> Seen(k)
  <2> DEFINE m == NextNode(table, n)
  <2>1. IF m = NULL THEN \A a \in table.used : Before(a, n) \/ a = n
        ELSE m \in table.used /\ \A a \in table.used : Before(a, m) <=> Before(a, n) \/ a = n
    BY <1>4, NextInOrder
  <2>2. cursor' = m  BY <1>1
  <2> HIDE DEF m
  <2>3. k \in table.used /\ k # n  BY <1>4 DEF R, Routes
  <2> QED  BY <2>1, <2>2, <2>3, <1>3, <1>4 DEF Seen
<1>6. /\ R' = R /\ Learned' = Learned
      /\ \A k : (Told(k)' <=> Told(k)) /\ (Marked(k)' <=> Marked(k)) /\ (Agrees(k)' <=> Agrees(k))
  BY <1>2 DEF R, Learned, Told, Marked, Agrees
<1>7. Syncing'  BY <1>2, <1>3, <1>6 DEF MInv, Syncing
<1>8. Locking'  BY <1>2, <1>3, <1>5, <1>6 DEF MInv, Locking
<1>9. Marks'  BY <1>2, <1>3, <1>6 DEF MInv, Marks
<1>10. \A x : MirrorsBut(x) => MirrorsBut(x)'  BY <1>2, <1>6 DEF MirrorsBut
<1>11. \A x : Changing(x) => Changing(x)'  BY <1>2, <1>5, <1>6 DEF Changing
<1>12. CalmUpdate'  BY <1>2, <1>3, <1>10, <1>11 DEF MInv, CalmUpdate
<1> QED  BY <1>2, <1>3, <1>7, <1>8, <1>9, <1>12 DEF MInv, OneHop, Loading, CalmIdle, CalmSync, Follows

(* The delete that goes before a create takes out what is no longer so.    *)
LEMMA ModifiedMInv == ASSUME MInv, IInv', VisitModified PROVE MInv' /\ Follows
<1>1. PICK n \in Key : /\ Visiting(n) /\ table.node[n].info # NULL
                       /\ table.node[n].status = "MODIFIED" /\ fib' \in KernelDelete(fib, n)
  BY DEF VisitModified
<1>2. pc' = "recreate" /\ UNCHANGED <<table, ds6, place, todo, cursor, changes, calm>>
  BY DEF VisitModified
<1>3. pc = "update" /\ cursor = n  BY <1>1 DEF Visiting
<1>4. n # NULL /\ n \in R  BY <1>1, <1>3, KeyBits DEF MInv, IInv, Stands, R, Routes
<1>5. /\ ~ Seen(n) /\ n \in Prefix /\ table.node[n].info \in Hop
      /\ n \in Learned => Marked(n)
  BY <1>3, <1>4, VisitedFacts
<1>6. OneHop(fib)  BY DEF MInv
<1>7. fib' = {r \in fib : r[1] # n}  BY <1>1, <1>6, KernelDeleteOne
<1>8. OneHop(fib')  BY <1>6, <1>7 DEF OneHop
<1>9. /\ R' = R /\ Learned' = Learned
      /\ \A k : (Seen(k)' <=> Seen(k)) /\ (Marked(k)' <=> Marked(k)) /\ (Agrees(k)' <=> Agrees(k))
  BY <1>2 DEF R, Learned, Seen, Marked, Agrees
<1>10. \A k : k # n => (Told(k)' <=> Told(k))  BY <1>2, <1>7 DEF Told
<1>11. Syncing'  BY <1>2, <1>3, <1>9 DEF MInv, Syncing
<1>12. Locking'  BY <1>2, <1>3, <1>9 DEF MInv, Locking
<1>13. Marks'  BY <1>1, <1>2, <1>3, <1>7, <1>9 DEF MInv, Marks
<1>14. ASSUME calm
       PROVE  \E x \in Prefix \cup {NULL} : MirrorsBut(x) /\ Changing(x) /\ x = n
  <2>1. PICK x \in Prefix \cup {NULL} : MirrorsBut(x) /\ Changing(x)
    BY <1>3, <1>14 DEF MInv, CalmUpdate
  <2>2. x = n  BY <2>1, <1>1, <1>4, <1>5 DEF MirrorsBut
  <2> QED  BY <2>1, <2>2
<1>15. CalmUpdate'
  <2> SUFFICES ASSUME calm PROVE MirrorsBut(n)' /\ Changing(n)'
    BY <1>2, <1>5 DEF CalmUpdate
  <2>1. MirrorsBut(n) /\ Changing(n)  BY <1>14
  <2>2. MirrorsBut(n)'  BY <2>1, <1>2, <1>9, <1>10 DEF MirrorsBut
  <2>3. ~ Told(n)'  BY <1>2, <1>7 DEF Told
  <2>4. Changing(n)'  BY <2>3, <1>1, <1>2, <1>5, <1>9 DEF Changing
  <2> QED  BY <2>2, <2>4
<1>16. Follows
  <2>1. ASSUME calm, NEW r \in fib \ fib' PROVE ds6[r[1]] # r[2]
    <3>1. r[1] = n /\ r[2] \in Hop /\ r = <<r[1], r[2]>>  BY <2>1, <1>7 DEF MInv, IInv, TypeOK
    <3> SUFFICES ASSUME ds6[n] = r[2] PROVE FALSE  BY <3>1
    <3>2. n \in Learned  BY <3>1, <1>5, NullAssumption DEF Learned
    <3>3. table.node[n].info = r[2]  BY <3>2, <1>5 DEF Marked
    <3>4. ~ Told(n)
      <4>1. Changing(n)  BY <2>1, <1>14
      <4> QED  BY <4>1, <3>2, <1>1, <1>4, <1>5 DEF Changing
    <3>5. <<n, r[2]>> \in fib  BY <2>1, <3>1
    <3> QED  BY <3>3, <3>4, <3>5 DEF Told
  <2> QED  BY <2>1, <1>7 DEF Follows
<1> QED  BY <1>2, <1>8, <1>11, <1>12, <1>13, <1>15, <1>16 DEF MInv, Loading, CalmIdle, CalmSync

LEMMA VisitMInv == ASSUME MInv, IInv', Visit PROVE MInv' /\ Follows
<1>1. ASSUME NEW n, Visited(n), Stays(n) \/ Goes(n), pc' = "update",
             UNCHANGED <<ds6, place, todo, changes, calm>>
      PROVE  MInv' /\ Follows
  BY <1>1, StaysMInv, GoesMInv
<1>2. ASSUME NEW n \in Key, Visiting(n), table.node[n].info # NULL,
             table.node[n].status # "MODIFIED"
      PROVE  Visited(n) /\ pc = "update"
  <2>1. pc = "update" /\ cursor = n /\ n # NULL  BY <1>2, KeyBits DEF Visiting
  <2>2. n \in R  BY <2>1, <1>2 DEF MInv, IInv, Stands, R, Routes
  <2> QED  BY <2>1, <2>2, <1>2 DEF Visited
<1>3. CASE VisitCreated
  <2>1. PICK n \in Key : /\ Visiting(n) /\ table.node[n].info # NULL
                         /\ table.node[n].status = "CREATED"
                         /\ Leave(table, KernelCreate(fib, n, table.node[n].info), n)
    BY <1>3 DEF VisitCreated
  <2>2. UNCHANGED <<ds6, place, pc, todo, changes, calm>>  BY <1>3 DEF VisitCreated
  <2>3. Visited(n) /\ pc = "update"  BY <2>1, <1>2
  <2>4. KernelCreate(fib, n, table.node[n].info) = Sent(n)  BY <2>1 DEF KernelCreate, Sent
  <2>5. Stays(n) \/ Goes(n)  BY <2>1, <2>3, <2>4, LeaveVisited
  <2> QED  BY <2>2, <2>3, <2>5, <1>1
<1>4. CASE VisitUpdated
  <2>1. PICK n \in Key : /\ Visiting(n) /\ table.node[n].info # NULL
                         /\ table.node[n].status = "UPDATED" /\ Leave(table, fib, n)
    BY <1>4 DEF VisitUpdated
  <2>2. UNCHANGED <<ds6, place, pc, todo, changes, calm>>  BY <1>4 DEF VisitUpdated
  <2>3. Visited(n) /\ pc = "update"  BY <2>1, <1>2
  <2>4. fib = Sent(n)  BY <2>1 DEF Sent
  <2>5. Stays(n) \/ Goes(n)  BY <2>1, <2>3, <2>4, LeaveVisited
  <2> QED  BY <2>2, <2>3, <2>5, <1>1
<1>5. CASE VisitKernel
  <2>1. PICK n \in Key : /\ Visiting(n) /\ table.node[n].info # NULL
                         /\ table.node[n].status = "KERNEL" /\ Leave(HoldKernel(table, n), fib, n)
    BY <1>5 DEF VisitKernel
  <2>2. UNCHANGED <<ds6, place, pc, todo, changes, calm>>  BY <1>5 DEF VisitKernel
  <2>3. Visited(n) /\ pc = "update"  BY <2>1, <1>2
  <2>4. Stays(n)  BY <2>1, <2>3, LeaveInherited
  <2> QED  BY <2>2, <2>3, <2>4, <1>1
<1>6. CASE Recreate
  <2>1. PICK n \in Key : /\ pc = "recreate" /\ cursor = n
                         /\ Leave(table, KernelCreate(fib, n, table.node[n].info), n)
    BY <1>6 DEF Recreate
  <2>2. pc' = "update" /\ UNCHANGED <<ds6, place, todo, changes, calm>>  BY <1>6 DEF Recreate
  <2>3. Visited(n) /\ table.node[n].status = "MODIFIED"
    BY <2>1 DEF MInv, IInv, Stands, Marks, Visited, R, Routes
  <2>4. KernelCreate(fib, n, table.node[n].info) = Sent(n)  BY <2>3 DEF KernelCreate, Sent
  <2>5. Stays(n) \/ Goes(n)  BY <2>1, <2>3, <2>4, LeaveVisited
  <2> QED  BY <2>2, <2>3, <2>5, <1>1
<1> QED  BY <1>3, <1>4, <1>5, <1>6, BareMInv, ModifiedMInv DEF Visit

LEMMA StutterMInv == ASSUME MInv, IInv', UNCHANGED vars PROVE MInv'
<1>1. UNCHANGED <<table, ds6, place, fib, pc, todo, cursor, changes, calm>>  BY DEF vars
<1>2. /\ R' = R /\ Learned' = Learned
      /\ \A k : /\ (Told(k)' <=> Told(k)) /\ (Marked(k)' <=> Marked(k))
                /\ (Agrees(k)' <=> Agrees(k)) /\ (Seen(k)' <=> Seen(k))
  BY <1>1 DEF R, Learned, Told, Marked, Agrees, Seen
<1>3. \A x : (SyncedBut(x) => SyncedBut(x)') /\ (MirrorsBut(x) => MirrorsBut(x)')
             /\ (Changing(x) => Changing(x)')
  BY <1>1, <1>2 DEF SyncedBut, MirrorsBut, Changing
<1>4. Loading' /\ Syncing' /\ Locking' /\ Marks'
  BY <1>1, <1>2 DEF MInv, Loading, Syncing, Locking, Marks
<1>5. CalmIdle' /\ CalmSync' /\ CalmUpdate'
  BY <1>1, <1>2, <1>3 DEF MInv, CalmIdle, CalmSync, CalmUpdate
<1> QED  BY <1>1, <1>4, <1>5 DEF MInv, OneHop

(* Every step keeps the invariant, and what it sends to the kernel follows *)
(* the learned routes.                                                     *)
LEMMA NextMInv == MInv /\ [Next]_vars /\ [OnTop]_vars => MInv' /\ Follows
<1> SUFFICES ASSUME MInv, [Next]_vars, [OnTop]_vars PROVE MInv' /\ Follows  OBVIOUS
<1>1. IInv'  BY NextIInv DEF MInv
<1>2. ASSUME fib' = fib PROVE Follows  BY <1>2 DEF Follows
<1>3. CASE UNCHANGED vars
  <2>1. fib' = fib  BY <1>3 DEF vars
  <2> QED  BY <2>1, <1>1, <1>2, <1>3, StutterMInv
<1>4. ASSUME ~ UNCHANGED vars PROVE Next /\ OnTop  BY <1>4
<1>5. CASE ~ UNCHANGED vars /\ Load
  <2>1. fib' = fib  BY <1>5 DEF Load
  <2> QED  BY <2>1, <1>1, <1>2, <1>4, <1>5, LoadMInv
<1>6. CASE Loaded
  <2>1. fib' = fib  BY <1>6 DEF Loaded
  <2> QED  BY <2>1, <1>1, <1>2, <1>6, LoadedMInv
<1>7. CASE Poll
  <2>1. fib' = fib  BY <1>7 DEF Poll
  <2> QED  BY <2>1, <1>1, <1>2, <1>7, PollMInv
<1>8. CASE ~ UNCHANGED vars /\ Sync
  <2>1. fib' = fib  BY <1>8 DEF Sync
  <2> QED  BY <2>1, <1>1, <1>2, <1>4, <1>8, SyncMInv
<1>9. CASE Synced
  <2>1. fib' = fib  BY <1>9 DEF Synced
  <2> QED  BY <2>1, <1>1, <1>2, <1>9, SyncedMInv
<1>10. CASE Visit  BY <1>1, <1>10, VisitMInv
<1>11. CASE Updated
  <2>1. fib' = fib  BY <1>11 DEF Updated
  <2> QED  BY <2>1, <1>1, <1>2, <1>11, UpdatedMInv
<1>12. CASE Learn \/ Forget
  <2>1. fib' = fib  BY <1>12 DEF Learn, Forget, Change
  <2> QED  BY <2>1, <1>1, <1>2, <1>12, ChangeMInv
<1>13. CASE Crash
  <2>1. fib' = fib  BY <1>13 DEF Crash
  <2> QED  BY <2>1, <1>1, <1>2, <1>13, CrashMInv
<1> QED
  BY <1>3, <1>4, <1>5, <1>6, <1>7, <1>8, <1>9, <1>10, <1>11, <1>12, <1>13 DEF Next, Daemon

-----------------------------------------------------------------------------
LEMMA MInvAlways == Spec /\ [][OnTop]_vars => []MInv
<1> QED  BY InitMInv, NextMInv, PTL DEF Spec

(* Where no split is made below the top, each learned route is in the tree *)
(* when br_poll has looked at all of them, with its next hop and one lock: *)
(* nothing else the insertions, deletions and locks of earlier polls did   *)
(* loses one (route_node_get, route_node_delete, route_table_unlock).      *)
THEOREM LearnedInTreeOnTop == Spec /\ [][OnTop]_vars => []LearnedInTree
<1>1. MInv => LearnedInTree
  <2> SUFFICES ASSUME MInv, pc = "update", NEW p \in Learned
               PROVE  p \in table.used /\ table.node[p].info = ds6[p] /\ table.node[p].lock = 1
    BY DEF LearnedInTree
  <2>1. Marked(p)  BY DEF MInv, Syncing
  <2> QED  BY <2>1 DEF Marked, R, Routes
<1> QED  BY <1>1, MInvAlways, PTL

(* Where no split is made below the top, the kernel has exactly the        *)
(* learned routes and those of a former run after every calm poll,         *)
(* whatever was learned, forgotten and loaded before and wherever the      *)
(* daemon was stopped (br_init, br_poll, kernel_route_update).             *)
THEOREM KernelMirrorsOnTop == Spec /\ [][OnTop]_vars => []KernelMirrors
<1>1. MInv => KernelMirrors
  <2> SUFFICES ASSUME MInv, pc = "idle", changes = 0, calm
               PROVE  fib = {<<p, ds6[p]>> : p \in Learned}
                              \cup {<<k, table.node[k].info>> : k \in Inherited}
    BY DEF KernelMirrors
  <2>1. /\ \A k \in R : Told(k)
        /\ \A p \in Prefix : Agrees(p)
        /\ \A r \in fib : r[1] \in R
        /\ OneHop(fib)
    BY DEF MInv, CalmIdle, Marks
  <2>2. ASSUME NEW k \in R PROVE k \in Prefix /\ table.node[k].info # NULL
    BY RoutesArePrefixes DEF MInv, IInv, R
  <2>3. Inherited = {k \in R : table.node[k].status = "KERNEL"}  BY DEF Inherited, R, Routes
  <2>4. ASSUME NEW r \in fib
        PROVE  r \in {<<p, ds6[p]>> : p \in Learned}
                       \cup {<<k, table.node[k].info>> : k \in Inherited}
    <3> DEFINE k == r[1]
    <3>1. k \in R /\ Told(k)  BY <2>1
    <3>2. r = <<k, table.node[k].info>>  BY <3>1, <2>1 DEF Told, OneHop
    <3> HIDE DEF k
    <3>3. CASE table.node[k].status = "KERNEL"
      BY <3>1, <3>2, <3>3, <2>3
    <3>4. CASE table.node[k].status # "KERNEL"
      <4>1. ds6[k] = table.node[k].info  BY <3>1, <3>4, <2>1, <2>2 DEF Agrees
      <4>2. k \in Learned  BY <4>1, <3>1, <2>2 DEF Learned
      <4> QED  BY <4>1, <4>2, <3>2
    <3> QED  BY <3>3, <3>4
  <2>5. ASSUME NEW p \in Learned PROVE <<p, ds6[p]>> \in fib
    <3>1. p \in R /\ table.node[p].info = ds6[p]  BY <2>1 DEF Agrees, Learned
    <3> QED  BY <3>1, <2>1 DEF Told
  <2>6. ASSUME NEW k \in Inherited PROVE <<k, table.node[k].info>> \in fib
    BY <2>1, <2>3 DEF Told
  <2> QED  BY <2>4, <2>5, <2>6
<1> QED  BY <1>1, MInvAlways, PTL

(* Where no split is made below the top, a calm daemon creates a route     *)
(* only as RPL has it now and takes none away that RPL has: no withdrawal  *)
(* or replacement ever hits the wrong one (kernel_route_update).           *)
THEOREM KernelFollowsOnTop == Spec /\ [][OnTop]_vars => KernelFollows
<1>1. MInv /\ [Next]_vars /\ [OnTop]_vars =>
        [calm => /\ \A r \in fib' \ fib : ds6[r[1]] = r[2]
                 /\ \A r \in fib \ fib' : ds6[r[1]] # r[2]]_vars
  BY NextMInv DEF Follows
<1> QED  BY <1>1, MInvAlways, PTL DEF Spec, KernelFollows
=============================================================================
