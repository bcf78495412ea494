----------------------------- MODULE DataLemmas -----------------------------
(***************************************************************************)
(* What the proofs know about data: the least of a set of numbers,         *)
(* induction and iteration, and lists that lose or gain an element.        *)
(***************************************************************************)
EXTENDS Integers, FiniteSetsExt, SequencesExt, WellFoundedInduction, TLAPS

(* A set of natural numbers that is not empty has a least element.         *)
LEMMA LeastNatural ==
  ASSUME NEW S, S \subseteq Nat, S # {}
  PROVE  \E x \in S : \A y \in S : x <= y
<1> DEFINE R == OpToRel(<, Nat)
<1>1. PICK x \in S : \A y \in S : <<y, x>> \notin R
  <2>1. IsWellFoundedOn(R, Nat)  BY NatLessThanWellFounded
  <2> HIDE DEF R
  <2> QED  BY <2>1, WFMin
<1>2. ASSUME NEW y \in S PROVE x <= y
  <2>1. CASE y < x
    <3>1. <<y, x>> \in Nat \X Nat /\ <<y, x>>[1] < <<y, x>>[2]  BY <2>1
    <3>2. <<y, x>> \in R  BY <3>1 DEF OpToRel
    <3> QED  BY <1>1, <3>2
  <2>2. x \in Nat /\ y \in Nat  OBVIOUS
  <2> QED  BY <2>1, <2>2
<1> HIDE DEF R
<1> QED  BY <1>2

(* What Min and Max of the community modules return for a set of slots.    *)
LEMMA Extremes ==
  ASSUME NEW N \in Nat, NEW S, S \subseteq 1 .. N, S # {}
  PROVE  /\ Min(S) \in S /\ \A y \in S : Min(S) <= y
         /\ Max(S) \in S /\ \A y \in S : Max(S) >= y
<1>1. \E x \in S : \A y \in S : x <= y
  <2>1. S \subseteq Nat  OBVIOUS
  <2> QED BY <2>1, LeastNatural
<1>2. \E x \in S : \A y \in S : x >= y
  <2> DEFINE T == {n \in Nat : N - n \in S}
  <2>1. PICK s : s \in S OBVIOUS
  <2>2. N - s \in Nat /\ N - (N - s) = s  BY <2>1
  <2>3. N - s \in T  BY <2>1, <2>2
  <2>4. PICK z \in T : \A w \in T : z <= w  BY <2>3, LeastNatural
  <2>5. ASSUME NEW y \in S PROVE N - z >= y
    <3>1. y \in Nat /\ N - y \in Nat /\ N - (N - y) = y OBVIOUS
    <3>2. N - y \in T  BY <3>1
    <3>3. z \in Nat OBVIOUS
    <3> QED  BY <3>1, <3>2, <2>4, <3>3
  <2> QED  BY <2>4, <2>5
<1> QED  BY <1>1, <1>2 DEF Min, Max

(* Induction over the natural numbers, with a set for the property.        *)
LEMMA Induction ==
  ASSUME NEW P, 0 \in P, \A n \in Nat : n \in P => n + 1 \in P
  PROVE  \A n \in Nat : n \in P
<1> SUFFICES ASSUME NEW n \in Nat, n \notin P PROVE FALSE  OBVIOUS
<1> DEFINE B == {m \in Nat : m \notin P}
<1>1. PICK k \in B : \A m \in B : k <= m
  <2>1. B \subseteq Nat /\ B # {}  OBVIOUS
  <2> HIDE DEF B
  <2> QED  BY <2>1, LeastNatural
<1>2. k \in Nat /\ k # 0 /\ k \notin P  OBVIOUS
<1>3. k - 1 \in Nat /\ (k - 1) + 1 = k /\ ~ (k <= k - 1)  BY <1>2
<1>4. k - 1 \in P  BY <1>1, <1>3
<1> QED  BY <1>2, <1>3, <1>4

(* A step that is taken again and again defines a sequence of values.      *)
LEMMA Iteration ==
  ASSUME NEW S, NEW a \in S, NEW g \in [S -> S]
  PROVE  \E f \in [Nat -> S] : f[0] = a /\ \A n \in Nat : f[n + 1] = g[f[n]]
<1> DEFINE Start(f, n) == f \in [0 .. n -> S] /\ f[0] = a /\ \A i \in 0 .. n - 1 : f[i + 1] = g[f[i]]
           P == {n \in Nat : \E f : Start(f, n)}
<1>1. \A n \in Nat : n \in P
  <2>1. 0 \in P
    <3>1. Start([i \in 0 .. 0 |-> a], 0)  OBVIOUS
    <3> QED  BY <3>1
  <2>2. ASSUME NEW n \in Nat, n \in P PROVE n + 1 \in P
    <3>1. PICK f : Start(f, n)  BY <2>2
    <3> DEFINE h == [i \in 0 .. n + 1 |-> IF i = n + 1 THEN g[f[n]] ELSE f[i]]
    <3>2. f[n] \in S  BY <3>1
    <3>3. Start(h, n + 1)
      <4>1. h \in [0 .. n + 1 -> S] /\ h[0] = a  BY <3>1, <3>2
      <4>2. ASSUME NEW i \in 0 .. n PROVE h[i + 1] = g[h[i]]
        <5>1. CASE i = n  BY <5>1
        <5>2. CASE i # n
          <6>1. i \in 0 .. n - 1 /\ i + 1 \in 0 .. n /\ i + 1 # n + 1 /\ i # n + 1  BY <5>2
          <6> QED  BY <3>1, <6>1
        <5> QED  BY <5>1, <5>2
      <4>3. (n + 1) - 1 = n  OBVIOUS
      <4> QED  BY <4>1, <4>2, <4>3
    <3> QED  BY <3>3
  <2> HIDE DEF P
  <2> QED  BY <2>1, <2>2, Induction
<1>2. ASSUME NEW f, NEW h, NEW m \in Nat, NEW n \in Nat, m <= n, Start(f, m), Start(h, n)
      PROVE  f[m] = h[m]
  <2> DEFINE Q == {i \in Nat : i <= m => f[i] = h[i]}
  <2>1. 0 \in Q  BY <1>2
  <2>2. ASSUME NEW i \in Nat, i \in Q PROVE i + 1 \in Q
    <3> SUFFICES ASSUME i + 1 <= m PROVE f[i + 1] = h[i + 1]  OBVIOUS
    <3>1. i \in 0 .. m - 1 /\ i \in 0 .. n - 1 /\ i <= m  BY <1>2
    <3>2. f[i] = h[i]  BY <2>2, <3>1
    <3> QED  BY <1>2, <3>1, <3>2
  <2>3. m \in Q
    <3> HIDE DEF Q
    <3> QED  BY <2>1, <2>2, Induction
  <2> QED  BY <2>3
<1> DEFINE c(n) == CHOOSE f : Start(f, n)
           F == [n \in Nat |-> c(n)[n]]
<1>3. ASSUME NEW n \in Nat PROVE Start(c(n), n)
  BY <1>1
<1> HIDE DEF c, P
<1>4. F \in [Nat -> S]
  <2> SUFFICES ASSUME NEW n \in Nat PROVE c(n)[n] \in S  OBVIOUS
  <2> QED  BY <1>3
<1>5. F[0] = a  BY <1>3
<1>6. ASSUME NEW n \in Nat PROVE F[n + 1] = g[F[n]]
  <2>1. Start(c(n + 1), n + 1) /\ Start(c(n), n)  BY <1>3
  <2>2. n <= n + 1 /\ n + 1 \in Nat /\ n \in 0 .. (n + 1) - 1 OBVIOUS
  <2>3. c(n)[n] = c(n + 1)[n]
    <3> HIDE DEF Start
    <3> QED  BY <1>2, <2>1, <2>2
  <2>4. c(n + 1)[n + 1] = g[c(n + 1)[n]]  BY <2>1, <2>2
  <2> QED  BY <2>2, <2>3, <2>4
<1> QED  BY <1>4, <1>5, <1>6

-----------------------------------------------------------------------------
(* A list without its element number k. *)
LEMMA RemoveAtElements ==
  ASSUME NEW S, NEW seq \in Seq(S), NEW k \in 1 .. Len(seq)
  PROVE  LET r == RemoveAt(seq, k)
         IN  /\ r \in Seq(S) /\ Len(r) = Len(seq) - 1
             /\ \A i \in 1 .. Len(seq) - 1 : r[i] = IF i < k THEN seq[i] ELSE seq[i + 1]
<1> DEFINE r == RemoveAt(seq, k)
           a == SubSeq(seq, 1, k - 1)
           b == SubSeq(seq, k + 1, Len(seq))
<1>1. a \in Seq(S) /\ Len(a) = k - 1 /\ \A i \in 1 .. k - 1 : a[i] = seq[i]  OBVIOUS
<1>2. b \in Seq(S) /\ Len(b) = Len(seq) - k /\ \A i \in 1 .. Len(seq) - k : b[i] = seq[k + i]
  OBVIOUS
<1>3. r = a \o b  BY DEF RemoveAt
<1> HIDE DEF a, b, r
<1>4. r \in Seq(S) /\ Len(r) = Len(seq) - 1
  <2>1. r \in Seq(S) /\ Len(r) = Len(a) + Len(b)
    <3>1. a \in Seq(S) /\ b \in Seq(S)  BY <1>1, <1>2
    <3>2. a \o b \in Seq(S) /\ Len(a \o b) = Len(a) + Len(b)  BY <3>1
    <3> QED  BY <3>2, <1>3
  <2>2. k \in Nat /\ Len(seq) \in Nat  OBVIOUS
  <2> QED  BY <2>1, <2>2, <1>1, <1>2
<1>5. ASSUME NEW i \in 1 .. Len(seq) - 1
      PROVE  r[i] = IF i < k THEN seq[i] ELSE seq[i + 1]
  <2>1. CASE i < k  BY <2>1, <1>1, <1>2, <1>3
  <2>2. CASE i >= k
    <3>1. r[i] = b[i - (k - 1)]  BY <2>2, <1>1, <1>2, <1>3
    <3>2. i - (k - 1) \in 1 .. Len(seq) - k /\ k + (i - (k - 1)) = i + 1  BY <2>2
    <3> QED  BY <3>1, <3>2, <1>2, <2>2
  <2> QED  BY <2>1, <2>2
<1> QED  BY <1>4, <1>5 DEF r

(* In a list without doubles, the removed element is gone. *)
LEMMA RemoveAtCorrect ==
  ASSUME NEW S, NEW seq \in Seq(S), IsInjective(seq), NEW k \in 1 .. Len(seq)
  PROVE  LET r == RemoveAt(seq, k)
         IN  /\ r \in Seq(S) /\ Len(r) = Len(seq) - 1 /\ IsInjective(r)
             /\ ToSet(r) = ToSet(seq) \ {seq[k]}
<1> DEFINE r == RemoveAt(seq, k)
<1>1. /\ r \in Seq(S) /\ Len(r) = Len(seq) - 1
      /\ \A i \in 1 .. Len(seq) - 1 : r[i] = IF i < k THEN seq[i] ELSE seq[i + 1]
  BY RemoveAtElements
<1> HIDE DEF r
<1>2. \A i, j \in 1 .. Len(seq) : seq[i] = seq[j] => i = j  BY DEF IsInjective
<1>3. IsInjective(r)
  <2> SUFFICES ASSUME NEW i \in 1 .. Len(seq) - 1, NEW j \in 1 .. Len(seq) - 1, r[i] = r[j]
               PROVE  i = j
    BY <1>1 DEF IsInjective
  <2>1. i \in 1 .. Len(seq) /\ i + 1 \in 1 .. Len(seq) /\ j \in 1 .. Len(seq) /\ j + 1 \in 1 .. Len(seq)
    OBVIOUS
  <2> QED  BY <2>1, <1>1, <1>2
<1>4. ToSet(r) = ToSet(seq) \ {seq[k]}
  <2>1. ASSUME NEW x \in ToSet(r) PROVE x \in ToSet(seq) \ {seq[k]}
    <3>1. PICK i \in 1 .. Len(seq) - 1 : x = r[i]  BY <1>1 DEF ToSet
    <3>2. i \in 1 .. Len(seq) /\ i + 1 \in 1 .. Len(seq)  OBVIOUS
    <3>3. PICK l \in 1 .. Len(seq) : x = seq[l] /\ l # k  BY <3>1, <3>2, <1>1
    <3>4. x # seq[k]  BY <3>3, <1>2
    <3>5. l \in DOMAIN seq  BY <3>3
    <3> QED  BY <3>3, <3>4, <3>5 DEF ToSet
  <2>2. ASSUME NEW x \in ToSet(seq), x # seq[k] PROVE x \in ToSet(r)
    <3>1. PICK i \in 1 .. Len(seq) : x = seq[i]  BY DEF ToSet
    <3>2. CASE i < k
      <4>1. i \in 1 .. Len(seq) - 1  BY <3>2
      <4> QED  BY <4>1, <3>1, <3>2, <1>1 DEF ToSet
    <3>3. CASE i > k
      <4>1. i - 1 \in 1 .. Len(seq) - 1 /\ ~ (i - 1 < k) /\ (i - 1) + 1 = i  BY <3>3
      <4>2. r[i - 1] = seq[i] /\ i - 1 \in DOMAIN r  BY <4>1, <1>1
      <4> QED  BY <4>2, <3>1 DEF ToSet
    <3>4. i # k  BY <3>1, <2>2
    <3> QED  BY <3>2, <3>3, <3>4
  <2> QED  BY <2>1, <2>2
<1> QED  BY <1>1, <1>3, <1>4 DEF r

(* What taking an element out of its list leaves (list_remove). *)
LEMMA RemoveFirstCorrect ==
  ASSUME NEW S, NEW seq \in Seq(S), IsInjective(seq), NEW e \in ToSet(seq)
  PROVE  LET r == RemoveFirst(seq, e)
         IN  /\ r \in Seq(S) /\ Len(r) = Len(seq) - 1 /\ IsInjective(r)
             /\ ToSet(r) = ToSet(seq) \ {e}
<1> DEFINE I == {i \in 1 .. Len(seq) : seq[i] = e}
           k == Min(I)
<1>1. PICK p \in 1 .. Len(seq) : seq[p] = e  BY DEF ToSet
<1>2. I # {} /\ I \subseteq 1 .. Len(seq) /\ Len(seq) \in Nat  BY <1>1
<1>3. k \in I
  <2> HIDE DEF I
  <2> QED  BY <1>2, Extremes
<1>4. RemoveFirst(seq, e) = RemoveAt(seq, k)  BY <1>1, <1>2 DEF RemoveFirst, SelectInSeq
<1>5. k \in 1 .. Len(seq) /\ seq[k] = e  BY <1>3
<1> HIDE DEF k, I
<1> QED  BY <1>4, <1>5, RemoveAtCorrect

(* What putting an element at the end of a list leaves (list_add). *)
LEMMA AppendCorrect ==
  ASSUME NEW S, NEW seq \in Seq(S), IsInjective(seq), NEW e \in S \ ToSet(seq)
  PROVE  LET r == Append(seq, e)
         IN  /\ r \in Seq(S) /\ Len(r) = Len(seq) + 1 /\ IsInjective(r)
             /\ ToSet(r) = ToSet(seq) \cup {e}
<1> DEFINE r == Append(seq, e)
<1>1. /\ r \in Seq(S) /\ Len(r) = Len(seq) + 1 /\ r[Len(seq) + 1] = e
      /\ \A i \in 1 .. Len(seq) : r[i] = seq[i]
      /\ DOMAIN r = 1 .. Len(seq) + 1 /\ DOMAIN seq = 1 .. Len(seq) /\ Len(seq) \in Nat
  OBVIOUS
<1> HIDE DEF r
<1>2. \A i \in 1 .. Len(seq) + 1 : i \in 1 .. Len(seq) \/ i = Len(seq) + 1  BY <1>1
<1>3. IsInjective(r)
  <2> SUFFICES ASSUME NEW i \in 1 .. Len(seq) + 1, NEW j \in 1 .. Len(seq) + 1, r[i] = r[j]
               PROVE  i = j
    BY <1>1 DEF IsInjective
  <2>1. \A k \in 1 .. Len(seq) : seq[k] # e  BY <1>1 DEF ToSet
  <2> QED  BY <2>1, <1>1, <1>2 DEF IsInjective
<1>4. ToSet(r) = ToSet(seq) \cup {e}
  <2>1. ToSet(seq) = {seq[i] : i \in 1 .. Len(seq)} /\ ToSet(r) = {r[i] : i \in 1 .. Len(seq) + 1}
    BY <1>1 DEF ToSet
  <2>2. Len(seq) + 1 \in 1 .. Len(seq) + 1 /\ 1 .. Len(seq) \subseteq 1 .. Len(seq) + 1  BY <1>1
  <2> QED  BY <2>1, <2>2, <1>1, <1>2
<1> QED  BY <1>1, <1>3, <1>4 DEF r
=============================================================================
