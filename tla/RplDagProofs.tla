---------------------------- MODULE RplDagProofs ----------------------------
(***************************************************************************)
(* Proofs about RplDag for every set of neighbours, DODAGs, ranks and      *)
(* configurations, and every size of the pool of parents.                  *)
(*                                                                         *)
(* The handlers are built from helpers that call each other, so the        *)
(* argument goes from the inside out.  A helper that touches one DODAG is  *)
(* a patch; patches that move blocks only between a list and the pool are  *)
(* steps; steps, and the move into another DODAG, are moves.  A handler    *)
(* may leave the rank, the preferred parent and the route out of order     *)
(* half way, but every one of them ends in rpl_process_parent_event, and   *)
(* that puts them in order again whatever it finds (ParentEventMoves).     *)
(***************************************************************************)
EXTENDS RplDag, DataLemmas

(* The instance as a value: the types of TypeOK, but for the bound on the  *)
(* free blocks, which the count of all blocks gives.                       *)
Instance ==
  [used : BOOLEAN, current : Slot \cup {0}, route : Nbr \cup {NULL}, free : Nat,
   dag : [Slot -> DagRecord], parent : [Slot -> [Nbr -> ParentRecord]]]

(* The blocks that are free or in a list. *)
Blocks(s) == s.free + Len(s.dag[1].parents) + Len(s.dag[2].parents)

(* Lists without doubles, with nothing in slots that are not in use, and   *)
(* preferred parents that are in them.                                     *)
ListsOK(s) ==
  \A d \in Slot : /\ IsInjective(s.dag[d].parents)
                  /\ s.dag[d].preferred \in Parents(s, d) \cup {NULL}
                  /\ s.dag[d].used \/ s.dag[d].parents = <<>>

Sound(s) == s \in Instance /\ ListsOK(s)

(* What a helper leaves alone that neither adds nor leaves a DODAG.        *)
Frame(s, t) ==
  /\ t.used = s.used /\ t.current = s.current
  /\ \A d \in Slot : /\ t.dag[d].used = s.dag[d].used
                     /\ t.dag[d].joined = s.dag[d].joined
                     /\ t.dag[d].id = s.dag[d].id

-----------------------------------------------------------------------------
(* The types of what an instance holds. *)
LEMMA Fields ==
  ASSUME NEW s \in Instance, NEW d \in Slot
  PROVE  /\ s.dag[d] \in DagRecord /\ s.parent[d] \in [Nbr -> ParentRecord]
         /\ s.dag[d].parents \in Seq(Nbr) /\ Len(s.dag[d].parents) \in Nat
         /\ s.dag[d].preferred \in Nbr \cup {NULL} /\ s.dag[d].rank \in 0 .. Infinite
         /\ Parents(s, d) \subseteq Nbr /\ Blocks(s) \in Nat
         /\ s.dag[1] \in DagRecord /\ s.dag[2] \in DagRecord
<1>1. s.dag[d] \in DagRecord /\ s.dag[1] \in DagRecord /\ s.dag[2] \in DagRecord
      /\ s.parent[d] \in [Nbr -> ParentRecord] /\ s.free \in Nat
  BY DEF Instance, Slot
<1>2. s.dag[d].parents \in Seq(Nbr) /\ s.dag[1].parents \in Seq(Nbr) /\ s.dag[2].parents \in Seq(Nbr)
  BY <1>1 DEF DagRecord
<1>3. Parents(s, d) \subseteq Nbr  BY <1>2 DEF Parents, ToSet
<1>4. Blocks(s) \in Nat
  <2>1. Len(s.dag[1].parents) \in Nat /\ Len(s.dag[2].parents) \in Nat  BY <1>2
  <2>2. s.free \in Nat  BY <1>1
  <2>3. \A a, b, c \in Nat : a + b + c \in Nat  OBVIOUS
  <2> QED  BY <2>1, <2>2, <2>3, Zenon DEF Blocks
<1> QED  BY <1>1, <1>2, <1>3, <1>4 DEF DagRecord

(* An instance in which one DODAG, its parents, the default route and the  *)
(* number of free blocks are others.                                       *)
Patched(s, d, g, p, r, f) ==
  [s EXCEPT !.dag[d] = g, !.parent[d] = p, !.route = r, !.free = f]

IsPatch(u, s, d, g, p, r, f) ==
  /\ u \in Instance
  /\ u.used = s.used /\ u.current = s.current /\ u.route = r /\ u.free = f
  /\ u.dag[d] = g /\ u.parent[d] = p
  /\ \A e \in Slot \ {d} : u.dag[e] = s.dag[e] /\ u.parent[e] = s.parent[e]

(* A patch changes the fields it names and no others. *)
LEMMA PatchFields ==
  ASSUME NEW s \in Instance, NEW d \in Slot, NEW g \in DagRecord,
         NEW p \in [Nbr -> ParentRecord], NEW r \in Nbr \cup {NULL}, NEW f \in Nat
  PROVE  IsPatch(Patched(s, d, g, p, r, f), s, d, g, p, r, f)
  BY DEF Patched, Instance, IsPatch

(* What rpl_process_parent_event and its helpers leave alone: the lists    *)
(* and the records of the parents.  A preferred parent they choose has a   *)
(* rank.                                                                   *)
Fit(s, d) == {n \in Parents(s, d) : s.parent[d][n].rank # Infinite}

SameDag(s, t, d) ==
  /\ t.parent[d] = s.parent[d] /\ t.dag[d].parents = s.dag[d].parents
  /\ t.dag[d].used = s.dag[d].used /\ t.dag[d].version = s.dag[d].version

Judged(s, t) ==
  \A d \in Slot : /\ SameDag(s, t, d)
                  /\ t.dag[d].preferred \in {s.dag[d].preferred, NULL} \cup Fit(s, d)

LEMMA JudgedTransitive ==
  ASSUME NEW s, NEW t, NEW u, Judged(s, t), Judged(t, u)
  PROVE  Judged(s, u)
  BY DEF Judged, SameDag, Fit, Parents

(* So does a patch that changes a rank or the preferred parent only.       *)
LEMMA PatchJudged ==
  ASSUME NEW s, NEW d \in Slot, NEW g, NEW r, NEW f,
         NEW t, IsPatch(t, s, d, g, s.parent[d], r, f),
         g.parents = s.dag[d].parents, g.used = s.dag[d].used, g.version = s.dag[d].version,
         g.preferred \in {s.dag[d].preferred, NULL} \cup Fit(s, d)
  PROVE  Judged(s, t)
  BY DEF Judged, SameDag, IsPatch

(* What a helper leaves alone that puts neighbour n into DODAG d, or takes *)
(* parents out of lists: the other parents that stay, and their records.   *)
Takes(s, t, d, n) ==
  \A e \in Slot :
    /\ t.dag[e].used = s.dag[e].used
    /\ Parents(t, e) \subseteq Parents(s, e) \cup (IF e = d THEN {n} ELSE {})
    /\ \A m \in Parents(t, e) \ {n} : t.parent[e][m] = s.parent[e][m]
    /\ t.dag[e].preferred \in {s.dag[e].preferred, NULL, n}

SameVersions(s, t) == \A d \in Slot : t.dag[d].version = s.dag[d].version

(* A helper that is no more than a step within the DODAGs there are.       *)
Step(s, t) == Sound(t) /\ Frame(s, t) /\ Blocks(t) = Blocks(s)

(* It leaves DODAG d with the rank and the preferred parent it had, or     *)
(* with neither.                                                           *)
Keeps(s, t, d) ==
  LET n == s.dag[d].preferred
  IN  \/ t.dag[d].preferred = NULL /\ t.dag[d].rank = Infinite
      \/ /\ t.dag[d].preferred = n /\ t.dag[d].rank = s.dag[d].rank
         /\ t.dag[d].min = s.dag[d].min
         /\ n # NULL => t.parent[d][n] = s.parent[d][n]

RouteKept(s, t) == t.route \in {s.route, NULL}

(* A patch is a step if it moves blocks between the list and the pool. *)
LEMMA PatchStep ==
  ASSUME NEW s, Sound(s), NEW d \in Slot, NEW g \in DagRecord, NEW p, NEW r, NEW f \in Nat,
         NEW t, IsPatch(t, s, d, g, p, r, f),
         g.used = s.dag[d].used, g.joined = s.dag[d].joined, g.id = s.dag[d].id,
         IsInjective(g.parents), g.preferred \in ToSet(g.parents) \cup {NULL},
         g.used \/ g.parents = <<>>,
         f + Len(g.parents) = s.free + Len(s.dag[d].parents)
  PROVE  Step(s, t)
<1>1. \A e \in Slot \ {d} : t.dag[e] = s.dag[e]  BY DEF IsPatch
<1>2. t.dag[d] = g /\ t.free = f /\ t \in Instance /\ t.used = s.used /\ t.current = s.current
  BY DEF IsPatch
<1>3. Frame(s, t)  BY <1>1, <1>2 DEF Frame
<1>4. ListsOK(t)  BY <1>1, <1>2 DEF ListsOK, Parents, Sound
<1>5. s \in Instance  BY DEF Sound
<1>6. Blocks(t) = Blocks(s)
  <2>1. /\ Len(s.dag[1].parents) \in Nat /\ Len(s.dag[2].parents) \in Nat /\ s.free \in Nat
        /\ Len(g.parents) \in Nat
    <3>1. s.dag[1].parents \in Seq(Nbr) /\ s.dag[2].parents \in Seq(Nbr) /\ s.free \in Nat
      BY <1>5, Fields DEF Slot, Instance
    <3>2. g.parents \in Seq(Nbr)  BY DEF DagRecord
    <3>3. \A q \in Seq(Nbr) : Len(q) \in Nat  OBVIOUS
    <3> QED  BY <3>1, <3>2, <3>3, Zenon
  <2>2. CASE d = 1
    <3>1. t.dag[1] = g /\ t.dag[2] = s.dag[2]  BY <1>1, <1>2, <2>2 DEF Slot
    <3> DEFINE a == Len(s.dag[1].parents)
               b == Len(s.dag[2].parents)
               c == Len(g.parents)
    <3>2. Blocks(t) = f + c + b /\ Blocks(s) = s.free + a + b /\ f + c = s.free + a
      BY <3>1, <1>2, <2>2, Zenon DEF Blocks
    <3> HIDE DEF a, b, c
    <3> QED  BY <3>2
  <2>3. CASE d = 2
    <3>1. t.dag[2] = g /\ t.dag[1] = s.dag[1]  BY <1>1, <1>2, <2>3 DEF Slot
    <3> DEFINE a == Len(s.dag[2].parents)
               b == Len(s.dag[1].parents)
               c == Len(g.parents)
    <3>2. Blocks(t) = f + b + c /\ Blocks(s) = s.free + b + a /\ f + c = s.free + a
      BY <3>1, <1>2, <2>3, Zenon DEF Blocks
    <3>3. a \in Nat /\ b \in Nat /\ c \in Nat /\ s.free \in Nat  BY <2>1
    <3> HIDE DEF a, b, c
    <3> QED  BY <3>2, <3>3
  <2> QED  BY <2>2, <2>3 DEF Slot
<1> QED  BY <1>2, <1>3, <1>4, <1>6 DEF Step, Sound

(* The fields rpl_nullify_parent writes. *)
LEMMA NullifyFields ==
  ASSUME NEW s \in Instance, NEW d \in Slot, NEW n \in Nbr,
         NEW t, t = Nullify(s, d, n)
  PROVE  /\ t \in Instance /\ Frame(s, t) /\ t.free = s.free /\ t.parent = s.parent
         /\ Judged(s, t)
         /\ \A e \in Slot : t.dag[e].parents = s.dag[e].parents /\ t.dag[e].min = s.dag[e].min
         /\ \A e \in Slot \ {d} : t.dag[e] = s.dag[e]
         /\ n # s.dag[d].preferred => t = s
         /\ n = s.dag[d].preferred =>
              /\ t.dag[d].preferred = NULL /\ t.dag[d].rank = Infinite
              /\ t.route \in {s.route, NULL}
<1>1. CASE n # s.dag[d].preferred
  BY <1>1 DEF Nullify, Frame, Judged, SameDag
<1>2. CASE n = s.dag[d].preferred
  <2> DEFINE r == IF s.dag[d].joined THEN NULL ELSE s.route
             g == [s.dag[d] EXCEPT !.preferred = NULL, !.rank = Infinite]
  <2>1. s.dag[d] \in DagRecord /\ Infinite \in 0 .. Infinite  BY DEF Instance, Infinite
  <2>2. g \in DagRecord  BY <2>1 DEF DagRecord
  <2>3. g.preferred = NULL /\ g.rank = Infinite /\ g.used = s.dag[d].used
        /\ g.joined = s.dag[d].joined /\ g.id = s.dag[d].id /\ g.parents = s.dag[d].parents
        /\ g.min = s.dag[d].min /\ g.version = s.dag[d].version
    BY <2>1 DEF DagRecord
  <2>4. t = Patched(s, d, g, s.parent[d], r, s.free)  BY <1>2 DEF Nullify, Instance, Patched
  <2>5. r \in Nbr \cup {NULL} /\ s.parent[d] \in [Nbr -> ParentRecord] /\ s.free \in Nat
    BY DEF Instance
  <2>6. r \in {s.route, NULL}  OBVIOUS
  <2>8. t.parent = s.parent  BY <2>4 DEF Instance, Patched
  <2> HIDE DEF r, g
  <2>7. IsPatch(t, s, d, g, s.parent[d], r, s.free)  BY <2>2, <2>4, <2>5, PatchFields
  <2>9. Frame(s, t)  BY <2>3, <2>7 DEF Frame, IsPatch
  <2>10. \A e \in Slot : t.dag[e].parents = s.dag[e].parents /\ t.dag[e].min = s.dag[e].min
    BY <2>3, <2>7 DEF IsPatch
  <2>11. Judged(s, t)  BY <2>3, <2>7, PatchJudged
  <2> QED  BY <1>2, <2>3, <2>6, <2>7, <2>8, <2>9, <2>10, <2>11 DEF IsPatch
<1> QED  BY <1>1, <1>2

(* rpl_nullify_parent is a step that keeps or clears the preferred parent. *)
LEMMA NullifyStep ==
  ASSUME NEW s, Sound(s), NEW d \in Slot, NEW n \in Nbr,
         NEW t, t = Nullify(s, d, n)
  PROVE  /\ Step(s, t) /\ RouteKept(s, t) /\ \A e \in Slot : Keeps(s, t, e)
         /\ Judged(s, t) /\ t.dag[d].preferred # n
<1>1. s \in Instance  BY DEF Sound
<1>2. CASE n # s.dag[d].preferred
  BY <1>1, <1>2, NullifyFields DEF Nullify, Step, Frame, Keeps, RouteKept
<1>3. CASE n = s.dag[d].preferred
  <2>1. /\ t \in Instance /\ Frame(s, t) /\ t.free = s.free /\ t.parent = s.parent
        /\ \A e \in Slot : t.dag[e].parents = s.dag[e].parents
        /\ \A e \in Slot \ {d} : t.dag[e] = s.dag[e]
        /\ t.dag[d].preferred = NULL /\ t.dag[d].rank = Infinite
        /\ t.route \in {s.route, NULL} /\ Judged(s, t)
    BY <1>1, <1>3, NullifyFields
  <2>2. Blocks(t) = Blocks(s)  BY <2>1 DEF Blocks, Slot
  <2>3. ListsOK(t)  BY <2>1 DEF ListsOK, Parents, Sound, Frame
  <2> QED  BY <2>1, <2>2, <2>3, NullAssumption DEF Step, Sound, Keeps, RouteKept
<1> QED  BY <1>2, <1>3

(* rpl_remove_parent: the block of the parent is free afterwards. *)
LEMMA RemoveParentStep ==
  ASSUME NEW s, Sound(s), NEW d \in Slot, NEW n \in Parents(s, d),
         NEW t, t = RemoveParent(s, d, n)
  PROVE  /\ Step(s, t) /\ RouteKept(s, t) /\ \A e \in Slot : Keeps(s, t, e)
         /\ Parents(t, d) = Parents(s, d) \ {n} /\ t.free > 0
         /\ Len(t.dag[d].parents) = Len(s.dag[d].parents) - 1
         /\ \A e \in Slot \ {d} : t.dag[e] = s.dag[e]
         /\ SameVersions(s, t) /\ \A e \in Slot, k \in Nbr : Takes(s, t, e, k)
<1> DEFINE u == Nullify(s, d, n)
           g == [u.dag[d] EXCEPT !.parents = RemoveFirst(@, n)]
           p == [u.parent[d] EXCEPT ![n] = NoParent]
<1>1. s \in Instance /\ n \in Nbr  BY Fields DEF Sound
<1>2. /\ u \in Instance /\ u.free = s.free /\ u.parent = s.parent /\ Sound(u) /\ Frame(s, u)
      /\ u.dag[d].parents = s.dag[d].parents
      /\ \A e \in Slot \ {d} : u.dag[e] = s.dag[e]
      /\ Blocks(u) = Blocks(s) /\ RouteKept(s, u) /\ \A e \in Slot : Keeps(s, u, e)
      /\ u.dag[d].preferred # n /\ Judged(s, u)
  <2>1. /\ u \in Instance /\ u.free = s.free /\ u.parent = s.parent
        /\ u.dag[d].parents = s.dag[d].parents
        /\ \A e \in Slot \ {d} : u.dag[e] = s.dag[e]
        /\ n # s.dag[d].preferred => u = s
        /\ n = s.dag[d].preferred => u.dag[d].preferred = NULL
        /\ Judged(s, u)
    BY <1>1, NullifyFields
  <2>2. u.dag[d].preferred # n  BY <2>1, <1>1, NullAssumption
  <2> QED  BY <1>1, <2>1, <2>2, NullifyStep DEF Step
<1> HIDE DEF u
<1>3. /\ u.dag[d] \in DagRecord /\ u.parent[d] \in [Nbr -> ParentRecord]
      /\ u.route \in Nbr \cup {NULL} /\ u.free + 1 \in Nat /\ u.free \in Nat
  BY <1>2 DEF Instance
<1>4. LET q == RemoveFirst(u.dag[d].parents, n)
      IN  /\ q \in Seq(Nbr) /\ IsInjective(q) /\ Len(q) = Len(u.dag[d].parents) - 1
          /\ ToSet(q) = Parents(s, d) \ {n}
  <2>1. u.dag[d].parents \in Seq(Nbr) /\ IsInjective(u.dag[d].parents)
        /\ n \in ToSet(u.dag[d].parents)
    BY <1>2, <1>3 DEF Sound, ListsOK, Parents, DagRecord
  <2> QED  BY <2>1, <1>2, RemoveFirstCorrect DEF Parents
<1>5. /\ g \in DagRecord /\ g.parents = RemoveFirst(u.dag[d].parents, n)
      /\ g.preferred = u.dag[d].preferred /\ g.rank = u.dag[d].rank /\ g.min = u.dag[d].min
      /\ g.used = u.dag[d].used /\ g.joined = u.dag[d].joined /\ g.id = u.dag[d].id
      /\ g.version = u.dag[d].version
  BY <1>3, <1>4 DEF DagRecord
<1>6. p \in [Nbr -> ParentRecord] /\ \A m \in Nbr \ {n} : p[m] = u.parent[d][m]
  <2>1. NoParent \in ParentRecord  BY DEF ParentRecord, NoParent, Infinite
  <2> QED  BY <1>1, <1>3, <2>1
<1>7. t = Patched(u, d, g, p, u.route, u.free + 1)
  BY <1>2 DEF RemoveParent, Patched, Instance, u
<1> HIDE DEF g, p
<1>8. IsPatch(t, u, d, g, p, u.route, u.free + 1)  BY <1>2, <1>3, <1>5, <1>6, <1>7, PatchFields
<1>9. Step(u, t)
  <2>1. g.preferred \in ToSet(g.parents) \cup {NULL} /\ g.used
    <3>1. u.dag[d].parents # <<>>  BY <1>2 DEF Parents, ToSet
    <3> QED  BY <3>1, <1>2, <1>4, <1>5 DEF Sound, ListsOK, Parents
  <2>2. (u.free + 1) + Len(g.parents) = u.free + Len(u.dag[d].parents)
    <3>1. Len(u.dag[d].parents) \in Nat  BY <1>2, Fields
    <3> QED  BY <3>1, <1>3, <1>4, <1>5
  <2>3. IsInjective(g.parents)  BY <1>4, <1>5
  <2>4. Sound(u) /\ u.free + 1 \in Nat  BY <1>2, <1>3
  <2> QED  BY <2>1, <2>2, <2>3, <2>4, <1>5, <1>8, PatchStep
<1>10. Step(s, t)  BY <1>2, <1>9 DEF Step, Frame
<1>11. ASSUME NEW e \in Slot PROVE Keeps(s, t, e)
  <2>1. CASE e # d  BY <2>1, <1>2, <1>8 DEF Keeps, IsPatch
  <2>2. CASE e = d
    <3>1. t.dag[d] = g /\ t.parent[d] = p  BY <1>8 DEF IsPatch
    <3>2. u.dag[d].preferred # NULL => t.parent[d][u.dag[d].preferred] = u.parent[d][u.dag[d].preferred]
      BY <3>1, <1>2, <1>3, <1>6 DEF DagRecord
    <3>3. Keeps(s, u, d)  BY <1>2
    <3> QED  BY <2>2, <3>1, <3>2, <3>3, <1>2, <1>5 DEF Keeps
  <2> QED  BY <2>1, <2>2
<1>12. RouteKept(s, t)  BY <1>2, <1>8 DEF RouteKept, IsPatch
<1>13. Parents(t, d) = Parents(s, d) \ {n} /\ Len(t.dag[d].parents) = Len(s.dag[d].parents) - 1
       /\ t.free > 0 /\ \A e \in Slot \ {d} : t.dag[e] = s.dag[e]
  <2>1. t.dag[d] = g /\ t.free = u.free + 1 /\ \A e \in Slot \ {d} : t.dag[e] = u.dag[e]
    BY <1>8 DEF IsPatch
  <2> QED  BY <2>1, <1>2, <1>3, <1>4, <1>5 DEF Parents
<1>14. \A e \in Slot :
         /\ t.dag[e].used = s.dag[e].used /\ t.dag[e].version = s.dag[e].version
         /\ t.dag[e].preferred = u.dag[e].preferred /\ Parents(t, e) \subseteq Parents(s, e)
         /\ \A m \in Parents(t, e) : t.parent[e][m] = s.parent[e][m]
  <2>1. ASSUME NEW e \in Slot \ {d}
        PROVE  t.dag[e] = s.dag[e] /\ u.dag[e] = s.dag[e] /\ t.parent[e] = s.parent[e]
    BY <1>2, <1>8 DEF IsPatch
  <2>2. /\ t.dag[d] = g /\ t.parent[d] = p /\ u.dag[d].version = s.dag[d].version
        /\ u.dag[d].used = s.dag[d].used
    BY <1>2, <1>8 DEF IsPatch, Judged, SameDag
  <2>3. Parents(s, d) \subseteq Nbr  BY <1>1, Fields
  <2> QED  BY <2>1, <2>2, <2>3, <1>2, <1>5, <1>6, <1>13 DEF Parents
<1>15. \A e \in Slot : u.dag[e].preferred \in {s.dag[e].preferred, NULL}
  BY <1>1, <1>2 DEF Keeps
<1>16. SameVersions(s, t) /\ \A e \in Slot, k \in Nbr : Takes(s, t, e, k)
  BY <1>14, <1>15 DEF SameVersions, Takes
<1> QED  BY <1>10, <1>11, <1>12, <1>13, <1>16

(* What two helpers leave alone. *)
LEMMA TakesTransitive ==
  ASSUME NEW s, NEW t, NEW u, NEW d, NEW n, Takes(s, t, d, n), Takes(t, u, d, n)
  PROVE  Takes(s, u, d, n)
  BY DEF Takes

(* Steps compose. *)
LEMMA StepTransitive ==
  ASSUME NEW s, NEW t, NEW u, Step(s, t), Step(t, u)
  PROVE  Step(s, u)
BY DEF Step, Frame

(* So does keeping or giving up rank and preferred parent. *)
LEMMA KeepsTransitive ==
  ASSUME NEW s, NEW t, NEW u, NEW d, Keeps(s, t, d), Keeps(t, u, d)
  PROVE  Keeps(s, u, d)
BY DEF Keeps

(* nullify_parents: no preferred parent is left. *)
LEMMA NullifyAllStep ==
  ASSUME NEW s, Sound(s), NEW d \in Slot, NEW t, t = NullifyAll(s, d)
  PROVE  /\ Step(s, t) /\ Judged(s, t) /\ RouteKept(s, t) /\ \A e \in Slot : Keeps(s, t, e)
         /\ t.dag[d].preferred = NULL /\ t.dag[d].parents = s.dag[d].parents
         /\ t.free = s.free /\ t.dag[d].rank \in {s.dag[d].rank, Infinite}
         /\ \A e \in Slot \ {d} : t.dag[e] = s.dag[e]
<1>1. s \in Instance  BY DEF Sound
<1>2. CASE s.dag[d].preferred \in Parents(s, d)
  <2>1. s.dag[d].preferred \in Nbr  BY <1>1, <1>2, Fields
  <2>2. t = Nullify(s, d, s.dag[d].preferred)  BY <1>2 DEF NullifyAll
  <2> QED  BY <1>1, <2>1, <2>2, NullifyStep, NullifyFields
<1>3. CASE s.dag[d].preferred \notin Parents(s, d)
  <2>1. s.dag[d].preferred = NULL  BY <1>3 DEF Sound, ListsOK
  <2> QED  BY <1>1, <1>3, <2>1 DEF NullifyAll, Step, Frame, Keeps, RouteKept, Judged, SameDag
<1> QED  BY <1>2, <1>3

(* remove_parents: no parent is left. *)
LEMMA RemoveAllStep ==
  ASSUME NEW s, Sound(s), NEW d \in Slot, NEW t, t = RemoveAll(s, d)
  PROVE  /\ Step(s, t) /\ RouteKept(s, t) /\ \A e \in Slot : Keeps(s, t, e)
         /\ t.dag[d].preferred = NULL /\ t.dag[d].parents = <<>>
         /\ \A e \in Slot \ {d} : t.dag[e] = s.dag[e]
<1> DEFINE u == NullifyAll(s, d)
           g == [u.dag[d] EXCEPT !.parents = <<>>]
           f == u.free + Len(s.dag[d].parents)
<1>1. s \in Instance  BY DEF Sound
<1>2. /\ Step(s, u) /\ RouteKept(s, u) /\ \A e \in Slot : Keeps(s, u, e)
      /\ u.dag[d].preferred = NULL /\ u.dag[d].parents = s.dag[d].parents /\ u.free = s.free
      /\ \A e \in Slot \ {d} : u.dag[e] = s.dag[e]
  BY NullifyAllStep
<1>3. u \in Instance /\ Sound(u)  BY <1>2 DEF Step, Sound
<1>4. t = Patched(u, d, g, NoParents, u.route, f)
  BY <1>3 DEF RemoveAll, Patched, Instance
<1> HIDE DEF u
<1>5. u.dag[d] \in DagRecord /\ u.route \in Nbr \cup {NULL} /\ u.free \in Nat
  BY <1>3 DEF Instance
<1>6. Len(s.dag[d].parents) \in Nat  BY <1>1, Fields
<1>7. f \in Nat  BY <1>5, <1>6
<1>8. NoParents \in [Nbr -> ParentRecord]  BY DEF NoParents, NoParent, ParentRecord, Infinite
<1>9. /\ g \in DagRecord /\ g.parents = <<>> /\ g.preferred = NULL /\ g.rank = u.dag[d].rank
      /\ g.min = u.dag[d].min
      /\ g.used = u.dag[d].used /\ g.joined = u.dag[d].joined /\ g.id = u.dag[d].id
  <2>1. <<>> \in Seq(Nbr)  OBVIOUS
  <2>2. g \in DagRecord  BY <1>5, <2>1 DEF DagRecord
  <2> QED  BY <2>2, <1>2, <1>5 DEF DagRecord
<1> HIDE DEF g
<1>10. IsPatch(t, u, d, g, NoParents, u.route, f)  BY <1>3, <1>4, <1>5, <1>7, <1>8, <1>9, PatchFields
<1>11. Step(u, t)
  <2>1. IsInjective(g.parents) /\ g.preferred \in ToSet(g.parents) \cup {NULL}
    BY <1>9 DEF IsInjective
  <2>2. f + Len(g.parents) = u.free + Len(u.dag[d].parents)
    <3>1. Len(g.parents) = 0  BY <1>9
    <3> QED  BY <3>1, <1>2, <1>5, <1>6
  <2> HIDE DEF f
  <2> QED  BY <2>1, <2>2, <1>3, <1>7, <1>9, <1>10, PatchStep
<1>12. Step(s, t)  BY <1>2, <1>11, StepTransitive
<1>13. t.dag[d] = g /\ t.route = u.route
       /\ \A e \in Slot \ {d} : t.dag[e] = u.dag[e] /\ t.parent[e] = u.parent[e]
  BY <1>10 DEF IsPatch
<1>14. ASSUME NEW e \in Slot PROVE Keeps(s, t, e)
  <2>1. CASE e # d  BY <2>1, <1>2, <1>13 DEF Keeps
  <2>2. CASE e = d
    <3>1. Keeps(u, t, d)  BY <1>2, <1>9, <1>13 DEF Keeps
    <3> QED  BY <2>2, <3>1, <1>2, KeepsTransitive
  <2> QED  BY <2>1, <2>2
<1> QED  BY <1>2, <1>9, <1>12, <1>13, <1>14 DEF RouteKept

(* A search in a list of parents returns one that was asked for. *)
LEMMA FirstLast ==
  ASSUME NEW s \in Instance, NEW d \in Slot, NEW S, S \subseteq Parents(s, d), S # {}
  PROVE  FirstOf(s, d, S) \in S /\ LastOf(s, d, S) \in S
<1> DEFINE q == s.dag[d].parents
           P == Places(s, d, S)
<1>1. q \in Seq(Nbr) /\ DOMAIN q = 1 .. Len(q) /\ Len(q) \in Nat  BY Fields
<1>2. P \subseteq 1 .. Len(q) /\ \A i \in P : q[i] \in S  BY <1>1 DEF Places
<1>3. P # {}
  <2>1. PICK x \in S : TRUE  OBVIOUS
  <2>2. PICK i \in DOMAIN q : q[i] = x  BY <2>1 DEF Parents, ToSet
  <2> QED  BY <2>1, <2>2 DEF Places
<1> HIDE DEF P
<1>4. Min(P) \in P /\ Max(P) \in P  BY <1>1, <1>2, <1>3, Extremes
<1> QED  BY <1>2, <1>4 DEF FirstOf, LastOf, P

(* A search for a slot returns a slot, never the null pointer. *)
LEMMA SlotMinimum ==
  ASSUME NEW S, S \subseteq Slot, S # {}
  PROVE  Min(S) \in S /\ Min(S) \in Slot /\ Min(S) # 0
<1>1. 2 \in Nat /\ S \subseteq 1 .. 2  BY DEF Slot
<1>2. Min(S) \in S  BY <1>1, Extremes
<1>3. \A x \in Slot : x # 0  BY DEF Slot
<1> QED  BY <1>2, <1>3

(* What the searches for a DODAG and for a slot return. *)
LEMMA SlotsFound ==
  ASSUME NEW s \in Instance
  PROVE  /\ \A id : \/ SlotOf(s, id) = 0 /\ \A d \in UsedDags(s) : s.dag[d].id # id
                    \/ /\ SlotOf(s, id) \in UsedDags(s) /\ SlotOf(s, id) \in Slot
                       /\ SlotOf(s, id) # 0 /\ s.dag[SlotOf(s, id)].id = id
         /\ \A n : \/ DagOf(s, n) = 0 /\ \A d \in UsedDags(s) : n \notin Parents(s, d)
                   \/ /\ DagOf(s, n) \in UsedDags(s) /\ DagOf(s, n) \in Slot
                      /\ DagOf(s, n) # 0 /\ n \in Parents(s, DagOf(s, n))
         /\ FreeSlots(s) # {} => FirstFree(s) \in Slot \ UsedDags(s)
<1>1. UsedDags(s) \subseteq Slot /\ 0 \notin Slot  BY DEF UsedDags, Slot
<1>2. ASSUME NEW id
      PROVE  \/ SlotOf(s, id) = 0 /\ \A d \in UsedDags(s) : s.dag[d].id # id
             \/ /\ SlotOf(s, id) \in UsedDags(s) /\ SlotOf(s, id) \in Slot
                /\ SlotOf(s, id) # 0 /\ s.dag[SlotOf(s, id)].id = id
  <2>1. CASE \E d \in UsedDags(s) : s.dag[d].id = id
    <3>1. SlotOf(s, id) = CHOOSE d \in UsedDags(s) : s.dag[d].id = id  BY <2>1 DEF SlotOf
    <3>2. SlotOf(s, id) \in UsedDags(s) /\ s.dag[SlotOf(s, id)].id = id  BY <2>1, <3>1
    <3> QED  BY <3>2, <1>1
  <2>2. CASE ~ \E d \in UsedDags(s) : s.dag[d].id = id
    BY <2>2 DEF SlotOf
  <2> QED  BY <2>1, <2>2
<1>3. ASSUME NEW n
      PROVE  \/ DagOf(s, n) = 0 /\ \A d \in UsedDags(s) : n \notin Parents(s, d)
             \/ /\ DagOf(s, n) \in UsedDags(s) /\ DagOf(s, n) \in Slot
                /\ DagOf(s, n) # 0 /\ n \in Parents(s, DagOf(s, n))
  <2>1. DagsOf(s, n) \subseteq Slot  BY <1>1 DEF DagsOf
  <2>2. CASE DagsOf(s, n) # {}
    <3>1. DagOf(s, n) = Min(DagsOf(s, n))  BY <2>2 DEF DagOf
    <3>2. DagOf(s, n) \in DagsOf(s, n) /\ DagOf(s, n) \in Slot /\ DagOf(s, n) # 0
      BY <2>1, <2>2, <3>1, SlotMinimum
    <3> QED  BY <3>2 DEF DagsOf
  <2>3. CASE DagsOf(s, n) = {}
    BY <2>3 DEF DagOf, DagsOf
  <2> QED  BY <2>2, <2>3
<1>4. ASSUME FreeSlots(s) # {} PROVE FirstFree(s) \in Slot \ UsedDags(s)
  <2>1. FreeSlots(s) \subseteq Slot  BY DEF FreeSlots
  <2> QED  BY <1>4, <2>1, SlotMinimum DEF FirstFree, FreeSlots
<1> QED  BY <1>2, <1>3, <1>4

(* A list that holds nobody is empty. *)
LEMMA NoneLeft ==
  ASSUME NEW s \in Instance, NEW d \in Slot, Parents(s, d) = {}
  PROVE  s.dag[d].parents = <<>>
<1>1. s.dag[d].parents \in Seq(Nbr)  BY Fields
<1>2. \A i \in 1 .. Len(s.dag[d].parents) : s.dag[d].parents[i] \in Parents(s, d)
  BY <1>1 DEF Parents, ToSet
<1>3. Len(s.dag[d].parents) = 0  BY <1>1, <1>2
<1> QED  BY <1>1, <1>3

(* remove_worst_parent evicts one parent or none, never the preferred. *)
LEMMA RemoveWorstStep ==
  ASSUME NEW s, Sound(s), NEW d \in Slot, NEW rank, NEW t, t = RemoveWorst(s, d, rank)
  PROVE  /\ Step(s, t) /\ RouteKept(s, t) /\ \A e \in Slot : Keeps(s, t, e)
         /\ Parents(t, d) \subseteq Parents(s, d)
         /\ \A e \in Slot \ {d} : t.dag[e] = s.dag[e]
         /\ SameVersions(s, t) /\ \A e \in Slot, k \in Nbr : Takes(s, t, e, k)
<1> DEFINE others == Parents(s, d) \ {s.dag[d].preferred}
           highest == {n \in others : \A m \in others : s.parent[d][m].rank <= s.parent[d][n].rank}
<1>1. s \in Instance  BY DEF Sound
<1>2. CASE t = s
  BY <1>2 DEF Step, Frame, Keeps, RouteKept, SameVersions, Takes
<1>3. CASE t # s
  <2>1. others # {} /\ t = RemoveParent(s, d, FirstOf(s, d, highest))
    BY <1>3 DEF RemoveWorst
  <2>2. \A n \in others : s.parent[d][n].rank \in 0 .. Infinite
    <3>1. s.parent[d] \in [Nbr -> ParentRecord] /\ Parents(s, d) \subseteq Nbr  BY <1>1, Fields
    <3> QED  BY <3>1 DEF ParentRecord
  <2> DEFINE T == {k \in Nat : \E n \in others : k = Infinite - s.parent[d][n].rank}
  <2>3. PICK n \in others : TRUE  BY <2>1
  <2>0. \A k, l \in 0 .. Infinite :
          Infinite - k \in Nat /\ (Infinite - k <= Infinite - l => l <= k)
    BY DEF Infinite
  <2>4. Infinite - s.parent[d][n].rank \in Nat  BY <2>0, <2>2, <2>3, Zenon
  <2>5. T # {} /\ T \subseteq Nat
    <3> HIDE DEF others
    <3> QED  BY <2>3, <2>4
  <2>6. PICK k \in T : \A l \in T : k <= l
    <3> HIDE DEF T
    <3> QED  BY <2>5, LeastNatural
  <2>7. PICK m \in others : k = Infinite - s.parent[d][m].rank  BY <2>6
  <2>8. ASSUME NEW o \in others PROVE s.parent[d][o].rank <= s.parent[d][m].rank
    <3>1. s.parent[d][o].rank \in 0 .. Infinite /\ s.parent[d][m].rank \in 0 .. Infinite
      BY <2>2, <2>7
    <3>2. Infinite - s.parent[d][o].rank \in T  BY <2>0, <3>1, Zenon
    <3>3. k <= Infinite - s.parent[d][o].rank  BY <3>2, <2>6
    <3> QED  BY <2>0, <3>1, <3>3, <2>7, Zenon
  <2>9. highest # {} /\ highest \subseteq Parents(s, d)  BY <2>7, <2>8
  <2> HIDE DEF highest
  <2>10. FirstOf(s, d, highest) \in Parents(s, d)  BY <2>9, <1>1, FirstLast
  <2>11. /\ Step(s, t) /\ RouteKept(s, t) /\ \A e \in Slot : Keeps(s, t, e)
         /\ Parents(t, d) = Parents(s, d) \ {FirstOf(s, d, highest)}
         /\ \A e \in Slot \ {d} : t.dag[e] = s.dag[e]
         /\ SameVersions(s, t) /\ \A e \in Slot, x \in Nbr : Takes(s, t, e, x)
    BY <2>1, <2>10, RemoveParentStep
  <2> QED  BY <2>11
<1> QED  BY <1>2, <1>3

(* A parent is put at the end of a list, with a block that is free. *)
Listed(s, d, n, rec) ==
  Patched(s, d, [s.dag[d] EXCEPT !.parents = Append(@, n)], [s.parent[d] EXCEPT ![n] = rec],
          s.route, s.free - 1)

(* A block comes from the pool with the parent it is for. *)
LEMMA ListedStep ==
  ASSUME NEW s, Sound(s), NEW d \in Slot, NEW n \in Nbr \ Parents(s, d),
         NEW rec \in ParentRecord, s.free > 0, s.dag[d].used, NEW t, t = Listed(s, d, n, rec)
  PROVE  /\ Step(s, t) /\ t.route = s.route /\ \A e \in Slot : Keeps(s, t, e)
         /\ t.parent[d][n] = rec /\ Parents(t, d) = Parents(s, d) \cup {n}
         /\ \A e \in Slot \ {d} : t.dag[e] = s.dag[e] /\ t.parent[e] = s.parent[e]
         /\ t.dag[d].preferred = s.dag[d].preferred /\ t.dag[d].rank = s.dag[d].rank
         /\ t.dag[d].min = s.dag[d].min
         /\ SameVersions(s, t) /\ Takes(s, t, d, n)
<1> DEFINE g == [s.dag[d] EXCEPT !.parents = Append(@, n)]
           p == [s.parent[d] EXCEPT ![n] = rec]
           f == s.free - 1
<1>1. s \in Instance /\ ListsOK(s)  BY DEF Sound
<1>2. /\ s.dag[d] \in DagRecord /\ s.parent[d] \in [Nbr -> ParentRecord] /\ s.free \in Nat
      /\ s.route \in Nbr \cup {NULL} /\ f \in Nat /\ f + 1 = s.free
  BY <1>1 DEF Instance
<1>3. /\ s.dag[d].parents \in Seq(Nbr) /\ IsInjective(s.dag[d].parents)
      /\ n \in Nbr \ ToSet(s.dag[d].parents)
  BY <1>1, <1>2 DEF ListsOK, Parents, DagRecord
<1>4. LET q == Append(s.dag[d].parents, n)
      IN  /\ q \in Seq(Nbr) /\ Len(q) = Len(s.dag[d].parents) + 1 /\ IsInjective(q)
          /\ ToSet(q) = Parents(s, d) \cup {n}
  BY <1>3, AppendCorrect DEF Parents
<1>5. /\ g \in DagRecord /\ g.parents = Append(s.dag[d].parents, n)
      /\ g.preferred = s.dag[d].preferred /\ g.rank = s.dag[d].rank /\ g.min = s.dag[d].min
      /\ g.used = s.dag[d].used /\ g.joined = s.dag[d].joined /\ g.id = s.dag[d].id
      /\ g.version = s.dag[d].version
  BY <1>2, <1>4 DEF DagRecord
<1>6. p \in [Nbr -> ParentRecord] /\ p[n] = rec /\ \A m \in Nbr \ {n} : p[m] = s.parent[d][m]
  BY <1>2
<1>7. t = Patched(s, d, g, p, s.route, f)  BY DEF Listed
<1> HIDE DEF g, p, f
<1>8. IsPatch(t, s, d, g, p, s.route, f)
  <2>1. /\ g \in DagRecord /\ p \in [Nbr -> ParentRecord] /\ s.route \in Nbr \cup {NULL}
        /\ f \in Nat /\ s \in Instance
    BY <1>1, <1>2, <1>5, <1>6
  <2> QED  BY <2>1, <1>7, PatchFields
<1>9. Step(s, t)
  <2>1. g.preferred \in ToSet(g.parents) \cup {NULL} /\ IsInjective(g.parents)
    BY <1>1, <1>4, <1>5 DEF ListsOK
  <2>2. f + Len(g.parents) = s.free + Len(s.dag[d].parents)
    <3>1. Len(s.dag[d].parents) \in Nat  BY <1>1, Fields
    <3>2. Len(g.parents) = Len(s.dag[d].parents) + 1  BY <1>4, <1>5
    <3>3. \A k, l \in Nat : k + (l + 1) = (k + 1) + l  OBVIOUS
    <3>4. f \in Nat /\ f + 1 = s.free  BY <1>2
    <3> QED  BY <3>1, <3>2, <3>3, <3>4, Zenon
  <2> QED  BY <2>1, <2>2, <1>2, <1>5, <1>8, PatchStep
<1>10. /\ t.dag[d] = g /\ t.parent[d] = p /\ t.route = s.route
       /\ \A e \in Slot \ {d} : t.dag[e] = s.dag[e] /\ t.parent[e] = s.parent[e]
  BY <1>8 DEF IsPatch
<1>11. ASSUME NEW e \in Slot PROVE Keeps(s, t, e)
  <2>1. CASE e # d  BY <2>1, <1>10 DEF Keeps
  <2>2. CASE e = d
    <3>1. s.dag[d].preferred # NULL => s.dag[d].preferred \in Nbr \ {n}
      BY <1>1, <1>2 DEF ListsOK, DagRecord
    <3> QED  BY <2>2, <3>1, <1>5, <1>6, <1>10 DEF Keeps
  <2> QED  BY <2>1, <2>2
<1>12. SameVersions(s, t)  BY <1>5, <1>10 DEF SameVersions
<1>13. Takes(s, t, d, n)
  <2>1. Parents(s, d) \subseteq Nbr /\ Parents(t, d) = Parents(s, d) \cup {n}
    BY <1>1, <1>4, <1>5, <1>10, Fields DEF Parents
  <2>2. \A e \in Slot \ {d} : Parents(t, e) = Parents(s, e)  BY <1>10 DEF Parents
  <2>3. \A m \in Parents(s, d) \ {n} : t.parent[d][m] = s.parent[d][m]  BY <2>1, <1>6, <1>10
  <2>4. t.dag[d].used = s.dag[d].used /\ t.dag[d].preferred = s.dag[d].preferred  BY <1>5, <1>10
  <2> QED  BY <2>1, <2>2, <2>3, <2>4, <1>10 DEF Takes
<1> QED  BY <1>4, <1>5, <1>6, <1>9, <1>10, <1>11, <1>12, <1>13 DEF Parents

(* The types of what a DIO brings. *)
LEMMA DioFields ==
  ASSUME NEW dio \in Dio
  PROVE  /\ dio.from \in Nbr /\ dio.id \in DagId /\ dio.rank \in 0 .. Infinite
         /\ dio.version \in Counter /\ MetricOf(dio) \in Nat
         /\ [rank |-> dio.rank, metric |-> MetricOf(dio), updated |-> dio.stale] \in ParentRecord
<1>1. dio.from \in Nbr /\ dio.id \in DagId /\ dio.rank \in Rank /\ dio.version \in Version
      /\ dio.stale \in Stale
  BY DEF Dio
<1>2. dio.rank \in 0 .. Infinite /\ dio.stale \in BOOLEAN /\ dio.version \in Counter
  <2>1. RootRank - 1 .. Infinite = 0 .. Infinite  BY DEF RootRank
  <2> QED  BY <1>1, <2>1, RankAssumption, ConfigAssumption, DagAssumption, Zenon
<1>3. MetricOf(dio) \in Nat  BY <1>2 DEF MetricOf, RootRank, Infinite
<1> QED  BY <1>1, <1>2, <1>3 DEF ParentRecord

(* rpl_add_parent, where there is room. *)
LEMMA AddParentStep ==
  ASSUME NEW s, Sound(s), NEW d \in Slot, NEW dio \in Dio, dio.from \notin Parents(s, d),
         Room(s, d), s.dag[d].used, NEW t, t = AddParent(s, d, dio)
  PROVE  /\ Step(s, t) /\ t.route = s.route /\ \A e \in Slot : Keeps(s, t, e)
         /\ t.parent[d][dio.from].rank = dio.rank
         /\ Parents(t, d) = Parents(s, d) \cup {dio.from}
         /\ \A e \in Slot \ {d} : t.dag[e] = s.dag[e] /\ t.parent[e] = s.parent[e]
         /\ t.dag[d].preferred = s.dag[d].preferred /\ t.dag[d].rank = s.dag[d].rank
         /\ t.dag[d].min = s.dag[d].min
         /\ SameVersions(s, t) /\ Takes(s, t, d, dio.from)
<1> DEFINE rec == [rank |-> dio.rank, metric |-> MetricOf(dio), updated |-> dio.stale]
<1>1. s \in Instance /\ s.free > 0  BY DEF Sound, Room
<1>2. dio.from \in Nbr \ Parents(s, d) /\ rec \in ParentRecord  BY DioFields
<1>3. t = Listed(s, d, dio.from, rec)
  BY <1>1 DEF AddParent, Listed, Patched, Instance
<1>4. rec.rank = dio.rank  OBVIOUS
<1> HIDE DEF rec
<1> QED  BY <1>1, <1>2, <1>3, <1>4, ListedStep

(* rpl_move_parent: the same block, in another list. *)
LEMMA MoveParentStep ==
  ASSUME NEW s, Sound(s), NEW c \in Slot, NEW d \in Slot, c # d,
         NEW n \in Parents(s, c) \ Parents(s, d), s.dag[d].used, NEW t, t = MoveParent(s, c, d, n)
  PROVE  /\ Step(s, t) /\ RouteKept(s, t) /\ \A e \in Slot : Keeps(s, t, e)
         /\ t.parent[d][n] = s.parent[c][n] /\ Parents(t, d) = Parents(s, d) \cup {n}
         /\ t.dag[d].preferred = s.dag[d].preferred
         /\ SameVersions(s, t) /\ Takes(s, t, d, n) /\ n \notin Parents(t, c)
<1> DEFINE u == RemoveParent(s, c, n)
           rec == s.parent[c][n]
<1>1. s \in Instance /\ n \in Nbr  BY Fields DEF Sound
<1>2. rec \in ParentRecord  BY <1>1, Fields
<1>3. /\ Step(s, u) /\ RouteKept(s, u) /\ \A e \in Slot : Keeps(s, u, e)
      /\ \A e \in Slot \ {c} : u.dag[e] = s.dag[e]
      /\ u.free > 0 /\ SameVersions(s, u) /\ Takes(s, u, d, n)
      /\ Parents(u, c) = Parents(s, c) \ {n}
  BY <1>1, RemoveParentStep
<1>4. Sound(u) /\ u \in Instance /\ n \in Nbr \ Parents(u, d)
  BY <1>1, <1>3 DEF Step, Sound, Parents
<1>5. t = Listed(u, d, n, rec)
  <2> DEFINE v == Nullify(s, c, n)
  <2>1. v \in Instance /\ v.parent = s.parent  BY <1>1, NullifyFields
  <2>2. t = [v EXCEPT !.dag[c].parents = RemoveFirst(@, n), !.dag[d].parents = Append(@, n),
                      !.parent[d][n] = rec, !.parent[c][n] = NoParent]
    BY DEF MoveParent
  <2>3. u = [v EXCEPT !.dag[c].parents = RemoveFirst(@, n), !.free = @ + 1, !.parent[c][n] = NoParent]
    BY DEF RemoveParent
  <2> HIDE DEF u, v, rec
  <2> DEFINE D == [v.dag EXCEPT ![c].parents = RemoveFirst(@, n), ![d].parents = Append(@, n)]
             P == [v.parent EXCEPT ![d][n] = rec, ![c][n] = NoParent]
             w == [v EXCEPT !.dag = D, !.parent = P]
  <2>4. t = w  BY <2>1, <2>2 DEF Instance
  <2>5. /\ u.dag = [v.dag EXCEPT ![c].parents = RemoveFirst(@, n)]
        /\ u.parent = [v.parent EXCEPT ![c][n] = NoParent]
        /\ u.free = v.free + 1 /\ v.free \in Nat /\ u.route = v.route
    BY <2>1, <2>3 DEF Instance
  <2>6. [u.dag EXCEPT ![d] = [u.dag[d] EXCEPT !.parents = Append(@, n)]] = D
    BY <2>1, <2>5 DEF Instance
  <2>7. [u.parent EXCEPT ![d] = [u.parent[d] EXCEPT ![n] = rec]] = P
    BY <2>1, <2>5 DEF Instance
  <2>8. u.free - 1 = v.free  BY <2>5
  <2> HIDE DEF D, P
  <2>9. Listed(u, d, n, rec) = [u EXCEPT !.dag = D, !.parent = P, !.route = u.route, !.free = v.free]
    BY <1>4, <2>6, <2>7, <2>8 DEF Listed, Patched, Instance
  <2>10. [u EXCEPT !.dag = D, !.parent = P, !.route = u.route, !.free = v.free] = w
    <3>1. u = [v EXCEPT !.dag = u.dag, !.parent = u.parent, !.free = u.free]
      BY <2>1, <2>3, <2>5 DEF Instance
    <3>2. u.route = v.route /\ v.free = v.free  BY <2>5
    <3> QED  BY ONLY <2>1, <3>1, <3>2, ZenonT(30) DEF Instance, w
  <2> QED  BY <2>4, <2>9, <2>10
<1> HIDE DEF u, rec
<1>6. /\ Step(u, t) /\ t.route = u.route /\ \A e \in Slot : Keeps(u, t, e)
      /\ t.parent[d][n] = rec /\ Parents(t, d) = Parents(u, d) \cup {n}
      /\ t.dag[d].preferred = u.dag[d].preferred
      /\ SameVersions(u, t) /\ Takes(u, t, d, n) /\ t.dag[c] = u.dag[c]
  BY <1>2, <1>3, <1>4, <1>5, ListedStep
<1>7. Step(s, t)  BY <1>3, <1>6, StepTransitive
<1>8. \A e \in Slot : Keeps(s, t, e)  BY <1>3, <1>6, KeepsTransitive
<1>9. SameVersions(s, t) /\ Takes(s, t, d, n)  BY <1>3, <1>6, TakesTransitive DEF SameVersions
<1>10. n \notin Parents(t, c)  BY <1>3, <1>6 DEF Parents
<1> QED  BY <1>3, <1>6, <1>7, <1>8, <1>9, <1>10 DEF rec, RouteKept, Parents

-----------------------------------------------------------------------------
(* A DODAG of the instance gets other ranks, or another preferred parent   *)
(* of its list.                                                            *)
Redag(s, d, n, k, m) ==
  [s EXCEPT !.dag[d] = [@ EXCEPT !.preferred = n, !.rank = k, !.min = m]]

Reranked(s, t, d, n, k, m) ==
  /\ t.route = s.route /\ t.parent = s.parent /\ t.free = s.free
  /\ t.dag[d].preferred = n /\ t.dag[d].rank = k /\ t.dag[d].min = m
  /\ t.dag[d].parents = s.dag[d].parents
  /\ \A e \in Slot \ {d} : t.dag[e] = s.dag[e]

(* Neither moves the node or a block. *)
LEMMA DagStep ==
  ASSUME NEW s, Sound(s), NEW d \in Slot, NEW n \in Parents(s, d) \cup {NULL},
         NEW k \in 0 .. Infinite, NEW m \in 0 .. Infinite,
         NEW t, t = Redag(s, d, n, k, m)
  PROVE  /\ Step(s, t) /\ Reranked(s, t, d, n, k, m)
         /\ n \in {s.dag[d].preferred, NULL} \cup Fit(s, d) => Judged(s, t)
<1> DEFINE g == [s.dag[d] EXCEPT !.preferred = n, !.rank = k, !.min = m]
<1>1. s \in Instance /\ ListsOK(s)  BY DEF Sound
<1>2. n \in Nbr \cup {NULL}  BY <1>1, Fields
<1>3. /\ s.dag[d] \in DagRecord /\ s.parent[d] \in [Nbr -> ParentRecord] /\ s.free \in Nat
      /\ s.route \in Nbr \cup {NULL}
  BY <1>1 DEF Instance
<1>4. g \in DagRecord  BY <1>2, <1>3 DEF DagRecord
<1>5. /\ g.preferred = n /\ g.rank = k /\ g.min = m /\ g.parents = s.dag[d].parents
      /\ g.used = s.dag[d].used /\ g.joined = s.dag[d].joined /\ g.id = s.dag[d].id
      /\ g.version = s.dag[d].version
  BY <1>3 DEF DagRecord
<1>6. t = Patched(s, d, g, s.parent[d], s.route, s.free)  BY <1>1 DEF Patched, Instance, Redag
<1>7. t.parent = s.parent  BY <1>1 DEF Instance, Redag
<1> HIDE DEF g
<1>8. IsPatch(t, s, d, g, s.parent[d], s.route, s.free)  BY <1>1, <1>3, <1>4, <1>6, PatchFields
<1>9. /\ IsInjective(g.parents) /\ g.preferred \in ToSet(g.parents) \cup {NULL}
      /\ g.used \/ g.parents = <<>>
  BY <1>1, <1>5 DEF ListsOK, Parents
<1>10. Step(s, t)  BY <1>3, <1>4, <1>5, <1>8, <1>9, PatchStep
<1>11. n \in {s.dag[d].preferred, NULL} \cup Fit(s, d) => Judged(s, t)
  BY <1>5, <1>8, PatchJudged
<1> QED  BY <1>5, <1>7, <1>8, <1>10, <1>11 DEF IsPatch, Reranked

(* The same with another version. *)
Headed(s, d, v, n, k, m) ==
  [s EXCEPT !.dag[d] = [@ EXCEPT !.version = v, !.preferred = n, !.rank = k, !.min = m]]

(* The version matters to nothing but the next DIO. *)
LEMMA HeadStep ==
  ASSUME NEW s, Sound(s), NEW d \in Slot, NEW v \in Counter,
         NEW n \in Parents(s, d) \cup {NULL},
         NEW k \in 0 .. Infinite, NEW m \in 0 .. Infinite,
         NEW t, t = Headed(s, d, v, n, k, m)
  PROVE  Step(s, t) /\ Reranked(s, t, d, n, k, m) /\ t.dag[d].version = v
<1> DEFINE g == [s.dag[d] EXCEPT !.version = v, !.preferred = n, !.rank = k, !.min = m]
<1>1. s \in Instance /\ ListsOK(s)  BY DEF Sound
<1>2. n \in Nbr \cup {NULL}  BY <1>1, Fields
<1>3. /\ s.dag[d] \in DagRecord /\ s.parent[d] \in [Nbr -> ParentRecord] /\ s.free \in Nat
      /\ s.route \in Nbr \cup {NULL}
  BY <1>1 DEF Instance
<1>4. g \in DagRecord  BY <1>2, <1>3 DEF DagRecord
<1>5. /\ g.preferred = n /\ g.rank = k /\ g.min = m /\ g.parents = s.dag[d].parents
      /\ g.used = s.dag[d].used /\ g.joined = s.dag[d].joined /\ g.id = s.dag[d].id
      /\ g.version = v
  BY <1>3 DEF DagRecord
<1>6. t = Patched(s, d, g, s.parent[d], s.route, s.free)  BY <1>1 DEF Patched, Instance, Headed
<1>7. t.parent = s.parent  BY <1>1 DEF Instance, Headed
<1> HIDE DEF g
<1>8. IsPatch(t, s, d, g, s.parent[d], s.route, s.free)  BY <1>1, <1>3, <1>4, <1>6, PatchFields
<1>9. /\ IsInjective(g.parents) /\ g.preferred \in ToSet(g.parents) \cup {NULL}
      /\ g.used \/ g.parents = <<>>
  BY <1>1, <1>5 DEF ListsOK, Parents
<1>10. Step(s, t)  BY <1>3, <1>4, <1>5, <1>8, <1>9, PatchStep
<1> QED  BY <1>5, <1>7, <1>8, <1>10 DEF IsPatch, Reranked

(* Path metrics can be compared. *)
LEMMA MetricNatural ==
  ASSUME NEW p \in ParentRecord
  PROVE  PathMetric(p) \in Nat
<1>1. p.metric \in Nat  BY DEF ParentRecord
<1>2. Increase \in Nat  BY RankAssumption
<1>3. p.metric + Increase \in Nat  BY <1>1, <1>2
<1> QED  BY <1>3 DEF PathMetric, MaxPathCost

(* rpl_select_parent chooses one of the list that has a rank, or nobody. *)
LEMMA BestInList ==
  ASSUME NEW s \in Instance, NEW d \in Slot
  PROVE  \/ BestIn(s, d) = NULL
         \/ BestIn(s, d) \in Parents(s, d) /\ s.parent[d][BestIn(s, d)].rank # Infinite
<1> DEFINE S == {n \in Parents(s, d) : s.parent[d][n].rank # Infinite}
           cost(n) == PathMetric(s.parent[d][n])
           least == {n \in S : \A m \in S : cost(n) <= cost(m)}
<1>1. CASE S = {}  BY <1>1 DEF BestIn
<1>2. CASE S # {}
  <2>1. \A n \in S : cost(n) \in Nat
    <3>1. s.parent[d] \in [Nbr -> ParentRecord] /\ Parents(s, d) \subseteq Nbr  BY Fields
    <3>2. \A n \in S : s.parent[d][n] \in ParentRecord  BY <3>1
    <3> QED  BY <3>2, MetricNatural
  <2> HIDE DEF cost
  <2> DEFINE T == {k \in Nat : \E n \in S : k = cost(n)}
  <2>2. T # {} /\ T \subseteq Nat
    <3> HIDE DEF S
    <3>1. PICK n \in S : TRUE  BY <1>2
    <3> QED  BY <3>1, <2>1
  <2>3. PICK k \in T : \A l \in T : k <= l
    <3> HIDE DEF T
    <3> QED  BY <2>2, LeastNatural
  <2>4. PICK n \in S : k = cost(n)  BY <2>3
  <2>5. \A m \in S : cost(n) <= cost(m)  BY <2>1, <2>3, <2>4
  <2>6. /\ least # {} /\ least \subseteq Parents(s, d)
        /\ \A m \in least : s.parent[d][m].rank # Infinite
    BY <2>4, <2>5
  <2>7. BestIn(s, d) = IF s.dag[d].preferred \in least THEN s.dag[d].preferred
                       ELSE LastOf(s, d, least)
    BY <1>2 DEF BestIn, BestParent, cost
  <2> HIDE DEF least
  <2>8. LastOf(s, d, least) \in least  BY <2>6, FirstLast
  <2> QED  BY <2>6, <2>7, <2>8
<1> QED  BY <1>1, <1>2

(* calculate_rank: infinite, or above the rank of the parent. *)
LEMMA RankType ==
  ASSUME NEW s \in Instance, NEW d \in Slot, NEW n \in Nbr \cup {NULL}
  PROVE  /\ CalculateRank(s, d, n) \in 0 .. Infinite
         /\ CalculateRank(s, d, n) # Infinite =>
              /\ n # NULL
              /\ CalculateRank(s, d, n) > s.parent[d][n].rank
<1>1. CASE n = NULL  BY <1>1 DEF CalculateRank, Infinite
<1>2. CASE n # NULL
  <2> DEFINE k == s.parent[d][n].rank
  <2>1. k \in 0 .. Infinite
    <3>1. s.parent[d] \in [Nbr -> ParentRecord] /\ n \in Nbr  BY <1>2, Fields
    <3>2. s.parent[d][n] \in ParentRecord  BY <3>1
    <3> QED  BY <3>2 DEF ParentRecord
  <2>2. CalculateRank(s, d, n) = IF Infinite - k < Increase THEN Infinite ELSE k + Increase
    BY <1>2 DEF CalculateRank
  <2>3. Increase \in Nat \ {0}  BY RankAssumption
  <2> HIDE DEF k
  <2>4. (Infinite - k < Increase \/ k + Increase \in 0 .. Infinite) /\ k + Increase > k
        /\ Infinite \in 0 .. Infinite
    BY <2>1, <2>3 DEF Infinite
  <2> QED  BY <1>2, <2>2, <2>4 DEF k
<1> QED  BY <1>1, <1>2

(* The node is in one DODAG: the one current names. *)
Joined(s) ==
  /\ s.used /\ s.current \in UsedDags(s)
  /\ \A d \in UsedDags(s) : s.dag[d].joined <=> d = s.current

(* A handler that neither adds nor leaves a DODAG may move the node.       *)
Move(s, t) ==
  /\ Sound(t) /\ Joined(t) /\ Blocks(t) = Blocks(s)
  /\ \A d \in Slot : t.dag[d].used = s.dag[d].used /\ t.dag[d].id = s.dag[d].id

(* The rank, the preferred parent and the default route of the DODAG the   *)
(* node is in agree.                                                       *)
RouteOK(s) ==
  LET n == s.dag[s.current].preferred
  IN  s.route # NULL /\ n # NULL => s.route = n

Ranked(s) ==
  LET g == s.dag[s.current]
      p == s.parent[s.current][g.preferred]
  IN  /\ g.preferred # NULL => g.rank > p.rank \/ p.updated
      /\ g.preferred = NULL => g.rank \in {Infinite, RootRank}
      /\ g.rank = Infinite \/ MaxRankInc = 0 \/ g.rank <= g.min + MaxRankInc
      /\ RouteOK(s)

(* A step leaves the node in the DODAG it was in. *)
LEMMA StepMoves ==
  ASSUME NEW s, NEW t, Joined(s), Step(s, t)
  PROVE  Move(s, t) /\ t.current = s.current
<1>1. UsedDags(t) = UsedDags(s)  BY DEF Step, Frame, UsedDags
<1>2. UsedDags(s) \subseteq Slot  BY DEF UsedDags
<1> QED  BY <1>1, <1>2 DEF Step, Frame, Joined, Move

(* Moves compose. *)
LEMMA MoveTransitive ==
  ASSUME NEW s, NEW t, NEW u, Move(s, t), Move(t, u)
  PROVE  Move(s, u)
BY DEF Move

(* What keeps or clears the preferred parent keeps the ranks in order. *)
LEMMA KeepsRanked ==
  ASSUME NEW s, NEW t, s.current \in Slot, t.current = s.current,
         Keeps(s, t, s.current), RouteKept(s, t)
  PROVE  /\ RouteOK(s) => RouteOK(t)
         /\ Ranked(s) => Ranked(t)
<1>1. RouteOK(s) => RouteOK(t)  BY DEF RouteOK, Keeps, RouteKept
<1> QED  BY <1>1 DEF Ranked, Keeps

(* Choosing a preferred parent touches nothing else. *)
LEMMA SelectedStep ==
  ASSUME NEW s, Sound(s), NEW d \in Slot, NEW t, t = Selected(s, d)
  PROVE  /\ Step(s, t) /\ t.route = s.route /\ t.parent = s.parent /\ Judged(s, t)
         /\ \A e \in Slot : Parents(t, e) = Parents(s, e)
<1>1. s \in Instance  BY DEF Sound
<1>2. CASE t = s  BY <1>2 DEF Step, Frame, Judged, SameDag
<1>3. CASE t # s
  <2> DEFINE n == BestIn(s, d)
  <2>1. n # NULL /\ t = [s EXCEPT !.dag[d].preferred = n]  BY <1>3 DEF Selected, SelectParent
  <2>2. n \in Parents(s, d) /\ n \in Fit(s, d)  BY <1>1, <2>1, BestInList DEF Fit
  <2> DEFINE k == s.dag[d].rank
             m == s.dag[d].min
  <2>3. k \in 0 .. Infinite /\ m \in 0 .. Infinite  BY <1>1 DEF Instance, DagRecord
  <2> HIDE DEF n
  <2>4. t = Redag(s, d, n, k, m)
    <3>1. s.dag[d] \in DagRecord /\ s.dag \in [Slot -> DagRecord]  BY <1>1 DEF Instance
    <3>2. [s.dag[d] EXCEPT !.preferred = n] = [s.dag[d] EXCEPT !.preferred = n, !.rank = k, !.min = m]
      BY <3>1 DEF DagRecord
    <3> HIDE DEF k, m
    <3> QED  BY <1>1, <2>1, <3>1, <3>2 DEF Instance, Redag
  <2> HIDE DEF k, m
  <2>5. /\ Step(s, t) /\ Judged(s, t) /\ t.route = s.route /\ t.parent = s.parent
        /\ t.dag[d].parents = s.dag[d].parents /\ \A e \in Slot \ {d} : t.dag[e] = s.dag[e]
    BY <2>2, <2>3, <2>4, DagStep DEF Reranked
  <2> QED  BY <2>5 DEF Parents
<1> QED  BY <1>2, <1>3

(* rpl_select_dag settles for a DODAG that is in use, or for none. *)
LEMMA ChoiceUsed ==
  ASSUME NEW s, Joined(s), NEW d \in UsedDags(s)
  PROVE  Choice(s, d) \in UsedDags(s) \cup {0}
<1>1. s.current \in UsedDags(s)  BY DEF Joined
<1>2. BestDag(SelectParent(s, d), s.current, d) \in UsedDags(s)
  BY <1>1 DEF BestDag
<1>3. Usable(s) \subseteq UsedDags(s)  BY DEF Usable
<1>4. Usable(s) = Slot => BestDag(s, 1, 2) \in UsedDags(s)  BY <1>3 DEF BestDag, Slot
<1>5. Usable(s) # {} => (CHOOSE e \in Usable(s) : TRUE) \in UsedDags(s)  BY <1>3
<1> QED  BY <1>1, <1>2, <1>4, <1>5 DEF Choice

(* Changing the DODAG leaves the old one and joins the new one. *)
LEMMA EnterMoves ==
  ASSUME NEW s, Sound(s), Joined(s), NEW d \in UsedDags(s), NEW t, t = Enter(s, d)
  PROVE  /\ Move(s, t) /\ t.current = d /\ t.route = s.route /\ t.parent = s.parent
         /\ Judged(s, t)
         /\ \A e \in Slot : /\ t.dag[e].preferred = s.dag[e].preferred
                            /\ t.dag[e].parents = s.dag[e].parents
<1>1. CASE d = s.current  BY <1>1 DEF Enter, Move, Judged, SameDag
<1>2. CASE d # s.current
  <2> DEFINE c == s.current
  <2>1. s \in Instance /\ c \in UsedDags(s) /\ c \in Slot /\ d \in Slot /\ s.used
    BY DEF Sound, Joined, UsedDags
  <2>2. t = [s EXCEPT !.dag[d].joined = TRUE, !.dag[c].joined = FALSE, !.current = d]
    BY <1>2 DEF Enter
  <2> HIDE DEF c
  <2> DEFINE D == [s.dag EXCEPT ![d] = [s.dag[d] EXCEPT !.joined = TRUE],
                                ![c] = [s.dag[c] EXCEPT !.joined = FALSE]]
  <2>3. c # d  BY <1>2 DEF c
  <2>4. t = [s EXCEPT !.dag = D, !.current = d]  BY <2>1, <2>2, <2>3 DEF Instance
  <2>5. s.dag \in [Slot -> DagRecord]  BY <2>1 DEF Instance
  <2>6. [s.dag[d] EXCEPT !.joined = TRUE] \in DagRecord /\ [s.dag[c] EXCEPT !.joined = FALSE] \in DagRecord
    <3>1. \A g \in DagRecord : [g EXCEPT !.joined = TRUE] \in DagRecord
                               /\ [g EXCEPT !.joined = FALSE] \in DagRecord
      BY DEF DagRecord
    <3> QED  BY <2>1, <2>5, <3>1
  <2>7. D \in [Slot -> DagRecord]  BY <2>1, <2>5, <2>6
  <2>8. \A e \in Slot : /\ D[e].used = s.dag[e].used /\ D[e].id = s.dag[e].id
                        /\ D[e].parents = s.dag[e].parents /\ D[e].preferred = s.dag[e].preferred
                        /\ D[e].version = s.dag[e].version
                        /\ D[e].joined = IF e = d THEN TRUE ELSE IF e = c THEN FALSE ELSE s.dag[e].joined
    <3>1. \A g \in DagRecord : \A b \in BOOLEAN :
            LET h == [g EXCEPT !.joined = b]
            IN  /\ h.used = g.used /\ h.id = g.id /\ h.parents = g.parents
                /\ h.preferred = g.preferred /\ h.joined = b /\ h.version = g.version
      BY DEF DagRecord
    <3>2. ASSUME NEW e \in Slot
          PROVE /\ D[e].used = s.dag[e].used /\ D[e].id = s.dag[e].id
                /\ D[e].parents = s.dag[e].parents /\ D[e].preferred = s.dag[e].preferred
                /\ D[e].version = s.dag[e].version
                /\ D[e].joined = IF e = d THEN TRUE ELSE IF e = c THEN FALSE ELSE s.dag[e].joined
      <4>0. s.dag[e] \in DagRecord  BY <2>5
      <4>1. CASE e = d
        <5>1. D[d] = [s.dag[d] EXCEPT !.joined = TRUE]  BY <2>1, <2>3, <2>5
        <5> HIDE DEF D
        <5> QED  BY <4>0, <4>1, <5>1, <3>1, <2>3
      <4>2. CASE e = c
        <5>1. D[c] = [s.dag[c] EXCEPT !.joined = FALSE]  BY <2>1, <2>3, <2>5
        <5> HIDE DEF D
        <5> QED  BY <4>0, <4>2, <5>1, <3>1, <2>3
      <4>3. CASE e # c /\ e # d  BY <4>3, <2>1, <2>5
      <4> QED  BY <4>1, <4>2, <4>3
    <3> QED  BY <3>2
  <2> HIDE DEF D
  <2>9. /\ t.dag = D /\ t.current = d /\ t.used = s.used /\ t.route = s.route
        /\ t.parent = s.parent /\ t.free = s.free
    BY <2>1, <2>4 DEF Instance
  <2>10. t \in Instance  BY <2>1, <2>4, <2>7 DEF Instance
  <2>11. ListsOK(t)  BY <2>8, <2>9, Zenon DEF ListsOK, Parents, Sound
  <2>12. Blocks(t) = Blocks(s)  BY <2>8, <2>9 DEF Blocks, Slot
  <2>13. UsedDags(t) = UsedDags(s)  BY <2>8, <2>9 DEF UsedDags
  <2>14. Joined(t)
    <3>1. \A e \in UsedDags(s) : e \in Slot /\ (s.dag[e].joined <=> e = c)
      BY DEF Joined, UsedDags, c
    <3>2. ASSUME NEW e \in UsedDags(s) PROVE t.dag[e].joined <=> e = d
      <4>1. e \in Slot /\ (s.dag[e].joined <=> e = c)  BY <3>1
      <4>2. t.dag[e].joined = IF e = d THEN TRUE ELSE IF e = c THEN FALSE ELSE s.dag[e].joined
        BY <4>1, <2>8, <2>9
      <4> QED  BY <4>1, <4>2
    <3> QED  BY <3>2, <2>1, <2>9, <2>13 DEF Joined
  <2>15. Judged(s, t)  BY <2>8, <2>9 DEF Judged, SameDag
  <2> QED  BY <2>8, <2>9, <2>10, <2>11, <2>12, <2>14, <2>15 DEF Move, Sound
<1> QED  BY <1>1, <1>2

(* The rank after rpl_select_dag follows the preferred parent. *)
LEMMA UpdateRankStep ==
  ASSUME NEW s, Sound(s), NEW d \in Slot, NEW t, t = UpdateRank(s, d)
  PROVE  /\ Step(s, t) /\ t.route = s.route /\ t.parent = s.parent /\ Judged(s, t)
         /\ t.dag[d].preferred = s.dag[d].preferred /\ t.dag[d].parents = s.dag[d].parents
         /\ t.dag[d].rank = CalculateRank(s, d, s.dag[d].preferred)
<1> DEFINE n == s.dag[d].preferred
           k == CalculateRank(s, d, n)
           m == IF k < s.dag[d].min THEN k ELSE s.dag[d].min
<1>1. s \in Instance /\ ListsOK(s)  BY DEF Sound
<1>2. n \in Parents(s, d) \cup {NULL} /\ n \in Nbr \cup {NULL}  BY <1>1, Fields DEF ListsOK
<1>3. k \in 0 .. Infinite  BY <1>1, <1>2, RankType
<1>4. s.dag[d].min \in 0 .. Infinite  BY <1>1 DEF Instance, DagRecord
<1>5. m \in 0 .. Infinite  BY <1>3, <1>4
<1>6. t = [s EXCEPT !.dag[d].rank = k, !.dag[d].min = m]  BY DEF UpdateRank
<1> HIDE DEF k
<1>7. t = Redag(s, d, n, k, m)
  <2> HIDE DEF m
  <2>1. s.dag[d] \in DagRecord /\ s.dag \in [Slot -> DagRecord]  BY <1>1 DEF Instance
  <2>2. [s.dag[d] EXCEPT !.rank = k, !.min = m] = [s.dag[d] EXCEPT !.preferred = n, !.rank = k, !.min = m]
    BY <2>1 DEF DagRecord
  <2> HIDE DEF n
  <2> QED  BY <1>1, <1>6, <2>1, <2>2 DEF Instance, Redag
<1>9. n \in {s.dag[d].preferred, NULL} \cup Fit(s, d)  OBVIOUS
<1> HIDE DEF n, m
<1>8. /\ Step(s, t) /\ t.route = s.route /\ t.parent = s.parent /\ Judged(s, t)
      /\ t.dag[d].preferred = n /\ t.dag[d].rank = k /\ t.dag[d].parents = s.dag[d].parents
  BY <1>2, <1>3, <1>5, <1>7, <1>9, DagStep DEF Reranked
<1> QED  BY <1>8 DEF n, k

(* rpl_select_dag leaves the node in one DODAG, and if it has a rank there *)
(* this is above that of its preferred parent and within its bound.        *)
LEMMA SelectDagMoves ==
  ASSUME NEW s, Sound(s), Joined(s), RouteOK(s), NEW d \in UsedDags(s)
  PROVE  LET r == SelectDag(s, d)
         IN  Move(s, r.s) /\ Judged(s, r.s) /\ (r.ok => Ranked(r.s))
<1> DEFINE a == Selected(s, d)
           best == Choice(s, d)
           b == Enter(a, best)
           t == UpdateRank(b, best)
           n == t.dag[best].preferred
           u == [t EXCEPT !.dag[best].preferred = NULL]
           v == [t EXCEPT !.route = n]
           last == <<s.current, s.dag[s.current].preferred>>
<1>1. d \in Slot /\ s.current \in Slot  BY DEF UsedDags, Joined
<1>2. /\ Step(s, a) /\ Judged(s, a) /\ a.route = s.route /\ a.parent = s.parent
  BY <1>1, SelectedStep
<1>3. Move(s, a) /\ UsedDags(a) = UsedDags(s)  BY <1>2, StepMoves DEF Step, Frame, UsedDags
<1>4. best \in UsedDags(s) \cup {0}  BY ChoiceUsed
<1>5. CASE best = 0
  <2>1. SelectDag(s, d) = [ok |-> FALSE, s |-> a]  BY <1>5 DEF SelectDag
  <2> QED  BY <2>1, <1>2, <1>3
<1>6. CASE best # 0
  <2>1. best \in UsedDags(a) /\ best \in Slot /\ Sound(a) /\ Joined(a)
    BY <1>3, <1>4, <1>6 DEF UsedDags, Move
  <2>2. SelectDag(s, d) =
          IF ~ Acceptable(t, best, t.dag[best].rank) THEN [ok |-> FALSE, s |-> u]
          ELSE IF <<best, n>> = last THEN [ok |-> TRUE, s |-> t] ELSE [ok |-> TRUE, s |-> v]
    BY <1>6 DEF SelectDag
  <2> HIDE DEF a, best
  <2>3. Move(a, b) /\ Judged(a, b) /\ b.current = best /\ b.route = a.route /\ b.parent = a.parent
    BY <2>1, EnterMoves
  <2> HIDE DEF b
  <2>4. Sound(b) /\ Joined(b)  BY <2>3 DEF Move
  <2>5. /\ Step(b, t) /\ Judged(b, t) /\ t.route = b.route /\ t.parent = b.parent
        /\ t.dag[best].preferred = b.dag[best].preferred
        /\ t.dag[best].rank = CalculateRank(b, best, b.dag[best].preferred)
    BY <2>1, <2>4, UpdateRankStep
  <2> HIDE DEF t
  <2>6. Move(b, t) /\ t.current = best  BY <2>3, <2>4, <2>5, StepMoves
  <2>7. Move(s, t) /\ Sound(t) /\ t \in Instance /\ Joined(t)
    BY <1>3, <2>3, <2>6, MoveTransitive DEF Move, Sound
  <2>8. n \in Nbr \cup {NULL}  BY <2>1, <2>7, Fields
  <2>11. Judged(s, t)  BY <1>2, <2>3, <2>5, JudgedTransitive
  <2>9. CASE ~ Acceptable(t, best, t.dag[best].rank)
    <3> DEFINE k == t.dag[best].rank
               m == t.dag[best].min
    <3>1. k \in 0 .. Infinite /\ m \in 0 .. Infinite /\ t.dag[best] \in DagRecord
          /\ t.dag \in [Slot -> DagRecord]
      BY <2>1, <2>7 DEF Instance, DagRecord
    <3>2. [t.dag[best] EXCEPT !.preferred = NULL]
            = [t.dag[best] EXCEPT !.preferred = NULL, !.rank = k, !.min = m]
      BY <3>1 DEF DagRecord
    <3> HIDE DEF k, m
    <3>3. u = Redag(t, best, NULL, k, m)  BY <2>1, <2>7, <3>1, <3>2 DEF Instance, Redag
    <3> HIDE DEF u
    <3>4. Step(t, u) /\ Judged(t, u)  BY <2>1, <2>7, <3>1, <3>3, DagStep
    <3>5. Move(t, u)  BY <2>7, <3>4, StepMoves
    <3>6. Judged(s, u)  BY <2>11, <3>4, JudgedTransitive
    <3> QED  BY <2>2, <2>7, <2>9, <3>5, <3>6, MoveTransitive
  <2>10. CASE Acceptable(t, best, t.dag[best].rank)
    <3>1. /\ t.dag[best].rank # Infinite
          /\ MaxRankInc = 0 \/ t.dag[best].rank <= t.dag[best].min + MaxRankInc
      BY <2>10 DEF Acceptable
    <3>2. n # NULL /\ t.dag[best].rank > t.parent[best][n].rank
      <4>1. b \in Instance /\ b.dag[best].preferred \in Nbr \cup {NULL}  BY <2>1, <2>4, Fields DEF Sound
      <4> QED  BY <2>1, <2>5, <3>1, <4>1, RankType
    <3>3. CASE <<best, n>> = last
      <4>1. best = s.current /\ n = s.dag[s.current].preferred  BY <3>3
      <4>2. RouteOK(t)  BY <1>2, <2>3, <2>5, <2>6, <4>1 DEF RouteOK
      <4>3. Ranked(t)  BY <2>6, <3>1, <3>2, <4>2 DEF Ranked
      <4> QED  BY <2>2, <2>7, <2>10, <2>11, <3>3, <4>3
    <3>4. CASE <<best, n>> # last
      <4>1. v \in Instance /\ v.dag = t.dag /\ v.parent = t.parent /\ v.free = t.free /\ v.route = n
            /\ v.used = t.used /\ v.current = t.current
        <5> HIDE DEF n
        <5> QED  BY <2>7, <2>8 DEF Instance
      <4> HIDE DEF v
      <4>2. UsedDags(v) = UsedDags(t) /\ Blocks(v) = Blocks(t)  BY <4>1 DEF UsedDags, Blocks
      <4>3. Sound(v) /\ Joined(v)  BY <2>7, <4>1, <4>2 DEF Sound, ListsOK, Parents, Joined
      <4>4. Move(s, v)  BY <2>7, <4>1, <4>2, <4>3 DEF Move
      <4>5. Ranked(v)  BY <2>6, <3>1, <3>2, <4>1 DEF Ranked, RouteOK
      <4>6. Judged(s, v)  BY <2>11, <4>1 DEF Judged, SameDag
      <4> QED  BY <2>2, <2>10, <3>4, <4>4, <4>5, <4>6
    <3> QED  BY <3>3, <3>4
  <2> QED  BY <2>9, <2>10
<1> QED  BY <1>5, <1>6

(* rpl_local_repair in one DODAG. *)
LEMMA RepairDagStep ==
  ASSUME NEW s, Sound(s), NEW d \in Slot, NEW t, t = RepairDag(s, d)
  PROVE  /\ Step(s, t) /\ Judged(s, t)
         /\ s.dag[d].used => t.dag[d].preferred = NULL /\ t.dag[d].rank = Infinite
         /\ \A e \in Slot \ {d} : t.dag[e] = s.dag[e]
<1>1. s \in Instance /\ ListsOK(s)  BY DEF Sound
<1>2. CASE ~ s.dag[d].used  BY <1>2 DEF RepairDag, Step, Frame, Judged, SameDag
<1>3. CASE s.dag[d].used
  <2> DEFINE n == s.dag[d].preferred
             m == s.dag[d].min
             u == [s EXCEPT !.dag[d].rank = Infinite]
  <2>1. /\ n \in Parents(s, d) \cup {NULL} /\ m \in 0 .. Infinite
        /\ s.dag[d] \in DagRecord /\ s.dag \in [Slot -> DagRecord]
    BY <1>1 DEF Instance, DagRecord, ListsOK
  <2>2. [s.dag[d] EXCEPT !.rank = Infinite]
          = [s.dag[d] EXCEPT !.preferred = n, !.rank = Infinite, !.min = m]
    BY <2>1 DEF DagRecord
  <2>9. n \in {s.dag[d].preferred, NULL} \cup Fit(s, d)  OBVIOUS
  <2> HIDE DEF n, m
  <2>3. u = Redag(s, d, n, Infinite, m)  BY <1>1, <2>1, <2>2 DEF Instance, Redag
  <2>4. t = NullifyAll(u, d)  BY <1>3 DEF RepairDag
  <2> HIDE DEF u
  <2>5. Infinite \in 0 .. Infinite  BY DEF Infinite
  <2>10. Step(s, u) /\ Judged(s, u) /\ Reranked(s, u, d, n, Infinite, m)
    BY <2>1, <2>3, <2>5, <2>9, DagStep
  <2>6. /\ Step(s, u) /\ Judged(s, u) /\ u.dag[d].rank = Infinite
        /\ \A e \in Slot \ {d} : u.dag[e] = s.dag[e]
    BY <2>10 DEF Reranked
  <2>7. Sound(u)  BY <2>6 DEF Step
  <2>8. /\ Step(u, t) /\ Judged(u, t) /\ t.dag[d].preferred = NULL /\ t.dag[d].rank \in {u.dag[d].rank, Infinite}
        /\ \A e \in Slot \ {d} : t.dag[e] = u.dag[e]
    BY <2>4, <2>7, NullifyAllStep
  <2> QED  BY <2>6, <2>8, StepTransitive, JudgedTransitive
<1> QED  BY <1>2, <1>3

(* After rpl_local_repair the node has no rank and no preferred parent. *)
LEMMA LocalRepairMoves ==
  ASSUME NEW s, Sound(s), Joined(s), NEW t, t = LocalRepair(s)
  PROVE  Move(s, t) /\ Judged(s, t) /\ Ranked(t)
<1> DEFINE u == RepairDag(s, 1)
<1>1. /\ Step(s, u) /\ Judged(s, u)
      /\ s.dag[1].used => u.dag[1].preferred = NULL /\ u.dag[1].rank = Infinite
      /\ Sound(u)
  BY RepairDagStep DEF Slot, Step
<1>2. /\ Step(u, t) /\ Judged(u, t)
      /\ u.dag[2].used => t.dag[2].preferred = NULL /\ t.dag[2].rank = Infinite
      /\ t.dag[1] = u.dag[1]
  <2>1. t = RepairDag(u, 2)  BY DEF LocalRepair
  <2> HIDE DEF u
  <2> QED  BY <1>1, <2>1, RepairDagStep DEF Slot
<1> HIDE DEF u
<1>3. s.dag[1].used = u.dag[1].used /\ s.dag[2].used = u.dag[2].used  BY <1>1 DEF Step, Frame, Slot
<1>4. Step(s, t) /\ Move(s, t) /\ t.current = s.current
  BY <1>1, <1>2, StepTransitive, StepMoves
<1>5. t.dag[t.current].preferred = NULL /\ t.dag[t.current].rank = Infinite
  BY <1>1, <1>2, <1>3, <1>4 DEF Joined, UsedDags, Slot
<1>6. Judged(s, t)  BY <1>1, <1>2, JudgedTransitive
<1> QED  BY <1>4, <1>5, <1>6 DEF Ranked, RouteOK

(* rpl_process_parent_event: whatever the node had, its rank and its route *)
(* fit its preferred parent afterwards.                                    *)
LEMMA ParentEventMoves ==
  ASSUME NEW s, Sound(s), Joined(s), RouteOK(s), NEW d \in UsedDags(s), NEW n \in Nbr,
         \/ Acceptable(s, d, s.parent[d][n].rank)
         \/ d = s.current /\ n = s.dag[d].preferred
         \/ Ranked(s),
         NEW t, t = ParentEvent(s, d, n)
  PROVE  /\ Move(s, t) /\ Ranked(t) /\ Judged(s, t)
         /\ s.parent[d][n].rank = Infinite => t.dag[d].preferred # n
<1> DEFINE fit == Acceptable(s, d, s.parent[d][n].rank)
           preferred == d = s.current /\ n = s.dag[d].preferred
           a == Nullify(s, d, n)
           b == IF fit THEN s ELSE a
           r == SelectDag(b, d)
<1>1. d \in Slot /\ s.current \in Slot  BY DEF UsedDags, Joined
<1>2. /\ Step(s, a) /\ Judged(s, a) /\ a.dag[d].preferred # n /\ RouteKept(s, a) /\ Keeps(s, a, s.current) /\ Move(s, a)
      /\ a.current = s.current
  BY <1>1, NullifyStep, StepMoves
<1> HIDE DEF a
<1>3. RouteOK(a) /\ (Ranked(s) => Ranked(a))  BY <1>1, <1>2, KeepsRanked
<1>4. Move(s, s)  BY DEF Move
<1>5. Move(s, b) /\ RouteOK(b) /\ Sound(b) /\ Joined(b) /\ d \in UsedDags(b)
  <2>1. Move(s, b) /\ RouteOK(b)  BY <1>2, <1>3, <1>4
  <2> HIDE DEF b
  <2> QED  BY <2>1 DEF Move, UsedDags
<1>6. t = IF ~ fit /\ ~ preferred THEN a ELSE IF r.ok THEN r.s ELSE LocalRepair(r.s)
  BY DEF ParentEvent, a
<1>12. Judged(s, b)  BY <1>2 DEF Judged, SameDag
<1>13. s.parent[d][n].rank = Infinite => b = a  BY DEF Acceptable
<1>7. (fit \/ preferred) \/ Ranked(s)  OBVIOUS
<1> HIDE DEF fit, preferred, b
<1>8. Move(b, r.s) /\ Judged(b, r.s) /\ (r.ok => Ranked(r.s))  BY <1>5, SelectDagMoves
<1> HIDE DEF r
<1>9. Move(s, r.s) /\ Sound(r.s) /\ Joined(r.s)  BY <1>5, <1>8, MoveTransitive DEF Move
<1>10. Move(r.s, LocalRepair(r.s)) /\ Judged(r.s, LocalRepair(r.s)) /\ Ranked(LocalRepair(r.s))  BY <1>9, LocalRepairMoves
<1>11. Move(s, LocalRepair(r.s))  BY <1>9, <1>10, MoveTransitive
<1>14. Judged(b, LocalRepair(r.s))  BY <1>8, <1>10, JudgedTransitive
<1>15. Judged(s, r.s) /\ Judged(s, LocalRepair(r.s))  BY <1>8, <1>12, <1>14, JudgedTransitive
<1>16. Judged(s, t) /\ (t = a \/ Judged(b, t))  BY <1>2, <1>6, <1>8, <1>14, <1>15
<1>17. s.parent[d][n].rank = Infinite => t.dag[d].preferred # n
  <2>1. SUFFICES ASSUME s.parent[d][n].rank = Infinite, Judged(a, t)
                 PROVE  t.dag[d].preferred # n
    BY <1>2, <1>13, <1>16
  <2>2. a.parent[d][n].rank = Infinite  BY <1>1, <1>2, <2>1 DEF Judged, SameDag
  <2>3. n \notin Fit(a, d) /\ n # NULL  BY <2>2, NullAssumption DEF Fit
  <2> QED  BY <1>1, <1>2, <2>1, <2>3 DEF Judged
<1> QED  BY <1>2, <1>3, <1>6, <1>7, <1>8, <1>9, <1>10, <1>11, <1>16, <1>17

-----------------------------------------------------------------------------
(* The record of a parent changes. *)
Recorded(s, d, n, rec) == [s EXCEPT !.parent[d] = [@ EXCEPT ![n] = rec]]

(* It changes no list and no other record. *)
LEMMA RecordStep ==
  ASSUME NEW s, Sound(s), NEW d \in Slot, NEW n \in Nbr, NEW rec \in ParentRecord,
         NEW t, t = Recorded(s, d, n, rec)
  PROVE  /\ Step(s, t) /\ t.route = s.route /\ t.dag = s.dag /\ t.parent[d][n] = rec
         /\ \A e \in Slot, m \in Nbr : <<e, m>> # <<d, n>> => t.parent[e][m] = s.parent[e][m]
<1>1. s \in Instance /\ s.parent \in [Slot -> [Nbr -> ParentRecord]]  BY DEF Sound, Instance
<1> DEFINE p == [s.parent[d] EXCEPT ![n] = rec]
           P == [s.parent EXCEPT ![d] = p]
<1>2. p \in [Nbr -> ParentRecord] /\ p[n] = rec /\ \A m \in Nbr \ {n} : p[m] = s.parent[d][m]
  BY <1>1
<1>3. t = [s EXCEPT !.parent = P]  BY <1>1 DEF Recorded, Instance
<1> HIDE DEF p
<1>4. P \in [Slot -> [Nbr -> ParentRecord]] /\ P[d] = p /\ \A e \in Slot \ {d} : P[e] = s.parent[e]
  BY <1>1, <1>2
<1> HIDE DEF P
<1>5. /\ t \in Instance /\ t.dag = s.dag /\ t.route = s.route /\ t.used = s.used
      /\ t.current = s.current /\ t.free = s.free /\ t.parent = P
  BY <1>1, <1>3, <1>4 DEF Instance
<1>6. Step(s, t)  BY <1>5 DEF Step, Sound, ListsOK, Parents, Frame, Blocks
<1>7. ASSUME NEW e \in Slot, NEW m \in Nbr, <<e, m>> # <<d, n>>
      PROVE  t.parent[e][m] = s.parent[e][m]
  BY <1>2, <1>4, <1>5, <1>7
<1> QED  BY <1>2, <1>4, <1>5, <1>6, <1>7

(* Only the record of the preferred parent matters to the rank. *)
LEMMA RecordRanked ==
  ASSUME NEW s, Sound(s), Joined(s), NEW d \in Slot, NEW n \in Nbr, NEW rec \in ParentRecord,
         NEW t, t = Recorded(s, d, n, rec)
  PROVE  /\ RouteOK(s) => RouteOK(t)
         /\ Ranked(s) => \/ d = s.current /\ n = s.dag[d].preferred
                         \/ Ranked(t)
<1>1. /\ t.route = s.route /\ t.dag = s.dag /\ t.current = s.current
      /\ \A e \in Slot, m \in Nbr : <<e, m>> # <<d, n>> => t.parent[e][m] = s.parent[e][m]
  BY RecordStep DEF Step, Frame
<1>2. RouteOK(s) => RouteOK(t)  BY <1>1 DEF RouteOK
<1>3. s.current \in Slot  BY DEF Joined, UsedDags
<1>4. s.dag[s.current].preferred \in Nbr \cup {NULL}  BY <1>3, Fields DEF Sound
<1>5. ASSUME Ranked(s), ~ (d = s.current /\ n = s.dag[d].preferred) PROVE Ranked(t)
  <2>1. s.dag[s.current].preferred # NULL =>
          t.parent[s.current][s.dag[s.current].preferred]
            = s.parent[s.current][s.dag[s.current].preferred]
    BY <1>1, <1>3, <1>4, <1>5
  <2> QED  BY <1>1, <1>2, <1>5, <2>1 DEF Ranked
<1> QED  BY <1>2, <1>5

(* A DODAG gets another version. *)
Versioned(s, d, v) == [s EXCEPT !.dag[d] = [@ EXCEPT !.version = v]]

(* A new version alone changes no rank. *)
LEMMA VersionStep ==
  ASSUME NEW s, Sound(s), NEW d \in Slot, NEW v \in Counter, NEW t, t = Versioned(s, d, v)
  PROVE  /\ Step(s, t) /\ RouteKept(s, t) /\ \A e \in Slot : Keeps(s, t, e)
         /\ t.parent = s.parent /\ t.free = s.free
         /\ t.dag[d].parents = s.dag[d].parents /\ t.dag[d].preferred = s.dag[d].preferred
         /\ t.dag[d].rank = s.dag[d].rank
         /\ \A e \in Slot \ {d} : t.dag[e] = s.dag[e]
<1> DEFINE g == [s.dag[d] EXCEPT !.version = v]
<1>1. s \in Instance /\ ListsOK(s)  BY DEF Sound
<1>2. /\ s.dag[d] \in DagRecord /\ s.parent[d] \in [Nbr -> ParentRecord] /\ s.free \in Nat
      /\ s.route \in Nbr \cup {NULL}
  BY <1>1 DEF Instance
<1>3. /\ g \in DagRecord /\ g.preferred = s.dag[d].preferred /\ g.rank = s.dag[d].rank
      /\ g.min = s.dag[d].min /\ g.parents = s.dag[d].parents
      /\ g.used = s.dag[d].used /\ g.joined = s.dag[d].joined /\ g.id = s.dag[d].id
  BY <1>2 DEF DagRecord
<1>4. t = Patched(s, d, g, s.parent[d], s.route, s.free)
  BY <1>1 DEF Patched, Instance, Versioned
<1>5. t.parent = s.parent  BY <1>1 DEF Instance, Versioned
<1> HIDE DEF g
<1>6. IsPatch(t, s, d, g, s.parent[d], s.route, s.free)  BY <1>1, <1>2, <1>3, <1>4, PatchFields
<1>7. /\ IsInjective(g.parents) /\ g.preferred \in ToSet(g.parents) \cup {NULL}
      /\ g.used \/ g.parents = <<>>
  BY <1>1, <1>3 DEF ListsOK, Parents
<1>8. Step(s, t)  BY <1>2, <1>3, <1>6, <1>7, PatchStep
<1> QED  BY <1>3, <1>5, <1>6, <1>8 DEF IsPatch, Keeps, RouteKept

(* A slot is taken into use. *)
LEMMA NewDagFields ==
  ASSUME NEW s, Sound(s), NEW d \in Slot, ~ s.dag[d].used, NEW id \in DagId,
         NEW t, t = NewDag(s, d, id)
  PROVE  /\ Sound(t) /\ t.used = s.used /\ t.current = s.current /\ t.route = s.route
         /\ t.free = s.free /\ Blocks(t) = Blocks(s)
         /\ t.dag[d].used /\ t.dag[d].id = id /\ ~ t.dag[d].joined /\ t.dag[d].parents = <<>>
         /\ t.dag[d].preferred = NULL /\ t.dag[d].min = Infinite
         /\ \A e \in Slot \ {d} : t.dag[e] = s.dag[e] /\ t.parent[e] = s.parent[e]
<1> DEFINE g == [NoDag EXCEPT !.used = TRUE, !.id = id]
<1>1. s \in Instance /\ ListsOK(s)  BY DEF Sound
<1>2. s.free \in Nat /\ s.route \in Nbr \cup {NULL} /\ s.dag[d].parents = <<>>
  BY <1>1 DEF Instance, ListsOK
<1>3. /\ g \in DagRecord /\ g.used /\ g.id = id /\ ~ g.joined /\ g.parents = <<>>
      /\ g.preferred = NULL /\ g.min = Infinite
  <2>1. <<>> \in Seq(Nbr) /\ Infinite \in 0 .. Infinite /\ 0 \in Counter
    BY DEF Infinite, Counter, LollipopMaxValue
  <2> QED  BY <2>1 DEF NoDag, DagRecord
<1>4. NoParents \in [Nbr -> ParentRecord]  BY DEF NoParents, NoParent, ParentRecord, Infinite
<1>5. t = Patched(s, d, g, NoParents, s.route, s.free)  BY <1>1 DEF NewDag, Patched, Instance
<1> HIDE DEF g
<1>6. IsPatch(t, s, d, g, NoParents, s.route, s.free)  BY <1>1, <1>2, <1>3, <1>4, <1>5, PatchFields
<1>7. /\ t \in Instance /\ t.used = s.used /\ t.current = s.current /\ t.route = s.route
      /\ t.free = s.free /\ t.dag[d] = g
      /\ \A e \in Slot \ {d} : t.dag[e] = s.dag[e] /\ t.parent[e] = s.parent[e]
  BY <1>6 DEF IsPatch
<1>8. ListsOK(t)
  <2>1. IsInjective(<<>>)  BY DEF IsInjective
  <2> QED  BY <1>1, <1>3, <1>7, <2>1 DEF ListsOK, Parents
<1>9. Blocks(t) = Blocks(s)
  <2>1. \A e \in Slot : t.dag[e].parents = s.dag[e].parents  BY <1>2, <1>3, <1>7
  <2> QED  BY <1>7, <2>1 DEF Blocks, Slot
<1> QED  BY <1>3, <1>7, <1>8, <1>9 DEF Sound

(* A slot is given up, after its parents. *)
Unused(s, d) == [s EXCEPT !.dag[d].used = FALSE]

(* A slot without parents can be given up while the node is elsewhere. *)
LEMMA UnusedDag ==
  ASSUME NEW s, Sound(s), Joined(s), NEW d \in Slot, d # s.current, s.dag[d].parents = <<>>,
         NEW t, t = Unused(s, d)
  PROVE  /\ Sound(t) /\ Joined(t) /\ Blocks(t) = Blocks(s)
         /\ Ranked(s) => Ranked(t)
         /\ UsedDags(t) = UsedDags(s) \ {d} /\ t.parent = s.parent
         /\ \A e \in Slot \ {d} : t.dag[e] = s.dag[e]
<1> DEFINE g == [s.dag[d] EXCEPT !.used = FALSE]
<1>1. s \in Instance /\ ListsOK(s)  BY DEF Sound
<1>2. /\ s.dag[d] \in DagRecord /\ s.parent[d] \in [Nbr -> ParentRecord] /\ s.free \in Nat
      /\ s.route \in Nbr \cup {NULL} /\ s.current \in Slot
  BY <1>1 DEF Instance, Joined, UsedDags
<1>3. g \in DagRecord /\ ~ g.used /\ g.parents = <<>> /\ g.preferred = s.dag[d].preferred
  BY <1>2 DEF DagRecord
<1>4. t = Patched(s, d, g, s.parent[d], s.route, s.free)  BY <1>1 DEF Patched, Instance, Unused
<1> HIDE DEF g
<1>5. IsPatch(t, s, d, g, s.parent[d], s.route, s.free)
  <2>1. /\ g \in DagRecord /\ s.parent[d] \in [Nbr -> ParentRecord]
        /\ s.route \in Nbr \cup {NULL} /\ s.free \in Nat /\ s \in Instance
    BY <1>1, <1>2, <1>3
  <2> QED  BY <2>1, <1>4, PatchFields
<1>6. /\ t \in Instance /\ t.used = s.used /\ t.current = s.current /\ t.route = s.route
      /\ t.free = s.free /\ t.dag[d] = g /\ t.parent[d] = s.parent[d]
      /\ \A e \in Slot \ {d} : t.dag[e] = s.dag[e] /\ t.parent[e] = s.parent[e]
  BY <1>5 DEF IsPatch
<1>7. \A e \in Slot : t.dag[e].parents = s.dag[e].parents /\ t.dag[e].preferred = s.dag[e].preferred
  BY <1>3, <1>6
<1>8. Blocks(t) = Blocks(s)  BY <1>6, <1>7 DEF Blocks, Slot
<1>9. ListsOK(t)  BY <1>1, <1>3, <1>6, <1>7 DEF ListsOK, Parents
<1>10. UsedDags(t) = UsedDags(s) \ {d}  BY <1>3, <1>6 DEF UsedDags
<1>11. Joined(t)
  <2>1. t.used /\ t.current \in UsedDags(t)  BY <1>6, <1>10 DEF Joined
  <2>2. \A e \in UsedDags(t) : e \in Slot \ {d} /\ e \in UsedDags(s)  BY <1>10 DEF UsedDags
  <2> QED  BY <1>6, <2>1, <2>2 DEF Joined
<1>12. Ranked(s) => Ranked(t)
  <2>1. t.dag[t.current] = s.dag[s.current] /\ t.parent[t.current] = s.parent[s.current]
    BY <1>2, <1>6
  <2> QED  BY <1>6, <2>1 DEF Ranked, RouteOK
<1>13. t.parent = s.parent  BY <1>1 DEF Unused, Instance
<1> QED  BY <1>6, <1>8, <1>9, <1>10, <1>11, <1>12, <1>13 DEF Sound

-----------------------------------------------------------------------------
(* What the nodes in the neighbour cache, c, have to do with the instance: *)
(* a parent that is not among them has lost its rank, a preferred one is   *)
(* marked, and nobody is in two lists, so that the callback of the cache   *)
(* finds every record of a neighbour.                                      *)
Known(s, c, d) == \A n \in Parents(s, d) : n \in c \/ s.parent[d][n].rank = Infinite

Held(s, c, d) ==
  LET n == s.dag[d].preferred IN n = NULL \/ n \in c \/ s.parent[d][n].updated

Apart(s) == \A d, e \in UsedDags(s) : d # e => Parents(s, d) \cap Parents(s, e) = {}

Reach(s, c) == Apart(s) /\ \A d \in UsedDags(s) : Known(s, c, d) /\ Held(s, c, d)

(* A neighbour that is known may be put in one list, and in no other. *)
LEMMA TakesReach ==
  ASSUME NEW s, NEW t, Sound(t), NEW d \in Slot, NEW c, NEW n \in c, Reach(s, c),
         Takes(s, t, d, n), \A e \in UsedDags(t) \ {d} : n \notin Parents(t, e)
  PROVE  Reach(t, c)
<1>1. UsedDags(t) = UsedDags(s) /\ UsedDags(t) \subseteq Slot  BY DEF Takes, UsedDags
<1>2. Apart(t)
  <2>1. SUFFICES ASSUME NEW e \in UsedDags(t), NEW f \in UsedDags(t), e # f,
                        NEW m \in Parents(t, e), m \in Parents(t, f)
                 PROVE  FALSE
    BY DEF Apart
  <2>2. m # n  BY <2>1
  <2>3. m \in Parents(s, e) /\ m \in Parents(s, f)  BY <1>1, <2>1, <2>2 DEF Takes
  <2> QED  BY <1>1, <2>1, <2>3 DEF Reach, Apart
<1>3. ASSUME NEW e \in UsedDags(t) PROVE Known(t, c, e) /\ Held(t, c, e)
  <2>1. e \in Slot /\ Known(s, c, e) /\ Held(s, c, e)  BY <1>1 DEF Reach
  <2>2. \A m \in Parents(t, e) \ {n} : m \in Parents(s, e) /\ t.parent[e][m] = s.parent[e][m]
    BY <2>1 DEF Takes
  <2>3. Known(t, c, e)  BY <2>1, <2>2 DEF Known
  <2>4. t.dag[e].preferred \in Parents(t, e) \cup {NULL}  BY <2>1 DEF Sound, ListsOK
  <2>5. t.dag[e].preferred \in {s.dag[e].preferred, NULL, n}  BY <2>1 DEF Takes
  <2>6. Held(t, c, e)  BY <2>1, <2>2, <2>4, <2>5 DEF Held
  <2> QED  BY <2>3, <2>6
<1> QED  BY <1>2, <1>3 DEF Reach

(* A neighbour that leaves a list is in none. *)
LEMMA ApartList ==
  ASSUME NEW s, Apart(s), NEW d \in UsedDags(s), NEW n \in Parents(s, d),
         NEW e \in UsedDags(s), n \in Parents(s, e)
  PROVE  e = d
  BY DEF Apart

(* The record of a parent changes, and rpl_process_parent_event judges it: *)
(* one that is gone is no preferred parent afterwards.                     *)
LEMMA EventReach ==
  ASSUME NEW s, Sound(s), NEW d \in Slot, NEW n \in Nbr, NEW rec, NEW c, Reach(s, c),
         n \in c \/ rec.rank = Infinite,
         NEW w, w.dag = s.dag, w.parent[d][n] = rec,
         \A e \in Slot, m \in Nbr : <<e, m>> # <<d, n>> => w.parent[e][m] = s.parent[e][m],
         NEW t, Judged(w, t), w.parent[d][n].rank = Infinite => t.dag[d].preferred # n
  PROVE  Reach(t, c)
<1>1. \A e \in Slot : /\ t.dag[e].used = s.dag[e].used /\ Parents(t, e) = Parents(s, e)
                      /\ Parents(w, e) = Parents(s, e) /\ t.parent[e] = w.parent[e]
  BY DEF Judged, SameDag, Parents
<1>2. UsedDags(t) = UsedDags(s) /\ UsedDags(t) \subseteq Slot  BY <1>1 DEF UsedDags
<1>3. Apart(t)  BY <1>1, <1>2 DEF Reach, Apart
<1>4. ASSUME NEW e \in UsedDags(t) PROVE Known(t, c, e) /\ Held(t, c, e)
  <2>1. e \in Slot /\ Known(s, c, e) /\ Held(s, c, e)  BY <1>2 DEF Reach
  <2>2. s \in Instance /\ Parents(s, e) \subseteq Nbr  BY <2>1, Fields DEF Sound
  <2>3. \A m \in Nbr : <<e, m>> # <<d, n>> => t.parent[e][m] = s.parent[e][m]  BY <1>1, <2>1
  <2>4. e = d => t.parent[e][n] = rec  BY <1>1, <2>1
  <2>5. Known(t, c, e)  BY <1>1, <2>1, <2>2, <2>3, <2>4 DEF Known
  <2> DEFINE p == t.dag[e].preferred
  <2>6. p \in {s.dag[e].preferred, NULL} \cup Fit(w, e)  BY <2>1 DEF Judged
  <2>7. p = t.dag[e].preferred  OBVIOUS
  <2> HIDE DEF p
  <2>8. CASE p \in Fit(w, e)
    <3>1. p \in Parents(t, e) /\ t.parent[e][p].rank # Infinite  BY <1>1, <2>1, <2>8 DEF Fit
    <3>2. p \in c  BY <2>5, <3>1 DEF Known
    <3> QED  BY <2>5, <2>7, <3>2 DEF Held
  <2>9. CASE p = NULL  BY <2>5, <2>7, <2>9 DEF Held
  <2>10. CASE p = s.dag[e].preferred /\ p # NULL
    <3>1. p \in Nbr  BY <2>1, <2>2, <2>10, Fields
    <3>2. CASE e = d /\ p = n
      <4>1. w.parent[d][n].rank # Infinite  BY <2>7, <3>2
      <4>2. n \in c  BY <4>1
      <4> QED  BY <2>5, <2>7, <3>2, <4>2 DEF Held
    <3>3. CASE ~ (e = d /\ p = n)
      <4>1. <<e, p>> # <<d, n>>  BY <3>3
      <4>2. t.parent[e][p] = s.parent[e][p]  BY <2>3, <3>1, <4>1
      <4> QED  BY <2>1, <2>5, <2>7, <2>10, <4>2 DEF Held
    <3> QED  BY <3>2, <3>3
  <2> QED  BY <2>6, <2>8, <2>9, <2>10
<1> QED  BY <1>3, <1>4 DEF Reach

(* The callback of the cache finds the record of a neighbour that leaves.  *)
LEMMA PoisonReach ==
  ASSUME NEW s, Sound(s), NEW d \in Slot, NEW n \in Nbr, NEW c, Reach(s, c),
         NEW t, t.dag = s.dag, t.parent[d][n].rank = Infinite, t.parent[d][n].updated,
         \A e \in Slot, m \in Nbr : <<e, m>> # <<d, n>> => t.parent[e][m] = s.parent[e][m]
  PROVE  /\ Reach(t, c)
         /\ (\A e \in UsedDags(s) \ {d} : n \notin Parents(s, e)) => Reach(t, c \ {n})
<1>1. UsedDags(t) = UsedDags(s) /\ UsedDags(t) \subseteq Slot
      /\ \A e \in Slot : Parents(t, e) = Parents(s, e)
  BY DEF UsedDags, Parents
<1>2. Apart(t)  BY <1>1 DEF Reach, Apart
<1>3. ASSUME NEW b, NEW e \in UsedDags(t),
             b = c \/ (b = c \ {n} /\ \A f \in UsedDags(s) \ {d} : n \notin Parents(s, f))
      PROVE  Known(t, b, e) /\ Held(t, b, e)
  <2>1. e \in Slot /\ Known(s, c, e) /\ Held(s, c, e)  BY <1>1 DEF Reach
  <2>2. s \in Instance /\ Parents(s, e) \subseteq Nbr  BY <2>1, Fields DEF Sound
  <2>3. ASSUME NEW m \in Parents(t, e)
        PROVE  \/ m \in b /\ t.parent[e][m] = s.parent[e][m]
               \/ t.parent[e][m].rank = Infinite /\ t.parent[e][m].updated
               \/ m \notin c /\ t.parent[e][m] = s.parent[e][m]
    <3>1. m \in Parents(s, e) /\ m \in Nbr  BY <1>1, <2>1, <2>2, <2>3
    <3>2. CASE <<e, m>> = <<d, n>>  BY <3>2
    <3>3. CASE <<e, m>> # <<d, n>>
      <4>1. t.parent[e][m] = s.parent[e][m]  BY <2>1, <3>1, <3>3
      <4>2. m \in c => m \in b  BY <1>1, <1>3, <3>1, <3>3
      <4> QED  BY <4>1, <4>2
    <3> QED  BY <3>2, <3>3
  <2>4. Known(t, b, e)  BY <1>1, <2>1, <2>3 DEF Known
  <2>5. t.dag[e].preferred = s.dag[e].preferred
        /\ t.dag[e].preferred \in Parents(t, e) \cup {NULL}
    BY <1>1, <2>1 DEF Sound, ListsOK
  <2>6. Held(t, b, e)  BY <2>1, <2>3, <2>5 DEF Held
  <2> QED  BY <2>4, <2>6
<1> QED  BY <1>2, <1>3 DEF Reach

(* Without DODAGs there is nobody to reach; a DODAG without parents, or    *)
(* one that is given up, changes nothing.                                  *)
LEMMA BareReach ==
  ASSUME NEW s, Sound(s), NEW d \in Slot, NEW t, NEW c, Reach(s, c),
         \A e \in Slot \ {d} : t.dag[e] = s.dag[e] /\ t.parent[e] = s.parent[e],
         d \in UsedDags(t) => t.dag[d].parents = <<>> /\ t.dag[d].preferred = NULL
  PROVE  Reach(t, c)
<1>1. UsedDags(t) \ {d} \subseteq UsedDags(s) /\ UsedDags(t) \subseteq Slot  BY DEF UsedDags
<1>2. \A e \in UsedDags(t) \ {d} : Parents(t, e) = Parents(s, e)  BY <1>1 DEF Parents
<1>3. d \in UsedDags(t) => Parents(t, d) = {}  BY DEF Parents, ToSet
<1>4. Apart(t)  BY <1>1, <1>2, <1>3 DEF Reach, Apart
<1>5. ASSUME NEW e \in UsedDags(t) PROVE Known(t, c, e) /\ Held(t, c, e)
  <2>1. CASE e = d  BY <1>3, <2>1 DEF Known, Held
  <2>2. CASE e # d
    <3>1. e \in UsedDags(s) /\ t.dag[e] = s.dag[e] /\ t.parent[e] = s.parent[e]
      BY <1>1, <2>2
    <3>2. Known(s, c, e) /\ Held(s, c, e)  BY <3>1 DEF Reach
    <3> QED  BY <3>1, <3>2 DEF Known, Held, Parents
  <2> QED  BY <2>1, <2>2
<1> QED  BY <1>4, <1>5 DEF Reach

(* Every version is the first one of a root, or has been announced.        *)
Dated(s) == \A d \in UsedDags(s) : s.dag[d].version \in Version \cup {LollipopInit}

(* Nothing but a DODAG's own version decides it. *)
LEMMA SameDated ==
  ASSUME NEW s, NEW t, Dated(s), SameVersions(s, t),
         \A d \in Slot : t.dag[d].used = s.dag[d].used
  PROVE  Dated(t)
  BY DEF Dated, SameVersions, UsedDags

(* rpl_process_parent_event changes no version. *)
LEMMA JudgedDated ==
  ASSUME NEW s, NEW t, Dated(s), Judged(s, t)
  PROVE  Dated(t)
  BY DEF Dated, Judged, SameDag, UsedDags

(* Where there is no DODAG, there is nobody to reach. *)
LEMMA NoneReach ==
  ASSUME NEW s, UsedDags(s) = {}
  PROVE  Dated(s) /\ \A c : Reach(s, c)
  BY DEF Dated, Reach, Apart

-----------------------------------------------------------------------------
(* What every handler finds and leaves. *)
IdsOK(s) ==
  /\ \A d \in UsedDags(s) : s.dag[d].id \in DagId
  /\ \A d, e \in UsedDags(s) : s.dag[d].id = s.dag[e].id => d = e

Whole(s) == /\ Sound(s) /\ IdsOK(s)
            /\ s.used => Joined(s) /\ Ranked(s)
            /\ ~ s.used => s = Gone(s)

(* What a handler that moves the node must show. *)
LEMMA MoveWhole ==
  ASSUME NEW s, Whole(s), NEW t, Move(s, t), Ranked(t)
  PROVE  Whole(t) /\ Blocks(t) = Blocks(s)
<1>1. UsedDags(t) = UsedDags(s) /\ UsedDags(s) \subseteq Slot  BY DEF Move, UsedDags
<1>2. IdsOK(t)  BY <1>1 DEF IdsOK, Whole, Move
<1> QED  BY <1>2 DEF Whole, Move, Joined

(* What a helper that does not move it must show. *)
LEMMA KeepsWhole ==
  ASSUME NEW s, Whole(s), s.used, NEW t, Step(s, t), RouteKept(s, t), Keeps(s, t, s.current)
  PROVE  Whole(t) /\ Blocks(t) = Blocks(s)
<1>1. Joined(s) /\ Ranked(s) /\ s.current \in Slot  BY DEF Whole, Joined, UsedDags
<1>2. Move(s, t) /\ t.current = s.current  BY <1>1, StepMoves
<1>3. Ranked(t)  BY <1>1, <1>2, KeepsRanked
<1> QED  BY <1>2, <1>3, MoveWhole

(* The contents of an instance after rpl_alloc_instance. *)
LEMMA EmptyInstance ==
  /\ NoInstance \in Instance /\ NoInstance.used = FALSE /\ NoInstance.free = Pool
  /\ ~ NoInstance.dag[1].used /\ ~ NoInstance.dag[2].used
  /\ NoInstance.dag[1].parents = <<>> /\ NoInstance.dag[2].parents = <<>>
  /\ \A d \in Slot : NoInstance.dag[d] = NoDag /\ NoInstance.parent[d] = NoParents
<1>1. <<>> \in Seq(Nbr) /\ Infinite \in 0 .. Infinite /\ 0 \in Counter
  BY DEF Infinite, Counter, LollipopMaxValue
<1>2. NoDag \in DagRecord  BY <1>1 DEF NoDag, DagRecord
<1>3. NoParents \in [Nbr -> ParentRecord]  BY DEF NoParents, NoParent, ParentRecord, Infinite
<1>4. Pool \in Nat  BY DagAssumption DEF Pool
<1> HIDE DEF NoDag, NoParents, Pool
<1>5. NoInstance \in Instance  BY <1>2, <1>3, <1>4 DEF NoInstance, Instance
<1>6. NoDag.parents = <<>> /\ ~ NoDag.used  BY DEF NoDag
<1> QED  BY <1>5, <1>6 DEF NoInstance, Slot

(* An instance without DODAGs, that is in use or not. *)
LEMMA BareInstance ==
  ASSUME NEW t \in Instance, t.dag = NoInstance.dag
  PROVE  /\ Sound(t) /\ IdsOK(t) /\ Blocks(t) = t.free /\ t.free \in Nat
         /\ \A d \in Slot : ~ t.dag[d].used /\ t.dag[d].parents = <<>>
         /\ UsedDags(t) = {}
<1>1. \A d \in Slot : ~ t.dag[d].used /\ t.dag[d].parents = <<>> /\ t.dag[d].preferred = NULL
  BY EmptyInstance DEF NoDag
<1>2. UsedDags(t) = {}  BY <1>1 DEF UsedDags
<1>3. Len(t.dag[1].parents) = 0 /\ Len(t.dag[2].parents) = 0  BY <1>1 DEF Slot
<1>4. t.free \in Nat  BY DEF Instance
<1>5. Blocks(t) = t.free
  <2>1. \A f \in Nat : f + 0 + 0 = f  OBVIOUS
  <2> QED  BY <1>3, <1>4, <2>1, Zenon DEF Blocks
<1>6. ListsOK(t)
  <2>1. IsInjective(<<>>)  BY DEF IsInjective
  <2> QED  BY <1>1, <2>1 DEF ListsOK, Parents
<1> QED  BY <1>1, <1>2, <1>4, <1>5, <1>6 DEF Sound, IdsOK

(* What rpl_free_instance leaves counts the free blocks only. *)
LEMMA GoneWhole ==
  ASSUME NEW s, s.free \in Nat, NEW t, t = Gone(s)
  PROVE  Whole(t) /\ Blocks(t) = s.free /\ ~ t.used /\ UsedDags(t) = {}
<1>1. /\ t \in Instance /\ t.dag = NoInstance.dag /\ t.free = s.free /\ ~ t.used
  BY EmptyInstance DEF Gone, Instance
<1>2. Sound(t) /\ IdsOK(t) /\ Blocks(t) = s.free /\ UsedDags(t) = {}  BY <1>1, BareInstance
<1>3. Gone(t) = t  BY <1>1 DEF Gone
<1> QED  BY <1>1, <1>2, <1>3 DEF Whole

(* rpl_free_instance may lose blocks, never gain them. *)
LEMMA FreeDagBlocks ==
  ASSUME NEW s \in Instance, NEW d \in Slot
  PROVE  FreeDag(s, d) \in Instance /\ Blocks(FreeDag(s, d)) = Blocks(s)
<1> DEFINE a == [s EXCEPT !.dag[d].joined = FALSE]
           u == NullifyAll(a, d)
           b == RemoveAll(a, d)
           f == u.free + Len(a.dag[d].parents)
           left == IF s.dag[d].joined THEN b ELSE s
<1>1. \A g \in DagRecord : /\ [g EXCEPT !.joined = FALSE] \in DagRecord
                           /\ [g EXCEPT !.joined = FALSE].parents = g.parents
                           /\ [g EXCEPT !.used = FALSE] \in DagRecord
                           /\ [g EXCEPT !.used = FALSE].parents = g.parents
                           /\ [g EXCEPT !.parents = <<>>] \in DagRecord
                           /\ [g EXCEPT !.parents = <<>>].parents = <<>>
  <2>1. <<>> \in Seq(Nbr)  OBVIOUS
  <2> QED  BY <2>1 DEF DagRecord
<1>2. a \in Instance /\ a.free = s.free /\ \A e \in Slot : a.dag[e].parents = s.dag[e].parents
  <2>1. s.dag \in [Slot -> DagRecord]  BY DEF Instance
  <2>2. [s.dag EXCEPT ![d].joined = FALSE] \in [Slot -> DagRecord]  BY <1>1, <2>1
  <2>3. \A e \in Slot : [s.dag EXCEPT ![d].joined = FALSE][e].parents = s.dag[e].parents
    BY <1>1, <2>1
  <2> QED  BY <2>1, <2>2, <2>3 DEF Instance
<1> HIDE DEF a
<1>3. u \in Instance /\ u.free = a.free /\ \A e \in Slot : u.dag[e].parents = a.dag[e].parents
  <2>1. a.dag[d].preferred \in Parents(a, d) => a.dag[d].preferred \in Nbr  BY <1>2, Fields
  <2> QED  BY <1>2, <2>1, NullifyFields DEF NullifyAll
<1> HIDE DEF u
<1>4. b \in Instance /\ b.free = f /\ b.dag[d].parents = <<>>
      /\ \A e \in Slot \ {d} : b.dag[e].parents = a.dag[e].parents
  <2>1. b = [u EXCEPT !.dag[d].parents = <<>>, !.parent[d] = NoParents, !.free = f]
    <3>1. b = [u EXCEPT !.dag[d].parents = <<>>, !.parent[d] = NoParents,
                        !.free = @ + Len(a.dag[d].parents)]
      BY DEF RemoveAll, u
    <3> QED  BY <3>1, <1>3 DEF Instance
  <2>2. f \in Nat
    <3>1. Len(a.dag[d].parents) \in Nat /\ u.free \in Nat  BY <1>2, <1>3, Fields DEF Instance
    <3> QED  BY <3>1
  <2>3. NoParents \in [Nbr -> ParentRecord]  BY DEF NoParents, NoParent, ParentRecord, Infinite
  <2>4. u.dag \in [Slot -> DagRecord]  BY <1>3 DEF Instance
  <2>5. [u.dag EXCEPT ![d].parents = <<>>] \in [Slot -> DagRecord]  BY <1>1, <2>4
  <2> HIDE DEF f, b
  <2>6. b \in Instance /\ b.free = f /\ b.dag = [u.dag EXCEPT ![d].parents = <<>>]
    BY <1>3, <2>1, <2>2, <2>3, <2>5 DEF Instance
  <2> QED  BY <1>1, <1>3, <2>4, <2>6
<1> HIDE DEF b
<1>5. Blocks(b) = Blocks(s)
  <2> DEFINE x == Len(s.dag[1].parents)
             y == Len(s.dag[2].parents)
  <2>1. x \in Nat /\ y \in Nat /\ s.free \in Nat
    <3>1. 1 \in Slot /\ 2 \in Slot  BY DEF Slot
    <3> QED  BY <3>1, Fields DEF Instance
  <2>2. Len(<<>>) = 0  OBVIOUS
  <2>3. CASE d = 1
    <3>1. b.dag[1].parents = <<>> /\ b.dag[2].parents = s.dag[2].parents /\ b.free = s.free + x
      BY <1>2, <1>3, <1>4, <2>3 DEF Slot
    <3>2. Blocks(b) = (s.free + x) + 0 + y /\ Blocks(s) = s.free + x + y
      BY <3>1, <2>2, Zenon DEF Blocks
    <3> HIDE DEF x, y
    <3> QED  BY <3>2, <2>1
  <2>4. CASE d = 2
    <3>1. b.dag[2].parents = <<>> /\ b.dag[1].parents = s.dag[1].parents /\ b.free = s.free + y
      BY <1>2, <1>3, <1>4, <2>4 DEF Slot
    <3>2. Blocks(b) = (s.free + y) + x + 0 /\ Blocks(s) = s.free + x + y
      BY <3>1, <2>2, Zenon DEF Blocks
    <3> HIDE DEF x, y
    <3> QED  BY <3>2, <2>1
  <2> QED  BY <2>3, <2>4 DEF Slot
<1>6. left \in Instance /\ Blocks(left) = Blocks(s)  BY <1>4, <1>5
<1>7. FreeDag(s, d) = IF s.dag[d].used THEN [left EXCEPT !.dag[d].used = FALSE] ELSE s
  BY DEF FreeDag, b, a
<1> HIDE DEF left
<1>8. LET v == [left EXCEPT !.dag[d].used = FALSE]
      IN  v \in Instance /\ Blocks(v) = Blocks(left)
  <2> DEFINE v == [left EXCEPT !.dag[d].used = FALSE]
  <2>1. left.dag \in [Slot -> DagRecord]  BY <1>6 DEF Instance
  <2>2. [left.dag EXCEPT ![d].used = FALSE] \in [Slot -> DagRecord]  BY <1>1, <2>1
  <2>3. \A e \in Slot : [left.dag EXCEPT ![d].used = FALSE][e].parents = left.dag[e].parents
    BY <1>1, <2>1
  <2>4. v \in Instance /\ v.free = left.free /\ \A e \in Slot : v.dag[e].parents = left.dag[e].parents
    BY <1>6, <2>1, <2>2, <2>3 DEF Instance
  <2> HIDE DEF v
  <2>5. Blocks(v) = Blocks(left)  BY <2>4 DEF Blocks, Slot
  <2> QED  BY <2>4, <2>5 DEF v
<1> QED  BY <1>6, <1>7, <1>8

(* Freeing an instance leaves it unused, with no more blocks than before. *)
LEMMA FreeInstanceWhole ==
  ASSUME NEW s \in Instance, NEW t, t = FreeInstance(s)
  PROVE  Whole(t) /\ Blocks(t) <= Blocks(s) /\ UsedDags(t) = {}
<1> DEFINE a == FreeDag(s, 1)
           b == FreeDag(a, 2)
<1>1. 1 \in Slot /\ 2 \in Slot  BY DEF Slot
<1>2. a \in Instance /\ Blocks(a) = Blocks(s)  BY <1>1, FreeDagBlocks
<1> HIDE DEF a
<1>3. b \in Instance /\ Blocks(b) = Blocks(s)  BY <1>1, <1>2, FreeDagBlocks
<1>4. t = Gone(b)  BY DEF FreeInstance, a
<1> HIDE DEF b
<1>5. b.free \in Nat /\ Len(b.dag[1].parents) \in Nat /\ Len(b.dag[2].parents) \in Nat
  BY <1>1, <1>3, Fields DEF Instance
<1>6. Whole(t) /\ Blocks(t) = b.free /\ UsedDags(t) = {}  BY <1>4, <1>5, GoneWhole
<1>7. b.free <= Blocks(b)
  <2>1. \A k, l, m \in Nat : k <= k + l + m  OBVIOUS
  <2> QED  BY <1>5, <2>1, Zenon DEF Blocks
<1> QED  BY <1>3, <1>6, <1>7

(* rpl_join_instance. *)
LEMMA JoinInstanceWhole ==
  ASSUME NEW s, Whole(s), ~ s.used, NEW dio \in Dio, dio.rank # Infinite,
         NEW t, t = JoinInstance(s, dio)
  PROVE  /\ Whole(t) /\ Blocks(t) = Blocks(s) /\ Dated(t)
         /\ \A c : dio.from \in c => Reach(t, c)
<1> DEFINE b == NewInstance(s)
           c == NewDag(b, 1, dio.id)
           a == AddParent(c, 1, dio)
           k == CalculateRank(a, 1, dio.from)
           n == dio.from
           g == [a.dag[1] EXCEPT !.joined = TRUE, !.version = dio.version,
                                 !.preferred = n, !.rank = k, !.min = k]
           f == [a EXCEPT !.current = 1, !.route = n,
                          !.dag[1] = [@ EXCEPT !.joined = TRUE, !.version = dio.version,
                                               !.preferred = n, !.rank = k, !.min = k]]
<1>1. s \in Instance /\ s.free \in Nat /\ s = Gone(s)  BY DEF Whole, Sound, Instance
<1>2. Whole(Gone(s)) /\ Blocks(s) = s.free  BY <1>1, GoneWhole
<1>3. /\ Sound(b) /\ IdsOK(b) /\ b.used /\ b.free = s.free /\ Blocks(b) = s.free
      /\ \A d \in Slot : ~ b.dag[d].used /\ b.dag[d].parents = <<>>
      /\ UsedDags(b) = {}
  <2>1. b \in Instance /\ b.dag = NoInstance.dag /\ b.free = s.free /\ b.used
    BY <1>1, EmptyInstance DEF NewInstance, Instance
  <2> HIDE DEF b
  <2> QED  BY <2>1, BareInstance
<1>4. 1 \in Slot /\ Slot = {1, 2} /\ dio.id \in DagId /\ n \in Nbr /\ dio.version \in Counter
  <2>1. 1 \in Slot /\ Slot = {1, 2}  BY DEF Slot
  <2> QED  BY <2>1, DioFields
<1>5. CASE ~ Room(b, 1)
  <2>1. t = Gone(s)  BY <1>5 DEF JoinInstance
  <2>2. UsedDags(t) = {}  BY <1>1, <2>1, GoneWhole
  <2> HIDE DEF n
  <2> QED  BY <1>1, <1>2, <2>1, <2>2, NoneReach
<1>6. CASE Room(b, 1)
  <2> HIDE DEF b
  <2>1. /\ Sound(c) /\ c.used = b.used /\ c.free = b.free /\ Blocks(c) = Blocks(b)
        /\ c.dag[1].used /\ c.dag[1].id = dio.id /\ c.dag[1].parents = <<>>
        /\ \A e \in Slot \ {1} : c.dag[e] = b.dag[e]
    <3>1. Sound(b) /\ 1 \in Slot /\ dio.id \in DagId /\ ~ b.dag[1].used  BY <1>3, <1>4
    <3>2. c = NewDag(b, 1, dio.id)  OBVIOUS
    <3> HIDE DEF c
    <3> QED  BY <3>1, <3>2, NewDagFields
  <2> HIDE DEF c
  <2>2. Room(c, 1) /\ n \notin Parents(c, 1)
    BY <1>3, <1>4, <1>6, <2>1 DEF Room, Parents, ToSet
  <2>3. /\ Step(c, a) /\ a.parent[1][n].rank = dio.rank /\ Parents(a, 1) = Parents(c, 1) \cup {n}
        /\ \A e \in Slot \ {1} : a.dag[e] = c.dag[e]
    BY <1>4, <2>1, <2>2, AddParentStep
  <2> HIDE DEF a
  <2>4. /\ Sound(a) /\ a \in Instance /\ a.used /\ Blocks(a) = Blocks(s) /\ n \in Parents(a, 1)
        /\ a.dag[1].used /\ a.dag[1].id = dio.id /\ ~ a.dag[2].used
    BY <1>2, <1>3, <1>4, <2>1, <2>3 DEF Step, Sound, Frame
  <2>5. CASE dio.config = "unknown objective"
    <3> DEFINE r == RemoveParent(a, 1, n)
    <3>1. t = Gone(r)  BY <1>6, <2>5, Zenon DEF JoinInstance, a, b, c
    <3>2. /\ Step(a, r) /\ Parents(r, 1) = Parents(a, 1) \ {n}
          /\ \A e \in Slot \ {1} : r.dag[e] = a.dag[e]
      BY <1>4, <2>4, RemoveParentStep
    <3> HIDE DEF r
    <3>3. r \in Instance /\ Blocks(r) = Blocks(s) /\ Parents(r, 1) = {}
      <4>1. Parents(c, 1) = {}  BY <2>1 DEF Parents, ToSet
      <4> QED  BY <2>3, <2>4, <3>2, <4>1 DEF Step, Sound
    <3>4. r.dag[1].parents = <<>>  BY <1>4, <3>3, NoneLeft
    <3>5. r.dag[2].parents = <<>>  BY <1>3, <1>4, <2>1, <2>3, <3>2
    <3>6. r.free \in Nat  BY <3>3 DEF Instance
    <3>7. Blocks(r) = r.free
      <4>1. Len(r.dag[1].parents) = 0 /\ Len(r.dag[2].parents) = 0  BY <3>4, <3>5
      <4>2. r.free + 0 + 0 = r.free  BY <3>6
      <4> QED  BY <4>1, <4>2, Zenon DEF Blocks
    <3>8. Whole(t) /\ Blocks(t) = Blocks(s) /\ UsedDags(t) = {}
      BY <3>1, <3>3, <3>6, <3>7, GoneWhole
    <3> QED  BY <3>8, NoneReach
  <2>6. CASE dio.config # "unknown objective"
    <3>1. t = f  BY <1>6, <2>6, Zenon DEF JoinInstance, a, b, c
    <3>2. k \in 0 .. Infinite /\ (k # Infinite => k > dio.rank)
      BY <1>4, <2>3, <2>4, RankType
    <3> HIDE DEF k, n
    <3>3. a.dag[1] \in DagRecord /\ a.dag \in [Slot -> DagRecord]  BY <1>4, <2>4 DEF Instance
    <3>4. /\ g \in DagRecord /\ g.joined /\ g.preferred = n /\ g.rank = k /\ g.min = k
          /\ g.used = a.dag[1].used /\ g.id = a.dag[1].id /\ g.parents = a.dag[1].parents
          /\ g.version = dio.version
      BY <1>4, <3>2, <3>3 DEF DagRecord
    <3> DEFINE D == [a.dag EXCEPT ![1] = g]
    <3>5. f = [a EXCEPT !.current = 1, !.route = n, !.dag = D]  BY <1>4, <2>4, <3>3 DEF Instance
    <3> HIDE DEF g, f
    <3>6. D \in [Slot -> DagRecord] /\ D[1] = g /\ D[2] = a.dag[2]  BY <1>4, <3>3, <3>4
    <3> HIDE DEF D
    <3>7. n \in Nbr  BY <1>4 DEF n
    <3>8. /\ f \in Instance /\ f.used = a.used /\ f.current = 1 /\ f.route = n /\ f.free = a.free
          /\ f.dag[1] = g /\ f.dag[2] = a.dag[2] /\ f.parent = a.parent
      BY <1>4, <2>4, <3>5, <3>6, <3>7 DEF Instance
    <3>9. ListsOK(f)
      <4>1. \A d \in Slot : f.dag[d].parents = a.dag[d].parents /\ f.dag[d].used = a.dag[d].used
                            /\ f.dag[d].preferred \in {n, a.dag[d].preferred}
                            /\ ((f.dag[d].preferred = n /\ d = 1) \/ f.dag[d].preferred = a.dag[d].preferred)
        BY <1>4, <3>4, <3>8
      <4> QED  BY <2>4, <4>1 DEF ListsOK, Parents, Sound
    <3>10. UsedDags(f) = {1}  BY <1>4, <2>4, <3>4, <3>8 DEF UsedDags
    <3>11. IdsOK(f)  BY <1>4, <2>4, <3>4, <3>8, <3>10 DEF IdsOK
    <3>12. Joined(f)  BY <2>4, <3>4, <3>8, <3>10 DEF Joined
    <3>13. Blocks(f) = Blocks(a)  BY <3>4, <3>8 DEF Blocks
    <3>14. Ranked(f)
      <4>1. f.parent[1][n].rank = dio.rank /\ n # NULL
        BY <1>4, <2>3, <3>8, NullAssumption DEF n
      <4>2. k > dio.rank
        <5>1. dio.rank \in 0 .. Infinite  BY DioFields
        <5> QED  BY <3>2, <5>1 DEF Infinite
      <4>3. k <= k + MaxRankInc
        <5>1. MaxRankInc \in Nat  BY RankAssumption
        <5> QED  BY <3>2, <5>1
      <4> QED  BY <3>4, <3>8, <4>1, <4>2, <4>3 DEF Ranked, RouteOK
    <3>15. Whole(f) /\ Blocks(f) = Blocks(s)
      BY <2>4, <3>8, <3>9, <3>11, <3>12, <3>13, <3>14 DEF Whole, Sound
    <3>16. Dated(f)
      <4>1. dio.version \in Version  BY DEF Dio
      <4> QED  BY <3>4, <3>8, <3>10, <4>1 DEF Dated
    <3>17. ASSUME NEW x, n \in x PROVE Reach(f, x)
      <4>1. Parents(f, 1) = {n}
        <5>1. Parents(c, 1) = {}  BY <2>1 DEF Parents, ToSet
        <5>2. Parents(f, 1) = Parents(a, 1)  BY <3>4, <3>8 DEF Parents
        <5> QED  BY <2>3, <5>1, <5>2
      <4> QED  BY <3>4, <3>8, <3>10, <3>17, <4>1 DEF Reach, Apart, Known, Held
    <3> QED  BY <3>1, <3>15, <3>16, <3>17 DEF n
  <2> QED  BY <2>5, <2>6, Zenon
<1> QED  BY <1>5, <1>6

(* rpl_free_dag of a DODAG that has no parents left. *)
LEMMA UnusedWhole ==
  ASSUME NEW s, Whole(s), s.used, NEW d \in Slot, d # s.current, Parents(s, d) = {},
         NEW t, t = Unused(s, d)
  PROVE  /\ Whole(t) /\ Blocks(t) = Blocks(s)
         /\ UsedDags(t) = UsedDags(s) \ {d} /\ \A e \in Slot \ {d} : t.dag[e] = s.dag[e]
         /\ \A c : Reach(s, c) => Reach(t, c)
<1>1. Sound(s) /\ Joined(s) /\ Ranked(s) /\ s \in Instance  BY DEF Whole, Sound
<1>2. s.dag[d].parents = <<>>  BY <1>1, NoneLeft
<1>3. /\ Sound(t) /\ Joined(t) /\ Blocks(t) = Blocks(s) /\ Ranked(t)
      /\ UsedDags(t) = UsedDags(s) \ {d} /\ \A e \in Slot \ {d} : t.dag[e] = s.dag[e]
      /\ t.parent = s.parent
  BY <1>1, <1>2, UnusedDag
<1>4. \A e \in UsedDags(t) : e \in UsedDags(s) /\ t.dag[e] = s.dag[e]
  BY <1>3 DEF UsedDags
<1>5. IdsOK(t)  BY <1>4 DEF IdsOK, Whole
<1>6. ASSUME NEW c, Reach(s, c) PROVE Reach(t, c)  BY <1>1, <1>3, <1>6, BareReach
<1> QED  BY <1>3, <1>5, <1>6 DEF Whole, Joined

(* rpl_add_dag. *)
LEMMA AddDagWhole ==
  ASSUME NEW s, Whole(s), s.used, NEW dio \in Dio, SlotOf(s, dio.id) = 0,
         NEW t, t = AddDag(s, dio)
  PROVE  /\ Whole(t) /\ Blocks(t) <= Blocks(s)
         /\ FreeSlots(s) # {} => Blocks(t) = Blocks(s)
         /\ Dated(s) => Dated(t)
         /\ \A c : Reach(s, c) /\ dio.from \in c => Reach(t, c)
<1> DEFINE d == FirstFree(s)
           n == dio.from
           from == DagOf(s, n)
           b == NewDag(s, d, dio.id)
           a == IF from = 0 THEN AddParent(b, d, dio) ELSE MoveParent(b, from, d, n)
           k == CalculateRank(a, d, n)
           u == [a EXCEPT !.dag[d] = [@ EXCEPT !.version = dio.version, !.preferred = n,
                                               !.rank = k, !.min = k]]
           r == RemoveParent(a, d, n)
<1>1. s \in Instance /\ Sound(s) /\ Joined(s) /\ Ranked(s) /\ Blocks(s) \in Nat
  <2>1. s \in Instance  BY DEF Whole, Sound
  <2>2. Blocks(s) \in Nat  BY <2>1, Fields DEF Slot
  <2> QED  BY <2>1, <2>2 DEF Whole
<1>2. CASE FreeSlots(s) = {}
  <2>1. t = FreeInstance(s)  BY <1>2 DEF AddDag
  <2>2. Whole(t) /\ Blocks(t) <= Blocks(s) /\ UsedDags(t) = {}
    BY <1>1, <2>1, FreeInstanceWhole
  <2> HIDE DEF n
  <2> QED  BY <1>2, <2>2, NoneReach
<1>3. CASE FreeSlots(s) # {}
  <2>1. t = IF from = 0 /\ ~ Room(b, d) THEN Unused(b, d)
            ELSE IF dio.config # "same" THEN Unused(r, d)
            ELSE ParentEvent(u, d, n)
    BY <1>3 DEF AddDag, Unused
  <2>2. d \in Slot /\ ~ s.dag[d].used /\ d # s.current /\ s.current \in Slot
        /\ n \in Nbr /\ dio.id \in DagId /\ dio.version \in Counter
    BY <1>1, <1>3, SlotsFound, DioFields DEF UsedDags, Joined
  <2>3. /\ \/ from = 0
           \/ from \in UsedDags(s) /\ from \in Slot /\ from # 0 /\ n \in Parents(s, from)
        /\ \A e \in UsedDags(s) : s.dag[e].id # dio.id
    BY <1>1, SlotsFound
  <2>4. b = NewDag(s, d, dio.id)  OBVIOUS
  <2> HIDE DEF d, from, b
  <2>5. /\ Sound(b) /\ b.used = s.used /\ b.current = s.current /\ b.route = s.route
        /\ Blocks(b) = Blocks(s) /\ b.dag[d].used /\ b.dag[d].id = dio.id
        /\ ~ b.dag[d].joined /\ b.dag[d].parents = <<>> /\ b.dag[d].preferred = NULL
        /\ \A e \in Slot \ {d} : b.dag[e] = s.dag[e] /\ b.parent[e] = s.parent[e]
    <3>1. Sound(s) /\ d \in Slot /\ ~ s.dag[d].used /\ dio.id \in DagId  BY <1>1, <2>2
    <3>2. b.used = s.used  BY <3>1, <2>4, NewDagFields, Zenon
    <3> QED  BY <3>1, <3>2, <2>4, NewDagFields
  <2>6. UsedDags(b) = UsedDags(s) \cup {d} /\ d \in UsedDags(b) /\ UsedDags(s) \subseteq Slot \ {d}
    BY <2>2, <2>5 DEF UsedDags
  <2>7. Whole(b)
    <3>1. Joined(b)  BY <1>1, <2>2, <2>5, <2>6 DEF Joined
    <3>2. Ranked(b)
      <4>1. b.dag[s.current] = s.dag[s.current] /\ b.parent[s.current] = s.parent[s.current]
        BY <2>2, <2>5
      <4>2. b.current = s.current /\ b.route = s.route  BY <2>5
      <4> QED  BY <1>1, <4>1, <4>2 DEF Ranked, RouteOK
    <3>3. IdsOK(b)
      <4>1. \A e \in UsedDags(s) : b.dag[e].id = s.dag[e].id  BY <2>5, <2>6
      <4> QED  BY <2>2, <2>3, <2>5, <2>6, <4>1 DEF IdsOK, Whole
    <3> QED  BY <2>5, <3>1, <3>2, <3>3 DEF Whole
  <2>8. Parents(b, d) = {}  BY <2>5 DEF Parents, ToSet
  <2>9. \A c : Reach(s, c) => Reach(b, c)  BY <1>1, <2>2, <2>5, BareReach
  <2>10. \A e \in UsedDags(s) : b.dag[e].version = s.dag[e].version  BY <2>5, <2>6
  <2>11. CASE from = 0 /\ ~ Room(b, d)
    <3>1. t = Unused(b, d)  BY <2>1, <2>11
    <3>2. b.used /\ d \in Slot /\ d # b.current  BY <2>2, <2>5
    <3>3. /\ Whole(t) /\ Blocks(t) = Blocks(b)
          /\ UsedDags(t) = UsedDags(b) \ {d} /\ \A e \in Slot \ {d} : t.dag[e] = b.dag[e]
          /\ \A c : Reach(b, c) => Reach(t, c)
      BY <2>7, <2>8, <3>1, <3>2, UnusedWhole
    <3>4. Dated(s) => Dated(t)  BY <2>6, <2>10, <3>3 DEF Dated
    <3>5. \A c : Reach(s, c) /\ n \in c => Reach(t, c)  BY <2>9, <3>3
    <3> QED  BY <1>1, <2>5, <3>3, <3>4, <3>5
  <2>12. CASE ~ (from = 0 /\ ~ Room(b, d))
    <3>1. /\ Step(b, a) /\ RouteKept(b, a) /\ \A e \in Slot : Keeps(b, a, e)
          /\ Parents(a, d) = {n} /\ SameVersions(b, a) /\ Takes(b, a, d, n)
          /\ \A e \in UsedDags(a) \ {d} : n \notin Parents(a, e)
      <4>1. CASE from = 0
        <5>1. a = AddParent(b, d, dio)  BY <4>1
        <5> HIDE DEF a
        <5>2. /\ Step(b, a) /\ a.route = b.route /\ \A e \in Slot : Keeps(b, a, e)
              /\ Parents(a, d) = Parents(b, d) \cup {n}
              /\ \A e \in Slot \ {d} : a.dag[e] = b.dag[e]
              /\ SameVersions(b, a) /\ Takes(b, a, d, n)
          BY <2>2, <2>5, <2>8, <2>12, <4>1, <5>1, AddParentStep
        <5>3. \A e \in UsedDags(a) \ {d} : n \notin Parents(a, e)
          <6>1. \A e \in UsedDags(s) : n \notin Parents(s, e)
            <7>1. DagOf(s, n) = 0  BY <4>1 DEF from
            <7> QED  BY <1>1, <7>1, SlotsFound
          <6>2. UsedDags(a) = UsedDags(b)  BY <5>2 DEF Step, Frame, UsedDags
          <6>3. \A e \in UsedDags(a) \ {d} :
                  e \in UsedDags(s) /\ e \in Slot \ {d} /\ a.dag[e] = s.dag[e]
            BY <2>5, <2>6, <5>2, <6>2
          <6> QED  BY <6>1, <6>3 DEF Parents
        <5> QED  BY <2>8, <5>2, <5>3 DEF RouteKept
      <4>2. CASE from # 0
        <5>1. a = MoveParent(b, from, d, n)  BY <4>2
        <5> HIDE DEF a
        <5>2. from \in Slot /\ from # d /\ n \in Parents(b, from) \ Parents(b, d)
          BY <2>3, <2>5, <2>6, <2>8, <4>2 DEF Parents
        <5>3. /\ Step(b, a) /\ RouteKept(b, a) /\ \A e \in Slot : Keeps(b, a, e)
              /\ Parents(a, d) = Parents(b, d) \cup {n}
              /\ SameVersions(b, a) /\ Takes(b, a, d, n) /\ n \notin Parents(a, from)
          BY <2>2, <2>5, <5>1, <5>2, MoveParentStep
        <5>4. \A e \in UsedDags(a) \ {d} : n \notin Parents(a, e)
          <6>1. \A e \in Slot \ {d} : e = from  BY <2>2, <5>2 DEF Slot
          <6> QED  BY <5>3, <6>1 DEF UsedDags
        <5> QED  BY <2>8, <5>3, <5>4
      <4> QED  BY <4>1, <4>2
    <3> HIDE DEF a
    <3>2. Whole(a) /\ Blocks(a) = Blocks(b)  BY <2>2, <2>5, <2>7, <3>1, KeepsWhole
    <3>3. /\ a.used /\ a.current = s.current /\ Sound(a) /\ a \in Instance /\ d \in UsedDags(a)
          /\ n \in Parents(a, d) /\ a.current \in Slot
      BY <2>2, <2>5, <3>1 DEF Step, Frame, Sound, UsedDags
    <3>4. \A c : Reach(b, c) /\ n \in c => Reach(a, c)  BY <2>2, <3>1, <3>3, TakesReach
    <3>5. UsedDags(a) = UsedDags(s) \cup {d}
           /\ \A e \in UsedDags(s) : a.dag[e].version = s.dag[e].version
      <4>1. UsedDags(a) = UsedDags(b)  BY <3>1 DEF Step, Frame, UsedDags
      <4>2. \A e \in UsedDags(s) : e \in Slot  BY <2>6
      <4> QED  BY <2>6, <2>10, <3>1, <4>1, <4>2 DEF SameVersions
    <3>6. CASE dio.config # "same"
      <4>1. t = Unused(r, d)  BY <2>1, <2>12, <3>6
      <4>2. /\ Step(a, r) /\ RouteKept(a, r) /\ \A e \in Slot : Keeps(a, r, e)
            /\ Parents(r, d) = Parents(a, d) \ {n}
            /\ \A e \in Slot \ {d} : r.dag[e] = a.dag[e]
            /\ SameVersions(a, r) /\ Takes(a, r, d, n)
        BY <2>2, <3>3, RemoveParentStep
      <4> HIDE DEF r
      <4>3. Whole(r) /\ Blocks(r) = Blocks(a)  BY <3>2, <3>3, <4>2, KeepsWhole
      <4>4. r.used /\ r.current = s.current /\ Parents(r, d) = {}
        BY <3>1, <3>3, <4>2 DEF Step, Frame
      <4>5. /\ Whole(t) /\ Blocks(t) = Blocks(r)
            /\ UsedDags(t) = UsedDags(r) \ {d} /\ \A e \in Slot \ {d} : t.dag[e] = r.dag[e]
            /\ \A c : Reach(r, c) => Reach(t, c)
        BY <2>2, <4>1, <4>3, <4>4, UnusedWhole
      <4>6. UsedDags(r) = UsedDags(a)  BY <4>2 DEF Step, Frame, UsedDags
      <4>7. Dated(s) => Dated(t)
        <5>1. \A e \in UsedDags(t) : e \in UsedDags(s) /\ t.dag[e].version = s.dag[e].version
          BY <2>6, <3>5, <4>2, <4>5, <4>6
        <5> QED  BY <5>1 DEF Dated
      <4>8. \A c : Reach(a, c) /\ n \in c => Reach(r, c)
        <5>1. \A e \in UsedDags(r) \ {d} : n \notin Parents(r, e)
          <6>1. UsedDags(r) \subseteq Slot  BY DEF UsedDags
          <6> QED  BY <3>1, <4>2, <4>6, <6>1 DEF Parents
        <5>2. Sound(r)  BY <4>3 DEF Whole
        <5> QED  BY <2>2, <4>2, <5>1, <5>2, TakesReach
      <4>9. \A c : Reach(s, c) /\ n \in c => Reach(t, c)  BY <2>9, <3>4, <4>5, <4>8
      <4>10. Blocks(t) = Blocks(s)  BY <2>5, <3>2, <4>3, <4>5
      <4> QED  BY <1>1, <4>5, <4>7, <4>9, <4>10
    <3>7. CASE dio.config = "same"
      <4>1. t = ParentEvent(u, d, n)  BY <2>1, <2>12, <3>7
      <4>2. k \in 0 .. Infinite  BY <2>2, <3>3, RankType
      <4> HIDE DEF k
      <4>3. u = Headed(a, d, dio.version, n, k, k)  BY DEF Headed
      <4> HIDE DEF u
      <4>4. /\ Step(a, u) /\ u.route = a.route /\ u.parent = a.parent
            /\ \A e \in Slot \ {d} : u.dag[e] = a.dag[e]
            /\ u.dag[d].version = dio.version /\ u.dag[d].preferred = n
            /\ u.dag[d].parents = a.dag[d].parents
        BY <2>2, <3>3, <4>2, <4>3, HeadStep DEF Reranked
      <4>5. Keeps(a, u, a.current) /\ RouteKept(a, u)
        BY <2>2, <3>3, <4>4 DEF Keeps, RouteKept
      <4>6. Whole(u) /\ Blocks(u) = Blocks(a)  BY <3>2, <3>3, <4>4, <4>5, KeepsWhole
      <4>7. /\ u.used /\ Sound(u) /\ Joined(u) /\ Ranked(u) /\ RouteOK(u) /\ d \in UsedDags(u)
        BY <3>3, <4>4, <4>6 DEF Whole, Ranked, Step, Frame, UsedDags
      <4>8. /\ Move(u, t) /\ Ranked(t) /\ Judged(u, t)
            /\ u.parent[d][n].rank = Infinite => t.dag[d].preferred # n
        BY <2>2, <4>1, <4>7, ParentEventMoves
      <4>9. Whole(t) /\ Blocks(t) = Blocks(u)  BY <4>6, <4>8, MoveWhole
      <4>10. UsedDags(u) = UsedDags(a)  BY <4>4 DEF Step, Frame, UsedDags
      <4>11. Dated(s) => Dated(t)
        <5> SUFFICES ASSUME Dated(s) PROVE Dated(t)  OBVIOUS
        <5>1. dio.version \in Version  BY DEF Dio
        <5>2. \A e \in UsedDags(u) : e = d \/ (e \in UsedDags(s) /\ u.dag[e].version = s.dag[e].version)
          BY <2>6, <3>5, <4>4, <4>10
        <5>3. Dated(u)  BY <4>4, <5>1, <5>2 DEF Dated
        <5> QED  BY <4>8, <5>3, JudgedDated
      <4>12. \A e \in Slot : Parents(u, e) = Parents(a, e) /\ u.dag[e].used = a.dag[e].used
        BY <4>4 DEF Parents, Step, Frame
      <4>13. Takes(a, u, d, n)
        <5>1. \A e \in Slot : u.dag[e].preferred \in {a.dag[e].preferred, n}  BY <4>4
        <5> QED  BY <4>4, <4>12, <5>1 DEF Takes
      <4>14. \A c : Reach(a, c) /\ n \in c => Reach(u, c)
        <5>1. \A e \in UsedDags(u) \ {d} : n \notin Parents(u, e)
          <6>1. UsedDags(u) \subseteq Slot  BY DEF UsedDags
          <6> QED  BY <3>1, <4>10, <4>12, <6>1
        <5> QED  BY <2>2, <4>7, <4>13, <5>1, TakesReach
      <4>15. \A c : Reach(u, c) /\ n \in c => Reach(t, c)
        <5> DEFINE rec == u.parent[d][n]
        <5>1. u.parent[d][n] = rec  OBVIOUS
        <5> HIDE DEF rec
        <5> QED  BY <2>2, <4>7, <4>8, <5>1, EventReach, Zenon
      <4>16. \A c : Reach(s, c) /\ n \in c => Reach(t, c)
        BY <2>9, <3>4, <4>14, <4>15
      <4>17. Blocks(t) = Blocks(s)  BY <2>5, <3>2, <4>6, <4>9
      <4> QED  BY <1>1, <4>9, <4>11, <4>16, <4>17
    <3> QED  BY <3>6, <3>7
  <2> QED  BY <2>11, <2>12
<1> QED  BY <1>2, <1>3

(* global_repair: all parents go but the sender of the DIO. *)
LEMMA GlobalRepairWhole ==
  ASSUME NEW s, Whole(s), s.used, NEW d \in UsedDags(s), NEW dio \in Dio, dio.rank # Infinite,
         NEW t, t = GlobalRepair(s, d, dio)
  PROVE  Whole(t) /\ Blocks(t) = Blocks(s)
<1> DEFINE n == dio.from
           v == dio.version
           x == RemoveAll(s, d)
           b == [x EXCEPT !.dag[d] = [@ EXCEPT !.version = v, !.min = Infinite]]
           c == [b EXCEPT !.dag[d].rank = Infinite]
           a == AddParent(b, d, dio)
           k == CalculateRank(a, d, n)
           u == [a EXCEPT !.dag[d] = [@ EXCEPT !.rank = k, !.min = k]]
<1>1. /\ Sound(s) /\ d \in Slot /\ s.current \in Slot /\ Infinite \in 0 .. Infinite
      /\ n \in Nbr /\ v \in Counter /\ dio.rank \in 0 .. Infinite
  <2>1. Sound(s) /\ d \in Slot /\ s.current \in Slot  BY DEF Whole, UsedDags, Joined
  <2>2. Infinite \in 0 .. Infinite  BY DEF Infinite
  <2>3. n \in Nbr /\ v \in Counter /\ dio.rank \in 0 .. Infinite  BY DioFields
  <2> QED  BY <2>1, <2>2, <2>3
<1>2. /\ Step(s, x) /\ RouteKept(s, x) /\ \A e \in Slot : Keeps(s, x, e)
      /\ x.dag[d].preferred = NULL /\ x.dag[d].parents = <<>>
  BY <1>1, RemoveAllStep
<1>3. t = IF ~ Room(b, d) THEN c ELSE ParentEvent(u, d, n)
  BY DEF GlobalRepair
<1> HIDE DEF x, n, v
<1>4. Whole(x) /\ Blocks(x) = Blocks(s)  BY <1>1, <1>2, KeepsWhole
<1>5. /\ x.used /\ x.current = s.current /\ Sound(x) /\ x \in Instance /\ d \in UsedDags(x)
      /\ x.dag \in [Slot -> DagRecord] /\ x.dag[d] \in DagRecord /\ x.dag[d].rank \in 0 .. Infinite
      /\ Ranked(x) /\ Parents(x, d) = {}
  <2>1. /\ x.used /\ x.current = s.current /\ Sound(x) /\ x \in Instance /\ d \in UsedDags(x)
    BY <1>1, <1>2 DEF Step, Frame, Sound, UsedDags
  <2>2. x.dag \in [Slot -> DagRecord] /\ x.dag[d] \in DagRecord /\ x.dag[d].rank \in 0 .. Infinite
    BY <1>1, <2>1 DEF Instance, DagRecord
  <2>3. Ranked(x) /\ Parents(x, d) = {}  BY <1>2, <1>4, <2>1 DEF Whole, Parents, ToSet
  <2> QED  BY <2>1, <2>2, <2>3
<1>6. b = Headed(x, d, v, NULL, x.dag[d].rank, Infinite)
  <2> DEFINE i == x.dag[d].rank
  <2>1. [x.dag[d] EXCEPT !.version = v, !.min = Infinite]
          = [x.dag[d] EXCEPT !.version = v, !.preferred = NULL, !.rank = i, !.min = Infinite]
    BY <1>2, <1>5 DEF DagRecord
  <2> HIDE DEF i
  <2>2. b = Headed(x, d, v, NULL, i, Infinite)  BY <1>1, <1>5, <2>1 DEF Instance, Headed
  <2> QED  BY <2>2 DEF i
<1> HIDE DEF b
<1>7. /\ Step(x, b) /\ b.route = x.route /\ b.parent = x.parent
      /\ b.dag[d].preferred = NULL /\ b.dag[d].rank = x.dag[d].rank /\ b.dag[d].min = Infinite
      /\ b.dag[d].parents = x.dag[d].parents
      /\ \A e \in Slot \ {d} : b.dag[e] = x.dag[e]
  <2>1. /\ Sound(x) /\ NULL \in Parents(x, d) \cup {NULL} /\ x.dag[d].rank \in 0 .. Infinite
        /\ Infinite \in 0 .. Infinite /\ d \in Slot /\ v \in Counter
    BY <1>1, <1>5
  <2>2. Step(x, b) /\ Reranked(x, b, d, NULL, x.dag[d].rank, Infinite)  BY <2>1, <1>6, HeadStep
  <2> QED  BY <2>2 DEF Reranked
<1>8. Whole(b) /\ Blocks(b) = Blocks(x)
  <2>1. Joined(x)  BY <1>4, <1>5 DEF Whole
  <2>2. Move(x, b) /\ b.current = x.current  BY <1>7, <2>1, StepMoves
  <2>3. CASE d = x.current
    <3>1. x.dag[d].rank \in {Infinite, RootRank}  BY <1>2, <1>5, <2>3 DEF Ranked
    <3>2. x.dag[d].rank <= Infinite + MaxRankInc
      <4>1. MaxRankInc \in Nat  BY RankAssumption
      <4> QED  BY <1>5, <4>1 DEF Infinite
    <3>3. Ranked(b)  BY <1>7, <2>2, <2>3, <3>1, <3>2 DEF Ranked, RouteOK
    <3> QED  BY <1>4, <2>2, <3>3, MoveWhole
  <2>4. CASE d # x.current
    <3>1. b.dag[x.current] = x.dag[x.current]  BY <1>1, <1>5, <1>7, <2>4
    <3>2. Ranked(b)  BY <1>5, <1>7, <2>2, <3>1 DEF Ranked, RouteOK
    <3> QED  BY <1>4, <2>2, <3>2, MoveWhole
  <2> QED  BY <2>3, <2>4
<1>9. /\ b.used /\ b.current = s.current /\ Sound(b) /\ b \in Instance /\ d \in UsedDags(b)
      /\ b.dag[d].used /\ Parents(b, d) = {}
      /\ b.dag \in [Slot -> DagRecord] /\ b.dag[d] \in DagRecord
  <2>1. /\ b.used /\ b.current = s.current /\ Sound(b) /\ b \in Instance /\ d \in UsedDags(b)
        /\ b.dag[d].used
    BY <1>1, <1>5, <1>7 DEF Step, Frame, Sound, UsedDags
  <2>2. Parents(b, d) = {}  BY <1>5, <1>7 DEF Parents
  <2>3. b.dag \in [Slot -> DagRecord] /\ b.dag[d] \in DagRecord  BY <1>1, <2>1 DEF Instance
  <2> QED  BY <2>1, <2>2, <2>3
<1>10. CASE ~ Room(b, d)
  <2> DEFINE m == b.dag[d].min
  <2>1. t = c /\ m \in 0 .. Infinite  BY <1>3, <1>9, <1>10 DEF DagRecord
  <2>2. c = Redag(b, d, NULL, Infinite, m)
    <3>1. [b.dag[d] EXCEPT !.rank = Infinite]
            = [b.dag[d] EXCEPT !.preferred = NULL, !.rank = Infinite, !.min = m]
      BY <1>7, <1>9 DEF DagRecord
    <3> HIDE DEF m
    <3> QED  BY <1>1, <1>9, <3>1 DEF Instance, Redag
  <2> HIDE DEF c, m
  <2>3. /\ Step(b, c) /\ c.route = b.route /\ c.parent = b.parent
        /\ c.dag[d].preferred = NULL /\ c.dag[d].rank = Infinite
        /\ \A e \in Slot \ {d} : c.dag[e] = b.dag[e]
    <3>1. Sound(b) /\ d \in Slot /\ NULL \in Parents(b, d) \cup {NULL}
          /\ Infinite \in 0 .. Infinite /\ m \in 0 .. Infinite
      BY <1>1, <1>9, <2>1
    <3>2. Step(b, c) /\ Reranked(b, c, d, NULL, Infinite, m)  BY <2>2, <3>1, DagStep
    <3> QED  BY <3>2 DEF Reranked
  <2>4. Keeps(b, c, b.current) /\ RouteKept(b, c)  BY <1>1, <1>9, <2>3 DEF Keeps, RouteKept
  <2>5. Whole(c) /\ Blocks(c) = Blocks(b)  BY <1>8, <1>9, <2>3, <2>4, KeepsWhole
  <2> QED  BY <1>4, <1>8, <2>1, <2>5
<1>11. CASE Room(b, d)
  <2>1. t = ParentEvent(u, d, n)  BY <1>3, <1>11
  <2>2. /\ Step(b, a) /\ a.route = b.route /\ \A e \in Slot : Keeps(b, a, e)
        /\ a.parent[d][n].rank = dio.rank /\ Parents(a, d) = Parents(b, d) \cup {n}
        /\ a.dag[d].preferred = NULL
    <3>1. n = dio.from /\ n \notin Parents(b, d)  BY <1>9 DEF n
    <3> HIDE DEF a
    <3>2. a = AddParent(b, d, dio)  BY DEF a
    <3> QED  BY <1>1, <1>7, <1>9, <1>11, <3>1, <3>2, AddParentStep
  <2> HIDE DEF a
  <2>3. Whole(a) /\ Blocks(a) = Blocks(b)
    <3>1. Keeps(b, a, b.current) /\ RouteKept(b, a)  BY <1>1, <1>9, <2>2 DEF RouteKept
    <3> QED  BY <1>8, <1>9, <2>2, <3>1, KeepsWhole
  <2>4. /\ a.used /\ a.current = s.current /\ Sound(a) /\ a \in Instance /\ d \in UsedDags(a)
        /\ Joined(a) /\ Ranked(a) /\ RouteOK(a)
        /\ a.dag \in [Slot -> DagRecord] /\ a.dag[d] \in DagRecord
    <3>1. /\ a.used /\ a.current = s.current /\ Sound(a) /\ a \in Instance /\ d \in UsedDags(a)
      BY <1>1, <1>9, <2>2 DEF Step, Frame, Sound, UsedDags
    <3>2. Joined(a) /\ Ranked(a) /\ RouteOK(a)  BY <2>3, <3>1 DEF Whole, Ranked
    <3>3. a.dag \in [Slot -> DagRecord] /\ a.dag[d] \in DagRecord  BY <1>1, <3>1 DEF Instance
    <3> QED  BY <3>1, <3>2, <3>3
  <2>5. k \in 0 .. Infinite /\ (k # Infinite => k > dio.rank)
    BY <1>1, <2>2, <2>4, RankType
  <2> HIDE DEF k
  <2>6. u = Redag(a, d, NULL, k, k)
    <3>1. [a.dag[d] EXCEPT !.rank = k, !.min = k]
            = [a.dag[d] EXCEPT !.preferred = NULL, !.rank = k, !.min = k]
      BY <2>2, <2>4 DEF DagRecord
    <3> QED  BY <1>1, <2>4, <3>1 DEF Instance, Redag
  <2> HIDE DEF u
  <2>7. /\ Step(a, u) /\ u.route = a.route /\ u.parent = a.parent
        /\ u.dag[d].preferred = NULL /\ u.dag[d].min = k
        /\ \A e \in Slot \ {d} : u.dag[e] = a.dag[e]
    <3>1. Sound(a) /\ NULL \in Parents(a, d) \cup {NULL} /\ k \in 0 .. Infinite /\ d \in Slot
      BY <1>1, <2>4, <2>5
    <3>2. Step(a, u) /\ Reranked(a, u, d, NULL, k, k)  BY <3>1, <2>6, DagStep
    <3> QED  BY <3>2 DEF Reranked
  <2>8. Move(a, u) /\ u.current = a.current  BY <2>4, <2>7, StepMoves
  <2>9. Sound(u) /\ Joined(u) /\ d \in UsedDags(u)
    BY <1>1, <2>4, <2>8 DEF Move, UsedDags
  <2>10. RouteOK(u)
    <3>1. CASE d = u.current  BY <2>7, <3>1 DEF RouteOK
    <3>2. CASE d # u.current
      <4>1. u.dag[u.current] = a.dag[a.current]  BY <1>1, <2>4, <2>7, <2>8, <3>2
      <4> QED  BY <2>4, <2>7, <2>8, <4>1 DEF RouteOK
    <3> QED  BY <3>1, <3>2
  <2>11. Acceptable(u, d, u.parent[d][n].rank)
    <3>1. u.parent[d][n].rank = dio.rank  BY <2>2, <2>7
    <3>2. dio.rank <= k + MaxRankInc
      <4>1. MaxRankInc \in Nat  BY RankAssumption
      <4> QED  BY <1>1, <2>5, <4>1 DEF Infinite
    <3> QED  BY <2>7, <3>1, <3>2 DEF Acceptable
  <2>12. Move(u, t) /\ Ranked(t)  BY <1>1, <2>1, <2>9, <2>10, <2>11, ParentEventMoves
  <2>13. Whole(t) /\ Blocks(t) = Blocks(a)  BY <2>3, <2>8, <2>12, MoveTransitive, MoveWhole
  <2> QED  BY <1>4, <1>8, <2>3, <2>13
<1> QED  BY <1>10, <1>11

(* The record of a parent is changed and the parent then judged. *)
LEMMA JudgedWhole ==
  ASSUME NEW s, Whole(s), s.used, NEW d \in UsedDags(s), NEW n \in Nbr, NEW rec \in ParentRecord,
         NEW t, t = ParentEvent(Recorded(s, d, n, rec), d, n)
  PROVE  /\ Whole(t) /\ Blocks(t) = Blocks(s) /\ t.used
         /\ Dated(s) => Dated(t)
         /\ \A c : Reach(s, c) /\ (n \in c \/ rec.rank = Infinite) => Reach(t, c)
<1> DEFINE w == Recorded(s, d, n, rec)
<1>1. Sound(s) /\ Joined(s) /\ Ranked(s) /\ RouteOK(s) /\ d \in Slot
  BY DEF Whole, Ranked, UsedDags
<1>2. /\ Step(s, w) /\ w.dag = s.dag /\ RouteOK(w) /\ w.parent[d][n] = rec
      /\ \A e \in Slot, m \in Nbr : <<e, m>> # <<d, n>> => w.parent[e][m] = s.parent[e][m]
      /\ \/ d = s.current /\ n = s.dag[d].preferred
         \/ Ranked(w)
  BY <1>1, RecordStep, RecordRanked
<1> HIDE DEF w
<1>3. Move(s, w) /\ w.current = s.current  BY <1>1, <1>2, StepMoves
<1>4. Sound(w) /\ Joined(w) /\ d \in UsedDags(w)  BY <1>2, <1>3 DEF Move, UsedDags
<1>5. \/ d = w.current /\ n = w.dag[d].preferred
      \/ Ranked(w)
  BY <1>2, <1>3
<1>6. t = ParentEvent(w, d, n)  BY DEF w
<1>7. /\ Move(w, t) /\ Ranked(t) /\ Judged(w, t)
      /\ w.parent[d][n].rank = Infinite => t.dag[d].preferred # n
  BY <1>2, <1>4, <1>5, <1>6, ParentEventMoves
<1>8. t.used  BY <1>7 DEF Move, Joined
<1>9. ASSUME Dated(s) PROVE Dated(t)
  <2>1. Dated(w)  BY <1>2, <1>9 DEF Dated, UsedDags
  <2> QED  BY <1>7, <2>1, JudgedDated
<1>10. ASSUME NEW c, Reach(s, c), n \in c \/ rec.rank = Infinite PROVE Reach(t, c)
  BY <1>1, <1>2, <1>7, <1>10, EventReach
<1>11. Whole(t) /\ Blocks(t) = Blocks(s)  BY <1>3, <1>7, MoveTransitive, MoveWhole
<1> QED  BY <1>8, <1>9, <1>10, <1>11

(* The type of a parent's record. *)
LEMMA ParentType ==
  ASSUME NEW s \in Instance, NEW d \in Slot, NEW n \in Nbr
  PROVE  s.parent[d][n] \in ParentRecord /\ s.parent[d] \in [Nbr -> ParentRecord]
<1>1. s.parent[d] \in [Nbr -> ParentRecord]  BY Fields
<1> QED  BY <1>1

(* The sender of a DIO becomes a candidate parent and is judged. *)
LEMMA CandidateWhole ==
  ASSUME NEW s, Whole(s), s.used, NEW d \in UsedDags(s), NEW dio \in Dio,
         NEW t, t = Candidate(s, d, dio)
  PROVE  /\ Whole(t) /\ Blocks(t) = Blocks(s)
         /\ Dated(s) => Dated(t)
         /\ \A c : Reach(s, c) /\ dio.from \in c => Reach(t, c)
<1> DEFINE n == dio.from
           i == MetricOf(dio)
           from == IF n \in Parents(s, d) THEN d ELSE DagOf(s, n)
           room == IF from = 0 /\ Len(s.dag[d].parents) = MaxParents
                   THEN RemoveWorst(s, d, dio.rank) ELSE s
           a == IF from = d THEN [s EXCEPT !.parent[d][n].rank = dio.rank]
                ELSE IF from # 0 THEN MoveParent(s, from, d, n)
                ELSE AddParent(room, d, dio)
           w == [a EXCEPT !.parent[d][n].metric = i]
<1>1. /\ Sound(s) /\ Joined(s) /\ s \in Instance /\ s.current \in Slot
      /\ d \in Slot /\ d # 0 /\ s.dag[d].used
      /\ n \in Nbr /\ i \in Nat /\ dio.rank \in 0 .. Infinite
  <2>1. /\ Sound(s) /\ Joined(s) /\ s \in Instance /\ s.current \in Slot
    BY DEF Whole, Sound, UsedDags, Joined
  <2>2. d \in Slot /\ d # 0 /\ s.dag[d].used  BY DEF UsedDags, Slot
  <2>3. n \in Nbr /\ i \in Nat /\ dio.rank \in 0 .. Infinite  BY DioFields, Zenon
  <2> QED  BY <2>1, <2>2, <2>3
<1>2. t = IF from = 0 /\ ~ Room(room, d) THEN room ELSE ParentEvent(w, d, n)
  BY DEF Candidate
<1>3. ASSUME NEW x, Whole(x), Blocks(x) = Blocks(s), x.used, d \in UsedDags(x),
             Dated(s) => Dated(x), \A c : Reach(s, c) /\ n \in c => Reach(x, c),
             w = [x EXCEPT !.parent[d][n].metric = i], t = ParentEvent(w, d, n)
      PROVE  /\ Whole(t) /\ Blocks(t) = Blocks(s)
             /\ Dated(s) => Dated(t)
             /\ \A c : Reach(s, c) /\ n \in c => Reach(t, c)
  <2> DEFINE rec == [x.parent[d][n] EXCEPT !.metric = i]
  <2>1. x \in Instance /\ x.parent \in [Slot -> [Nbr -> ParentRecord]]
    BY <1>3 DEF Whole, Sound, Instance
  <2>2. x.parent[d][n] \in ParentRecord /\ x.parent[d] \in [Nbr -> ParentRecord]
    BY <1>1, <2>1
  <2>3. rec \in ParentRecord  BY <1>1, <2>2 DEF ParentRecord
  <2>4. w = Recorded(x, d, n, rec)  BY <1>1, <1>3, <2>1, <2>2 DEF Recorded, Instance
  <2> HIDE DEF rec, w, n
  <2>5. /\ Whole(t) /\ Blocks(t) = Blocks(x)
        /\ Dated(x) => Dated(t)
        /\ \A c : Reach(x, c) /\ (n \in c \/ rec.rank = Infinite) => Reach(t, c)
    BY <1>1, <1>3, <2>3, <2>4, JudgedWhole
  <2> QED  BY <1>3, <2>5
<1>4. CASE n \in Parents(s, d)
  <2> DEFINE rec == [s.parent[d][n] EXCEPT !.rank = dio.rank, !.metric = i]
  <2>1. from = d /\ t = ParentEvent(w, d, n) /\ a = [s EXCEPT !.parent[d][n].rank = dio.rank]
    BY <1>1, <1>2, <1>4
  <2>2. s.parent \in [Slot -> [Nbr -> ParentRecord]] /\ s.parent[d] \in [Nbr -> ParentRecord]
        /\ s.parent[d][n] \in ParentRecord
    BY <1>1, ParentType DEF Instance
  <2>3. rec \in ParentRecord  BY <1>1, <2>2 DEF ParentRecord
  <2>4. w = Recorded(s, d, n, rec)
    <3> HIDE DEF from, room
    <3>1. w = [[s EXCEPT !.parent[d][n].rank = dio.rank] EXCEPT !.parent[d][n].metric = i]
      BY <2>1
    <3> HIDE DEF w, a, i, n
    <3> QED  BY <1>1, <2>2, <3>1 DEF Recorded, Instance
  <2> HIDE DEF rec, w, n
  <2>5. /\ Whole(t) /\ Blocks(t) = Blocks(s)
        /\ Dated(s) => Dated(t)
        /\ \A c : Reach(s, c) /\ (n \in c \/ rec.rank = Infinite) => Reach(t, c)
    BY <1>1, <2>1, <2>3, <2>4, JudgedWhole
  <2> QED  BY <2>5 DEF n
<1>5. CASE n \notin Parents(s, d) /\ DagOf(s, n) # 0
  <2>1. /\ from = DagOf(s, n) /\ from \in Slot /\ from # 0 /\ from # d /\ n \in Parents(s, from)
    <3>1. from = DagOf(s, n)  BY <1>5
    <3>2. DagOf(s, n) \in Slot /\ n \in Parents(s, DagOf(s, n))  BY <1>1, <1>5, SlotsFound
    <3> QED  BY <1>5, <3>1, <3>2
  <2>2. a = MoveParent(s, from, d, n) /\ t = ParentEvent(w, d, n)  BY <1>2, <2>1
  <2> HIDE DEF from, room, a
  <2>3. /\ Step(s, a) /\ RouteKept(s, a) /\ \A e \in Slot : Keeps(s, a, e)
        /\ SameVersions(s, a) /\ Takes(s, a, d, n) /\ n \notin Parents(a, from)
    BY <1>1, <1>5, <2>1, <2>2, MoveParentStep
  <2>4. Whole(a) /\ Blocks(a) = Blocks(s)  BY <1>1, <2>3, KeepsWhole
  <2>5. a.used /\ d \in UsedDags(a)  BY <1>1, <2>3 DEF Step, Frame, UsedDags
  <2>6. w = [a EXCEPT !.parent[d][n].metric = i]  OBVIOUS
  <2>7. Dated(s) => Dated(a)  BY <2>3, SameDated DEF Step, Frame
  <2>8. \A e \in UsedDags(a) \ {d} : n \notin Parents(a, e)
    <3>1. \A e \in Slot \ {d} : e = from  BY <1>1, <2>1 DEF Slot
    <3> QED  BY <2>3, <3>1 DEF UsedDags
  <2>9. \A c : Reach(s, c) /\ n \in c => Reach(a, c)
    <3>1. Sound(a)  BY <2>4 DEF Whole
    <3> HIDE DEF n
    <3> QED  BY <1>1, <2>3, <2>8, <3>1, TakesReach
  <2> HIDE DEF w, n
  <2>10. /\ Whole(t) /\ Blocks(t) = Blocks(s)
         /\ Dated(s) => Dated(t)
         /\ \A c : Reach(s, c) /\ n \in c => Reach(t, c)
    BY <2>2, <2>4, <2>5, <2>6, <2>7, <2>9, <1>3
  <2> QED  BY <2>10 DEF n
<1>6. CASE n \notin Parents(s, d) /\ DagOf(s, n) = 0
  <2>1. from = 0  BY <1>6
  <2> HIDE DEF from
  <2>2. /\ Whole(room) /\ Blocks(room) = Blocks(s) /\ room.used /\ d \in UsedDags(room)
        /\ \A e \in UsedDags(room) : n \notin Parents(room, e)
        /\ Dated(s) => Dated(room)
        /\ \A c : Reach(s, c) /\ n \in c => Reach(room, c)
    <3>1. \A e \in UsedDags(s) : n \notin Parents(s, e)  BY <1>1, <1>6, SlotsFound
    <3>2. CASE room = s  BY <1>6, <3>1, <3>2
    <3>3. CASE room = RemoveWorst(s, d, dio.rank)
      <4> HIDE DEF room
      <4>1. /\ Step(s, room) /\ RouteKept(s, room) /\ \A e \in Slot : Keeps(s, room, e)
            /\ Parents(room, d) \subseteq Parents(s, d)
            /\ \A e \in Slot \ {d} : room.dag[e] = s.dag[e]
            /\ SameVersions(s, room) /\ Takes(s, room, d, n)
        BY <1>1, <3>3, RemoveWorstStep
      <4>2. Whole(room) /\ Blocks(room) = Blocks(s)  BY <1>1, <4>1, KeepsWhole
      <4>3. room.used /\ d \in UsedDags(room)  BY <1>1, <4>1 DEF Step, Frame, UsedDags
      <4>4. Dated(s) => Dated(room)  BY <4>1, SameDated DEF Step, Frame
      <4>5. \A e \in UsedDags(room) : n \notin Parents(room, e)
        <5>1. UsedDags(room) = UsedDags(s) /\ UsedDags(s) \subseteq Slot
          BY <4>1 DEF Step, Frame, UsedDags
        <5> HIDE DEF n
        <5> QED  BY <1>6, <3>1, <4>1, <5>1 DEF Parents
      <4>6. \A c : Reach(s, c) /\ n \in c => Reach(room, c)
        <5>1. Sound(room)  BY <4>2 DEF Whole
        <5> HIDE DEF n
        <5> QED  BY <1>1, <4>1, <4>5, <5>1, TakesReach
      <4> QED  BY <4>2, <4>3, <4>4, <4>5, <4>6
    <3> QED  BY <3>2, <3>3
  <2>3. a = AddParent(room, d, dio)  BY <1>1, <2>1
  <2> HIDE DEF room, a
  <2>4. CASE ~ Room(room, d)  BY <1>2, <2>1, <2>2, <2>4
  <2>5. CASE Room(room, d)
    <3>1. t = ParentEvent(w, d, n)  BY <1>2, <2>5
    <3>2. Sound(room) /\ room.dag[d].used /\ room.current \in Slot
      BY <2>2 DEF Whole, UsedDags, Joined
    <3>3. /\ Step(room, a) /\ a.route = room.route /\ \A e \in Slot : Keeps(room, a, e)
          /\ \A e \in Slot \ {d} : a.dag[e] = room.dag[e]
          /\ SameVersions(room, a) /\ Takes(room, a, d, n)
      BY <1>1, <2>2, <2>3, <2>5, <3>2, AddParentStep
    <3>4. Whole(a) /\ Blocks(a) = Blocks(room)
      BY <2>2, <3>2, <3>3, KeepsWhole DEF RouteKept
    <3>5. a.used /\ d \in UsedDags(a)  BY <1>1, <2>2, <3>2, <3>3 DEF Step, Frame, UsedDags
    <3>6. w = [a EXCEPT !.parent[d][n].metric = i]  OBVIOUS
    <3>7. Dated(s) => Dated(a)  BY <2>2, <3>3, SameDated DEF Step, Frame
    <3>8. \A e \in UsedDags(a) \ {d} : n \notin Parents(a, e)
      <4>1. UsedDags(a) = UsedDags(room) /\ UsedDags(a) \subseteq Slot
        BY <3>3 DEF Step, Frame, UsedDags
      <4> HIDE DEF n
      <4> QED  BY <2>2, <3>3, <4>1 DEF Parents
    <3>9. \A c : Reach(s, c) /\ n \in c => Reach(a, c)
      <4>1. Sound(a)  BY <3>4 DEF Whole
      <4> HIDE DEF n
      <4> QED  BY <1>1, <2>2, <3>3, <3>8, <4>1, TakesReach
    <3>10. Blocks(a) = Blocks(s)  BY <2>2, <3>4
    <3> HIDE DEF w, n
    <3>11. /\ Whole(t) /\ Blocks(t) = Blocks(s)
           /\ Dated(s) => Dated(t)
           /\ \A c : Reach(s, c) /\ n \in c => Reach(t, c)
      BY <3>1, <3>4, <3>5, <3>6, <3>7, <3>9, <3>10, <1>3
    <3> QED  BY <3>11 DEF n
  <2> QED  BY <2>4, <2>5
<1> QED  BY <1>4, <1>5, <1>6

(* A version that is counted up is a version (RPL_LOLLIPOP_INCREMENT). *)
LEMMA VersionType ==
  ASSUME NEW v \in Counter
  PROVE  Increment(v) \in Counter
BY DEF Increment, Counter, LollipopMaxValue

(* A DIO of a DODAG the node knows.  The sender is in one list only as     *)
(* long as there is no global repair, which does not look for it in others.*)
LEMMA ProcessKnownWhole ==
  ASSUME NEW s, Whole(s), s.used, NEW d \in UsedDags(s), NEW dio \in Dio, dio.rank # Infinite,
         NEW t, t = ProcessKnown(s, d, dio)
  PROVE  /\ Whole(t) /\ Blocks(t) = Blocks(s)
         /\ ~ GreaterThan(dio.version, s.dag[d].version) =>
              /\ Dated(s) => Dated(t)
              /\ \A c : Reach(s, c) /\ dio.from \in c => Reach(t, c)
<1> DEFINE v == Increment(dio.version)
           w == [s EXCEPT !.dag[d].version = v]
<1>1. t \in {w, GlobalRepair(s, d, dio), s, Candidate(s, d, dio)}  BY DEF ProcessKnown
<1>2. Whole(w) /\ Blocks(w) = Blocks(s)
  <2>1. Sound(s) /\ s \in Instance /\ d \in Slot /\ s.current \in Slot
    BY DEF Whole, Sound, UsedDags, Joined
  <2>2. v \in Counter  BY DioFields, VersionType
  <2> HIDE DEF v
  <2>3. w = Versioned(s, d, v)  BY <2>1 DEF Instance, Versioned
  <2> HIDE DEF w
  <2>4. Step(s, w) /\ RouteKept(s, w) /\ \A e \in Slot : Keeps(s, w, e)
    BY <2>1, <2>2, <2>3, VersionStep
  <2> QED  BY <2>1, <2>4, KeepsWhole
<1> HIDE DEF w
<1>3. Whole(t) /\ Blocks(t) = Blocks(s)  BY <1>1, <1>2, GlobalRepairWhole, CandidateWhole
<1>4. ASSUME ~ GreaterThan(dio.version, s.dag[d].version)
      PROVE  /\ Dated(s) => Dated(t)
             /\ \A c : Reach(s, c) /\ dio.from \in c => Reach(t, c)
  <2>1. t \in {s, Candidate(s, d, dio)}  BY <1>4 DEF ProcessKnown
  <2> QED  BY <2>1, CandidateWhole
<1> QED  BY <1>3, <1>4

(* No DIO announces a newer version than another, or than that of a root.  *)
NoneNewer ==
  \A v \in Version, w \in Version \cup {LollipopInit} : ~ GreaterThan(v, w)

(* rpl_process_dio. *)
LEMMA ProcessDioWhole ==
  ASSUME NEW s, Whole(s), NEW dio \in Dio, NEW t, t = ProcessDio(s, dio)
  PROVE  /\ Whole(t) /\ Blocks(t) <= Blocks(s)
         /\ ~ s.used \/ FreeSlots(s) # {} \/ SlotOf(s, dio.id) # 0 => Blocks(t) = Blocks(s)
         /\ NoneNewer /\ Dated(s) =>
              /\ Dated(t)
              /\ \A c : Reach(s, c) /\ dio.from \in c => Reach(t, c)
<1> DEFINE d == SlotOf(s, dio.id)
<1>1. s \in Instance /\ Blocks(s) \in Nat
  <2>1. s \in Instance  BY DEF Whole, Sound
  <2> QED  BY <2>1, Fields DEF Slot
<1>2. t = IF dio.rank = Infinite THEN s
          ELSE IF ~ s.used THEN JoinInstance(s, dio)
          ELSE IF d = 0 THEN AddDag(s, dio)
          ELSE ProcessKnown(s, d, dio)
  BY DEF ProcessDio
<1>3. d = 0 \/ d \in UsedDags(s)  BY <1>1, SlotsFound
<1>4. CASE dio.rank = Infinite  BY <1>1, <1>2, <1>4
<1>5. CASE dio.rank # Infinite /\ ~ s.used
  <2>1. t = JoinInstance(s, dio)  BY <1>2, <1>5
  <2>2. /\ Whole(t) /\ Blocks(t) = Blocks(s) /\ Dated(t)
        /\ \A c : dio.from \in c => Reach(t, c)
    BY <1>5, <2>1, JoinInstanceWhole
  <2> QED  BY <1>1, <2>2
<1>6. CASE dio.rank # Infinite /\ s.used /\ d = 0
  <2>1. t = AddDag(s, dio)  BY <1>2, <1>6
  <2> QED  BY <1>6, <2>1, AddDagWhole
<1>7. CASE dio.rank # Infinite /\ s.used /\ d # 0
  <2>1. t = ProcessKnown(s, d, dio) /\ d \in UsedDags(s)  BY <1>2, <1>3, <1>7
  <2> HIDE DEF d
  <2>2. /\ Whole(t) /\ Blocks(t) = Blocks(s)
        /\ ~ GreaterThan(dio.version, s.dag[d].version) =>
             /\ Dated(s) => Dated(t)
             /\ \A c : Reach(s, c) /\ dio.from \in c => Reach(t, c)
    BY <1>7, <2>1, ProcessKnownWhole
  <2>3. NoneNewer /\ Dated(s) => ~ GreaterThan(dio.version, s.dag[d].version)
    <3>1. dio.version \in Version  BY DEF Dio
    <3> QED  BY <2>1, <3>1 DEF NoneNewer, Dated
  <2> QED  BY <1>1, <2>2, <2>3
<1> QED  BY <1>4, <1>5, <1>6, <1>7

(* rpl_recalculate_ranks, in one DODAG. *)
LEMMA RecalculateDagWhole ==
  ASSUME NEW s, Whole(s), s.used, NEW d \in Slot, NEW t, t = RecalculateDag(s, d)
  PROVE  /\ Whole(t) /\ Blocks(t) = Blocks(s) /\ t.used
         /\ Marked(s, d) = {} => t = s
         /\ Dated(s) => Dated(t)
         /\ \A c : Reach(s, c) => Reach(t, c)
<1>1. s \in Instance  BY DEF Whole, Sound
<1>2. CASE Marked(s, d) = {}  BY <1>2 DEF RecalculateDag
<1>3. CASE Marked(s, d) # {}
  <2> DEFINE n == FirstOf(s, d, Marked(s, d))
             w == [s EXCEPT !.parent[d][n].updated = FALSE]
             rec == [s.parent[d][n] EXCEPT !.updated = FALSE]
  <2>1. t = ParentEvent(w, d, n)  BY <1>3 DEF RecalculateDag
  <2>2. Marked(s, d) \subseteq Parents(s, d) /\ d \in UsedDags(s)  BY <1>3 DEF Marked, UsedDags
  <2>3. n \in Nbr /\ n \in Parents(s, d)
    <3>1. n \in Parents(s, d)  BY <1>1, <1>3, <2>2, FirstLast
    <3> QED  BY <1>1, <3>1, Fields
  <2> HIDE DEF n
  <2>4. s.parent \in [Slot -> [Nbr -> ParentRecord]] /\ s.parent[d] \in [Nbr -> ParentRecord]
        /\ s.parent[d][n] \in ParentRecord
    BY <1>1, <2>3, ParentType DEF Instance
  <2>5. rec \in ParentRecord /\ rec.rank = s.parent[d][n].rank  BY <2>4 DEF ParentRecord
  <2>6. w = Recorded(s, d, n, rec)  BY <1>1, <2>3, <2>4 DEF Recorded, Instance
  <2> HIDE DEF rec, w
  <2>7. /\ Whole(t) /\ Blocks(t) = Blocks(s) /\ t.used
        /\ Dated(s) => Dated(t)
        /\ \A c : Reach(s, c) /\ (n \in c \/ rec.rank = Infinite) => Reach(t, c)
    BY <2>1, <2>2, <2>3, <2>5, <2>6, JudgedWhole
  <2>8. \A c : Reach(s, c) => n \in c \/ rec.rank = Infinite
    BY <2>2, <2>3, <2>5 DEF Reach, Known
  <2> QED  BY <1>3, <2>7, <2>8
<1> QED  BY <1>2, <1>3

(* handle_periodic_timer. *)
LEMMA RecalculateRanksWhole ==
  ASSUME NEW s, Whole(s), NEW t, t = RecalculateRanks(s)
  PROVE  /\ Whole(t) /\ Blocks(t) = Blocks(s)
         /\ Marked(s, 1) = {} /\ Marked(s, 2) = {} => t = s
         /\ Dated(s) => Dated(t)
         /\ \A c : Reach(s, c) => Reach(t, c)
<1>1. CASE ~ s.used  BY <1>1 DEF RecalculateRanks
<1>2. CASE s.used
  <2> DEFINE u == RecalculateDag(s, 1)
  <2>1. t = RecalculateDag(u, 2)  BY <1>2 DEF RecalculateRanks
  <2>2. 1 \in Slot /\ 2 \in Slot  BY DEF Slot
  <2>3. /\ Whole(u) /\ Blocks(u) = Blocks(s) /\ u.used /\ (Marked(s, 1) = {} => u = s)
        /\ Dated(s) => Dated(u)
        /\ \A c : Reach(s, c) => Reach(u, c)
    BY <1>2, <2>2, RecalculateDagWhole
  <2> HIDE DEF u
  <2>4. /\ Whole(t) /\ Blocks(t) = Blocks(u) /\ (Marked(u, 2) = {} => t = u)
        /\ Dated(u) => Dated(t)
        /\ \A c : Reach(u, c) => Reach(t, c)
    BY <2>1, <2>2, <2>3, RecalculateDagWhole
  <2> QED  BY <2>3, <2>4
<1> QED  BY <1>1, <1>2

(* A parent that is lost is marked: the rank may stay until the next tick. *)
LEMMA PoisonWhole ==
  ASSUME NEW s, Whole(s), s.used, NEW d \in Slot, NEW n \in Nbr, NEW t, t = Poison(s, d, n)
  PROVE  /\ Whole(t) /\ Blocks(t) = Blocks(s)
         /\ Dated(s) => Dated(t)
         /\ \A c : Reach(s, c) => Reach(t, c)
         /\ \A c : Reach(s, c) /\ (\A e \in UsedDags(s) \ {d} : n \notin Parents(s, e))
                   => Reach(t, c \ {n})
<1> DEFINE rec == [s.parent[d][n] EXCEPT !.rank = Infinite, !.updated = TRUE]
<1>1. /\ s \in Instance /\ Sound(s) /\ Joined(s) /\ Ranked(s) /\ s.current \in Slot
  BY DEF Whole, Sound, Joined, UsedDags
<1>2. s.parent \in [Slot -> [Nbr -> ParentRecord]] /\ s.parent[d] \in [Nbr -> ParentRecord]
      /\ s.parent[d][n] \in ParentRecord
  BY <1>1, ParentType DEF Instance
<1>3. rec \in ParentRecord /\ rec.updated /\ rec.rank = Infinite
  <2>1. Infinite \in 0 .. Infinite  BY DEF Infinite
  <2> QED  BY <1>2, <2>1 DEF ParentRecord
<1>4. t = Recorded(s, d, n, rec)  BY <1>1, <1>2 DEF Poison, Recorded, Instance
<1> HIDE DEF rec
<1>5. /\ Step(s, t) /\ t.route = s.route /\ t.dag = s.dag /\ t.parent[d][n] = rec
      /\ \A e \in Slot, m \in Nbr : <<e, m>> # <<d, n>> => t.parent[e][m] = s.parent[e][m]
      /\ RouteOK(t)
      /\ \/ d = s.current /\ n = s.dag[d].preferred
         \/ Ranked(t)
  <2>1. /\ Step(s, t) /\ t.route = s.route /\ t.dag = s.dag /\ t.parent[d][n] = rec
        /\ \A e \in Slot, m \in Nbr : <<e, m>> # <<d, n>> => t.parent[e][m] = s.parent[e][m]
    BY <1>1, <1>3, <1>4, RecordStep
  <2>2. /\ RouteOK(t)
        /\ \/ d = s.current /\ n = s.dag[d].preferred
           \/ Ranked(t)
    <3>1. RouteOK(s)  BY <1>1 DEF Ranked
    <3> QED  BY <1>1, <1>3, <1>4, <3>1, RecordRanked
  <2> QED  BY <2>1, <2>2
<1>6. Move(s, t) /\ t.current = s.current  BY <1>1, <1>5, StepMoves
<1>7. Ranked(t)
  <2>1. CASE d = s.current /\ n = s.dag[d].preferred
    <3>1. n # NULL  BY NullAssumption
    <3> QED  BY <1>1, <1>3, <1>5, <1>6, <2>1, <3>1 DEF Ranked
  <2> QED  BY <1>5, <2>1
<1>8. Dated(s) => Dated(t)  BY <1>5 DEF Dated, UsedDags
<1>9. \A c : /\ Reach(s, c) => Reach(t, c)
             /\ Reach(s, c) /\ (\A e \in UsedDags(s) \ {d} : n \notin Parents(s, e))
                  => Reach(t, c \ {n})
  BY <1>1, <1>3, <1>5, PoisonReach
<1>10. Whole(t) /\ Blocks(t) = Blocks(s)  BY <1>6, <1>7, MoveWhole
<1> QED  BY <1>8, <1>9, <1>10

-----------------------------------------------------------------------------
(* The node as the root of its own DODAG that has heard of no other. *)
RootAlone(s) ==
  /\ s.used /\ s.current = 1 /\ UsedDags(s) = {1}
  /\ s.dag[1].id = MyDag /\ s.dag[1].rank = RootRank /\ s.dag[1].parents = <<>>

(* The root rpld starts as has all blocks in the pool. *)
LEMMA RootWhole ==
  /\ Whole(Root) /\ Blocks(Root) = Pool /\ RootAlone(Root)
  /\ Dated(Root) /\ \A c : Reach(Root, c)
<1> DEFINE b == NewInstance(NoInstance)
           c == NewDag(b, 1, MyDag)
           g == [c.dag[1] EXCEPT !.version = LollipopInit, !.joined = TRUE, !.rank = RootRank]
           D == [c.dag EXCEPT ![1] = g]
           r == [c EXCEPT !.current = 1,
                          !.dag[1] = [@ EXCEPT !.version = LollipopInit, !.joined = TRUE,
                                               !.rank = RootRank]]
<1>1. 1 \in Slot /\ Slot = {1, 2} /\ MyDag \in DagId  BY DagAssumption DEF Slot
<1>2. /\ Sound(b) /\ b.used /\ b.free = Pool /\ b.route = NULL /\ Blocks(b) = Pool
      /\ \A d \in Slot : ~ b.dag[d].used
  <2>1. b \in Instance /\ b.dag = NoInstance.dag /\ b.free = Pool /\ b.used /\ b.route = NULL
    BY EmptyInstance DEF NewInstance, Instance, NoInstance
  <2> HIDE DEF b
  <2> QED  BY <2>1, BareInstance
<1> HIDE DEF b
<1>3. /\ Sound(c) /\ c.used /\ c.route = NULL /\ Blocks(c) = Pool
      /\ c.dag[1].used /\ c.dag[1].id = MyDag /\ c.dag[1].parents = <<>>
      /\ c.dag[1].preferred = NULL /\ c.dag[1].min = Infinite
      /\ ~ c.dag[2].used
  <2>1. Sound(b) /\ 1 \in Slot /\ ~ b.dag[1].used /\ MyDag \in DagId  BY <1>1, <1>2
  <2>2. c = NewDag(b, 1, MyDag)  OBVIOUS
  <2> HIDE DEF c
  <2>3. c.used  BY <1>2, <2>1, <2>2, NewDagFields
  <2>4. /\ Sound(c) /\ c.route = b.route /\ Blocks(c) = Blocks(b)
        /\ c.dag[1].used /\ c.dag[1].id = MyDag /\ c.dag[1].parents = <<>>
        /\ c.dag[1].preferred = NULL /\ c.dag[1].min = Infinite
        /\ \A e \in Slot \ {1} : c.dag[e] = b.dag[e]
    BY <2>1, <2>2, NewDagFields
  <2> QED  BY <1>1, <1>2, <2>3, <2>4
<1>4. Root = r  BY DEF Root, b
<1> HIDE DEF c
<1>5. c \in Instance /\ c.dag \in [Slot -> DagRecord] /\ c.dag[1] \in DagRecord /\ ListsOK(c)
  BY <1>1, <1>3 DEF Sound, Instance
<1>6. r = [c EXCEPT !.current = 1, !.dag = D]  BY <1>1, <1>5 DEF Instance
<1> HIDE DEF r
<1>7. /\ g \in DagRecord /\ g.used /\ g.joined /\ g.id = MyDag /\ g.parents = <<>>
      /\ g.preferred = NULL /\ g.rank = RootRank /\ g.min = c.dag[1].min
      /\ g.version = LollipopInit
  <2>1. RootRank \in 0 .. Infinite /\ LollipopInit \in Counter
    BY DEF RootRank, Infinite, LollipopInit, Counter, LollipopMaxValue, SequenceWindows
  <2> QED  BY <1>3, <1>5, <2>1 DEF DagRecord
<1> HIDE DEF g
<1>8. D \in [Slot -> DagRecord] /\ D[1] = g /\ D[2] = c.dag[2]  BY <1>1, <1>5, <1>7
<1> HIDE DEF D
<1>9. /\ r \in Instance /\ r.used /\ r.current = 1 /\ r.route = NULL /\ r.free = c.free
      /\ r.dag[1] = g /\ r.dag[2] = c.dag[2] /\ r.parent = c.parent
  BY <1>1, <1>3, <1>5, <1>6, <1>8 DEF Instance
<1>10. UsedDags(r) = {1}  BY <1>1, <1>3, <1>7, <1>9 DEF UsedDags
<1>11. RootAlone(r)  BY <1>7, <1>9, <1>10 DEF RootAlone
<1>12. Blocks(r) = Pool  BY <1>3, <1>7, <1>9 DEF Blocks
<1>13. Sound(r)
  <2>1. \A d \in Slot : r.dag[d].parents = c.dag[d].parents /\ r.dag[d].preferred = c.dag[d].preferred
                          /\ (r.dag[d].used \/ r.dag[d].parents = <<>>)
    BY <1>1, <1>3, <1>5, <1>7, <1>9 DEF ListsOK
  <2> QED  BY <1>5, <1>9, <2>1 DEF Sound, ListsOK, Parents
<1>14. IdsOK(r)  BY <1>1, <1>7, <1>9, <1>10 DEF IdsOK
<1>15. Joined(r)  BY <1>7, <1>9, <1>10 DEF Joined
<1>16. Ranked(r)
  <2>1. RootRank <= Infinite + MaxRankInc  BY RankAssumption DEF RootRank, Infinite
  <2> QED  BY <1>3, <1>7, <1>9, <2>1 DEF Ranked, RouteOK
<1>17. Dated(r)  BY <1>7, <1>9, <1>10 DEF Dated
<1>18. ASSUME NEW x PROVE Reach(r, x)
  <2>1. Parents(r, 1) = {}  BY <1>7, <1>9 DEF Parents, ToSet
  <2> QED  BY <1>7, <1>9, <1>10, <2>1 DEF Reach, Apart, Known, Held
<1> QED  BY <1>4, <1>9, <1>11, <1>12, <1>13, <1>14, <1>15, <1>16, <1>17, <1>18 DEF Whole

(* The inductive invariant: besides what every handler leaves, there are   *)
(* no more blocks than parent_memb has, and a root that has heard of no    *)
(* other DODAG has no parents.                                             *)
IInv ==
  /\ Whole(rpl) /\ Blocks(rpl) <= Pool
  /\ cache \subseteq Nbr /\ alone \in BOOLEAN
  /\ alone => RootAlone(rpl)

(* It holds when rpld has started, *)
LEMMA InitInv == Init => IInv
<1> SUFFICES ASSUME Init PROVE IInv  OBVIOUS
<1>1. rpl = Root /\ cache = {} /\ alone = TRUE  BY DEF Init
<1>2. Pool \in Nat  BY DagAssumption DEF Pool
<1>3. Blocks(rpl) <= Pool  BY <1>1, <1>2, RootWhole
<1> QED  BY <1>1, <1>3, RootWhole DEF IInv

(* With room for every DODAG a DIO may be of, no instance is ever freed.   *)
LEMMA RoomForDags ==
  ASSUME NEW s, Whole(s), NEW Other, DagId = {MyDag, Other}, NEW id \in DagId
  PROVE  FreeSlots(s) # {} \/ SlotOf(s, id) # 0
<1> SUFFICES ASSUME FreeSlots(s) = {}, SlotOf(s, id) = 0 PROVE FALSE  OBVIOUS
<1>1. s \in Instance /\ IdsOK(s)  BY DEF Whole, Sound
<1>2. 1 \in UsedDags(s) /\ 2 \in UsedDags(s)  BY DEF FreeSlots, Slot
<1>3. \A d \in UsedDags(s) : s.dag[d].id # id  BY <1>1, SlotsFound
<1>4. /\ s.dag[1].id \in DagId /\ s.dag[2].id \in DagId
      /\ s.dag[1].id = s.dag[2].id => 1 = 2
  BY <1>1, <1>2 DEF IdsOK
<1> QED  BY <1>2, <1>3, <1>4

(* What one step does to the blocks of parent_memb. *)
LEMMA StepWhole ==
  ASSUME IInv, Next
  PROVE  /\ Whole(rpl') /\ Blocks(rpl') <= Blocks(rpl)
         /\ (\A id \in DagId : FreeSlots(rpl) # {} \/ SlotOf(rpl, id) # 0)
              => Blocks(rpl') = Blocks(rpl)
<1>1. Whole(rpl) /\ rpl \in Instance  BY DEF IInv, Whole, Sound
<1>2. Blocks(rpl) \in Nat  BY <1>1, Fields DEF Slot
<1>3. CASE DioInput
  <2>1. PICK dio \in Dio : rpl' = ProcessDio(rpl, dio)  BY <1>3 DEF DioInput
  <2>2. dio.id \in DagId  BY DioFields
  <2> QED  BY <1>1, <2>1, <2>2, ProcessDioWhole
<1>4. CASE NeighborRemoved
  <2>1. PICK n \in cache :
          rpl' = IF rpl.used /\ DagOf(rpl, n) # 0 THEN Poison(rpl, DagOf(rpl, n), n) ELSE rpl
    BY <1>4 DEF NeighborRemoved
  <2>2. CASE rpl.used /\ DagOf(rpl, n) # 0
    <3>1. rpl' = Poison(rpl, DagOf(rpl, n), n)  BY <2>1, <2>2
    <3>2. DagOf(rpl, n) \in Slot /\ n \in Nbr  BY <1>1, <2>2, SlotsFound DEF IInv
    <3>3. Whole(rpl') /\ Blocks(rpl') = Blocks(rpl)  BY <1>1, <2>2, <3>1, <3>2, PoisonWhole
    <3> QED  BY <1>2, <3>3
  <2>3. CASE ~ (rpl.used /\ DagOf(rpl, n) # 0)
    <3>1. rpl' = rpl  BY <2>1, <2>3
    <3> QED  BY <1>1, <1>2, <3>1
  <2> QED  BY <2>2, <2>3
<1>5. CASE DaoLoop
  <2>1. PICK n \in Nbr : rpl.used /\ rpl' = Poison(rpl, rpl.current, n)  BY <1>5 DEF DaoLoop
  <2>2. rpl.current \in Slot  BY <1>1, <2>1 DEF Whole, Joined, UsedDags
  <2>3. Whole(rpl') /\ Blocks(rpl') = Blocks(rpl)  BY <1>1, <2>1, <2>2, PoisonWhole
  <2> QED  BY <1>2, <2>3
<1>6. CASE PeriodicTimer
  <2>1. rpl' = RecalculateRanks(rpl)  BY <1>6 DEF PeriodicTimer
  <2>2. Whole(rpl') /\ Blocks(rpl') = Blocks(rpl)  BY <1>1, <2>1, RecalculateRanksWhole
  <2> QED  BY <1>2, <2>2
<1> QED  BY <1>3, <1>4, <1>5, <1>6 DEF Next

(* A DIO of its own DODAG may make the root count its version up; nothing  *)
(* else does anything to it.                                               *)
LEMMA RootAloneKept ==
  ASSUME NEW s, Whole(s), RootAlone(s), NEW dio \in Dio, dio.id = MyDag,
         NEW t, t = ProcessDio(s, dio)
  PROVE  RootAlone(t)
<1> DEFINE v == Increment(dio.version)
           w == [s EXCEPT !.dag[1].version = v]
<1>1. Sound(s) /\ s \in Instance /\ 1 \in Slot /\ Slot = {1, 2}  BY DEF Whole, Sound, Slot
<1>2. SlotOf(s, dio.id) = 1
  <2>1. 1 \in UsedDags(s) /\ s.dag[1].id = dio.id  BY DEF RootAlone
  <2>2. SlotOf(s, dio.id) \in UsedDags(s)  BY <1>1, <2>1, SlotsFound
  <2> QED  BY <2>2 DEF RootAlone
<1>3. t \in {s, ProcessKnown(s, 1, dio)}  BY <1>2 DEF ProcessDio, RootAlone
<1>4. ProcessKnown(s, 1, dio) \in {s, w}  BY DEF ProcessKnown, RootAlone
<1>5. RootAlone(w)
  <2>1. v \in Counter  BY DioFields, VersionType
  <2> HIDE DEF v
  <2>2. w = Versioned(s, 1, v)  BY <1>1 DEF Instance, Versioned
  <2> HIDE DEF w
  <2>3. /\ Step(s, w) /\ w.dag[1].parents = s.dag[1].parents /\ w.dag[1].rank = s.dag[1].rank
    BY <1>1, <2>1, <2>2, VersionStep
  <2>4. /\ w.used = s.used /\ w.current = s.current
        /\ \A d \in Slot : w.dag[d].used = s.dag[d].used /\ w.dag[d].id = s.dag[d].id
    BY <2>3 DEF Step, Frame
  <2>5. UsedDags(w) = UsedDags(s)  BY <2>4 DEF UsedDags
  <2> QED  BY <1>1, <2>3, <2>4, <2>5 DEF RootAlone
<1> QED  BY <1>3, <1>4, <1>5

(* every handler keeps it, *)
LEMMA NextInv == IInv /\ [Next]_vars => IInv'
<1> SUFFICES ASSUME IInv, [Next]_vars PROVE IInv'  OBVIOUS
<1>1. CASE UNCHANGED vars
  <2>1. rpl' = rpl /\ cache' = cache /\ alone' = alone  BY <1>1 DEF vars
  <2> QED  BY <2>1 DEF IInv
<1>2. CASE Next
  <2>1. Whole(rpl) /\ rpl \in Instance  BY DEF IInv, Whole, Sound
  <2>2. Whole(rpl') /\ Blocks(rpl') <= Pool
    <3>1. Whole(rpl') /\ Blocks(rpl') <= Blocks(rpl)  BY <1>2, StepWhole
    <3>2. Blocks(rpl) \in Nat /\ Pool \in Nat  BY <2>1, Fields, DagAssumption DEF Slot, Pool
    <3>3. Blocks(rpl') \in Nat
      <4>1. rpl' \in Instance  BY <3>1 DEF Whole, Sound
      <4> QED  BY <4>1, Fields DEF Slot
    <3> QED  BY <3>1, <3>2, <3>3 DEF IInv
  <2>3. cache' \subseteq Nbr
    <3>1. CASE DioInput
      <4>1. PICK dio \in Dio : cache' = cache \cup {dio.from}  BY <3>1 DEF DioInput
      <4>2. dio.from \in Nbr  BY DioFields
      <4> QED  BY <4>1, <4>2 DEF IInv
    <3>2. CASE NeighborRemoved  BY <3>2 DEF NeighborRemoved, IInv
    <3>3. CASE DaoLoop  BY <3>3 DEF DaoLoop, IInv
    <3>4. CASE PeriodicTimer  BY <3>4 DEF PeriodicTimer, IInv
    <3> QED  BY <1>2, <3>1, <3>2, <3>3, <3>4 DEF Next
  <2>4. alone' \in BOOLEAN
    BY <1>2 DEF Next, DioInput, NeighborRemoved, DaoLoop, PeriodicTimer, IInv
  <2>5. ASSUME alone' PROVE RootAlone(rpl')
    <3>1. alone
      BY <1>2, <2>5 DEF Next, DioInput, NeighborRemoved, DaoLoop, PeriodicTimer
    <3>2. RootAlone(rpl) /\ rpl.current = 1 /\ UsedDags(rpl) = {1} /\ 1 \in Slot /\ 2 \in Slot
      BY <3>1 DEF IInv, RootAlone, Slot
    <3>3. Parents(rpl, 1) = {} /\ Marked(rpl, 1) = {} /\ Marked(rpl, 2) = {}
      <4>1. Parents(rpl, 1) = {}  BY <3>2 DEF RootAlone, Parents, ToSet
      <4>2. ~ rpl.dag[2].used  BY <3>2 DEF UsedDags
      <4> QED  BY <4>1, <4>2 DEF Marked
    <3>4. CASE DioInput
      <4>1. PICK dio \in Dio : rpl' = ProcessDio(rpl, dio) /\ dio.id = MyDag
        BY <3>4, <2>5 DEF DioInput
      <4> QED  BY <2>1, <3>2, <4>1, RootAloneKept
    <3>5. CASE NeighborRemoved
      <4>1. \A n : DagOf(rpl, n) = 0
        <5>1. \A n : DagsOf(rpl, n) = {}  BY <3>2, <3>3 DEF DagsOf
        <5> QED  BY <5>1 DEF DagOf
      <4>2. rpl' = rpl  BY <3>5, <4>1 DEF NeighborRemoved
      <4> QED  BY <3>2, <4>2
    <3>6. CASE DaoLoop  BY <3>2, <3>3, <3>6 DEF DaoLoop
    <3>7. CASE PeriodicTimer
      <4>1. rpl' = RecalculateRanks(rpl)  BY <3>7 DEF PeriodicTimer
      <4>2. rpl' = rpl  BY <2>1, <3>3, <4>1, RecalculateRanksWhole
      <4> QED  BY <3>2, <4>2
    <3> QED  BY <1>2, <3>4, <3>5, <3>6, <3>7 DEF Next
  <2> QED  BY <2>2, <2>3, <2>4, <2>5 DEF IInv
<1> QED  BY <1>1, <1>2

(* and so it always holds. *)
LEMMA Inductive == Spec => []IInv
<1> QED  BY InitInv, NextInv, PTL DEF Spec

(* Every variable has its type: however DODAGs come, are repaired and go,  *)
(* no handler leaves a list, a rank or a count of blocks out of range.     *)
THEOREM TypeCorrect == Spec => []TypeOK
<1>1. IInv => TypeOK
  <2> SUFFICES ASSUME IInv PROVE TypeOK  OBVIOUS
  <2>1. rpl \in Instance /\ Blocks(rpl) <= Pool /\ Pool \in Nat
    BY DagAssumption DEF IInv, Whole, Sound, Pool
  <2>2. rpl.free \in 0 .. Pool
    <3>1. rpl.free \in Nat /\ Len(rpl.dag[1].parents) \in Nat /\ Len(rpl.dag[2].parents) \in Nat
      BY <2>1, Fields DEF Instance, Slot
    <3>2. \A k, l, m, p \in Nat : k + l + m <= p => k \in 0 .. p  OBVIOUS
    <3> QED  BY <2>1, <3>1, <3>2, Zenon DEF Blocks
  <2>3. rpl \in [used : BOOLEAN, current : Slot \cup {0}, route : Nbr \cup {NULL},
                 free : 0 .. Pool, dag : [Slot -> DagRecord],
                 parent : [Slot -> [Nbr -> ParentRecord]]]
    BY <2>1, <2>2 DEF Instance
  <2> QED  BY <2>3 DEF IInv, TypeOK
<1> QED  BY <1>1, Inductive, PTL

(* The node is in exactly one DODAG of its instance, whatever moves it     *)
(* (rpl_select_dag, rpl_add_dag, rpl_free_dag).                            *)
THEOREM OneDagAlways == Spec => []OneDag
<1>1. IInv => OneDag  BY DEF IInv, Whole, Joined, OneDag
<1> QED  BY <1>1, Inductive, PTL

(* The rank lies above that of the preferred parent, unless the parent is  *)
(* marked for the periodic timer, through DIOs, losses, loops and repairs  *)
(* (calculate_rank, rpl_select_dag).                                       *)
THEOREM RankAlways == Spec => []RankAboveParent
<1>1. IInv => RankAboveParent
  BY DEF IInv, Whole, Ranked, RouteOK, RankAboveParent, Current, PreferredParent
<1> QED  BY <1>1, Inductive, PTL

(* No node other than a root has a finite rank without a preferred parent  *)
(* (rpl_nullify_parent).                                                   *)
THEOREM ParentAlways == Spec => []RankNeedsParent
<1>1. IInv => RankNeedsParent
  BY DEF IInv, Whole, Ranked, RouteOK, RankNeedsParent, Current, PreferredParent
<1> QED  BY <1>1, Inductive, PTL

(* A node that has a default route and a preferred parent routes to that   *)
(* parent (rpl_set_default_route in rpl_select_dag).                       *)
THEOREM RouteAlways == Spec => []RouteToParent
<1>1. IInv => RouteToParent
  BY DEF IInv, Whole, Ranked, RouteOK, RouteToParent, Current, PreferredParent
<1> QED  BY <1>1, Inductive, PTL

(* Where max_rankinc sets a limit, no node sinks below it in one version   *)
(* of a DODAG (acceptable_rank).                                           *)
THEOREM RankBoundedAlways ==
  ASSUME MaxRankInc # 0
  PROVE  Spec => []RankBounded
<1>1. IInv => RankBounded  BY DEF IInv, Whole, Ranked, RankBounded, Current
<1> QED  BY <1>1, Inductive, PTL

(* A root that hears DIOs of its own DODAG only stays the root, whatever   *)
(* ranks and versions they announce (rpl_process_dio).                     *)
THEOREM RootAloneAlways == Spec => []RootAloneStays
<1>1. IInv => RootAloneStays  BY DEF IInv, RootAlone, RootAloneStays, Current
<1> QED  BY <1>1, Inductive, PTL

(* With two DODAGs every block of parent_memb is free or in a list, and    *)
(* preferred parents are in their lists (rpl_remove_parent,                *)
(* rpl_move_parent, remove_worst_parent).                                  *)
THEOREM ParentsAccounted ==
  ASSUME NEW Other, DagId = {MyDag, Other}
  PROVE  Spec => []ParentsOK
<1> DEFINE Inv == IInv /\ Blocks(rpl) = Pool
<1>1. Init => Inv
  <2> SUFFICES ASSUME Init PROVE Inv  OBVIOUS
  <2> QED  BY InitInv, RootWhole DEF Init
<1>2. Inv /\ [Next]_vars => Inv'
  <2> SUFFICES ASSUME Inv, [Next]_vars PROVE Inv'  OBVIOUS
  <2>1. IInv'  BY NextInv
  <2>2. CASE UNCHANGED vars  BY <2>1, <2>2 DEF vars
  <2>3. CASE Next
    <3>1. \A id \in DagId : FreeSlots(rpl) # {} \/ SlotOf(rpl, id) # 0  BY RoomForDags DEF IInv
    <3> QED  BY <2>1, <2>3, <3>1, StepWhole
  <2> QED  BY <2>2, <2>3
<1>3. Inv => ParentsOK
  <2> SUFFICES ASSUME Inv PROVE ParentsOK  OBVIOUS
  <2>1. rpl \in Instance /\ ListsOK(rpl)  BY DEF IInv, Whole, Sound
  <2>2. ASSUME NEW d \in UsedDags(rpl)
        PROVE  /\ IsInjective(rpl.dag[d].parents)
               /\ rpl.dag[d].preferred \in Parents(rpl, d) \cup {NULL}
    BY <2>1 DEF ListsOK, UsedDags
  <2>3. Pool = rpl.free + (IF rpl.used THEN Len(rpl.dag[1].parents) + Len(rpl.dag[2].parents) ELSE 0)
    <3>1. rpl.free \in Nat /\ Len(rpl.dag[1].parents) \in Nat /\ Len(rpl.dag[2].parents) \in Nat
      BY <2>1, Fields DEF Instance, Slot
    <3>2. \A k, l, m \in Nat : k + l + m = k + (l + m)  OBVIOUS
    <3>3. CASE rpl.used  BY <3>1, <3>2, <3>3, Zenon DEF Blocks
    <3>4. CASE ~ rpl.used
      <4>1. rpl = Gone(rpl)  BY <3>4 DEF IInv, Whole
      <4>2. Blocks(rpl) = rpl.free  BY <3>1, <4>1, GoneWhole
      <4> QED  BY <3>1, <3>4, <4>2
    <3> QED  BY <3>3, <3>4
  <2> QED  BY <2>2, <2>3 DEF ParentsOK
<1> QED  BY <1>1, <1>2, <1>3, PTL DEF Spec

(* A neighbour that is in no list leaves nothing behind. *)
LEMMA UnknownReach ==
  ASSUME NEW s, Sound(s), NEW c, Reach(s, c), NEW n \in Nbr,
         \A d \in UsedDags(s) : n \notin Parents(s, d)
  PROVE  Reach(s, c \ {n})
<1>1. ASSUME NEW d \in UsedDags(s) PROVE Known(s, c \ {n}, d) /\ Held(s, c \ {n}, d)
  <2>1. Known(s, c, d) /\ Held(s, c, d) /\ d \in Slot  BY DEF Reach, UsedDags
  <2>2. s.dag[d].preferred # n
    <3>1. s.dag[d].preferred \in Parents(s, d) \cup {NULL}  BY <2>1 DEF Sound, ListsOK
    <3>2. n # NULL  BY NullAssumption
    <3> QED  BY <3>1, <3>2
  <2> QED  BY <2>1, <2>2 DEF Known, Held
<1> QED  BY <1>1 DEF Reach

(* More neighbours in the cache are no fewer to reach. *)
LEMMA MoreReach ==
  ASSUME NEW s, NEW c, Reach(s, c), NEW n
  PROVE  Reach(s, c \cup {n})
  BY DEF Reach, Known, Held

(* As long as no DODAG gets a new version, a preferred parent that has     *)
(* left the neighbour cache is marked, so that the next tick gives it up:  *)
(* rpl_move_parent keeps every neighbour in one list, where                *)
(* rpl_ipv6_neighbor_callback finds it.                                    *)
THEOREM ParentReachableAlways ==
  ASSUME NoneNewer
  PROVE  Spec => []ParentReachable
<1> DEFINE Inv == IInv /\ Dated(rpl) /\ Reach(rpl, cache)
<1>1. Init => Inv
  <2> SUFFICES ASSUME Init PROVE Inv  OBVIOUS
  <2> QED  BY InitInv, RootWhole DEF Init
<1>2. Inv /\ [Next]_vars => Inv'
  <2> SUFFICES ASSUME Inv, [Next]_vars PROVE Inv'  OBVIOUS
  <2>1. IInv' /\ Whole(rpl) /\ rpl \in Instance  BY NextInv DEF IInv, Whole, Sound
  <2>2. CASE UNCHANGED vars
    <3>1. rpl' = rpl /\ cache' = cache  BY <2>2 DEF vars
    <3> QED  BY <2>1, <3>1
  <2>3. CASE DioInput
    <3>1. PICK dio \in Dio : rpl' = ProcessDio(rpl, dio) /\ cache' = cache \cup {dio.from}
      BY <2>3 DEF DioInput
    <3>2. Reach(rpl, cache') /\ dio.from \in cache'  BY <3>1, MoreReach
    <3>3. Dated(rpl') /\ Reach(rpl', cache')  BY <2>1, <3>1, <3>2, ProcessDioWhole
    <3> QED  BY <2>1, <3>3
  <2>4. CASE NeighborRemoved
    <3>1. PICK n \in cache :
            /\ cache' = cache \ {n}
            /\ rpl' = IF rpl.used /\ DagOf(rpl, n) # 0 THEN Poison(rpl, DagOf(rpl, n), n) ELSE rpl
      BY <2>4 DEF NeighborRemoved
    <3> DEFINE d == DagOf(rpl, n)
    <3>2. n \in Nbr  BY DEF IInv
    <3>3. CASE rpl.used /\ d # 0
      <4>1. d \in UsedDags(rpl) /\ d \in Slot /\ n \in Parents(rpl, d)
        BY <2>1, <3>3, SlotsFound
      <4>2. rpl' = Poison(rpl, d, n)  BY <3>1, <3>3
      <4> HIDE DEF d
      <4>3. \A e \in UsedDags(rpl) \ {d} : n \notin Parents(rpl, e)
        BY <4>1, ApartList DEF Reach
      <4>4. Dated(rpl') /\ Reach(rpl', cache \ {n})
        BY <2>1, <3>2, <3>3, <4>1, <4>2, <4>3, PoisonWhole
      <4> QED  BY <2>1, <3>1, <4>4
    <3>4. CASE d = 0
      <4>1. rpl' = rpl  BY <3>1, <3>4
      <4>2. \A e \in UsedDags(rpl) : n \notin Parents(rpl, e)  BY <2>1, <3>4, SlotsFound
      <4>3. Reach(rpl, cache \ {n})  BY <2>1, <3>2, <4>2, UnknownReach DEF Whole
      <4> QED  BY <2>1, <3>1, <4>1, <4>3
    <3>5. CASE ~ rpl.used
      <4>1. rpl' = rpl /\ rpl = Gone(rpl) /\ rpl.free \in Nat
        BY <2>1, <3>1, <3>5 DEF Whole, Instance
      <4>2. UsedDags(rpl) = {}  BY <4>1, GoneWhole
      <4>3. Reach(rpl, cache')  BY <4>2, NoneReach
      <4> QED  BY <2>1, <4>1, <4>3
    <3> QED  BY <3>3, <3>4, <3>5
  <2>5. CASE DaoLoop
    <3>1. PICK n \in Nbr : rpl.used /\ rpl' = Poison(rpl, rpl.current, n) /\ cache' = cache
      BY <2>5 DEF DaoLoop
    <3>2. rpl.current \in Slot  BY <2>1, <3>1 DEF Whole, Joined, UsedDags
    <3>3. Dated(rpl') /\ Reach(rpl', cache)  BY <2>1, <3>1, <3>2, PoisonWhole
    <3> QED  BY <2>1, <3>1, <3>3
  <2>6. CASE PeriodicTimer
    <3>1. rpl' = RecalculateRanks(rpl) /\ cache' = cache  BY <2>6 DEF PeriodicTimer
    <3>2. Dated(rpl') /\ Reach(rpl', cache)  BY <2>1, <3>1, RecalculateRanksWhole
    <3> QED  BY <2>1, <3>1, <3>2
  <2> QED  BY <2>2, <2>3, <2>4, <2>5, <2>6 DEF Next
<1>3. Inv => ParentReachable
  <2> SUFFICES ASSUME Inv, rpl.used PROVE ParentReachable  BY DEF ParentReachable
  <2>1. rpl.current \in UsedDags(rpl)  BY DEF IInv, Whole, Joined
  <2>2. Held(rpl, cache, rpl.current)  BY <2>1 DEF Reach
  <2> QED  BY <2>2 DEF Held, ParentReachable, Current, PreferredParent
<1> QED  BY <1>1, <1>2, <1>3, PTL DEF Spec
=============================================================================
