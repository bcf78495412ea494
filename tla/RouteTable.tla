----------------------------- MODULE RouteTable -----------------------------
(***************************************************************************)
(* The radix tree of table.c: the binary tree in which rpld keeps one node *)
(* per route and one per branching point, keyed by prefix.                 *)
(*                                                                         *)
(* A prefix is the sequence of its bits.  The prefixes of the nodes that   *)
(* can be reached from the top are distinct, so a node is known by its     *)
(* prefix and a pointer is a prefix or NULL.  A table is a record: the     *)
(* top, the set of nodes in use, the nodes, and whether an assertion       *)
(* failed.  free() overwrites only the first bytes of a node, never its    *)
(* links: a freed node keeps its record until Scrub, so that code that     *)
(* follows the links of a node it has just freed finds what the program    *)
(* finds.  A node that nothing links to any more is lost: the model drops  *)
(* it from the set in use.                                                 *)
(***************************************************************************)
EXTENDS Naturals, Sequences, FiniteSets

CONSTANTS
  Prefix,    \* the prefixes routes are kept for
  Hop,       \* the next hops
  NULL

ASSUME PrefixAssumption == \A p \in Prefix : p \in Seq({0, 1})

(* The prefixes of branching points are among those shared by two routes. *)
Key == UNION {{SubSeq(p, 1, n) : n \in 0 .. Len(p)} : p \in Prefix}
ASSUME NullAssumption == NULL \notin Hop \cup Key

Pointer == Key \cup {NULL}
Status == {"NONE", "CREATED", "UPDATED", "MODIFIED", "KERNEL"}

Node == [parent : Pointer, link : [{0, 1} -> Pointer], lock : Nat,
         info : Hop \cup {NULL}, status : Status]

Blank == [parent |-> NULL, link |-> [b \in {0, 1} |-> NULL], lock |-> 0,
          info |-> NULL, status |-> "NONE"]

Table == [top : Pointer, used : SUBSET Key, node : [Key -> Node], failed : BOOLEAN]

EmptyTable ==
  [top |-> NULL, used |-> {}, node |-> [k \in Key |-> Blank], failed |-> FALSE]

-----------------------------------------------------------------------------
(* prefix_match: p is q or lies below it. *)
Covers(q, p) == Len(q) <= Len(p) /\ SubSeq(p, 1, Len(q)) = q

(* check_bit: the bit of p that follows its first n. *)
Bit(p, n) == p[n + 1]

(* route_common: what q and p share. *)
Common(q, p) ==
  CHOOSE k \in Key : /\ Covers(k, q) /\ Covers(k, p)
                     /\ \A l \in Key : Covers(l, q) /\ Covers(l, p) => Len(l) <= Len(k)

(* route_next: down if n has a child, else to the first right-hand subtree *)
(* above that n does not lie in.                                           *)
Child(n) == IF n.link[0] # NULL THEN n.link[0] ELSE n.link[1]

Climb_FromEitherSide(t, n) ==
  LET climb[k \in Key] ==
        LET parent == t.node[k].parent
        IN  IF parent = NULL THEN NULL
            ELSE IF t.node[parent].link[1] # NULL THEN t.node[parent].link[1]
            ELSE climb[parent]
  IN  climb[n]

Climb(t, n) ==
  LET climb[k \in Key] ==
        LET parent == t.node[k].parent
        IN  IF parent = NULL THEN NULL
            ELSE IF t.node[parent].link[0] = k /\ t.node[parent].link[1] # NULL
            THEN t.node[parent].link[1]
            ELSE climb[parent]
  IN  climb[n]

NextNode(t, n) ==
  IF Child(t.node[n]) # NULL THEN Child(t.node[n]) ELSE Climb(t, n)

(* Where a loop from route_top with route_next stands, visit by visit. *)
Walk(t) ==
  LET at[i \in Nat] ==
        IF i = 0 THEN t.top
        ELSE IF at[i - 1] = NULL THEN NULL ELSE NextNode(t, at[i - 1])
  IN  at

(* The nodes it comes to: a walk that is longer has come to one twice. *)
Walked(t) == {Walk(t)[i] : i \in 0 .. Cardinality(t.used)} \ {NULL}

-----------------------------------------------------------------------------
(* The walk from the top towards p: the node where it stops, NULL if it    *)
(* runs off the tree, and the last node it passed.                         *)
Above(p) == {k \in Key : Covers(k, p)} \ {p}
Stops(q, p) == q \in {NULL, p} \/ ~ Covers(q, p)

Descend(t, p) ==
  LET Step(q) == t.node[q].link[Bit(p, Len(q))]
      walk[q \in Above(p)] ==
        IF Stops(Step(q), p) THEN [match |-> q, node |-> Step(q)] ELSE walk[Step(q)]
  IN  IF Stops(t.top, p) THEN [match |-> NULL, node |-> t.top] ELSE walk[t.top]

(* route_node_lookup: does p have a node with a next hop? *)
Has(t, p) == Descend(t, p).node = p /\ t.node[p].info # NULL

(* A new node in the table, and set_link. *)
Fresh(t, p) == [t EXCEPT !.used = @ \cup {p}, !.node[p] = Blank]
SetLink(t, q, p) == [t EXCEPT !.node[q].link[Bit(p, Len(q))] = p, !.node[p].parent = q]

(* What is not below the top is lost, though it may still point into the tree. *)
FromTop(t) == [t EXCEPT !.used = {k \in @ : Covers(t.top, k)}]

(* Hang p, a new node, under q; at the top of an empty tree. *)
Hang(t, q, p) ==
  IF q = NULL THEN [Fresh(t, p) EXCEPT !.top = p]
  ELSE SetLink(Fresh(t, p), q, p)

(* A new branching point above the node q where the walk to p stopped: it  *)
(* becomes the top of the table, wherever q was.                           *)
Split_DropsOld(t, q, p) ==
  LET c == Common(q, p)
      u == [Fresh(t, c) EXCEPT !.top = c, !.used = {c}]
  IN  IF c = p THEN u ELSE Hang(u, c, p)

Split(t, q, p) ==
  LET c == Common(q, p)
      u == FromTop([SetLink(Fresh(t, c), c, q) EXCEPT !.top = c])
  IN  IF c = p THEN u ELSE Hang(u, c, p)

(* route_node_get: the table in which p has a node. *)
GetNode(t, p) ==
  LET w == Descend(t, p)
  IN  IF w.node = p THEN t
      ELSE IF w.node = NULL THEN Hang(t, w.match, p)
      ELSE Split(t, w.node, p)

-----------------------------------------------------------------------------
(* route_node_delete: take n out, put its only child in its place, and go  *)
(* on with its parent if that is unlocked.                                 *)
(* The table without n, whose place its child c takes. *)
Bypass(t, n, c) ==
  LET parent == t.node[n].parent
      side == IF t.node[parent].link[0] = n THEN 0 ELSE 1
      up == IF c = NULL THEN t ELSE [t EXCEPT !.node[c].parent = parent]
      down == IF parent = NULL THEN [up EXCEPT !.top = c]
              ELSE [up EXCEPT !.node[parent].link[side] = c]
  IN  [down EXCEPT !.used = @ \ {n}]

DeleteOne(t, n) ==
  LET m == t.node[n]
  IN  IF m.lock # 0 \/ m.info # NULL THEN [t EXCEPT !.failed = TRUE]
      ELSE IF m.link[0] # NULL /\ m.link[1] # NULL THEN t
      ELSE Bypass(t, n, Child(m))

Delete_KeepsParent(t, n) == DeleteOne(t, n)

Delete_AlwaysParent(t, n) ==
  LET delete[x \in Table \X Key] ==
        LET u == DeleteOne(x[1], x[2])
            parent == x[1].node[x[2]].parent
        IN  IF x[2] \in u.used \/ parent = NULL THEN u ELSE delete[<<u, parent>>]
  IN  delete[<<t, n>>]

Delete(t, n) ==
  LET delete[x \in Table \X Key] ==
        LET u == DeleteOne(x[1], x[2])
            parent == x[1].node[x[2]].parent
        IN  IF x[2] \in u.used \/ parent = NULL \/ u.node[parent].lock # 0 THEN u
            ELSE delete[<<u, parent>>]
  IN  delete[<<t, n>>]

(* A freed node's memory is used for something else. *)
Scrub(t) == [t EXCEPT !.node = [k \in Key |-> IF k \in t.used THEN t.node[k] ELSE Blank]]

-----------------------------------------------------------------------------
(* route_table_unlock: one lock less on every node that has one. *)
Unlock(n) == [n EXCEPT !.lock = @ - 1]

UnlockAll_Never(t) == t

UnlockAll_AtZero(t) ==
  [t EXCEPT !.node = [k \in Key |->
     IF k \in Walked(t) THEN Unlock(t.node[k]) ELSE t.node[k]]]

UnlockAll(t) ==
  [t EXCEPT !.node = [k \in Key |->
     IF k \in Walked(t) /\ t.node[k].lock > 0 THEN Unlock(t.node[k]) ELSE t.node[k]]]

-----------------------------------------------------------------------------
(* k is the child of q on the side its prefix says. *)
Hangs(t, q, k) ==
  /\ q \in t.used /\ Len(q) < Len(k) /\ Covers(q, k)
  /\ t.node[q].link[Bit(k, Len(q))] = k

(* The links agree with the prefixes in both directions, and every node in *)
(* use hangs under the top.                                                *)
Linked(t) ==
  /\ t.top = NULL <=> t.used = {}
  /\ t.top # NULL => t.top \in t.used /\ t.node[t.top].parent = NULL
  /\ \A k \in t.used \ {t.top} : Hangs(t, t.node[k].parent, k)
  /\ \A k \in t.used, b \in {0, 1} :
       LET c == t.node[k].link[b]
       IN  c # NULL => c \in t.used /\ t.node[c].parent = k /\ Bit(c, Len(k)) = b

(* A node with no route has two children. *)
NotStub(n) == n.info = NULL => n.link[0] # NULL /\ n.link[1] # NULL

WellFormed(t) == Linked(t) /\ \A k \in t.used : NotStub(t.node[k])
=============================================================================
