-------------------------- MODULE DaoRoutesProofs ---------------------------
(***************************************************************************)
(* Proofs about the routes DAOs make (DaoRoutes), for every set of         *)
(* targets and neighbours, every size of the table and all lifetimes, and  *)
(* about the trigger numbers that ask for DAOs (Dtsn).                     *)
(*                                                                         *)
(* The invariant of the routes adds to the types that no prefix has two;   *)
(* it rests on what the lookup and the search for a slot return            *)
(* (LookupCorrect, SlotForCorrect).  That of the numbers says that out     *)
(* stays gap increments ahead of seen as long as gap counts them all, and  *)
(* lollipop_greater_than sees every lead of fewer than SequenceWindows     *)
(* (LeadIsGreater).                                                        *)
(***************************************************************************)
EXTENDS DaoRoutes, Dtsn, DataLemmas

-----------------------------------------------------------------------------
(* A table as it is to be: its routes lie in the slots that are searched,  *)
(* and (Unique) no prefix has two of them.                                 *)
TableOK(t) == t \in [Slot -> Route \cup {NULL}] /\ Used(t) \subseteq Searched

Unique(t) == \A i, j \in Used(t) : t[i].prefix = t[j].prefix => i = j

IInv == TypeOK /\ Unique(table)

(* The slots uip_ds6_list_loop searches are slots of the table.            *)
LEMMA SearchedSlots == Searched \subseteq Slot
<1>1. RouteNB \in Nat /\ SizeRange \in Nat /\ SizeRange > 0  BY SlotAssumption
<1>2. RouteNB % SizeRange \in Nat /\ RouteNB % SizeRange <= RouteNB  BY <1>1
<1> QED  BY <1>1, <1>2 DEF Searched, Slot

(* Whole octets are not more bits than there are.                          *)
LEMMA WholePart ==
  ASSUME NEW n \in Nat, NEW k \in Nat, k > 0
  PROVE  n \div k \in Int /\ (n \div k) * k <= n
  BY Z3

(* A prefix matches its own address, and is related to itself.             *)
LEMMA OwnAddress ==
  ASSUME NEW p \in Prefix
  PROVE  Matches(p, Address(p)) /\ <<p, p>> \in Related
<1>1. Len(p) <= AddrLen /\ Len(p) \in Nat  BY PrefixAssumption
<1>2. AddrLen \in Nat /\ Octet \in Nat /\ Octet > 0  BY AddressAssumption
<1>3. Compared(p) \subseteq 1 .. Len(p)
  <2> DEFINE q == Len(p) \div Octet
  <2>1. q \in Int /\ q * Octet <= Len(p)  BY <1>1, <1>2, WholePart
  <2> HIDE DEF q
  <2>2. q * Octet \in Int  BY <1>2, <2>1
  <2>3. Compared(p) = 1 .. q * Octet  BY DEF Compared, q
  <2> QED  BY <1>1, <2>1, <2>2, <2>3
<1>4. Matches(p, Address(p))  BY <1>1, <1>2, <1>3 DEF Matches, Address
<1> QED  BY <1>4 DEF Related

(* uip_ds6_route_lookup returns a route whose prefix the address has, and  *)
(* NULL only if there is none.                                             *)
LEMMA LookupCorrect ==
  ASSUME NEW t, TableOK(t), NEW addr
  PROVE  \/ /\ Lookup(t, addr) = 0
            /\ \A j \in Used(t) : ~ Matches(t[j].prefix, addr)
         \/ /\ Lookup(t, addr) \in Used(t) /\ Lookup(t, addr) # 0
            /\ Matches(t[Lookup(t, addr)].prefix, addr)
<1> DEFINE hits == {i \in Used(t) : Matches(t[i].prefix, addr)}
           longest == {i \in hits : \A j \in hits : Len(t[j].prefix) <= Len(t[i].prefix)}
<1>1. CASE hits = {}
  BY <1>1 DEF Lookup
<1>2. CASE hits # {}
  <2>1. \A i \in hits : Len(t[i].prefix) \in Nat /\ Len(t[i].prefix) <= AddrLen
    <3> SUFFICES ASSUME NEW i \in hits
                 PROVE  Len(t[i].prefix) \in Nat /\ Len(t[i].prefix) <= AddrLen
      OBVIOUS
    <3>1. t[i].prefix \in Prefix  BY DEF TableOK, Used, Route
    <3> QED  BY <3>1, PrefixAssumption
  <2> DEFINE short == {n \in Nat : \E i \in hits : n = AddrLen - Len(t[i].prefix)}
  <2>2. short # {}
    <3>1. PICK i : i \in hits  BY <1>2
    <3>2. AddrLen - Len(t[i].prefix) \in Nat  BY <3>1, <2>1, AddressAssumption
    <3> HIDE DEF hits
    <3> QED  BY <3>1, <3>2
  <2>3. PICK n \in short : \A m \in short : n <= m
    <3> HIDE DEF short
    <3>1. short \subseteq Nat  BY DEF short
    <3> QED  BY <3>1, <2>2, LeastNatural
  <2> HIDE DEF hits
  <2>4. PICK i \in hits : n = AddrLen - Len(t[i].prefix)  OBVIOUS
  <2>5. ASSUME NEW j \in hits PROVE Len(t[j].prefix) <= Len(t[i].prefix)
    <3>1. /\ Len(t[j].prefix) \in Nat /\ Len(t[j].prefix) <= AddrLen
          /\ Len(t[i].prefix) \in Nat /\ Len(t[i].prefix) <= AddrLen
          /\ AddrLen \in Nat
      BY <2>1, AddressAssumption
    <3>2. AddrLen - Len(t[j].prefix) \in short  BY <3>1
    <3>3. n <= AddrLen - Len(t[j].prefix)  BY <3>2, <2>3
    <3> HIDE DEF short
    <3> QED  BY <3>1, <3>3, <2>4
  <2>6. i \in longest  BY <2>5
  <2>7. longest \subseteq 1 .. RouteNB  BY DEF hits, Used, Slot
  <2>8. Max(longest) \in longest
    <3> HIDE DEF longest
    <3> QED  BY <2>6, <2>7, Extremes, SlotAssumption
  <2>9. Lookup(t, addr) = Max(longest)  BY <1>2 DEF Lookup, hits
  <2> QED  BY <2>8, <2>9 DEF hits, Used, Slot
<1> QED  BY <1>1, <1>2

(* uip_ds6_list_loop returns a free slot, or one in use whose prefix       *)
(* agrees with the one looked for.                                         *)
LEMMA SlotForCorrect ==
  ASSUME NEW t, TableOK(t), NEW p, SlotFor(t, p) # 0
  PROVE  /\ SlotFor(t, p) \in Searched
         /\ SlotFor(t, p) \in Used(t) => SlotFor(t, p) \in Agree(t, p)
<1> DEFINE N == RouteNB % SizeRange
<1>1. N \in Nat  BY SlotAssumption
<1>2. Searched = 1 .. N  BY DEF Searched
<1> HIDE DEF N
<1>3. CASE Agree(t, p) # {}
  <2>1. Agree(t, p) \subseteq 1 .. N  BY <1>2 DEF Agree
  <2>2. Min(Agree(t, p)) \in Agree(t, p)  BY <1>1, <1>3, <2>1, Extremes
  <2> QED  BY <1>3, <2>2 DEF SlotFor, Agree
<1>4. CASE Agree(t, p) = {}
  <2>1. ~ Searched \subseteq Used(t)  BY <1>4 DEF SlotFor
  <2>2. Searched \ Used(t) \subseteq 1 .. N /\ Searched \ Used(t) # {}  BY <1>2, <2>1
  <2>3. Max(Searched \ Used(t)) \in Searched \ Used(t)  BY <1>1, <2>2, Extremes
  <2> QED  BY <1>4, <2>1, <2>3 DEF SlotFor
<1> QED  BY <1>3, <1>4

(* Taking routes away, or changing their lifetimes, adds no next hop.      *)
LEMMA Shrinking ==
  ASSUME NEW t, TableOK(t), NEW u, u \in [Slot -> Route \cup {NULL}],
         \A i \in Slot : u[i] # NULL =>
             t[i] # NULL /\ u[i].prefix = t[i].prefix /\ u[i].hop = t[i].hop
  PROVE  /\ TableOK(u)
         /\ Unique(t) => Unique(u)
         /\ \A p : HopTo(u, p) \subseteq HopTo(t, p)
<1>1. Used(u) \subseteq Used(t)  BY DEF Used
<1>2. \A i \in Used(u) : u[i].prefix = t[i].prefix /\ u[i].hop = t[i].hop  BY DEF Used
<1> QED  BY <1>1, <1>2 DEF TableOK, Unique, HopTo

(* The lookup depends on which prefixes lie in which slots only.           *)
LEMMA SamePrefixes ==
  ASSUME NEW t, NEW u, NEW addr, Used(u) = Used(t),
         \A j \in Used(t) : u[j].prefix = t[j].prefix
  PROVE  Lookup(u, addr) = Lookup(t, addr)
<1> DEFINE hits(w) == {i \in Used(w) : Matches(w[i].prefix, addr)}
           longest(w) == {i \in hits(w) : \A j \in hits(w) : Len(w[j].prefix) <= Len(w[i].prefix)}
<1>1. hits(u) = hits(t)  OBVIOUS
<1>2. \A i \in hits(t) : u[i].prefix = t[i].prefix  OBVIOUS
<1> HIDE DEF hits
<1>3. longest(u) = longest(t)  BY <1>1, <1>2
<1> QED  BY <1>1, <1>3 DEF Lookup, hits

(* What a DAO passed on says can be done: the address of its target is     *)
(* looked up to a route through its sender, or to none if the search for a *)
(* slot has come upon a host in the target.                                *)
Routable(t, u, p, hop) ==
  LET i == Lookup(u, Address(p))
  IN  IF i # 0 THEN u[i].hop = hop ELSE Agree(t, p) # {}

(* rpl_add_route and the lifetime dao_input sets keep the table as it is   *)
(* to be, give no next hop but the sender to related targets, route a flat *)
(* target to the sender of the DAO, and make the target routable.          *)
LEMMA AddRouteCorrect ==
  ASSUME NEW t, TableOK(t), Unique(t),
         NEW dao \in Dao, dao.lifetime # 0, ~ NoRoom(t, dao.target),
         NEW u, u = AddRoute(t, dao)
  PROVE  /\ TableOK(u) /\ Unique(u)
         /\ \A p \in Prefix : ~ HopTo(u, p) \subseteq HopTo(t, p) =>
              <<p, dao.target>> \in Related /\ HopTo(u, p) = {dao.from}
         /\ dao.target \in Flat => HopTo(u, dao.target) = {dao.from}
         /\ Routable(t, u, dao.target, dao.from)
<1> DEFINE found == Lookup(t, Address(dao.target))
           i == SlotFor(t, dao.target)
           new == [prefix |-> dao.target, hop |-> dao.from,
                   lifetime |-> dao.lifetime, saved |-> FALSE]
<1>1. /\ dao.target \in Prefix /\ dao.from \in Nbr
      /\ dao.lifetime \in Nat \ {0}
  BY LifetimeAssumption DEF Dao
<1>2. /\ \A r \in Route : r # NULL
      /\ t \in [Slot -> Route \cup {NULL}] /\ Used(t) \subseteq Searched
  BY NullAssumption DEF TableOK
<1>3. \A q \in Prefix : Matches(q, Address(dao.target)) \/ Matches(dao.target, Address(q)) =>
        <<q, dao.target>> \in Related
  BY <1>1 DEF Related
<1>4. ASSUME dao.target \in Flat, NEW q \in Prefix,
             Matches(q, Address(dao.target)) \/ Matches(dao.target, Address(q))
      PROVE  q = dao.target
  BY <1>1, <1>4 DEF Flat, Related
<1>5. CASE found # 0
  <2> DEFINE changed == [t[found] EXCEPT !.hop = dao.from, !.lifetime = dao.lifetime]
  <2>1. found \in Used(t) /\ Matches(t[found].prefix, Address(dao.target))
    BY <1>5, LookupCorrect
  <2>2. found \in Slot /\ t[found] \in Route  BY <1>2, <2>1 DEF Used
  <2>3. u = [t EXCEPT ![found] = changed]  BY <1>5 DEF AddRoute
  <2> HIDE DEF found
  <2>4. /\ changed \in Route /\ changed.prefix = t[found].prefix
        /\ changed.hop = dao.from
    BY <1>1, <2>2 DEF Route
  <2> HIDE DEF changed
  <2>5. /\ u \in [Slot -> Route \cup {NULL}] /\ Used(u) = Used(t)
        /\ \A j \in Used(u) : u[j].prefix = t[j].prefix
        /\ \A j \in Used(u) \ {found} : u[j] = t[j]
        /\ u[found].hop = dao.from
    BY <1>2, <2>1, <2>2, <2>3, <2>4 DEF Used
  <2>6. TableOK(u) /\ Unique(u)  BY <1>2, <2>5 DEF TableOK, Unique
  <2>7. t[found].prefix \in Prefix  BY <2>2 DEF Route
  <2>8. HopTo(u, t[found].prefix) = {dao.from}
    <3>1. \A j \in Used(u) : u[j].prefix = t[found].prefix => j = found
      BY <2>1, <2>5 DEF Unique
    <3> QED  BY <2>1, <2>5, <3>1 DEF HopTo
  <2>9. ASSUME NEW p \in Prefix, ~ HopTo(u, p) \subseteq HopTo(t, p)
        PROVE  <<p, dao.target>> \in Related /\ HopTo(u, p) = {dao.from}
    <3>1. t[found].prefix = p  BY <2>5, <2>9 DEF HopTo
    <3> QED  BY <1>3, <2>1, <2>8, <3>1
  <2>10. ASSUME dao.target \in Flat PROVE HopTo(u, dao.target) = {dao.from}
    BY <1>4, <2>1, <2>7, <2>8, <2>10
  <2>11. Lookup(u, Address(dao.target)) = found
    <3>1. Used(u) = Used(t) /\ \A j \in Used(t) : u[j].prefix = t[j].prefix  BY <2>5
    <3> QED  BY <3>1, SamePrefixes DEF found
  <2>12. Routable(t, u, dao.target, dao.from)  BY <1>5, <2>5, <2>11 DEF Routable
  <2> QED  BY <2>6, <2>9, <2>10, <2>12
<1>6. CASE found = 0 /\ t[i] = NULL
  <2>1. i # 0  BY <1>6 DEF NoRoom
  <2>2. i \in Searched /\ i \in Slot  BY <2>1, SlotForCorrect, SearchedSlots
  <2>3. u = [t EXCEPT ![i] = new]  BY <1>6 DEF AddRoute
  <2>4. \A j \in Used(t) : ~ Matches(t[j].prefix, Address(dao.target))
    BY <1>6, LookupCorrect
  <2>5. i \notin Used(t)  BY <1>6 DEF Used
  <2> HIDE DEF i
  <2>6. new \in Route /\ new # NULL /\ new.prefix = dao.target /\ new.hop = dao.from
    BY <1>1, <1>2 DEF Route
  <2> HIDE DEF new
  <2>7. /\ u \in [Slot -> Route \cup {NULL}] /\ Used(u) = Used(t) \cup {i}
        /\ u[i] = new /\ \A j \in Used(t) : u[j] = t[j]
    BY <1>2, <2>2, <2>3, <2>5, <2>6 DEF Used
  <2>8. \A j \in Used(t) : t[j].prefix # dao.target  BY <1>1, <2>4, OwnAddress
  <2>9. TableOK(u) /\ Unique(u)  BY <1>2, <2>2, <2>6, <2>7, <2>8 DEF TableOK, Unique
  <2>10. HopTo(u, dao.target) = {dao.from}  BY <2>6, <2>7, <2>8 DEF HopTo
  <2>11. ASSUME NEW p \in Prefix, ~ HopTo(u, p) \subseteq HopTo(t, p)
         PROVE  <<p, dao.target>> \in Related /\ HopTo(u, p) = {dao.from}
    <3>1. p = dao.target  BY <2>6, <2>7, <2>11 DEF HopTo
    <3> QED  BY <1>1, <2>10, <3>1, OwnAddress
  <2>12. Lookup(u, Address(dao.target)) = i
    <3> DEFINE k == Lookup(u, Address(dao.target))
    <3>1. Matches(u[i].prefix, Address(dao.target)) /\ i \in Used(u)
      BY <1>1, <2>6, <2>7, OwnAddress
    <3>2. k \in Used(u) /\ Matches(u[k].prefix, Address(dao.target))
      BY <2>9, <3>1, LookupCorrect
    <3> HIDE DEF k
    <3>3. k \notin Used(t)  BY <2>4, <2>7, <3>2
    <3>4. k = i  BY <2>7, <3>2, <3>3
    <3> QED  BY <3>4 DEF k
  <2>13. Routable(t, u, dao.target, dao.from)
    <3>1. i # 0  BY <2>2, SearchedSlots DEF Slot
    <3> QED  BY <2>6, <2>7, <2>12, <3>1 DEF Routable
  <2> QED  BY <2>9, <2>10, <2>11, <2>13
<1>7. CASE found = 0 /\ t[i] # NULL
  <2>1. i # 0  BY <1>7 DEF NoRoom
  <2>2. i \in Slot  BY <2>1, SlotForCorrect, SearchedSlots
  <2>3. u = [t EXCEPT ![i].lifetime = dao.lifetime]  BY <1>7 DEF AddRoute
  <2>4. t[i] \in Route  BY <1>2, <1>7, <2>2
  <2>5. \A j \in Used(t) : ~ Matches(t[j].prefix, Address(dao.target))
    BY <1>7, LookupCorrect
  <2>6. \A j \in Used(t) : t[j].prefix # dao.target  BY <1>1, <2>5, OwnAddress
  <2>7. t[i] # NULL  BY <1>7
  <2>12. /\ t[i].prefix \in Prefix /\ Matches(dao.target, Address(t[i].prefix))
         /\ i \in Agree(t, dao.target)
    <3>1. i \in Used(t)  BY <1>7, <2>2 DEF Used
    <3> QED  BY <2>1, <2>4, <3>1, SlotForCorrect DEF Agree, Route
  <2> HIDE DEF i, found
  <2> DEFINE aged == [t[i] EXCEPT !.lifetime = dao.lifetime]
  <2>8. aged \in Route /\ aged.prefix = t[i].prefix /\ aged.hop = t[i].hop
    BY <1>1, <2>4 DEF Route
  <2>9. u = [t EXCEPT ![i] = aged]  BY <2>3
  <2> HIDE DEF aged
  <2>10. /\ u \in [Slot -> Route \cup {NULL}]
         /\ \A j \in Slot : u[j] # NULL =>
              t[j] # NULL /\ u[j].prefix = t[j].prefix /\ u[j].hop = t[j].hop
    BY <1>2, <2>2, <2>7, <2>8, <2>9
  <2>11. TableOK(u) /\ Unique(u) /\ \A p : HopTo(u, p) \subseteq HopTo(t, p)
    BY <2>10, Shrinking
  <2>13. dao.target \notin Flat
    <3>1. t[i].prefix # dao.target  BY <2>6, <2>12 DEF Agree
    <3> QED  BY <1>4, <2>12, <3>1
  <2>14. Routable(t, u, dao.target, dao.from)
    <3> DEFINE k == Lookup(u, Address(dao.target))
    <3>1. \A j \in Used(u) : j \in Used(t) /\ u[j].prefix = t[j].prefix
      BY <2>10 DEF Used
    <3>2. k = 0
      <4>1. ASSUME k \in Used(u), Matches(u[k].prefix, Address(dao.target)) PROVE FALSE
        <5> HIDE DEF k
        <5> QED  BY <2>5, <3>1, <4>1
      <4> QED  BY <2>11, <4>1, LookupCorrect
    <3> QED  BY <2>12, <3>2 DEF Routable
  <2> QED  BY <2>11, <2>13, <2>14
<1> QED  BY <1>5, <1>6, <1>7

-----------------------------------------------------------------------------
(* What one step does to the next hops, and where it sends a DAO: the      *)
(* bodies of the two action properties.                                    *)
Followed ==
  /\ \A i, j \in Used(table') : table'[i].prefix = table'[j].prefix => i = j
  /\ \A p \in Prefix :
       ~ HopTo(table', p) \subseteq HopTo(table, p) =>
           Refreshed(p)' /\ HopTo(table', p) = {got'.from}
  /\ \A p \in Flat :
       Announced(p)' /\ got'.from \notin nearer => HopTo(table', p) \in {{}, {got'.from}}

Routed == sent' # NULL => Routable(table, table', got'.target, got'.from)

(* The empty table of the start has the invariant.                         *)
LEMMA InitIInv == Init => IInv
<1> SUFFICES ASSUME Init PROVE IInv  OBVIOUS
<1>1. table = [i \in Slot |-> NULL]  BY DEF Init, RemoveRoutes
<1>2. Used(table) = {}  BY <1>1 DEF Used
<1> QED  BY <1>1, <1>2 DEF Init, IInv, TypeOK, Unique

(* A step that adds no route and changes no next hop. *)
LEMMA KeepsHops ==
  ASSUME IInv, table' \in [Slot -> Route \cup {NULL}],
         \A i \in Slot : table'[i] # NULL =>
             /\ table[i] # NULL
             /\ table'[i].prefix = table[i].prefix /\ table'[i].hop = table[i].hop
  PROVE  /\ TableOK(table') /\ Unique(table')
         /\ \A p : HopTo(table', p) \subseteq HopTo(table, p)
<1>1. TableOK(table) /\ Unique(table)  BY DEF IInv, TypeOK, TableOK
<1> QED  BY <1>1, Shrinking

(* A step that takes no DAO for a lifetime keeps the invariant and has     *)
(* both properties.                                                        *)
LEMMA QuietStep ==
  ASSUME IInv, table' \in [Slot -> Route \cup {NULL}],
         \A i \in Slot : table'[i] # NULL =>
             /\ table[i] # NULL
             /\ table'[i].prefix = table[i].prefix /\ table'[i].hop = table[i].hop,
         \/ got' = NULL
         \/ got' \in Dao /\ (got'.lifetime = 0 \/ got'.from \in nearer),
         sent' = NULL, nearer' \subseteq Nbr, preferred' \in Nbr \cup {NULL}
  PROVE  IInv' /\ Followed /\ Routed
<1>1. /\ TableOK(table') /\ Unique(table')
      /\ \A p : HopTo(table', p) \subseteq HopTo(table, p)
  BY KeepsHops
<1>2. IInv'  BY <1>1 DEF IInv, TypeOK, TableOK
<1>3. Followed /\ Routed  BY <1>1 DEF Followed, Routed, Unique, Announced
<1> QED  BY <1>2, <1>3

(* Every step keeps the invariant and has both properties, or is a         *)
(* stutter.                                                                *)
LEMMA Step ==
  ASSUME IInv, [Next]_vars
  PROVE  IInv' /\ (vars' = vars \/ (Followed /\ Routed))
<1>1. /\ table \in [Slot -> Route \cup {NULL}] /\ TableOK(table) /\ Unique(table)
      /\ nearer \subseteq Nbr /\ preferred \in Nbr \cup {NULL}
      /\ sent \in Nbr \cup {NULL} /\ got \in Dao \cup {NULL}
  BY DEF IInv, TypeOK, TableOK
<1>2. CASE NoPathInput
  <2>1. PICK dao \in Dao :
          /\ dao.lifetime = 0 /\ got' = dao
          /\ table' = [i \in Slot |->
                         IF i \in Expiring(table, dao)
                         THEN [table[i] EXCEPT !.lifetime = Expiration, !.saved = TRUE]
                         ELSE table[i]]
          /\ sent' = NULL
          /\ nearer' = nearer /\ preferred' = preferred
    BY <1>2 DEF NoPathInput, Gets, parentVars
  <2>2. \A i \in Expiring(table, dao) : i \in Used(table)
    BY <1>1, LookupCorrect DEF Expiring
  <2>3. \A r \in Route : LET e == [r EXCEPT !.lifetime = Expiration, !.saved = TRUE]
                         IN  e \in Route /\ e.prefix = r.prefix /\ e.hop = r.hop
    BY LifetimeAssumption DEF Route
  <2>4. \A i \in Expiring(table, dao) : table[i] \in Route /\ table[i] # NULL
    BY <1>1, <2>2 DEF Used
  <2>5. \A i \in Slot :
          /\ table'[i] \in Route \cup {NULL}
          /\ table'[i] # NULL => /\ table[i] # NULL
                                 /\ table'[i].prefix = table[i].prefix
                                 /\ table'[i].hop = table[i].hop
    BY <1>1, <2>1, <2>3, <2>4
  <2>6. table' \in [Slot -> Route \cup {NULL}]  BY <2>1, <2>5
  <2> QED  BY <1>1, <2>1, <2>5, <2>6, QuietStep
<1>3. CASE DaoLoop
  <2>1. PICK dao \in Dao : dao.from \in nearer /\ got' = dao /\ nearer' = nearer \ {dao.from}
    BY <1>3 DEF DaoLoop, FromAbove, Gets
  <2>2. table' = table /\ preferred' = preferred /\ sent' = NULL  BY <1>3 DEF DaoLoop
  <2> QED  BY <1>1, <2>1, <2>2, QuietStep
<1>4. CASE DaoInput
  <2>1. PICK dao \in Dao :
          /\ dao.lifetime # 0 /\ dao.from \notin nearer /\ ~ NoRoom(table, dao.target)
          /\ got' = dao /\ table' = AddRoute(table, dao)
          /\ sent' = preferred /\ nearer' = nearer /\ preferred' = preferred
    BY <1>4 DEF DaoInput, FromAbove, Gets, parentVars
  <2>2. /\ TableOK(table') /\ Unique(table')
        /\ \A p \in Prefix : ~ HopTo(table', p) \subseteq HopTo(table, p) =>
             <<p, dao.target>> \in Related /\ HopTo(table', p) = {dao.from}
        /\ dao.target \in Flat => HopTo(table', dao.target) = {dao.from}
        /\ Routable(table, table', dao.target, dao.from)
    BY <1>1, <2>1, AddRouteCorrect
  <2>3. IInv'  BY <1>1, <2>1, <2>2 DEF IInv, TypeOK, TableOK
  <2>4. dao # NULL  BY NullAssumption
  <2>5. Followed  BY <2>1, <2>2, <2>4 DEF Followed, Unique, Announced, Refreshed
  <2>6. Routed  BY <2>1, <2>2 DEF Routed
  <2> QED  BY <2>3, <2>5, <2>6
<1>5. CASE DaoNoRoom
  <2>1. PICK dao \in Dao :
          NoRoom(table, dao.target) /\ got' = dao
    BY <1>5 DEF DaoNoRoom, Gets
  <2>2. table' = table /\ nearer' = nearer /\ preferred' = preferred /\ sent' = NULL
    BY <1>5 DEF DaoNoRoom, parentVars
  <2>3. HopTo(table, dao.target) = {}
    <3>1. dao.target \in Prefix  BY DEF Dao
    <3>2. Lookup(table, Address(dao.target)) = 0  BY <2>1 DEF NoRoom
    <3>3. \A j \in Used(table) : ~ Matches(table[j].prefix, Address(dao.target))
      BY <1>1, <3>2, LookupCorrect
    <3> QED  BY <3>1, <3>3, OwnAddress DEF HopTo
  <2>4. IInv'  BY <1>1, <2>1, <2>2 DEF IInv, TypeOK, TableOK
  <2>5. Followed  BY <1>1, <2>1, <2>2, <2>3 DEF Followed, Unique, Announced
  <2>6. Routed  BY <2>2 DEF Routed
  <2> QED  BY <2>4, <2>5, <2>6
<1>6. CASE DioInput
  BY <1>1, <1>6, QuietStep DEF DioInput, NewParents, Quiet
<1>7. CASE LeaveDag
  <2>1. table' = [i \in Slot |-> NULL]  BY <1>7 DEF LeaveDag, RemoveRoutes
  <2> QED  BY <1>7, <2>1, QuietStep DEF LeaveDag, NewParents, Quiet
<1>8. CASE MoveParent
  <2>1. PICK n : /\ table' = RemoveByNextHop(table, n) /\ nearer' = nearer \ {n}
                 /\ got' = NULL /\ sent' = NULL /\ preferred' = preferred
    BY <1>8 DEF MoveParent, Quiet
  <2>2. /\ table' \in [Slot -> Route \cup {NULL}]
        /\ \A i \in Slot : table'[i] # NULL => table'[i] = table[i]
    BY <1>1, <2>1 DEF RemoveByNextHop
  <2> QED  BY <1>1, <2>1, <2>2, QuietStep
<1>9. CASE NeighborRemoved
  BY <1>1, <1>9, QuietStep DEF NeighborRemoved, Quiet
<1>10. CASE PeriodicTimer
  <2>1. table' = Purge(table)  BY <1>10 DEF PeriodicTimer
  <2>2. \A r \in Route : r.lifetime > 1 =>
          LET e == [r EXCEPT !.lifetime = @ - 1]
          IN  e \in Route /\ e.prefix = r.prefix /\ e.hop = r.hop
    BY DEF Route
  <2>3. \A r \in Route : ~ r.lifetime <= 1 => r.lifetime > 1  BY DEF Route
  <2>4. \A i \in Slot :
          /\ table'[i] \in Route \cup {NULL}
          /\ table'[i] # NULL => /\ table[i] # NULL
                                 /\ table'[i].prefix = table[i].prefix
                                 /\ table'[i].hop = table[i].hop
    BY <1>1, <2>1, <2>2, <2>3 DEF Purge
  <2>5. table' \in [Slot -> Route \cup {NULL}]  BY <2>1, <2>4 DEF Purge
  <2>6. /\ preferred' \in Nbr \cup {NULL} /\ nearer' = nearer
        /\ got' = NULL /\ sent' = NULL
    BY <1>1, <1>10 DEF PeriodicTimer, Quiet
  <2> QED  BY <1>1, <2>4, <2>5, <2>6, QuietStep
<1>11. CASE UNCHANGED vars
  BY <1>1, <1>11 DEF vars, parentVars, IInv, TypeOK, Unique
<1> QED
  BY <1>2, <1>3, <1>4, <1>5, <1>6, <1>7, <1>8, <1>9, <1>10, <1>11 DEF Next, DaoStep

(* Every variable always has its type, and no route is ever put where      *)
(* uip_ds6_list_loop would not find it again.                              *)
THEOREM TypeCorrect == Spec => []TypeOK
<1>1. IInv /\ [Next]_vars => IInv'  BY Step
<1>2. IInv => TypeOK  BY DEF IInv
<1> QED  BY <1>1, <1>2, InitIInv, PTL DEF Spec

(* No prefix ever has two routes, a target gets its next hop from DAOs for *)
(* related targets only, and a flat target's is always the sender of the   *)
(* last DAO for it, whatever parents and timers do in between.             *)
THEOREM HopsCorrect == Spec => HopFollowsDao
<1>1. /\ IInv /\ [Next]_vars => IInv'
      /\ IInv /\ [Next]_vars => [Followed]_vars
  BY Step
<1>2. Spec => [][Followed]_vars  BY <1>1, InitIInv, PTL DEF Spec
<1> QED  BY <1>2 DEF HopFollowsDao, Followed

(* A DAO is passed on only when the node itself routes the address of its  *)
(* target to the sender, or has found a host in the target instead.        *)
THEOREM AnnouncedRouted == Spec => AnnouncesRouted
<1>1. /\ IInv /\ [Next]_vars => IInv'
      /\ IInv /\ [Next]_vars => [Routed]_vars
  BY Step
<1>2. Spec => [][Routed]_vars  BY <1>1, InitIInv, PTL DEF Spec
<1> QED  BY <1>2 DEF AnnouncesRouted, Routed, Routable

-----------------------------------------------------------------------------
(* The trigger numbers with which a parent asks for DAOs.                  *)

(* A counter that has been incremented fewer than SequenceWindows times is *)
(* greater than it was: on the stick, in the circle, and where it wraps.   *)
LEMMA LeadIsGreater ==
  ASSUME NEW b \in Counter, NEW k \in 1 .. SequenceWindows - 1
  PROVE  GreaterThan((b + k) % (LollipopMaxValue + 1), b)
<1> DEFINE a == (b + k) % 256
<1>1. CASE b + k <= 255
  <2>1. a = b + k
    BY <1>1 DEF Counter, SequenceWindows, LollipopMaxValue
  <2> QED
    BY <1>1, <2>1 DEF GreaterThan, Counter, SequenceWindows, LollipopMaxValue, CircularRegion
<1>2. CASE b + k > 255
  <2>1. a = b + k - 256
    BY <1>2 DEF Counter, SequenceWindows, LollipopMaxValue
  <2> QED
    BY <1>2, <2>1 DEF GreaterThan, Counter, SequenceWindows, LollipopMaxValue, CircularRegion
<1> QED
  BY <1>1, <1>2 DEF Counter, SequenceWindows, LollipopMaxValue

(* One more increment is one more of the lead. *)
LEMMA IncrementLeads ==
  ASSUME NEW b \in Counter, NEW k \in 0 .. SequenceWindows
  PROVE  /\ Increment((b + k) % (LollipopMaxValue + 1)) = (b + k + 1) % (LollipopMaxValue + 1)
         /\ Increment(b) \in Counter
  BY DEF Increment, Counter, SequenceWindows, LollipopMaxValue

(* Every variable keeps its type. *)
THEOREM DtsnTypeCorrect == DtsnSpec => []DtsnTypeOK
<1>1. DtsnInit => DtsnTypeOK
  <2>1. LollipopInit \in Counter /\ 0 \in Counter /\ SequenceWindows \in 1 .. SequenceWindows
    BY DEF Counter, LollipopInit, LollipopMaxValue, SequenceWindows
  <2> QED
    BY <2>1 DEF DtsnInit, DtsnTypeOK
<1>2. DtsnTypeOK /\ [DtsnNext]_DtsnVars => DtsnTypeOK'
  <2> SUFFICES ASSUME DtsnTypeOK, [DtsnNext]_DtsnVars PROVE DtsnTypeOK'
    OBVIOUS
  <2>1. Increment(out) \in Counter /\ LollipopInit \in Counter /\ 0 \in Counter
    BY DEF DtsnTypeOK, Increment, Counter, LollipopInit, LollipopMaxValue, SequenceWindows
  <2>2. Widen(gap) \in 1 .. SequenceWindows /\ 1 \in 1 .. SequenceWindows
        /\ SequenceWindows \in 1 .. SequenceWindows
    BY DEF DtsnTypeOK, Widen, SequenceWindows
  <2>3. CASE DioLost \/ AskAgain
    BY <2>1, <2>2, <2>3 DEF DtsnTypeOK, DioLost, AskAgain
  <2>4. CASE DioReceived
    BY <2>1, <2>2, <2>4 DEF DtsnTypeOK, DioReceived
  <2>5. CASE DaoReceived \/ DaoLost \/ RouteExpires
    BY <2>5 DEF DtsnTypeOK, DaoReceived, DaoLost, RouteExpires
  <2>6. CASE ParentRestarts \/ ChildRestarts
    BY <2>1, <2>2, <2>6 DEF DtsnTypeOK, ParentRestarts, ChildRestarts
  <2>7. CASE UNCHANGED DtsnVars
    BY <2>7 DEF DtsnTypeOK, DtsnVars
  <2> QED
    BY <2>3, <2>4, <2>5, <2>6, <2>7 DEF DtsnNext
<1> QED
  BY <1>1, <1>2, PTL DEF DtsnSpec

(* As long as gap counts them all, it is the lead of out over seen. *)
InStep == gap < SequenceWindows => out = (seen + gap) % (LollipopMaxValue + 1)

LEMMA InStepCorrect == DtsnSpec => []InStep
<1>1. DtsnInit => InStep
  BY DEF DtsnInit, InStep, SequenceWindows
<1>2. DtsnTypeOK /\ InStep /\ [DtsnNext]_DtsnVars => InStep'
  <2> SUFFICES ASSUME DtsnTypeOK, InStep, [DtsnNext]_DtsnVars PROVE InStep'
    OBVIOUS
  <2>1. CASE DioLost \/ AskAgain
    <3>1. /\ out' = Increment(out) /\ gap' = Widen(gap) /\ seen' = seen
      BY <2>1 DEF DioLost, AskAgain
    <3>2. CASE gap < SequenceWindows
      <4>1. out = (seen + gap) % (LollipopMaxValue + 1) /\ gap' = gap + 1
        BY <3>1, <3>2 DEF InStep, Widen
      <4>2. out' = (seen + gap + 1) % (LollipopMaxValue + 1)
        BY <3>1, <4>1, IncrementLeads DEF DtsnTypeOK, SequenceWindows
      <4> QED
        BY <3>1, <4>1, <4>2 DEF InStep, DtsnTypeOK, Counter, SequenceWindows, LollipopMaxValue
    <3>3. CASE ~ gap < SequenceWindows
      BY <3>1, <3>3 DEF InStep, Widen
    <3> QED
      BY <3>2, <3>3
  <2>2. CASE DioReceived
    BY <2>2 DEF DioReceived, InStep, Increment
  <2>3. CASE DaoReceived \/ DaoLost \/ RouteExpires
    BY <2>3 DEF InStep, DaoReceived, DaoLost, RouteExpires
  <2>4. CASE ParentRestarts \/ ChildRestarts
    BY <2>4 DEF InStep, ParentRestarts, ChildRestarts, SequenceWindows
  <2>5. CASE UNCHANGED DtsnVars
    BY <2>5 DEF InStep, DtsnVars
  <2> QED
    BY <2>1, <2>2, <2>3, <2>4, <2>5 DEF DtsnNext
<1> QED
  BY <1>1, <1>2, DtsnTypeCorrect, PTL DEF DtsnSpec

(* A DIO that is fewer than SequenceWindows increments ahead of the last   *)
(* one the child has seen makes the child schedule a DAO (dio_output,      *)
(* should_send_dao).                                                       *)
THEOREM TriggersCorrect == DtsnSpec => DioTriggers
<1> DEFINE Triggered == DioReceived /\ (gap < SequenceWindows \/ ~ joined) => scheduled'
<1>1. DtsnTypeOK /\ InStep /\ [DtsnNext]_DtsnVars => [Triggered]_DtsnVars
  <2> SUFFICES ASSUME DtsnTypeOK, InStep, DioReceived, gap < SequenceWindows \/ ~ joined
               PROVE  scheduled'
    OBVIOUS
  <2>1. scheduled' = (scheduled \/ ~ joined \/ GreaterThan(out, seen))
    BY DEF DioReceived
  <2>2. CASE gap < SequenceWindows
    <3>1. GreaterThan(out, seen)
      BY <2>2, LeadIsGreater DEF InStep, DtsnTypeOK, SequenceWindows
    <3> QED
      BY <2>1, <3>1
  <2>3. CASE ~ joined
    BY <2>1, <2>3
  <2> QED
    BY <2>2, <2>3
<1>2. DtsnSpec => []DtsnTypeOK /\ []InStep /\ [][DtsnNext]_DtsnVars
  BY DtsnTypeCorrect, InStepCorrect, PTL DEF DtsnSpec
<1>3. DtsnSpec => [][Triggered]_DtsnVars
  BY <1>1, <1>2, PTL
<1> QED
  BY <1>3, PTL DEF DioTriggers

=============================================================================
