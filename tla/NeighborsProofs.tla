-------------------------- MODULE NeighborsProofs ---------------------------
(***************************************************************************)
(* Proofs about Neighbors for every set of nodes and blocks, every size of *)
(* the two tables and every number of solicitations.  The handlers pass    *)
(* the tables from helper to helper as one record; what holds of it is     *)
(* Good, and each helper gives a good record back.                         *)
(***************************************************************************)
EXTENDS Neighbors, DataLemmas, FiniteSetTheorems

Message == [kind : {"data", "NS"}, to : Target, hop : Address,
            via : LinkAddress \cup {Multicast}]

(* A message goes to its next hop, and that is the destination if it can.  *)
Sane(p) ==
  /\ p.via \in {p.hop, Multicast, Sender}
  /\ p.via = Multicast => p.kind = "NS"
  /\ p.hop = p.to \/ p.to = Far

Cache == [Slot -> Entry \cup {NULL}]
Held == [Block -> Packet \cup {NULL}]
Routers == [RouterSlot -> Router \cup {NULL}]
Tables == [cache : Cache, held : Held, routers : Routers, sent : Seq(Message)]

Limit(e) == IF e.state = "INCOMPLETE" THEN MaxMulticast ELSE MaxUnicast
Waits(e) == e # NULL /\ e.packet # NULL

(* Each table by itself: no address twice, no entry asked too often; and a *)
(* link address just where there is a neighbour that has told it, or that  *)
(* dio_input takes to be there.                                            *)
Linked(e) == IF e.state = "INCOMPLETE" THEN e.lladdr = Unset ELSE e.lladdr \in {e.addr, Sender}
Fit(e) == e.nscount <= Limit(e) /\ Linked(e)
Fits(c) == \A i \in Slot : c[i] # NULL => Fit(c[i])
Unique(c, D) == \A i, j \in D : c[i] # NULL /\ c[j] # NULL /\ c[i].addr = c[j].addr => i = j
Routed(h) == \A b \in Block : h[b] # NULL => h[b].hop = h[b].to \/ h[b].to = Far

(* Packets and entries belong together; X is the slots where a handler has *)
(* changed the state and will release the packet.                          *)
Kept(c, h, X) ==
  /\ \A i \in Slot : Waits(c[i]) =>
       /\ h[c[i].packet] # NULL /\ h[c[i].packet].hop = c[i].addr
       /\ i \in X \/ c[i].state \in {"INCOMPLETE", "STALE"}
  /\ \A i, j \in Slot : Waits(c[i]) /\ Waits(c[j]) /\ c[i].packet = c[j].packet => i = j
  /\ \A b \in Block : h[b] # NULL => \E i \in Slot : Waits(c[i]) /\ c[i].packet = b

(* Entry e in slot i has been asked for once more than before the step.    *)
Wants(e) == e # NULL /\ e.state \in {"INCOMPLETE", "PROBE"}
Grew(i, e) ==
  Wants(e) /\ \/ ~ Asked(i) /\ e.nscount > 0
              \/ Asked(i) /\ e.addr = cache[i].addr /\ e.nscount > cache[i].nscount
SolicitFor(p, a) == p.kind = "NS" /\ p.to = a
Told(c, q, Y) ==
  \A i \in Slot \ Y : Grew(i, c[i]) => \E p \in Range(q) : SolicitFor(p, c[i].addr)

Base(s, X) ==
  /\ s \in Tables /\ Fits(s.cache) /\ Unique(s.cache, Slot) /\ Unique(s.routers, RouterSlot)
  /\ Routed(s.held) /\ Kept(s.cache, s.held, X) /\ \A p \in Range(s.sent) : Sane(p)

Good(s) == Base(s, {}) /\ Told(s.cache, s.sent, {})

(* The inductive invariant. *)
IInv ==
  /\ Base(S, {})
  /\ late \subseteq Block
  /\ defRoute \in RouterSlot \cup {NULL} /\ nbr \in Slot \cup {NULL}
  /\ sent \in Seq(Message) /\ \A p \in Range(sent) : Sane(p)

-----------------------------------------------------------------------------
(* Searching the tables. *)
LEMMA NumbersType == /\ NbrNB \in Nat \ {0} /\ DefrtNB \in Nat \ {0}
                     /\ MaxMulticast \in Nat \ {0} /\ MaxUnicast \in Nat \ {0}
BY NumberAssumption

LEMMA LookupCorrect ==
  ASSUME NEW c \in Cache, NEW a
  PROVE  /\ NbrLookup(c, a) = NULL => \A i \in Slot : c[i] # NULL => c[i].addr # a
         /\ NbrLookup(c, a) # NULL => /\ NbrLookup(c, a) \in Slot
                                      /\ c[NbrLookup(c, a)] # NULL /\ c[NbrLookup(c, a)].addr = a
<1>1. CASE SlotOf(c, a) = {}
  BY <1>1 DEF NbrLookup, SlotOf
<1>2. CASE SlotOf(c, a) # {}
  <2>1. SlotOf(c, a) \subseteq 1 .. NbrNB  BY DEF SlotOf, Slot
  <2>2. Min(SlotOf(c, a)) \in SlotOf(c, a)  BY <1>2, <2>1, NumbersType, Extremes
  <2>3. NbrLookup(c, a) \in SlotOf(c, a)  BY <1>2, <2>2 DEF NbrLookup
  <2>4. NbrLookup(c, a) # NULL  BY <2>3, NameAssumption DEF SlotOf
  <2> QED  BY <2>3, <2>4 DEF SlotOf
<1> QED  BY <1>1, <1>2

LEMMA ChooseCorrect ==
  ASSUME NEW s, s.routers \in Routers
  PROVE  DefrtChoose(s) \in Nbr \cup {NULL}
<1> DEFINE used == {i \in RouterSlot : s.routers[i] # NULL}
           resolved == {i \in used : \E j \in SlotOf(s.cache, s.routers[i].addr) :
                                  s.cache[j].state # "INCOMPLETE"}
           k == IF resolved # {} THEN Min(resolved) ELSE Max(used)
<1>1. used \subseteq 1 .. DefrtNB /\ resolved \subseteq 1 .. DefrtNB /\ resolved \subseteq used
  BY DEF RouterSlot
<1>2. DefrtChoose(s) = IF used = {} THEN NULL ELSE s.routers[k].addr
  BY DEF DefrtChoose
<1>3. used # {} => k \in used
  <2> HIDE DEF used, resolved
  <2>1. used # {} => Max(used) \in used  BY <1>1, NumbersType, Extremes
  <2>2. resolved # {} => Min(resolved) \in resolved  BY <1>1, NumbersType, Extremes
  <2> QED  BY <1>1, <2>1, <2>2
<1>4. \A i \in used : s.routers[i].addr \in Nbr  BY DEF Routers, Router
<1> HIDE DEF used, k
<1> QED  BY <1>2, <1>3, <1>4

LEMMA NextHopCorrect ==
  ASSUME NEW s, s.routers \in Routers, NEW to \in Target, NextHop(s, to) # NULL
  PROVE  NextHop(s, to) \in Address /\ (NextHop(s, to) = to \/ to = Far)
BY ChooseCorrect DEF NextHop, Target, Address

-----------------------------------------------------------------------------
(* The helpers, one by one. *)
LEMMA Fields ==
  ASSUME NEW s \in Tables
  PROVE  /\ s.cache \in Cache /\ s.held \in Held /\ s.routers \in Routers /\ s.sent \in Seq(Message)
         /\ s = [cache |-> s.cache, held |-> s.held, routers |-> s.routers, sent |-> s.sent]
BY DEF Tables

LEMMA EntryFields ==
  ASSUME NEW c \in Cache, NEW i \in Slot, c[i] # NULL
  PROVE  /\ c[i] \in Entry /\ c[i].addr \in Address /\ c[i].nscount \in Nat
         /\ c[i].lladdr \in LinkAddress
         /\ c[i].packet \in Block \cup {NULL}
         /\ c[i].state \in {"INCOMPLETE", "REACHABLE", "STALE", "DELAY", "PROBE"}
BY DEF Cache, Entry

(* What PacketFree leaves. *)
LEMMA FreeFields ==
  ASSUME NEW s \in Tables, NEW i \in Slot, s.cache[i] # NULL, NEW t, t = PacketFree(s, i)
  PROVE  /\ t \in Tables /\ t.routers = s.routers /\ t.sent = s.sent
         /\ \A j \in Slot \ {i} : t.cache[j] = s.cache[j]
         /\ t.cache[i] # NULL
         /\ t.cache[i].addr = s.cache[i].addr /\ t.cache[i].state = s.cache[i].state
         /\ t.cache[i].nscount = s.cache[i].nscount /\ t.cache[i].lladdr = s.cache[i].lladdr
         /\ t.cache[i].packet = NULL
         /\ \A b \in Block : t.held[b] = IF b = s.cache[i].packet THEN NULL ELSE s.held[b]
<1> DEFINE e == s.cache[i]
           b == e.packet
           f == [e EXCEPT !.packet = NULL]
<1>1. /\ s.cache \in Cache /\ s.held \in Held /\ e \in Entry /\ b \in Block \cup {NULL}
  BY Fields, EntryFields
<1>2. f \in Entry /\ f # NULL /\ f.addr = e.addr /\ f.state = e.state /\ f.nscount = e.nscount
      /\ f.lladdr = e.lladdr /\ f.packet = NULL
  BY <1>1, NameAssumption DEF Entry
<1>3. CASE b = NULL
  <2>1. t = s  BY <1>3 DEF PacketFree
  <2>2. f = e  BY <1>1, <1>3 DEF Entry
  <2>3. \A d \in Block : d # b  BY <1>3, NameAssumption
  <2> HIDE DEF f
  <2> QED  BY <1>2, <2>1, <2>2, <2>3
<1>4. CASE b # NULL
  <2> DEFINE c == [s.cache EXCEPT ![i] = f]
             h == [s.held EXCEPT ![b] = NULL]
  <2>1. t = [s EXCEPT !.cache[i].packet = NULL, !.held[b] = NULL]  BY <1>4 DEF PacketFree
  <2>2. t.cache = c /\ t.held = h /\ t.routers = s.routers /\ t.sent = s.sent /\ t \in [cache : {c}, held : {h}, routers : {s.routers}, sent : {s.sent}]
    BY <2>1 DEF Tables
  <2> QED  BY <1>1, <1>2, <1>4, <2>2 DEF Tables, Cache, Held
<1> QED  BY <1>3, <1>4

LEMMA FreeBase ==
  ASSUME NEW s, NEW X, Base(s, X), NEW i \in Slot, s.cache[i] # NULL, NEW Y,
         Told(s.cache, s.sent, Y), NEW t, t = PacketFree(s, i)
  PROVE  Base(t, X \ {i}) /\ Told(t.cache, t.sent, Y)
<1> DEFINE b == s.cache[i].packet
<1>1. s \in Tables /\ Kept(s.cache, s.held, X)  BY DEF Base
<1>2. /\ t \in Tables /\ t.routers = s.routers /\ t.sent = s.sent
      /\ \A j \in Slot \ {i} : t.cache[j] = s.cache[j]
      /\ t.cache[i] # NULL
      /\ t.cache[i].addr = s.cache[i].addr /\ t.cache[i].state = s.cache[i].state
      /\ t.cache[i].nscount = s.cache[i].nscount /\ t.cache[i].lladdr = s.cache[i].lladdr
      /\ t.cache[i].packet = NULL
      /\ \A d \in Block : t.held[d] = IF d = b THEN NULL ELSE s.held[d]
  BY <1>1, FreeFields
<1>3. \A j \in Slot : /\ s.cache[j] = NULL <=> t.cache[j] = NULL
                      /\ s.cache[j] # NULL => /\ t.cache[j].addr = s.cache[j].addr
                                              /\ t.cache[j].state = s.cache[j].state
                                              /\ t.cache[j].nscount = s.cache[j].nscount
                                              /\ t.cache[j].lladdr = s.cache[j].lladdr
                                              /\ t.cache[j].packet \in {NULL, s.cache[j].packet}
  BY <1>2
<1>4. Fits(t.cache)  BY <1>3 DEF Base, Fits, Fit, Linked, Limit
<1>5. Unique(t.cache, Slot) /\ Unique(t.routers, RouterSlot)  BY <1>2, <1>3 DEF Base, Unique
<1>6. Routed(t.held)  BY <1>2 DEF Base, Routed
<1>7. Kept(t.cache, t.held, X \ {i})
  <2>1. \A j \in Slot : Waits(t.cache[j]) => /\ j # i /\ t.cache[j] = s.cache[j] /\ Waits(s.cache[j])
                                             /\ s.cache[j].packet \in Block
    BY <1>1, <1>2, EntryFields, Fields DEF Waits
  <2>2. \A j \in Slot : Waits(t.cache[j]) => s.cache[j].packet # b
    BY <1>1, <2>1 DEF Kept, Waits
  <2>3. ASSUME NEW j \in Slot, Waits(t.cache[j])
        PROVE  /\ t.held[t.cache[j].packet] # NULL /\ t.held[t.cache[j].packet].hop = t.cache[j].addr
               /\ j \in X \ {i} \/ t.cache[j].state \in {"INCOMPLETE", "STALE"}
    <3>1. /\ s.held[s.cache[j].packet] # NULL /\ s.held[s.cache[j].packet].hop = s.cache[j].addr
          /\ j \in X \/ s.cache[j].state \in {"INCOMPLETE", "STALE"}
      BY <1>1, <2>1, <2>3 DEF Kept
    <3>2. t.held[s.cache[j].packet] = s.held[s.cache[j].packet]
      BY <1>2, <2>1, <2>2, <2>3
    <3> QED  BY <2>1, <2>3, <3>1, <3>2
  <2>4. ASSUME NEW d \in Block, t.held[d] # NULL
        PROVE  \E j \in Slot : Waits(t.cache[j]) /\ t.cache[j].packet = d
    <3>1. d # b /\ s.held[d] # NULL  BY <1>2, <2>4
    <3>2. PICK j \in Slot : Waits(s.cache[j]) /\ s.cache[j].packet = d  BY <1>1, <3>1 DEF Kept
    <3>3. t.cache[j] = s.cache[j]  BY <1>2, <3>1, <3>2
    <3> QED  BY <3>2, <3>3
  <2>5. \A j, k \in Slot : Waits(t.cache[j]) /\ Waits(t.cache[k])
                            /\ t.cache[j].packet = t.cache[k].packet => j = k
    BY <1>1, <2>1 DEF Kept
  <2> QED  BY <2>3, <2>4, <2>5 DEF Kept
<1>8. Told(t.cache, t.sent, Y)  BY <1>2, <1>3 DEF Told, Grew, Wants
<1>9. \A p \in Range(t.sent) : Sane(p)  BY <1>2 DEF Base
<1> QED  BY <1>2, <1>4, <1>5, <1>6, <1>7, <1>8, <1>9 DEF Base

(* An entry is put into a slot. *)
Put(s, i, e) == [s EXCEPT !.cache[i] = e]

LEMMA PutFields ==
  ASSUME NEW s \in Tables, NEW i \in Slot, NEW e \in Entry \cup {NULL}, NEW t, t = Put(s, i, e)
  PROVE  /\ t \in Tables /\ t.held = s.held /\ t.routers = s.routers /\ t.sent = s.sent
         /\ t.cache[i] = e /\ \A j \in Slot \ {i} : t.cache[j] = s.cache[j]
<1> DEFINE c == [s.cache EXCEPT ![i] = e]
<1>1. /\ t.cache = c /\ t.held = s.held /\ t.routers = s.routers /\ t.sent = s.sent
      /\ t \in [cache : {c}, held : {s.held}, routers : {s.routers}, sent : {s.sent}]
  BY DEF Put, Tables
<1>2. c \in Cache /\ c[i] = e /\ \A j \in Slot \ {i} : c[j] = s.cache[j]
  BY Fields DEF Cache
<1> HIDE DEF c
<1> QED  BY <1>1, <1>2 DEF Tables

LEMMA TurnedFields ==
  ASSUME NEW e \in Entry, NEW st \in {"STALE", "DELAY", "PROBE"}, NEW f, f = Turned(e, st)
  PROVE  /\ f \in Entry /\ f.addr = e.addr /\ f.packet = e.packet /\ f.state = st
         /\ f.lladdr = e.lladdr /\ f.nscount = 0 /\ f.nscount <= Limit(f)
<1>1. e = [addr |-> e.addr, lladdr |-> e.lladdr, state |-> e.state, nscount |-> e.nscount, isrouter |-> e.isrouter,
           packet |-> e.packet]
  BY DEF Entry
<1>2. f = [addr |-> e.addr, lladdr |-> e.lladdr, state |-> st, nscount |-> 0, isrouter |-> e.isrouter,
           packet |-> e.packet]
  BY <1>1 DEF Turned
<1>3. f \in Entry  BY <1>2 DEF Entry
<1>4. MaxUnicast \in Nat /\ f.nscount = 0  BY <1>2, NumbersType
<1> QED  BY <1>2, <1>3, <1>4 DEF Limit

LEMMA ResolvedFields ==
  ASSUME NEW e \in Entry, NEW f, f = Resolved(e)
  PROVE  /\ f \in Entry /\ f.addr = e.addr /\ f.packet = e.packet /\ f.lladdr = e.addr
<1>1. e = [addr |-> e.addr, lladdr |-> e.lladdr, state |-> e.state, nscount |-> e.nscount,
           isrouter |-> e.isrouter, packet |-> e.packet]
  BY DEF Entry
<1>2. f = [addr |-> e.addr, lladdr |-> e.addr, state |-> e.state, nscount |-> e.nscount,
           isrouter |-> e.isrouter, packet |-> e.packet]
  BY <1>1 DEF Resolved
<1>3. f \in Entry  BY <1>2 DEF Entry, LinkAddress
<1> QED  BY <1>2, <1>3

(* One entry is changed, keeping its address and what waits for it.        *)
LEMMA ChangeBase ==
  ASSUME NEW s, NEW X, Base(s, X), NEW i \in Slot, s.cache[i] # NULL, NEW e \in Entry,
         e.addr = s.cache[i].addr, e.packet = s.cache[i].packet, Fit(e),
         NEW t, t = Put(s, i, e)
  PROVE  Base(t, X \cup {i})
<1> DEFINE c == t.cache
<1>1. s \in Tables  BY DEF Base
<1>2. t \in Tables /\ t.held = s.held /\ t.routers = s.routers /\ t.sent = s.sent
  BY <1>1, PutFields
<1>3. c[i] = e /\ e # NULL /\ \A j \in Slot \ {i} : c[j] = s.cache[j]
  BY <1>1, PutFields, NameAssumption
<1> HIDE DEF c
<1>5. Fits(c) /\ Unique(c, Slot) /\ Kept(c, s.held, X \cup {i})
  <2>1. Fits(c)  BY <1>3 DEF Base, Fits
  <2>2. \A j \in Slot : /\ c[j] # NULL <=> s.cache[j] # NULL
                        /\ c[j] # NULL => c[j].addr = s.cache[j].addr /\ c[j].packet = s.cache[j].packet
    BY <1>3
  <2>3. Unique(c, Slot)  BY <2>2 DEF Base, Unique
  <2>4. \A j \in Slot : Waits(c[j]) <=> Waits(s.cache[j])  BY <2>2 DEF Waits
  <2>5. \A j \in Slot : Waits(c[j]) => c[j].packet = s.cache[j].packet /\ c[j].addr = s.cache[j].addr
    BY <2>2 DEF Waits
  <2>6. \A j \in Slot : Waits(c[j]) => j \in X \cup {i} \/ c[j].state \in {"INCOMPLETE", "STALE"}
    BY <1>3, <2>4 DEF Base, Kept
  <2> QED  BY <2>1, <2>3, <2>4, <2>5, <2>6 DEF Base, Kept
<1> QED  BY <1>2, <1>5 DEF Base, c

(* A packet waits at an entry without a link address.                      *)
LEMMA EnqueueBase ==
  ASSUME NEW s, NEW X, Base(s, X), NEW i \in Slot, s.cache[i] # NULL, s.cache[i].state = "INCOMPLETE",
         NEW to \in Target, s.cache[i].addr = to \/ to = Far, NEW Y, Told(s.cache, s.sent, Y),
         NEW t, t = Enqueue(s, i, to)
  PROVE  /\ Base(t, X) /\ Told(t.cache, t.sent, Y) /\ t.sent = s.sent
         /\ t.cache[i] # NULL /\ t.cache[i].state = "INCOMPLETE" /\ t.cache[i].addr = s.cache[i].addr
         /\ t.cache[i].nscount = s.cache[i].nscount
         /\ \A j \in Slot \ {i} : t.cache[j] = s.cache[j]
<1> DEFINE free == {b \in Block : s.held[b] = NULL}
           b == CHOOSE x \in free : TRUE
           e == s.cache[i]
           f == [e EXCEPT !.packet = b]
           p == [to |-> to, hop |-> e.addr]
<1>1. CASE e.packet # NULL \/ free = {}
  BY <1>1 DEF Enqueue
<1>2. CASE ~ (e.packet # NULL \/ free = {})
  <2>1. s \in Tables /\ s.cache \in Cache /\ s.held \in Held /\ Kept(s.cache, s.held, X)
    BY Fields DEF Base
  <2>2. e \in Entry /\ e.addr \in Address /\ e.packet = NULL  BY <1>2, <2>1, EntryFields
  <2>3. b \in Block /\ s.held[b] = NULL /\ b # NULL  BY <1>2, NameAssumption
  <2>4. t = [s EXCEPT !.cache[i].packet = b, !.held[b] = p]  BY <1>2 DEF Enqueue
  <2> HIDE DEF b
  <2>5. /\ f \in Entry /\ f # NULL /\ f.addr = e.addr /\ f.state = e.state /\ f.nscount = e.nscount
        /\ f.lladdr = e.lladdr /\ f.packet = b
    BY <2>2, <2>3, NameAssumption DEF Entry
  <2>6. p \in Packet /\ p # NULL /\ p.to = to /\ p.hop = e.addr  BY <2>2, NameAssumption DEF Packet
  <2> DEFINE c == [s.cache EXCEPT ![i] = f]
             h == [s.held EXCEPT ![b] = p]
  <2>7. /\ t.cache = c /\ t.held = h /\ t.routers = s.routers /\ t.sent = s.sent
        /\ t \in [cache : {c}, held : {h}, routers : {s.routers}, sent : {s.sent}]
    BY <2>1, <2>4 DEF Tables
  <2> HIDE DEF f, p
  <2>8. /\ c \in Cache /\ c[i] = f /\ \A j \in Slot \ {i} : c[j] = s.cache[j]
        /\ h \in Held /\ h[b] = p /\ \A d \in Block \ {b} : h[d] = s.held[d]
    BY <2>1, <2>3, <2>5, <2>6 DEF Cache, Held
  <2> HIDE DEF c, h
  <2>9. t \in Tables  BY <2>1, <2>7, <2>8 DEF Tables
  <2>10. \A j \in Slot : /\ c[j] # NULL <=> s.cache[j] # NULL
                         /\ c[j] # NULL => /\ c[j].addr = s.cache[j].addr /\ c[j].state = s.cache[j].state
                                           /\ c[j].nscount = s.cache[j].nscount
                                           /\ c[j].lladdr = s.cache[j].lladdr
                                           /\ c[j].packet = IF j = i THEN b ELSE s.cache[j].packet
    BY <2>5, <2>8
  <2>11. Fits(c) /\ Unique(c, Slot)  BY <2>10 DEF Base, Fits, Fit, Linked, Unique, Limit
  <2>12. Routed(h)  BY <2>6, <2>8 DEF Base, Routed
  <2>13. Kept(c, h, X)
    <3>1. \A j \in Slot \ {i} : /\ Waits(c[j]) <=> Waits(s.cache[j])
                                /\ c[j].packet = s.cache[j].packet /\ c[j].addr = s.cache[j].addr
                                /\ c[j].state = s.cache[j].state
      BY <2>8
    <3>2. \A j \in Slot \ {i} : Waits(c[j]) => s.cache[j].packet # b /\ s.cache[j].packet \in Block
      BY <2>1, <2>3, <3>1, EntryFields DEF Kept, Waits
    <3>3. ASSUME NEW j \in Slot, Waits(c[j])
          PROVE  /\ h[c[j].packet] # NULL /\ h[c[j].packet].hop = c[j].addr
                 /\ j \in X \/ c[j].state \in {"INCOMPLETE", "STALE"}
      <4>1. CASE j = i  BY <2>5, <2>6, <2>8, <4>1
      <4>2. CASE j # i
        <5>1. h[c[j].packet] = s.held[s.cache[j].packet]  BY <2>8, <3>1, <3>2, <3>3, <4>2
        <5>2. Waits(s.cache[j])  BY <3>1, <3>3, <4>2
        <5>3. /\ s.held[s.cache[j].packet] # NULL /\ s.held[s.cache[j].packet].hop = s.cache[j].addr
              /\ j \in X \/ s.cache[j].state \in {"INCOMPLETE", "STALE"}
          BY <2>1, <5>2 DEF Kept
        <5> QED  BY <3>1, <4>2, <5>1, <5>3
      <4> QED  BY <4>1, <4>2
    <3>4. ASSUME NEW j \in Slot, NEW k \in Slot, Waits(c[j]), Waits(c[k]), c[j].packet = c[k].packet
          PROVE  j = k
      <4>1. CASE j = i \/ k = i  BY <2>5, <2>8, <3>1, <3>2, <3>4, <4>1
      <4>2. CASE j # i /\ k # i
        <5>1. Waits(s.cache[j]) /\ Waits(s.cache[k]) /\ s.cache[j].packet = s.cache[k].packet
          BY <3>1, <3>4, <4>2
        <5> QED  BY <2>1, <5>1 DEF Kept
      <4> QED  BY <4>1, <4>2
    <3>5. ASSUME NEW d \in Block, h[d] # NULL PROVE \E j \in Slot : Waits(c[j]) /\ c[j].packet = d
      <4>1. CASE d = b  BY <2>3, <2>5, <2>8, <4>1 DEF Waits
      <4>2. CASE d # b
        <5>1. PICK j \in Slot : Waits(s.cache[j]) /\ s.cache[j].packet = d
          BY <2>1, <2>8, <3>5, <4>2 DEF Kept
        <5>2. j # i  BY <2>2, <5>1 DEF Waits
        <5> QED  BY <3>1, <5>1, <5>2
      <4> QED  BY <4>1, <4>2
    <3> QED  BY <3>3, <3>4, <3>5 DEF Kept
  <2>14. Told(c, s.sent, Y)  BY <2>10 DEF Told, Grew, Wants
  <2> QED  BY <2>5, <2>7, <2>8, <2>9, <2>11, <2>12, <2>13, <2>14 DEF Base
<1> QED  BY <1>1, <1>2

(* A message leaves. *)
Post(s, m) == [s EXCEPT !.sent = Append(@, m)]

LEMMA PostBase ==
  ASSUME NEW s, NEW X, Base(s, X), NEW m \in Message, Sane(m), NEW t, t = Post(s, m)
  PROVE  /\ Base(t, X) /\ t.cache = s.cache /\ t.held = s.held /\ t.routers = s.routers
         /\ Range(t.sent) = Range(s.sent) \cup {m}
<1> DEFINE q == Append(s.sent, m)
<1>1. s \in Tables /\ s.sent \in Seq(Message)  BY Fields DEF Base
<1>3. /\ t.cache = s.cache /\ t.held = s.held /\ t.routers = s.routers /\ t.sent = q
      /\ t \in [cache : {s.cache}, held : {s.held}, routers : {s.routers}, sent : {q}]
  BY <1>1 DEF Post, Tables
<1>5. q \in Seq(Message) /\ Range(q) = Range(s.sent) \cup {m}
  <2>1. /\ q \in Seq(Message) /\ Len(q) = Len(s.sent) + 1 /\ q[Len(s.sent) + 1] = m
        /\ \A k \in 1 .. Len(s.sent) : q[k] = s.sent[k]
        /\ DOMAIN q = 1 .. Len(s.sent) + 1 /\ DOMAIN s.sent = 1 .. Len(s.sent) /\ Len(s.sent) \in Nat
    BY <1>1
  <2>2. \A k \in 1 .. Len(s.sent) + 1 : k \in 1 .. Len(s.sent) \/ k = Len(s.sent) + 1
    BY <2>1
  <2>3. \A k \in 1 .. Len(s.sent) : k \in 1 .. Len(s.sent) + 1  BY <2>1
  <2>4. Len(s.sent) + 1 \in 1 .. Len(s.sent) + 1  BY <2>1
  <2> HIDE DEF q
  <2>5. Range(q) \subseteq Range(s.sent) \cup {m}  BY <2>1, <2>2 DEF Range
  <2>6. Range(s.sent) \cup {m} \subseteq Range(q)
    <3>1. m \in Range(q)  BY <2>1, <2>4 DEF Range
    <3>2. Range(s.sent) \subseteq Range(q)  BY <2>1, <2>3 DEF Range
    <3> QED  BY <3>1, <3>2
  <2> QED  BY <2>1, <2>5, <2>6
<1> HIDE DEF q
<1>6. t \in Tables  BY <1>1, <1>3, <1>5 DEF Tables
<1>7. Base(t, X)  BY <1>3, <1>5, <1>6 DEF Base
<1> QED  BY <1>3, <1>5, <1>7

(* A solicitation is what is said of an entry that has been counted up.    *)
LEMMA PostTold ==
  ASSUME NEW s, NEW X, Base(s, X), NEW m \in Message, Sane(m), NEW t, t = Post(s, m),
         NEW Y, Told(s.cache, s.sent, Y)
  PROVE  /\ Told(t.cache, t.sent, Y)
         /\ \A i \in Slot : Y = {i} /\ SolicitFor(m, s.cache[i].addr) => Told(t.cache, t.sent, {})
<1>1. t.cache = s.cache /\ Range(t.sent) = Range(s.sent) \cup {m}
  BY PostBase
<1> QED  BY <1>1 DEF Told

LEMMA SendPosts ==
  ASSUME NEW s, NEW kind \in {"data", "NS"}, NEW to \in Target, NEW hop \in Address, NEW via,
         via = hop \/ via = Sender \/ (via = Multicast /\ kind = "NS"), hop = to \/ to = Far
  PROVE  \E m \in Message : /\ Sane(m) /\ Send(s, kind, to, hop, via) = Post(s, m)
                            /\ m.kind = kind /\ m.to = to
<1> DEFINE m == [kind |-> kind, to |-> to, hop |-> hop, via |-> via]
<1>1. Send(s, kind, to, hop, via) = Post(s, m)  BY DEF Send, Post
<1>2. hop # Multicast /\ Sender # Multicast  BY NameAssumption DEF Target
<1>3. m \in Message /\ Sane(m)  BY <1>2 DEF Message, Sane, LinkAddress
<1>4. m.kind = kind /\ m.to = to  OBVIOUS
<1> QED  BY <1>1, <1>3, <1>4

LEMMA IdleBase ==
  ASSUME NEW s, NEW X, Base(s, X), NEW i,
         i \in Slot => ~ Waits(s.cache[i]) \/ s.cache[i].state \in {"INCOMPLETE", "STALE"}
  PROVE  Base(s, X \ {i})
BY DEF Base, Kept

(* A packet for a resolved neighbour goes out, and the one that waits.     *)
LEMMA TransmitGood ==
  ASSUME NEW s, Base(s, {}), NEW i \in Slot, s.cache[i] # NULL, s.cache[i].state # "INCOMPLETE",
         NEW Y \in SUBSET {i},
         Told(s.cache, s.sent, Y), NEW kind \in {"data", "NS"}, NEW to \in Target,
         s.cache[i].addr = to \/ to = Far,
         Y # {} => kind = "NS" /\ to = s.cache[i].addr, NEW t, t = Transmit(s, i, kind, to)
  PROVE  Good(t)
<1> DEFINE e == s.cache[i]
           f == Turned(e, "DELAY")
           up == IF e.state = "STALE" THEN Put(s, i, f) ELSE s
           out == Send(up, kind, to, e.addr, e.lladdr)
           u == PacketFree(out, i)
           p == s.held[e.packet]
           last == Send(u, "data", p.to, p.hop, e.lladdr)
<1>1. t = IF e.packet = NULL THEN out ELSE last  BY DEF Transmit, Put
<1>2. /\ s \in Tables /\ s.cache \in Cache /\ s.held \in Held /\ Kept(s.cache, s.held, {})
      /\ Routed(s.held) /\ Fits(s.cache)
  BY Fields DEF Base
<1>3. e \in Entry /\ e.addr \in Address /\ e.packet \in Block \cup {NULL}  BY <1>2, EntryFields
<1>9. Linked(e) /\ (e.lladdr = e.addr \/ e.lladdr = Sender)  BY <1>2 DEF Fits, Fit, Linked
<1>4. /\ Base(up, {i}) /\ Told(up.cache, up.sent, Y) /\ up.cache[i] # NULL
      /\ up.cache[i].addr = e.addr /\ up.cache[i].packet = e.packet
  <2>1. CASE e.state # "STALE"
    <3>1. up = s  BY <2>1
    <3>2. Base(s, {i})  BY DEF Base, Kept
    <3> HIDE DEF up
    <3> QED  BY <3>1, <3>2
  <2>2. CASE e.state = "STALE"
    <3>1. /\ f \in Entry /\ f.addr = e.addr /\ f.packet = e.packet /\ f.state = "DELAY"
          /\ Fit(f) /\ f # NULL
      BY <1>3, <1>9, <2>2, TurnedFields, NameAssumption DEF Fit, Linked
    <3>2. up = Put(s, i, f)  BY <2>2
    <3> HIDE DEF f, up
    <3>3. /\ up \in Tables /\ up.sent = s.sent
          /\ up.cache[i] = f /\ \A j \in Slot \ {i} : up.cache[j] = s.cache[j]
      BY <1>2, <3>1, <3>2, PutFields
    <3>4. Base(up, {} \cup {i})  BY <3>1, <3>2, ChangeBase
    <3>5. {} \cup {i} = {i}  OBVIOUS
    <3>6. ~ Wants(f)  BY <3>1 DEF Wants
    <3>7. \A j \in Slot : Grew(j, up.cache[j]) => j # i /\ up.cache[j] = s.cache[j]
      BY <3>3, <3>6 DEF Grew
    <3>8. Told(up.cache, up.sent, Y)  BY <3>3, <3>7 DEF Told
    <3> QED  BY <3>1, <3>3, <3>4, <3>5, <3>8
  <2> QED  BY <2>1, <2>2
<1> HIDE DEF up
<1>5. /\ Base(out, {i}) /\ out.cache = up.cache
      /\ Told(out.cache, out.sent, Y)
      /\ Y = {i} => Told(out.cache, out.sent, {})
  <2>0. e.addr = to \/ to = Far  OBVIOUS
  <2>1. PICK m \in Message : Sane(m) /\ out = Post(up, m) /\ m.kind = kind /\ m.to = to
    <3>1. PICK a, l : a = e.addr /\ l = e.lladdr  OBVIOUS
    <3>2. a \in Address /\ (l = a \/ l = Sender \/ (l = Multicast /\ kind = "NS")) /\ (a = to \/ to = Far)
      BY <1>3, <1>9, <2>0, <3>1
    <3>3. \E m \in Message : Sane(m) /\ Send(up, kind, to, a, l) = Post(up, m) /\ m.kind = kind /\ m.to = to
      BY ONLY <3>2, kind \in {"data", "NS"}, to \in Target, SendPosts
    <3>4. out = Send(up, kind, to, a, l)  BY <3>1
    <3> HIDE DEF out
    <3> QED  BY <3>3, <3>4
  <2> HIDE DEF out, e
  <2>2. Base(out, {i}) /\ out.cache = up.cache  BY <1>4, <2>1, PostBase
  <2>3. /\ Told(out.cache, out.sent, Y)
        /\ \A j \in Slot : Y = {j} /\ SolicitFor(m, up.cache[j].addr) => Told(out.cache, out.sent, {})
    BY <1>4, <2>1, PostTold
  <2>4. Y = {i} => SolicitFor(m, up.cache[i].addr)  BY <1>4, <2>1 DEF SolicitFor, e
  <2> QED  BY <2>2, <2>3, <2>4
<1>6. Told(out.cache, out.sent, {})
  <2>1. CASE Y = {}  BY <1>4, <1>5, <2>1
  <2>2. CASE Y # {}
    <3>1. Y = {i}  BY <2>2
    <3> QED  BY <1>5, <3>1
  <2> QED  BY <2>1, <2>2
<1> HIDE DEF out
<1>7. CASE e.packet = NULL
  <2>1. ~ Waits(out.cache[i])  BY <1>4, <1>5, <1>7 DEF Waits
  <2>2. Base(out, {i} \ {i}) /\ {i} \ {i} = {}  BY <1>5, <2>1, IdleBase
  <2> QED  BY <1>1, <1>6, <1>7, <2>2 DEF Good
<1>8. CASE e.packet # NULL
  <2>1. out.cache[i] # NULL /\ u = PacketFree(out, i)  BY <1>4, <1>5
  <2> HIDE DEF u
  <2>2. Base(u, {i} \ {i}) /\ Told(u.cache, u.sent, {}) /\ {i} \ {i} = {}
    BY <1>5, <1>6, <2>1, FreeBase
  <2>3. p # NULL /\ p.hop = e.addr  BY <1>2, <1>8 DEF Kept, Waits
  <2>4. p \in Packet /\ (p.hop = p.to \/ p.to = Far)  BY <1>2, <1>3, <1>8, <2>3 DEF Held, Routed
  <2>5. p.to \in Target /\ p.hop \in Address  BY <2>4 DEF Packet
  <2> HIDE DEF p, e
  <2>6. PICK m \in Message : Sane(m) /\ last = Post(u, m)
    <3>1. PICK to2, a, l : to2 = p.to /\ a = p.hop /\ l = e.lladdr  OBVIOUS
    <3>2. /\ to2 \in Target /\ a \in Address /\ (a = to2 \/ to2 = Far)
          /\ (l = a \/ l = Sender \/ (l = Multicast /\ "data" = "NS"))
      BY <1>9, <2>3, <2>4, <2>5, <3>1
    <3>3. \E m \in Message : Sane(m) /\ Send(u, "data", to2, a, l) = Post(u, m)
      BY ONLY <3>2, "data" \in {"data", "NS"}, SendPosts
    <3>4. last = Send(u, "data", to2, a, l)  BY <3>1
    <3> HIDE DEF last
    <3> QED  BY <3>3, <3>4
  <2>7. Base(last, {}) /\ Told(last.cache, last.sent, {})
    <3> HIDE DEF last
    <3> QED  BY <2>2, <2>6, PostBase, PostTold
  <2> QED  BY <1>1, <1>8, <2>7 DEF Good
<1> QED  BY <1>7, <1>8

(* A new entry, in a free slot or in one that is given up for it.          *)
LEMMA RemoveGood ==
  ASSUME NEW s, Good(s), NEW i \in Slot, s.cache[i] # NULL, NEW t, t = NbrRm(s, i)
  PROVE  Good(t) /\ t.cache[i] = NULL /\ t.routers = s.routers
         /\ \A j \in Slot \ {i} : t.cache[j] = s.cache[j]
<1> DEFINE u == PacketFree(s, i)
<1>1. Base(s, {}) /\ Told(s.cache, s.sent, {}) /\ s \in Tables  BY DEF Good, Base
<1>2. t = Put(u, i, NULL)  BY DEF NbrRm, Put
<1>3. PICK v : v = u  OBVIOUS
<1>4. {} \ {i} = {}  OBVIOUS
<1> HIDE DEF u
<1>5. v = PacketFree(s, i)  BY <1>3 DEF u
<1>6. Base(v, {}) /\ Told(v.cache, v.sent, {})
  <2>1. Base(v, {} \ {i}) /\ Told(v.cache, v.sent, {})  BY <1>1, <1>5, FreeBase
  <2> QED  BY <1>4, <2>1
<1>7. v \in Tables /\ v.routers = s.routers /\ v.cache[i] # NULL /\ v.cache[i].packet = NULL
      /\ \A j \in Slot \ {i} : v.cache[j] = s.cache[j]
  BY <1>1, <1>5, FreeFields
<1>8. t = Put(v, i, NULL)  BY <1>2, <1>3
<1>9. /\ t \in Tables /\ t.held = v.held /\ t.routers = v.routers /\ t.sent = v.sent
      /\ t.cache[i] = NULL /\ \A j \in Slot \ {i} : t.cache[j] = v.cache[j]
  BY <1>7, <1>8, PutFields
<1>10. Fits(t.cache) /\ Unique(t.cache, Slot)  BY <1>6, <1>9 DEF Base, Fits, Unique
<1>11. Kept(t.cache, t.held, {})
  <2>1. \A j \in Slot : Waits(t.cache[j]) => j # i /\ t.cache[j] = v.cache[j]  BY <1>9 DEF Waits
  <2>2. \A j \in Slot : Waits(v.cache[j]) => j # i /\ Waits(t.cache[j]) /\ t.cache[j] = v.cache[j]
    BY <1>7, <1>9 DEF Waits
  <2>3. Kept(v.cache, v.held, {}) /\ t.held = v.held  BY <1>6, <1>9 DEF Base
  <2> QED  BY <2>1, <2>2, <2>3 DEF Kept
<1>12. Told(t.cache, t.sent, {})  BY <1>6, <1>9 DEF Told, Grew, Wants
<1>13. Base(t, {})  BY <1>6, <1>9, <1>10, <1>11 DEF Base
<1> QED  BY <1>7, <1>9, <1>12, <1>13 DEF Good

LEMMA PlaceGood ==
  ASSUME NEW s, Good(s), NEW i \in Slot, s.cache[i] = NULL, NEW e \in Entry,
         e.packet = NULL, e.nscount = 0, Linked(e), \A j \in Slot : s.cache[j] # NULL => s.cache[j].addr # e.addr,
         cache \in Cache, NEW t, t = Put(s, i, e)
  PROVE  Good(t) /\ t.cache[i] = e /\ t.routers = s.routers
<1>1. Base(s, {}) /\ Told(s.cache, s.sent, {}) /\ s \in Tables  BY DEF Good, Base
<1>2. /\ t \in Tables /\ t.held = s.held /\ t.routers = s.routers /\ t.sent = s.sent
      /\ t.cache[i] = e /\ \A j \in Slot \ {i} : t.cache[j] = s.cache[j]
  BY <1>1, PutFields
<1>3. Fit(e)  BY NumbersType DEF Fit, Limit
<1>4. Fits(t.cache) /\ Unique(t.cache, Slot)  BY <1>1, <1>2, <1>3 DEF Base, Fits, Unique
<1>5. ~ Waits(t.cache[i]) /\ ~ Waits(s.cache[i])  BY <1>2 DEF Waits
<1>6. \A j \in Slot : Waits(t.cache[j]) <=> Waits(s.cache[j])  BY <1>2, <1>5
<1>7. \A j \in Slot : Waits(t.cache[j]) => t.cache[j] = s.cache[j]  BY <1>2, <1>5
<1>8. Kept(t.cache, s.held, {})  BY <1>1, <1>6, <1>7 DEF Base, Kept
<1>9. ~ Grew(i, e)
  <2>1. Asked(i) => cache[i].nscount \in Nat  BY EntryFields DEF Asked
  <2> QED  BY <2>1 DEF Grew
<1>10. Told(t.cache, t.sent, {})  BY <1>1, <1>2, <1>9 DEF Told
<1> QED  BY <1>1, <1>2, <1>4, <1>8, <1>10 DEF Base, Good

LEMMA AddGood ==
  ASSUME NEW s, Good(s), NEW e \in Entry, e.packet = NULL, e.nscount = 0, Linked(e),
         \A j \in Slot : s.cache[j] # NULL => s.cache[j].addr # e.addr,
         cache \in Cache, NEW r \in NbrAdd(s, e)
  PROVE  Good(r[1]) /\ r[2] \in Slot \cup {NULL} /\ r[1].routers = s.routers
         /\ (r[2] # NULL => r[1].cache[r[2]] = e)
<1> DEFINE free == {i \in Slot : s.cache[i] = NULL}
<1>1. CASE free # {}
  <2>1. free \subseteq 1 .. NbrNB  BY DEF Slot
  <2>2. Max(free) \in free  BY <1>1, <2>1, NumbersType, Extremes
  <2>3. PICK i \in Slot : i = Max(free) /\ s.cache[i] = NULL  BY <2>2
  <2>4. r[1] = [s EXCEPT !.cache[Max(free)] = e] /\ r[2] = Max(free)  BY <1>1 DEF NbrAdd
  <2>5. r[1] = Put(s, i, e) /\ r[2] = i  BY <2>3, <2>4 DEF Put
  <2>6. Good(r[1]) /\ r[1].cache[i] = e /\ r[1].routers = s.routers
    <3> HIDE DEF free
    <3>1. s.cache[i] = NULL /\ r[1] = Put(s, i, e)  BY <2>3, <2>5
    <3> QED  BY <3>1, PlaceGood
  <2> QED  BY <2>5, <2>6
<1>2. CASE free = {}
  <2>1. r = <<s, NULL>> \/ \E i \in Slot : r = <<[NbrRm(s, i) EXCEPT !.cache[i] = e], i>>
    BY <1>2 DEF NbrAdd
  <2>2. CASE r = <<s, NULL>>  BY <2>2
  <2>3. CASE r # <<s, NULL>>
    <3>1. PICK i \in Slot : r = <<[NbrRm(s, i) EXCEPT !.cache[i] = e], i>>  BY <2>1, <2>3
    <3>2. s.cache[i] # NULL  BY <1>2
    <3>3. PICK v : v = NbrRm(s, i)  OBVIOUS
    <3>4. Good(v) /\ v.cache[i] = NULL /\ v.routers = s.routers
          /\ \A j \in Slot \ {i} : v.cache[j] = s.cache[j]
      BY <3>2, <3>3, RemoveGood
    <3>5. r[1] = Put(v, i, e) /\ r[2] = i  BY <3>1, <3>3 DEF Put
    <3>6. \A j \in Slot : v.cache[j] # NULL => v.cache[j].addr # e.addr  BY <3>4
    <3>7. Good(r[1]) /\ r[1].cache[i] = e /\ r[1].routers = v.routers
      BY <3>4, <3>5, <3>6, PlaceGood
    <3> QED  BY <3>4, <3>5, <3>7
  <2> QED  BY <2>2, <2>3
<1> QED  BY <1>1, <1>2

(* An unknown neighbour: the packet waits and it is asked for.             *)
LEMMA SolicitGood ==
  ASSUME NEW s, Good(s), NEW i \in Slot, s.cache[i] # NULL, s.cache[i].state = "INCOMPLETE",
         NEW to \in Target, s.cache[i].addr = to \/ to = Far, NEW t, t = Solicit(s, i, to)
  PROVE  Good(t)
<1> DEFINE a == s.cache[i].addr
<1>1. Base(s, {}) /\ Told(s.cache, s.sent, {}) /\ s \in Tables /\ s.cache \in Cache
  BY Fields DEF Good, Base
<1>2. PICK v : v = Enqueue(s, i, to)  OBVIOUS
<1>3. /\ Base(v, {}) /\ Told(v.cache, v.sent, {})
      /\ v.cache[i] # NULL /\ v.cache[i].state = "INCOMPLETE" /\ v.cache[i].addr = a
  <2> HIDE DEF a
  <2>1. /\ Base(v, {}) /\ Told(v.cache, v.sent, {})
        /\ v.cache[i] # NULL /\ v.cache[i].state = "INCOMPLETE" /\ v.cache[i].addr = s.cache[i].addr
    <3>1. Base(s, {}) /\ Told(s.cache, s.sent, {})  BY <1>1
    <3>2. v = Enqueue(s, i, to)  BY <1>2
    <3>3. (s.cache[i].addr = to \/ to = Far) /\ i \in Slot /\ to \in Target /\ s.cache[i].state = "INCOMPLETE" /\ s.cache[i] # NULL  OBVIOUS
    <3> QED  BY ONLY <3>1, <3>2, <3>3, EnqueueBase, SMTT(30)
  <2> QED  BY <2>1 DEF a
<1>4. v \in Tables /\ v.cache \in Cache  BY <1>3, Fields DEF Base
<1>5. v.cache[i] \in Entry /\ v.cache[i].lladdr = Unset
  BY <1>3, <1>4, EntryFields DEF Base, Fits, Fit, Linked
<1>6. PICK g : g = [v.cache[i] EXCEPT !.nscount = 1]  OBVIOUS
<1>7. /\ g \in Entry /\ g.addr = a /\ g.packet = v.cache[i].packet /\ g.state = "INCOMPLETE"
      /\ g.nscount = 1 /\ g.lladdr = Unset
  BY <1>3, <1>5, <1>6 DEF Entry
<1>8. Fit(g)  BY <1>7, NumbersType DEF Fit, Linked, Limit
<1>9. PICK u : u = Put(v, i, g)  OBVIOUS
<1>10. t = Send(u, "NS", a, a, Multicast)
  <2>1. u = [v EXCEPT !.cache[i].nscount = 1]  BY <1>6, <1>9 DEF Put
  <2> QED  BY <1>2, <2>1 DEF Solicit
<1>11. Base(u, {} \cup {i})  BY <1>3, <1>7, <1>8, <1>9, ChangeBase
<1>12. u.cache[i] = g /\ u.sent = v.sent /\ \A j \in Slot \ {i} : u.cache[j] = v.cache[j]
  BY <1>4, <1>7, <1>9, PutFields
<1>13. Base(u, {})
  <2>1. {i} \ {i} = {} /\ {} \cup {i} = {i}  OBVIOUS
  <2>2. u.cache[i].state \in {"INCOMPLETE", "STALE"}  BY <1>7, <1>12
  <2>3. Base(u, {i} \ {i})  BY <1>11, <2>1, <2>2, IdleBase
  <2> QED  BY <2>1, <2>3
<1>14. Told(u.cache, u.sent, {i})  BY <1>3, <1>12 DEF Told
<1>15. a \in Address /\ a \in Target  BY <1>5, <1>3, EntryFields, <1>4 DEF Target
<1> HIDE DEF a
<1>16. PICK m \in Message : Sane(m) /\ t = Post(u, m) /\ m.kind = "NS" /\ m.to = a
  BY <1>10, <1>15, SendPosts
<1>17. Base(t, {})  BY <1>13, <1>16, PostBase
<1>18. SolicitFor(m, u.cache[i].addr)  BY <1>7, <1>12, <1>16 DEF SolicitFor
<1>19. Told(t.cache, t.sent, {})  BY <1>13, <1>14, <1>16, <1>18, PostTold
<1> QED  BY <1>17, <1>19 DEF Good

-----------------------------------------------------------------------------
(* tcpip_ipv6_output, and the release of a packet that waits.              *)
LEMMA OutputGood ==
  ASSUME NEW s, Good(s), cache \in Cache, NEW kind \in {"data", "NS"}, NEW to \in Target,
         NEW t, t \in Output(s, kind, to)
  PROVE  Good(t)
<1>1. Base(s, {}) /\ Told(s.cache, s.sent, {}) /\ s.cache \in Cache /\ s.routers \in Routers
  BY Fields DEF Good, Base
<1>2. PICK hop : hop = NextHop(s, to)  OBVIOUS
<1>3. PICK i : i = NbrLookup(s.cache, hop)  OBVIOUS
<1>4. hop # NULL => hop \in Address /\ (hop = to \/ to = Far)  BY <1>1, <1>2, NextHopCorrect
<1>5. /\ i = NULL => \A j \in Slot : s.cache[j] # NULL => s.cache[j].addr # hop
      /\ i # NULL => i \in Slot /\ s.cache[i] # NULL /\ s.cache[i].addr = hop
  BY <1>1, <1>3, LookupCorrect
<1>6. CASE hop = NULL
  <2>1. t = s  BY <1>2, <1>6 DEF Output
  <2> QED  BY <2>1
<1>7. CASE hop # NULL /\ i = NULL
  <2>1. PICK e : e = NewEntry(hop, Unset, "INCOMPLETE", FALSE)  OBVIOUS
  <2>2. e \in Entry /\ e.packet = NULL /\ e.nscount = 0 /\ e.addr = hop /\ e.state = "INCOMPLETE"
        /\ e # NULL /\ Linked(e)
    <3>1. /\ e = [addr |-> hop, lladdr |-> Unset, state |-> "INCOMPLETE", nscount |-> 0, isrouter |-> FALSE,
                  packet |-> NULL]
          /\ hop \in Address
      BY <1>4, <1>7, <2>1 DEF NewEntry
    <3>2. e \in Entry  BY <3>1 DEF Entry, LinkAddress
    <3> QED  BY <3>1, <3>2, NameAssumption DEF Linked
  <2>3. PICK r \in NbrAdd(s, e) : t = IF r[2] = NULL THEN r[1] ELSE Solicit(r[1], r[2], to)
    BY <1>2, <1>3, <1>7, <2>1 DEF Output
  <2>4. Good(r[1]) /\ r[2] \in Slot \cup {NULL} /\ (r[2] # NULL => r[1].cache[r[2]] = e)
    <3>1. \A j \in Slot : s.cache[j] # NULL => s.cache[j].addr # e.addr  BY <1>5, <1>7, <2>2
    <3>2. r \in NbrAdd(s, e)  BY <2>3
    <3> QED  BY ONLY Good(s), cache \in Cache, <2>2, <3>1, <3>2, AddGood
  <2>5. CASE r[2] = NULL  BY <2>3, <2>4, <2>5
  <2>6. CASE r[2] # NULL
    <3>1. PICK u, j : u = r[1] /\ j = r[2]  OBVIOUS
    <3>2. j \in Slot /\ u.cache[j] = e /\ Good(u) /\ t = Solicit(u, j, to)
      BY <2>3, <2>4, <2>6, <3>1
    <3>3. u.cache[j] # NULL /\ u.cache[j].state = "INCOMPLETE" /\ (u.cache[j].addr = to \/ to = Far)
      BY <1>4, <1>7, <2>2, <3>2
    <3> QED  BY ONLY <3>2, <3>3, to \in Target, SolicitGood
  <2> QED  BY <2>5, <2>6
<1>8. CASE hop # NULL /\ i # NULL
  <2>1. i \in Slot /\ s.cache[i] # NULL /\ (s.cache[i].addr = to \/ to = Far)
    BY <1>4, <1>5, <1>8
  <2>2. CASE s.cache[i].state = "INCOMPLETE"
    <3>1. t = Enqueue(s, i, to)  BY <1>2, <1>3, <1>8, <2>2 DEF Output
    <3>2. Base(t, {}) /\ Told(t.cache, t.sent, {})
      <4>1. Base(s, {}) /\ Told(s.cache, s.sent, {})  BY <1>1
      <4> QED  BY ONLY <2>1, <2>2, <3>1, <4>1, to \in Target, EnqueueBase
    <3> QED  BY <3>2 DEF Good
  <2>3. CASE s.cache[i].state # "INCOMPLETE"
    <3>1. t = Transmit(s, i, kind, to)  BY <1>2, <1>3, <1>8, <2>3 DEF Output
    <3>2. {} \in SUBSET {i} /\ Base(s, {}) /\ Told(s.cache, s.sent, {})  BY <1>1
    <3>3. {} # {} => kind = "NS" /\ to = s.cache[i].addr  OBVIOUS
    <3> QED  BY ONLY <2>1, <2>3, <3>1, <3>2, <3>3, kind \in {"data", "NS"}, to \in Target, TransmitGood
  <2> QED  BY <2>2, <2>3
<1> QED  BY <1>6, <1>7, <1>8

LEMMA ReleaseGood ==
  ASSUME NEW s, NEW i \in Slot \cup {NULL}, Base(s, {i}), Told(s.cache, s.sent, {}), cache \in Cache,
         NEW t \in Release(s, i)
  PROVE  Good(t)
<1>1. s \in Tables /\ s.cache \in Cache /\ s.held \in Held /\ Kept(s.cache, s.held, {i})
  BY Fields DEF Base
<1>2. {i} \ {i} = {}  OBVIOUS
<1>3. CASE i = NULL \/ s.cache[i] = NULL \/ s.cache[i].packet = NULL
  <2>1. t = s  BY <1>3 DEF Release
  <2>2. i \in Slot => ~ Waits(s.cache[i])  BY <1>3, NameAssumption DEF Waits
  <2>3. Base(s, {i} \ {i})  BY <2>2, IdleBase
  <2> QED  BY <1>2, <2>1, <2>3 DEF Good
<1>4. CASE ~ (i = NULL \/ s.cache[i] = NULL \/ s.cache[i].packet = NULL)
  <2>1. i \in Slot /\ s.cache[i] # NULL /\ Waits(s.cache[i])  BY <1>4 DEF Waits
  <2>2. PICK u, to : u = PacketFree(s, i) /\ to = s.held[s.cache[i].packet].to  OBVIOUS
  <2>3. t \in Output(u, "data", to)  BY <1>4, <2>2 DEF Release
  <2>4. Base(u, {i} \ {i}) /\ Told(u.cache, u.sent, {})
    <3>1. Base(s, {i}) /\ Told(s.cache, s.sent, {}) /\ u = PacketFree(s, i)  BY <2>2
    <3> QED  BY ONLY <2>1, <3>1, FreeBase
  <2>5. Good(u)  BY <1>2, <2>4 DEF Good
  <2>6. to \in Target
    <3>1. s.cache[i].packet \in Block  BY <1>1, <1>4, <2>1, EntryFields
    <3>2. s.held[s.cache[i].packet] # NULL  BY <1>1, <2>1 DEF Kept
    <3>3. s.held[s.cache[i].packet] \in Packet  BY <1>1, <3>1, <3>2 DEF Held
    <3> QED  BY <2>2, <3>3 DEF Packet
  <2>7. "data" \in {"data", "NS"}  OBVIOUS
  <2> QED  BY <2>3, <2>5, <2>6, <2>7, OutputGood
<1> QED  BY <1>3, <1>4

(* The list of default routers. *)
LEMMA RoutersBase ==
  ASSUME NEW s, NEW X, Base(s, X), NEW t, NEW rs \in Routers, t = [s EXCEPT !.routers = rs],
         Unique(rs, RouterSlot)
  PROVE  Base(t, X) /\ t.cache = s.cache /\ t.held = s.held /\ t.routers = rs /\ t.sent = s.sent
<1>1. s \in Tables  BY DEF Base
<1>2. t.cache = s.cache /\ t.held = s.held /\ t.routers = rs /\ t.sent = s.sent /\ t \in Tables
  BY <1>1 DEF Tables
<1> QED  BY <1>2 DEF Base

LEMMA DefrtRmBase ==
  ASSUME NEW s, NEW X, Base(s, X), NEW R, NEW t, t = DefrtRm(s, R)
  PROVE  Base(t, X) /\ t.cache = s.cache /\ t.held = s.held /\ t.sent = s.sent
         /\ \A i \in RouterSlot : t.routers[i] = IF i \in R THEN NULL ELSE s.routers[i]
<1> DEFINE rs == [i \in RouterSlot |-> IF i \in R THEN NULL ELSE s.routers[i]]
<1>1. s.routers \in Routers /\ Unique(s.routers, RouterSlot) /\ s \in Tables  BY Fields DEF Base
<1>2. rs \in Routers  BY <1>1 DEF Routers
<1>3. Unique(rs, RouterSlot)  BY <1>1 DEF Unique
<1>4. t = [s EXCEPT !.routers = rs]  BY DEF DefrtRm
<1>5. \A i \in RouterSlot : rs[i] = IF i \in R THEN NULL ELSE s.routers[i]  OBVIOUS
<1> HIDE DEF rs
<1>6. Base(t, X) /\ t.cache = s.cache /\ t.held = s.held /\ t.routers = rs /\ t.sent = s.sent
  BY <1>2, <1>3, <1>4, RoutersBase
<1> QED  BY <1>5, <1>6

LEMMA DefrtAddBase ==
  ASSUME NEW s, NEW X, Base(s, X), NEW a \in Nbr, NEW b \in BOOLEAN, NEW t, t = DefrtAdd(s, a, b)
  PROVE  Base(t, X) /\ t.cache = s.cache /\ t.held = s.held /\ t.sent = s.sent
         /\ (t # s => Max(FreeRouter(s)) \in RouterSlot)
<1>1. s.routers \in Routers /\ Unique(s.routers, RouterSlot)  BY Fields DEF Base
<1>2. CASE RouterSlotOf(s, a) # {} \/ FreeRouter(s) = {}
  BY <1>2 DEF DefrtAdd
<1>3. CASE ~ (RouterSlotOf(s, a) # {} \/ FreeRouter(s) = {})
  <2>1. FreeRouter(s) \subseteq 1 .. DefrtNB  BY DEF FreeRouter, RouterSlot
  <2>2. Max(FreeRouter(s)) \in FreeRouter(s)  BY <1>3, <2>1, NumbersType, Extremes
  <2>3. PICK k \in RouterSlot : k = Max(FreeRouter(s))  BY <2>2 DEF FreeRouter
  <2> DEFINE r == [addr |-> a, infinite |-> b]
             rs == [s.routers EXCEPT ![k] = r]
  <2>4. t = [s EXCEPT !.routers = rs]  BY <1>3, <2>3 DEF DefrtAdd
  <2>5. r \in Router /\ r.addr = a  BY DEF Router
  <2>6. \A i \in RouterSlot : s.routers[i] # NULL => s.routers[i].addr # a
    BY <1>3 DEF RouterSlotOf
  <2> HIDE DEF r
  <2>7. rs \in Routers /\ \A i \in RouterSlot : rs[i] = IF i = k THEN r ELSE s.routers[i]
    BY <1>1, <2>5 DEF Routers
  <2> HIDE DEF rs
  <2>8. Unique(rs, RouterSlot)  BY <1>1, <2>5, <2>6, <2>7 DEF Unique
  <2> QED  BY <2>3, <2>4, <2>7, <2>8, RoutersBase
<1> QED  BY <1>2, <1>3

-----------------------------------------------------------------------------
(* The handlers.  Each makes a good record of the next state.              *)
LEMMA WidenBase ==
  ASSUME NEW s, Base(s, {}), NEW X
  PROVE  Base(s, X)
BY DEF Base, Kept

LEMMA SGood ==
  ASSUME IInv
  PROVE  Good(S) /\ cache \in Cache /\ S.cache = cache /\ S.held = held /\ S.routers = routers
         /\ S.sent = <<>>
<1>1. S.cache = cache /\ S.held = held /\ S.routers = routers /\ S.sent = <<>>  BY DEF S
<1>2. Base(S, {}) /\ cache \in Cache  BY <1>1, Fields DEF IInv, Base
<1>3. \A i \in Slot : ~ Grew(i, cache[i])
  <2>1. \A i \in Slot : cache[i] # NULL => cache[i].nscount \in Nat  BY <1>2, EntryFields
  <2> QED  BY <2>1 DEF Grew, Wants, Asked
<1>4. Told(S.cache, S.sent, {})  BY <1>1, <1>3 DEF Told
<1> QED  BY <1>1, <1>2, <1>4 DEF Good

Outcome == \E s : Good(s) /\ Become(s)

LEMMA OutcomeCorrect ==
  ASSUME Outcome
  PROVE  /\ Base(S', {}) /\ sent' \in Seq(Message) /\ \A p \in Range(sent') : Sane(p)
         /\ Told(cache', sent', {})
<1>1. PICK s : Good(s) /\ Become(s)  BY DEF Outcome
<1>2. Base(s, {}) /\ Told(s.cache, s.sent, {}) /\ s \in Tables  BY <1>1 DEF Good, Base
<1>3. cache' = s.cache /\ held' = s.held /\ routers' = s.routers /\ sent' = s.sent
  BY <1>1 DEF Become
<1>4. sent' \in Seq(Message) /\ \A p \in Range(sent') : Sane(p)
  BY <1>2, <1>3, Fields DEF Base
<1>5. PICK t : t = S'  OBVIOUS
<1>6. /\ t.cache = s.cache /\ t.held = s.held /\ t.routers = s.routers /\ t.sent = <<>>
      /\ t = [cache |-> s.cache, held |-> s.held, routers |-> s.routers, sent |-> <<>>]
  BY <1>3, <1>5 DEF S
<1>7. t \in Tables
  <2>1. s.cache \in Cache /\ s.held \in Held /\ s.routers \in Routers /\ <<>> \in Seq(Message)
    BY <1>2, Fields
  <2> QED  BY <1>6, <2>1 DEF Tables
<1>8. Range(t.sent) = {}  BY <1>6 DEF Range
<1>9. Base(t, {})  BY <1>2, <1>6, <1>7, <1>8 DEF Base
<1> QED  BY <1>2, <1>3, <1>4, <1>5, <1>9

(* An entry that is changed and is not asked for, or is asked for as       *)
(* before.                                                                 *)
Follows(e, f) ==
  /\ e.addr = f.addr /\ e.packet = f.packet /\ Fit(e)
  /\ Wants(e) => e.state = f.state /\ e.nscount = f.nscount

LEMMA RestBase ==
  ASSUME NEW s, Good(s), NEW i \in Slot, s.cache[i] # NULL, NEW e \in Entry,
         Follows(e, s.cache[i]), NEW t, t = Put(s, i, e)
  PROVE  /\ Base(t, {i}) /\ Told(t.cache, t.sent, {}) /\ t.routers = s.routers
         /\ t.cache[i] = e
         /\ e.state \in {"INCOMPLETE", "STALE"} => Good(t)
<1>1. Base(s, {}) /\ Told(s.cache, s.sent, {}) /\ s \in Tables  BY DEF Good, Base
<1>2. Base(t, {i})
  <2>1. e.addr = s.cache[i].addr /\ e.packet = s.cache[i].packet /\ Fit(e)
    BY DEF Follows
  <2>2. Base(t, {} \cup {i})  BY <1>1, <2>1, ChangeBase
  <2>3. {} \cup {i} = {i}  OBVIOUS
  <2> QED  BY <2>2, <2>3
<1>3. t.cache[i] = e /\ t.sent = s.sent /\ t.routers = s.routers
      /\ \A j \in Slot \ {i} : t.cache[j] = s.cache[j]
  BY <1>1, PutFields
<1>4. e.addr = s.cache[i].addr /\ (Grew(i, e) => Grew(i, s.cache[i]))  BY DEF Grew, Wants, Follows
<1>5. Told(t.cache, t.sent, {})
  <2>1. \A j \in Slot : Grew(j, t.cache[j]) => Grew(j, s.cache[j])  BY <1>3, <1>4
  <2>2. \A j \in Slot : Grew(j, t.cache[j]) => t.cache[j].addr = s.cache[j].addr  BY <1>3, <1>4
  <2> QED  BY <1>1, <1>3, <2>1, <2>2 DEF Told
<1>6. ASSUME e.state \in {"INCOMPLETE", "STALE"} PROVE Base(t, {})
  <2>1. Base(t, {i} \ {i})  BY <1>2, <1>3, <1>6, IdleBase
  <2>2. {i} \ {i} = {}  OBVIOUS
  <2> QED  BY <2>1, <2>2
<1> QED  BY <1>2, <1>3, <1>5, <1>6 DEF Good

LEMMA OwnPacketOk == ASSUME IInv, OwnPacket PROVE Outcome
<1>1. PICK to \in Target : \E s \in Output(S, "data", to) : Become(s)  BY DEF OwnPacket
<1>0. PICK s \in Output(S, "data", to) : Become(s)  BY <1>1
<1>2. Good(S) /\ cache \in Cache /\ "data" \in {"data", "NS"}  BY SGood
<1>3. Good(s)  BY <1>2, OutputGood
<1> QED  BY <1>0, <1>3 DEF Outcome

(* The sender's entry has another link address. *)
LEMMA LearnNsGood ==
  ASSUME IInv, NEW i \in Slot, cache[i] # NULL, NEW llao, NEW t, t = LearnNs(i, llao)
  PROVE  Good(t) /\ t.routers = routers /\ t.cache[i] # NULL
<1>1. Good(S) /\ S.cache = cache /\ S.routers = routers /\ cache \in Cache  BY SGood
<1>2. CASE llao # "other"  BY <1>1, <1>2 DEF LearnNs
<1>3. CASE llao = "other"
  <2>1. cache[i] \in Entry  BY <1>1, EntryFields
  <2>6. PICK d : d = Resolved(cache[i])  OBVIOUS
  <2>7. d \in Entry /\ d.addr = cache[i].addr /\ d.packet = cache[i].packet /\ d.lladdr = d.addr
    BY <2>1, <2>6, ResolvedFields
  <2>2. PICK e : e = Turned(d, "STALE")  OBVIOUS
  <2>3. /\ e \in Entry /\ e.addr = cache[i].addr /\ e.packet = cache[i].packet
        /\ e.state = "STALE" /\ Fit(e) /\ e # NULL
    BY <2>2, <2>7, TurnedFields, NameAssumption DEF Fit, Linked
  <2>4. t = Put(S, i, e)  BY <1>1, <1>3, <2>2, <2>6 DEF LearnNs, Put
  <2>5. Good(t) /\ t.routers = S.routers /\ t.cache[i] = e
    <3>1. ~ Wants(e)  BY <2>3 DEF Wants
    <3>2. S.cache[i] # NULL /\ Follows(e, S.cache[i])  BY <1>1, <2>3, <3>1 DEF Follows
    <3>3. Good(t) \/ ~ e.state \in {"INCOMPLETE", "STALE"}  BY <1>1, <2>3, <2>4, <3>2, RestBase
    <3>4. S \in Tables  BY <1>1 DEF Good, Base
    <3>5. t.routers = S.routers /\ t.cache[i] = e  BY <2>3, <2>4, <3>4, PutFields
    <3> QED  BY <2>3, <3>3, <3>5
  <2> QED  BY <1>1, <2>3, <2>5
<1> QED  BY <1>2, <1>3

LEMMA NewType ==
  ASSUME NEW a \in Nbr, NEW st, st \in {"REACHABLE", "STALE"}, NEW b, b \in BOOLEAN,
         NEW l \in {a, Sender}, NEW e, e = NewEntry(a, l, st, b)
  PROVE  /\ e \in Entry /\ e.packet = NULL /\ e.nscount = 0 /\ e.addr = a /\ e.state = st /\ e # NULL
         /\ Linked(e)
<1>1. e = [addr |-> a, lladdr |-> l, state |-> st, nscount |-> 0, isrouter |-> b, packet |-> NULL]
  BY DEF NewEntry
<1>2. e \in Entry  BY <1>1 DEF Entry, Address, LinkAddress
<1> QED  BY <1>1, <1>2, NameAssumption DEF Linked

(* What NsInput, RaInput and DioInput do of an unknown sender.             *)
LEMMA LearnNew ==
  ASSUME IInv, NEW from \in Nbr, NbrLookup(cache, from) = NULL, NEW st \in {"REACHABLE", "STALE"},
         NEW b \in BOOLEAN, NEW l \in {from, Sender}, NEW r \in NbrAdd(S, NewEntry(from, l, st, b))
  PROVE  Good(r[1]) /\ r[2] \in Slot \cup {NULL}
<1>1. Good(S) /\ S.cache = cache /\ cache \in Cache  BY SGood
<1>2. PICK e : e = NewEntry(from, l, st, b)  OBVIOUS
<1>3. e \in Entry /\ e.packet = NULL /\ e.nscount = 0 /\ e.addr = from /\ Linked(e)
  BY <1>2, NewType
<1>4. \A j \in Slot : S.cache[j] # NULL => S.cache[j].addr # e.addr
  BY <1>1, <1>3, LookupCorrect
<1>5. r \in NbrAdd(S, e)  BY <1>2
<1> QED  BY ONLY <1>1, <1>3, <1>4, <1>5, AddGood

LEMMA Found ==
  ASSUME IInv, NEW from, NEW i, i = NbrLookup(cache, from), i # NULL
  PROVE  i \in Slot /\ cache[i] # NULL /\ cache[i] \in Entry /\ cache[i].addr = from
<1>1. cache \in Cache  BY SGood
<1>2. i \in Slot /\ cache[i] # NULL /\ cache[i].addr = from  BY <1>1, LookupCorrect
<1> QED  BY <1>1, <1>2, EntryFields

LEMMA NsInputOk == ASSUME IInv, NsInput PROVE Outcome /\ nbr' \in Slot \cup {NULL}
<1>1. PICK from \in Nbr, ours \in BOOLEAN :
        LET i == NbrLookup(cache, from)
            learned(llao) == IF llao = NULL THEN {S}
                             ELSE IF i = NULL
                             THEN {r[1] : r \in NbrAdd(S, NewEntry(from, from, "STALE", FALSE))}
                             ELSE {LearnNs(i, llao)}
        IN  \E llao \in Llao(i) :
              /\ nbr' = IF llao = NULL THEN nbr ELSE i
              /\ \E s \in learned(llao) :
                   \E t \in IF ours THEN Output(s, "data", from) ELSE {s} : Become(t)
  BY DEF NsInput
<1>2. PICK i : i = NbrLookup(cache, from)  OBVIOUS
<1> DEFINE learned(llao) == IF llao = NULL THEN {S}
                            ELSE IF i = NULL
                            THEN {r[1] : r \in NbrAdd(S, NewEntry(from, from, "STALE", FALSE))}
                            ELSE {LearnNs(i, llao)}
           answers(s) == IF ours THEN Output(s, "data", from) ELSE {s}
<1>0. PICK llao \in Llao(i) :
        /\ nbr' = IF llao = NULL THEN nbr ELSE i
        /\ \E s \in learned(llao) : \E t \in answers(s) : Become(t)
  BY <1>1, <1>2
<1>3. PICK s \in learned(llao) : \E t \in answers(s) : Become(t)  BY <1>0
<1>8. PICK t \in answers(s) : Become(t)  BY <1>3
<1>4. i # NULL => i \in Slot /\ cache[i] # NULL  BY <1>2, Found
<1>5. Good(s)
  <2>1. CASE llao = NULL  BY <1>3, <2>1, SGood
  <2>2. CASE llao # NULL /\ i = NULL
    <3>1. PICK r \in NbrAdd(S, NewEntry(from, from, "STALE", FALSE)) : s = r[1]  BY <1>3, <2>2
    <3>2. Good(r[1])  BY <1>2, <2>2, LearnNew
    <3> QED  BY <3>1, <3>2
  <2>3. CASE llao # NULL /\ i # NULL
    <3>1. s = LearnNs(i, llao)  BY <1>3, <2>3
    <3> QED  BY <1>4, <2>3, <3>1, LearnNsGood
  <2> QED  BY <2>1, <2>2, <2>3
<1>6. Good(t)
  <2>1. CASE ours
    <3>1. t \in Output(s, "data", from) /\ from \in Target /\ "data" \in {"data", "NS"}
      BY <1>8, <2>1 DEF Target, Address
    <3>2. cache \in Cache  BY SGood
    <3> QED  BY <1>5, <3>1, <3>2, OutputGood
  <2>2. CASE ~ ours  BY <1>8, <1>5, <2>2
  <2> QED  BY <2>1, <2>2
<1>7. nbr' \in Slot \cup {NULL}  BY <1>0, <1>4 DEF IInv
<1> QED  BY <1>8, <1>6, <1>7 DEF Outcome

LEMMA NaDoubtOk == ASSUME IInv, NaDoubt PROVE Outcome /\ nbr' \in Slot \cup {NULL}
<1>1. PICK from \in Nbr :
        LET i == NbrLookup(cache, from)
        IN  /\ nbr' = i
            /\ Become(IF i # NULL /\ cache[i].state = "REACHABLE"
                      THEN [S EXCEPT !.cache[i].state = "STALE"] ELSE S)
  BY DEF NaDoubt
<1>2. PICK i : i = NbrLookup(cache, from)  OBVIOUS
<1>3. i # NULL => i \in Slot /\ cache[i] # NULL /\ cache[i] \in Entry  BY <1>2, Found
<1>4. Good(S) /\ S.cache = cache /\ cache \in Cache /\ S \in Tables /\ Fits(cache)
  BY SGood DEF Good, Base
<1>5. CASE i # NULL /\ cache[i].state = "REACHABLE"
  <2>1. PICK t : t = [S EXCEPT !.cache[i].state = "STALE"]  OBVIOUS
  <2>2. PICK e : e = [cache[i] EXCEPT !.state = "STALE"]  OBVIOUS
  <2>3. t = Put(S, i, e)  BY <1>4, <2>1, <2>2 DEF Put
  <2>4. i \in Slot /\ S.cache[i] # NULL  BY <1>3, <1>4, <1>5
  <2>5. /\ e \in Entry /\ e.addr = cache[i].addr /\ e.packet = cache[i].packet /\ e.state = "STALE"
        /\ e.nscount = cache[i].nscount /\ e.lladdr = cache[i].lladdr
    BY <1>3, <1>5, <2>2 DEF Entry
  <2>6. Follows(e, S.cache[i])  BY <1>3, <1>4, <1>5, <2>5 DEF Follows, Wants, Fits, Fit, Linked, Limit
  <2>7. Good(t) \/ ~ e.state \in {"INCOMPLETE", "STALE"}  BY <1>4, <2>3, <2>4, <2>5, <2>6, RestBase
  <2>8. Become(t)  BY <1>1, <1>2, <1>5, <2>1
  <2> QED  BY <1>1, <1>2, <1>3, <2>5, <2>7, <2>8 DEF Outcome
<1>6. CASE ~ (i # NULL /\ cache[i].state = "REACHABLE")
  <2>1. Become(S)  BY <1>1, <1>2, <1>6
  <2> QED  BY <1>1, <1>2, <1>3, <1>4, <2>1 DEF Outcome
<1> QED  BY <1>5, <1>6

LEMMA DefrtRmTold ==
  ASSUME NEW s, NEW X, Base(s, X), Told(s.cache, s.sent, {}), NEW R, NEW t, t = DefrtRm(s, R)
  PROVE  Base(t, X) /\ Told(t.cache, t.sent, {}) /\ t.cache = s.cache
BY DefrtRmBase

LEMMA DefrtAddTold ==
  ASSUME NEW s, NEW X, Base(s, X), Told(s.cache, s.sent, {}), NEW a \in Nbr, NEW b, b \in BOOLEAN,
         NEW t, t = DefrtAdd(s, a, b)
  PROVE  Base(t, X) /\ Told(t.cache, t.sent, {}) /\ t.cache = s.cache
BY DefrtAddBase

(* The entry that an advertisement leaves. *)
LEMMA AdvertisedCorrect ==
  ASSUME NEW f \in Entry, Fit(f), NEW llao, f.state = "INCOMPLETE" => llao = "other",
         NEW sol \in BOOLEAN, NEW r \in BOOLEAN, NEW e, e = Advertised(f, llao, sol, r)
  PROVE  e \in Entry /\ Follows(e, f)
<1> DEFINE l == IF llao = "other" THEN f.addr ELSE f.lladdr
<1>1. f = [addr |-> f.addr, lladdr |-> f.lladdr, state |-> f.state, nscount |-> f.nscount,
           isrouter |-> f.isrouter, packet |-> f.packet]
  BY DEF Entry
<1>2. MaxUnicast \in Nat /\ MaxMulticast \in Nat  BY NumbersType
<1>6. l \in LinkAddress /\ l \in {f.addr, Sender}  BY DEF Entry, LinkAddress, Fit, Linked
<1>3. CASE sol
  <2>1. e = [addr |-> f.addr, lladdr |-> l, state |-> "REACHABLE", nscount |-> 0, isrouter |-> r,
             packet |-> f.packet]
    BY <1>1, <1>3 DEF Advertised
  <2> HIDE DEF l
  <2> QED  BY <1>2, <1>6, <2>1 DEF Entry, Follows, Wants, Fit, Linked, Limit
<1>4. CASE ~ sol /\ llao = "other"
  <2>1. e = [addr |-> f.addr, lladdr |-> l, state |-> "STALE", nscount |-> 0, isrouter |-> r,
             packet |-> f.packet]
    BY <1>1, <1>4 DEF Advertised
  <2> HIDE DEF l
  <2> QED  BY <1>2, <1>6, <2>1 DEF Entry, Follows, Wants, Fit, Linked, Limit
<1>5. CASE ~ sol /\ llao # "other"
  <2>1. e = [addr |-> f.addr, lladdr |-> l, state |-> f.state, nscount |-> f.nscount, isrouter |-> r,
             packet |-> f.packet]
    BY <1>1, <1>5 DEF Advertised
  <2> HIDE DEF l
  <2> QED  BY <1>5, <1>6, <2>1 DEF Entry, Follows, Wants, Fit, Linked, Limit
<1> QED  BY <1>3, <1>4, <1>5

LEMMA NaInputOk == ASSUME IInv, NaInput PROVE Outcome /\ nbr' \in Slot \cup {NULL}
<1>1. PICK from \in Nbr, sol \in BOOLEAN, isrouter \in BOOLEAN :
        LET i == NbrLookup(cache, from)
            resigns == cache[i].state # "INCOMPLETE" /\ cache[i].isrouter /\ ~ isrouter
            told(llao) == [S EXCEPT !.cache[i] = Advertised(@, llao, sol, isrouter)]
        IN  /\ i # NULL /\ nbr' = i
            /\ \E llao \in Llao(i) :
                 /\ cache[i].state = "INCOMPLETE" => llao # NULL
                 /\ \E s \in Release(DefrtRm(told(llao), IF resigns THEN RouterSlotOf(S, from) ELSE {}), i) :
                      Become(s)
  BY DEF NaInput
<1>2. PICK i : i = NbrLookup(cache, from)  OBVIOUS
<1>3. PICK llao \in Llao(i) :
        /\ cache[i].state = "INCOMPLETE" => llao # NULL
        /\ \E R : \E s \in Release(DefrtRm([S EXCEPT !.cache[i] = Advertised(@, llao, sol, isrouter)], R), i) :
             Become(s)
  BY <1>1, <1>2
<1>17. PICK R : \E s \in Release(DefrtRm([S EXCEPT !.cache[i] = Advertised(@, llao, sol, isrouter)], R), i) :
          Become(s)
  BY <1>3
<1>4. i \in Slot /\ cache[i] # NULL /\ cache[i] \in Entry /\ nbr' = i  BY <1>1, <1>2, Found
<1>5. Good(S) /\ S.cache = cache /\ cache \in Cache /\ Fits(cache)
  BY SGood DEF Good, Base
<1>6. PICK e : e = Advertised(cache[i], llao, sol, isrouter)  OBVIOUS
<1>7. Fit(cache[i])  BY <1>4, <1>5 DEF Fits
<1>16. cache[i].state = "INCOMPLETE" => llao = "other"
  <2>1. cache[i].state = "INCOMPLETE" => cache[i].lladdr = Unset  BY <1>7 DEF Fit, Linked
  <2> QED  BY <1>3, <2>1 DEF Llao
<1>8. e \in Entry /\ Follows(e, S.cache[i])
  BY <1>4, <1>5, <1>6, <1>7, <1>16, AdvertisedCorrect
<1>9. PICK t : t = Put(S, i, e)  OBVIOUS
<1>10. t = [S EXCEPT !.cache[i] = Advertised(@, llao, sol, isrouter)]  BY <1>5, <1>6, <1>9 DEF Put
<1>11. Base(t, {i}) /\ Told(t.cache, t.sent, {})  BY <1>4, <1>5, <1>8, <1>9, RestBase
<1>12. PICK u : u = DefrtRm(t, R)  OBVIOUS
<1>13. Base(u, {i}) /\ Told(u.cache, u.sent, {})  BY <1>11, <1>12, DefrtRmTold
<1>14. PICK s \in Release(u, i) : Become(s)  BY <1>10, <1>12, <1>17
<1>15. Good(s)  BY <1>4, <1>5, <1>13, ReleaseGood
<1> QED  BY <1>4, <1>14, <1>15 DEF Outcome

LEMMA MarkGood ==
  ASSUME NEW s, Good(s), NEW i \in Slot \cup {NULL}, NEW t, t = MarkRouter(s, i)
  PROVE  Good(t)
<1>1. CASE i = NULL \/ s.cache[i] = NULL
  BY <1>1 DEF MarkRouter
<1>2. CASE ~ (i = NULL \/ s.cache[i] = NULL)
  <2>1. Base(s, {}) /\ s.cache \in Cache /\ Fits(s.cache) /\ Kept(s.cache, s.held, {}) /\ i \in Slot
    BY <1>2, Fields DEF Good, Base
  <2>2. PICK e : e = [s.cache[i] EXCEPT !.isrouter = TRUE]  OBVIOUS
  <2>3. s.cache[i] \in Entry /\ s.cache[i] # NULL  BY <1>2, <2>1, EntryFields
  <2>4. /\ e \in Entry /\ e.addr = s.cache[i].addr /\ e.packet = s.cache[i].packet
        /\ e.state = s.cache[i].state /\ e.nscount = s.cache[i].nscount
        /\ e.lladdr = s.cache[i].lladdr
    BY <2>2, <2>3 DEF Entry
  <2>5. Follows(e, s.cache[i])  BY <2>1, <2>3, <2>4 DEF Follows, Fits, Fit, Linked, Limit
  <2>6. t = Put(s, i, e)  BY <1>2, <2>2 DEF MarkRouter, Put
  <2>7. Base(t, {i}) /\ Told(t.cache, t.sent, {})  BY <2>1, <2>3, <2>4, <2>5, <2>6, RestBase
  <2>8. s \in Tables  BY <2>1 DEF Base
  <2>9. t.cache[i] = e  BY <2>1, <2>4, <2>6, <2>8, PutFields
  <2>10. ~ Waits(t.cache[i]) \/ t.cache[i].state \in {"INCOMPLETE", "STALE"}
    BY <2>1, <2>3, <2>4, <2>9 DEF Kept, Waits
  <2>11. Base(t, {i} \ {i}) /\ {i} \ {i} = {}  BY <2>7, <2>10, IdleBase
  <2> QED  BY <2>7, <2>11 DEF Good
<1> QED  BY <1>1, <1>2

LEMMA RaInputOk == ASSUME IInv, RaInput PROVE Outcome /\ nbr' \in Slot \cup {NULL}
<1>1. PICK from \in Nbr, lives \in BOOLEAN :
        LET i == NbrLookup(cache, from)
            learned(llao) == IF llao = NULL THEN {<<S, nbr>>}
                             ELSE IF i = NULL THEN NbrAdd(S, NewEntry(from, from, "STALE", TRUE))
                             ELSE {<<LearnRa(i, llao), i>>}
        IN  \E r \in UNION {learned(llao) : llao \in Llao(i)} :
              LET s == IF lives THEN DefrtAdd(MarkRouter(r[1], r[2]), from, FALSE)
                       ELSE DefrtRm(r[1], RouterSlotOf(S, from))
              IN  nbr' = r[2] /\ \E t \in Release(s, r[2]) : Become(t)
  BY RoleAssumption DEF RaInput
<1>2. PICK i : i = NbrLookup(cache, from)  OBVIOUS
<1>3. i # NULL => i \in Slot /\ cache[i] # NULL  BY <1>2, Found
<1> DEFINE learned(llao) == IF llao = NULL THEN {<<S, nbr>>}
                            ELSE IF i = NULL THEN NbrAdd(S, NewEntry(from, from, "STALE", TRUE))
                            ELSE {<<LearnRa(i, llao), i>>}
           next(r) == IF lives THEN DefrtAdd(MarkRouter(r[1], r[2]), from, FALSE)
                      ELSE DefrtRm(r[1], RouterSlotOf(S, from))
<1>4. PICK r \in UNION {learned(llao) : llao \in Llao(i)} :
        nbr' = r[2] /\ \E t \in Release(next(r), r[2]) : Become(t)
  BY <1>1, <1>2
<1>5. PICK llao \in Llao(i) : r \in learned(llao)  OBVIOUS
<1>6. Good(r[1]) /\ r[2] \in Slot \cup {NULL}
  <2>1. CASE llao = NULL
    <3>1. r[1] = S /\ r[2] = nbr  BY <1>5, <2>1
    <3> QED  BY <3>1, SGood DEF IInv
  <2>2. CASE llao # NULL /\ i = NULL
    <3>1. r \in NbrAdd(S, NewEntry(from, from, "STALE", TRUE))  BY <1>5, <2>2
    <3>2. TRUE \in BOOLEAN /\ "STALE" \in {"REACHABLE", "STALE"}  OBVIOUS
    <3> QED  BY <1>2, <2>2, <3>1, <3>2, LearnNew
  <2>3. CASE llao # NULL /\ i # NULL
    <3>1. r[1] = LearnRa(i, llao) /\ r[2] = i  BY <1>5, <2>3
    <3>2. PICK s : s = LearnNs(i, llao)  OBVIOUS
    <3>3. Good(s) /\ s.cache[i] # NULL  BY <1>3, <2>3, <3>2, LearnNsGood
    <3>4. r[1] = MarkRouter(s, i)  BY <2>3, <3>1, <3>2, <3>3 DEF LearnRa, MarkRouter
    <3>5. i \in Slot \cup {NULL}  BY <1>3
    <3> QED  BY <3>1, <3>3, <3>4, <3>5, MarkGood
  <2> QED  BY <2>1, <2>2, <2>3
<1>7. PICK v : v = next(r)  OBVIOUS
<1>8. PICK k : k = r[2]  OBVIOUS
<1>9. Base(v, {}) /\ Told(v.cache, v.sent, {})
  <2>1. CASE lives
    <3>1. PICK u : u = MarkRouter(r[1], k)  OBVIOUS
    <3>2. Good(u)  BY <1>6, <1>8, <3>1, MarkGood
    <3>3. v = DefrtAdd(u, from, FALSE)  BY <1>7, <1>8, <2>1, <3>1
    <3>4. Base(u, {}) /\ Told(u.cache, u.sent, {}) /\ FALSE \in BOOLEAN  BY <3>2 DEF Good
    <3> QED  BY ONLY <3>3, <3>4, from \in Nbr, DefrtAddTold
  <2>2. CASE ~ lives
    <3>1. v = DefrtRm(r[1], RouterSlotOf(S, from))  BY <1>7, <2>2
    <3>2. Base(r[1], {}) /\ Told(r[1].cache, r[1].sent, {})  BY <1>6 DEF Good
    <3> QED  BY <3>1, <3>2, DefrtRmTold
  <2> QED  BY <2>1, <2>2
<1> HIDE DEF next, learned
<1>10. PICK t \in Release(v, k) : Become(t)  BY <1>4, <1>7, <1>8
<1>11. Base(v, {k}) /\ k \in Slot \cup {NULL} /\ nbr' = k  BY <1>4, <1>6, <1>8, <1>9, WidenBase
<1>12. cache \in Cache  BY SGood
<1>13. Good(t)  BY <1>9, <1>11, <1>12, ReleaseGood
<1> QED  BY <1>10, <1>11, <1>13 DEF Outcome

LEMMA DioInputOk == ASSUME IInv, DioInput PROVE Outcome
<1>1. PICK from \in Nbr : /\ NbrLookup(cache, from) = NULL
                          /\ \E r \in NbrAdd(S, NewEntry(from, Sender, "REACHABLE", FALSE)) : Become(r[1])
  BY RoleAssumption DEF DioInput
<1>2. PICK r \in NbrAdd(S, NewEntry(from, Sender, "REACHABLE", FALSE)) : Become(r[1])  BY <1>1
<1>3. "REACHABLE" \in {"REACHABLE", "STALE"} /\ FALSE \in BOOLEAN  OBVIOUS
<1>4. Good(r[1])  BY <1>1, <1>3, LearnNew
<1> QED  BY <1>2, <1>4 DEF Outcome

LEMMA SetDefaultRouteOk ==
  ASSUME IInv, SetDefaultRoute PROVE Outcome /\ defRoute' \in RouterSlot \cup {NULL}
<1>1. PICK from \in Nbr \cup {NULL} :
        LET s == DefrtRm(S, {defRoute} \ {NULL})
            t == IF from = NULL THEN s ELSE DefrtAdd(s, from, RplInfinite)
        IN  Become(t) /\ defRoute' = IF t = s THEN NULL ELSE Max(FreeRouter(s))
  BY RoleAssumption DEF SetDefaultRoute
<1>2. PICK s : s = DefrtRm(S, {defRoute} \ {NULL})  OBVIOUS
<1>3. PICK t : t = IF from = NULL THEN s ELSE DefrtAdd(s, from, RplInfinite)  OBVIOUS
<1>4. Become(t) /\ defRoute' = IF t = s THEN NULL ELSE Max(FreeRouter(s))  BY <1>1, <1>2, <1>3
<1>5. Base(s, {}) /\ Told(s.cache, s.sent, {})
  <2>1. Base(S, {}) /\ Told(S.cache, S.sent, {})  BY SGood DEF Good
  <2> QED  BY <1>2, <2>1, DefrtRmTold
<1>6. CASE from = NULL
  BY <1>3, <1>4, <1>5, <1>6 DEF Outcome, Good
<1>7. CASE from # NULL
  <2>1. from \in Nbr /\ RplInfinite \in BOOLEAN /\ t = DefrtAdd(s, from, RplInfinite)
    BY <1>3, <1>7, NameAssumption
  <2>2. Base(t, {}) /\ Told(t.cache, t.sent, {})  BY <1>5, <2>1, DefrtAddTold
  <2>3. t # s => Max(FreeRouter(s)) \in RouterSlot  BY <1>5, <2>1, DefrtAddBase
  <2> QED  BY <1>4, <2>2, <2>3 DEF Outcome, Good
<1> QED  BY <1>6, <1>7

LEMMA LifeEventOk == ASSUME IInv, NEW b \in Block, LifeEvent(b) PROVE Outcome /\ late' \subseteq Block
<1> DEFINE out == {i \in Slot : TimedOut(cache[i], b)}
<1>1. Become(IF out = {} THEN S ELSE PacketFree(S, Min(out))) /\ late' = late \ {b}
  BY DEF LifeEvent
<1>2. late' \subseteq Block  BY <1>1 DEF IInv
<1>3. Good(S) /\ S.cache = cache /\ Base(S, {}) /\ Told(S.cache, S.sent, {})  BY SGood DEF Good
<1>4. CASE out = {}  BY <1>1, <1>2, <1>3, <1>4 DEF Outcome
<1>5. CASE out # {}
  <2>1. out \subseteq 1 .. NbrNB  BY DEF Slot
  <2>2. Min(out) \in out
    <3> HIDE DEF out
    <3> QED  BY <1>5, <2>1, NumbersType, Extremes
  <2>3. PICK i \in Slot : i = Min(out) /\ cache[i] # NULL  BY <2>2 DEF TimedOut
  <2>4. PICK t : t = PacketFree(S, i)  OBVIOUS
  <2>5. Become(t)  BY <1>1, <1>5, <2>3, <2>4
  <2>6. S.cache[i] # NULL /\ {} \ {i} = {}  BY <1>3, <2>3
  <2>7. Base(t, {} \ {i}) /\ Told(t.cache, t.sent, {})  BY ONLY <1>3, <2>4, <2>6, i \in Slot, FreeBase
  <2>8. Good(t)  BY <2>6, <2>7 DEF Good
  <2> QED  BY <1>2, <2>5, <2>8 DEF Outcome
<1> QED  BY <1>4, <1>5

LEMMA LifeExpiresOk ==
  ASSUME IInv, NEW b \in Block, LifeExpires(b) PROVE Outcome /\ late' \subseteq Block
<1>1. Become(S)  BY SGood DEF LifeExpires, Become
<1> QED  BY <1>1, SGood DEF Outcome, LifeExpires, IInv

(* One round of uip_ds6_periodic.  Every entry that stays is the same      *)
(* neighbour with the same packet.                                         *)
LEMMA AgedCorrect ==
  ASSUME NEW f \in Entry, Fit(f), NEW e, e = Aged(f)
  PROVE  /\ Follows(e, f) \/ (e.state = "PROBE" /\ e.nscount = 0)
         /\ e \in Entry /\ e.addr = f.addr /\ e.packet = f.packet /\ Fit(e)
         /\ f.state \in {"INCOMPLETE", "STALE"} => e.state \in {"INCOMPLETE", "STALE"}
<1>1. CASE f.state = "REACHABLE"
  <2>1. e = [f EXCEPT !.state = "STALE"]  BY <1>1 DEF Aged
  <2>2. /\ e \in Entry /\ e.addr = f.addr /\ e.packet = f.packet /\ e.state = "STALE"
        /\ e.nscount = f.nscount /\ e.lladdr = f.lladdr
    BY <2>1 DEF Entry
  <2> QED  BY <1>1, <2>2 DEF Follows, Fit, Linked, Limit, Wants
<1>2. CASE f.state = "DELAY"
  <2>1. e = Turned(f, "PROBE")  BY <1>2 DEF Aged
  <2> QED  BY <1>2, <2>1, TurnedFields DEF Fit, Linked
<1>3. CASE f.state \notin {"REACHABLE", "DELAY"}
  <2>1. e = f  BY <1>3 DEF Aged
  <2> QED  BY <1>3, <2>1 DEF Follows
<1> QED  BY <1>1, <1>2, <1>3

Survivors(c, fails) ==
  /\ \A i \in Slot : c[i] = NULL <=> cache[i] = NULL \/ i \in fails
  /\ \A i \in Slot : c[i] # NULL =>
       /\ c[i].addr = cache[i].addr /\ c[i].packet = cache[i].packet /\ Fit(c[i])
       /\ cache[i].state \in {"INCOMPLETE", "STALE"} => c[i].state \in {"INCOMPLETE", "STALE"}

Freed(h, fails) ==
  \A b \in Block : h[b] = IF \E i \in fails : cache[i].packet = b THEN NULL ELSE held[b]

LEMMA RoundBase ==
  ASSUME IInv, NEW s \in Tables, NEW fails \in SUBSET {i \in Slot : cache[i] # NULL},
         Survivors(s.cache, fails), Freed(s.held, fails),
         Unique(s.routers, RouterSlot), s.sent = <<>>
  PROVE  Base(s, {})
<1> DEFINE c == s.cache
           h == s.held
<1>0. /\ \A i \in Slot : c[i] = NULL <=> cache[i] = NULL \/ i \in fails
      /\ \A i \in Slot : c[i] # NULL =>
           /\ c[i].addr = cache[i].addr /\ c[i].packet = cache[i].packet /\ Fit(c[i])
           /\ cache[i].state \in {"INCOMPLETE", "STALE"} => c[i].state \in {"INCOMPLETE", "STALE"}
      /\ \A b \in Block : h[b] = IF \E i \in fails : cache[i].packet = b THEN NULL ELSE held[b]
  BY DEF Survivors, Freed
<1> HIDE DEF c, h
<1>1. /\ Fits(cache) /\ Unique(cache, Slot) /\ Routed(held) /\ Kept(cache, held, {})
      /\ cache \in Cache
  BY SGood DEF Base, IInv
<1>2. Fits(c)  BY <1>0 DEF Fits
<1>3. Unique(c, Slot)  BY <1>0, <1>1 DEF Unique
<1>4. Routed(h)  BY <1>0, <1>1 DEF Routed
<1>5. \A i \in Slot : Waits(c[i]) => Waits(cache[i]) /\ c[i].packet = cache[i].packet /\ i \notin fails
                                     /\ c[i].addr = cache[i].addr /\ cache[i].packet \in Block
  BY <1>0, <1>1, EntryFields DEF Waits
<1>6. \A i \in Slot : Waits(c[i]) => \A j \in fails : cache[j].packet # c[i].packet
  <2>1. \A j \in fails : cache[j].packet # NULL => Waits(cache[j])  BY DEF Waits
  <2> QED  BY <1>1, <1>5, <2>1 DEF Kept, Waits
<1>7. \A i \in Slot : Waits(c[i]) => h[c[i].packet] = held[cache[i].packet]
  BY <1>0, <1>5, <1>6
<1>8. Kept(c, h, {})
  <2>1. \A i \in Slot : Waits(c[i]) => /\ h[c[i].packet] # NULL /\ h[c[i].packet].hop = c[i].addr
                                       /\ c[i].state \in {"INCOMPLETE", "STALE"}
    <3>1. \A i \in Slot : Waits(cache[i]) =>
            /\ held[cache[i].packet] # NULL /\ held[cache[i].packet].hop = cache[i].addr
            /\ cache[i].state \in {"INCOMPLETE", "STALE"}
      BY <1>1 DEF Kept
    <3>2. \A i \in Slot : Waits(c[i]) => c[i] # NULL  BY DEF Waits
    <3> QED  BY <1>0, <1>5, <1>7, <3>1, <3>2
  <2>2. \A i, j \in Slot : Waits(c[i]) /\ Waits(c[j]) /\ c[i].packet = c[j].packet => i = j
    BY <1>1, <1>5 DEF Kept
  <2>3. ASSUME NEW b \in Block, h[b] # NULL PROVE \E i \in Slot : Waits(c[i]) /\ c[i].packet = b
    <3>1. held[b] # NULL /\ \A i \in fails : cache[i].packet # b  BY <1>0, <2>3
    <3>2. PICK i \in Slot : Waits(cache[i]) /\ cache[i].packet = b  BY <1>1, <3>1 DEF Kept
    <3>3. i \notin fails /\ c[i] # NULL  BY <1>0, <3>1, <3>2 DEF Waits
    <3> QED  BY <1>0, <3>2, <3>3 DEF Waits
  <2> QED  BY <2>1, <2>2, <2>3 DEF Kept
<1>9. Range(s.sent) = {}  BY DEF Range
<1> QED  BY <1>2, <1>3, <1>4, <1>8, <1>9 DEF Base, c, h

LEMMA AskGood ==
  ASSUME NEW s, Base(s, {}), NEW i \in Slot, s.cache[i] # NULL, Told(s.cache, s.sent, {i}),
         NEW t, t = Ask(s, i)
  PROVE  Good(t)
<1>1. s.cache \in Cache /\ s \in Tables  BY Fields DEF Base
<1>2. PICK a : a = s.cache[i].addr  OBVIOUS
<1>3. a \in Address /\ a \in Target  BY <1>1, <1>2, EntryFields DEF Target
<1>4. CASE s.cache[i].state = "PROBE"
  <2>1. t = Transmit(s, i, "NS", a)  BY <1>2, <1>4 DEF Ask
  <2>2. {i} \in SUBSET {i} /\ "NS" \in {"data", "NS"} /\ (s.cache[i].addr = a \/ a = Far)
        /\ ({i} # {} => "NS" = "NS" /\ a = s.cache[i].addr) /\ s.cache[i].state # "INCOMPLETE"
    BY <1>2, <1>4
  <2> QED  BY <1>3, <2>1, <2>2, TransmitGood
<1>5. CASE s.cache[i].state # "PROBE"
  <2>1. t = Send(s, "NS", a, a, Multicast)  BY <1>2, <1>5 DEF Ask
  <2>2. PICK m \in Message : Sane(m) /\ t = Post(s, m) /\ m.kind = "NS" /\ m.to = a
    BY <1>3, <2>1, SendPosts
  <2>3. Base(t, {})  BY <2>2, PostBase
  <2>4. SolicitFor(m, s.cache[i].addr)  BY <1>2, <2>2 DEF SolicitFor
  <2>5. Told(t.cache, t.sent, {})  BY <2>2, <2>4, PostTold
  <2> QED  BY <2>3, <2>5 DEF Good
<1> QED  BY <1>4, <1>5

LEMMA PeriodicTimerOk == ASSUME IInv, PeriodicTimer PROVE Outcome
<1> DEFINE used == {i \in Slot : cache[i] # NULL}
           fails == {i \in used : GivenUp(cache[i])}
           lost == {i \in RouterSlot : routers[i] # NULL /\ ~ routers[i].infinite
                      /\ \E j \in fails : cache[j].state = "PROBE" /\ cache[j].addr = routers[i].addr}
           wants(expired) == {i \in (used \ fails) \cap expired :
                                cache[i].state \in {"INCOMPLETE", "PROBE"}}
<1>1. PICK expired, gone : Periodic(expired, gone)  BY DEF PeriodicTimer
<1>2. PICK asks : asks = Asking(wants(expired))  OBVIOUS
<1> DEFINE c == [i \in Slot |->
                   IF i \in fails THEN NULL
                   ELSE IF i \in asks THEN [cache[i] EXCEPT !.nscount = @ + 1]
                   ELSE IF i \in used \cap expired THEN Aged(cache[i])
                   ELSE cache[i]]
           h == [b \in Block |-> IF \E i \in fails : cache[i].packet = b THEN NULL ELSE held[b]]
<1>3. PICK r : r = DefrtRm(S, gone \cup lost)  OBVIOUS
<1>4. PICK s : s = [r EXCEPT !.cache = c, !.held = h]  OBVIOUS
<1>5. Become(IF asks = {} THEN s ELSE Ask(s, Max(asks)))
  BY <1>1, <1>2, <1>3, <1>4 DEF Periodic
<1>6. /\ S.sent = <<>> /\ S.cache = cache /\ S.held = held /\ Base(S, {}) /\ cache \in Cache
      /\ Fits(cache) /\ held \in Held
  BY SGood, Fields DEF Good, Base
<1>7. Base(r, {}) /\ r.cache = cache /\ r.held = held /\ r.sent = <<>>
  BY <1>3, <1>6, DefrtRmBase
<1>8. r \in Tables /\ Unique(r.routers, RouterSlot)  BY <1>7 DEF Base
<1>9. asks \subseteq wants(expired) /\ (asks # {} => \E k \in Slot : asks = {k} /\ Max(asks) = k)
  <2>1. wants(expired) \subseteq 1 .. NbrNB  BY DEF Slot
  <2> HIDE DEF wants
  <2>2. wants(expired) # {} => Min(wants(expired)) \in wants(expired)
    BY <2>1, NumbersType, Extremes
  <2>3. CASE wants(expired) = {}  BY <1>2, <2>3 DEF Asking
  <2>4. CASE wants(expired) # {}
    <3>1. PICK k : k = Min(wants(expired))  OBVIOUS
    <3>2. asks = {k} /\ k \in wants(expired)  BY <1>2, <2>2, <2>4, <3>1 DEF Asking
    <3>3. k \in Slot /\ asks \subseteq 1 .. NbrNB /\ asks # {}  BY <2>1, <3>2 DEF Slot
    <3>4. Max(asks) \in asks  BY <3>3, NumbersType, Extremes
    <3> QED  BY <3>2, <3>3, <3>4
  <2> QED  BY <2>3, <2>4
<1>10. \A i \in Slot : cache[i] # NULL => /\ cache[i] \in Entry /\ cache[i].nscount \in Nat
                                          /\ Fit(cache[i])
  BY <1>6, EntryFields DEF Fits
(* Slot by slot. *)
<1>11. \A i \in Slot : c[i] = NULL <=> cache[i] = NULL \/ i \in fails
  <2> SUFFICES ASSUME NEW i \in Slot PROVE c[i] = NULL <=> cache[i] = NULL \/ i \in fails
    OBVIOUS
  <2>1. i \in used => Aged(cache[i]) \in Entry /\ Aged(cache[i]) # NULL
    BY <1>10, AgedCorrect, NameAssumption
  <2>2. i \in asks => cache[i] # NULL /\ i \notin fails  BY <1>9
  <2>3. i \in asks => [cache[i] EXCEPT !.nscount = @ + 1] \in Entry
    BY <1>10, <2>2 DEF Entry
  <2>4. NULL \notin Entry  BY NameAssumption
  <2> HIDE DEF fails
  <2> QED  BY <2>1, <2>2, <2>3, <2>4
<1>12. ASSUME NEW i \in Slot, c[i] # NULL
       PROVE  /\ c[i] \in Entry /\ cache[i] # NULL
              /\ c[i].addr = cache[i].addr /\ c[i].packet = cache[i].packet /\ Fit(c[i])
              /\ cache[i].state \in {"INCOMPLETE", "STALE"} => c[i].state \in {"INCOMPLETE", "STALE"}
              /\ i \notin asks => Follows(c[i], cache[i]) \/ (c[i].state = "PROBE" /\ c[i].nscount = 0)
  <2>1. i \notin fails /\ cache[i] # NULL /\ ~ GivenUp(cache[i])  BY <1>11, <1>12
  <2>2. PICK f : f = cache[i]  OBVIOUS
  <2>3. f \in Entry /\ f.nscount \in Nat /\ Fit(f)  BY <1>10, <2>1, <2>2
  <2>4. CASE i \in asks
    <3>1. f.state \in {"INCOMPLETE", "PROBE"}  BY <1>9, <2>2, <2>4
    <3>2. c[i] = [f EXCEPT !.nscount = @ + 1]  BY <2>1, <2>2, <2>4
    <3>3. PICK e : e = c[i]  OBVIOUS
    <3>4. /\ e \in Entry /\ e.addr = f.addr /\ e.packet = f.packet /\ e.state = f.state
          /\ e.nscount = f.nscount + 1 /\ e.lladdr = f.lladdr
      BY <2>3, <3>2, <3>3 DEF Entry
    <3>5. Fit(e)
      BY <2>1, <2>2, <2>3, <3>1, <3>4, NumbersType DEF GivenUp, Fit, Linked, Limit
    <3> HIDE DEF c
    <3> QED  BY <2>1, <2>2, <2>4, <3>3, <3>4, <3>5
  <2>5. CASE i \notin asks /\ i \in used \cap expired
    <3>1. PICK e : e = c[i]  OBVIOUS
    <3>2. e = Aged(f)  BY <2>1, <2>2, <2>5, <3>1
    <3>3. /\ Follows(e, f) \/ (e.state = "PROBE" /\ e.nscount = 0)
          /\ e \in Entry /\ e.addr = f.addr /\ e.packet = f.packet /\ Fit(e)
          /\ f.state \in {"INCOMPLETE", "STALE"} => e.state \in {"INCOMPLETE", "STALE"}
      BY <2>3, <3>2, AgedCorrect
    <3> HIDE DEF c
    <3> QED  BY <2>1, <2>2, <3>1, <3>3
  <2>6. CASE i \notin asks /\ i \notin used \cap expired
    <3>1. c[i] = f  BY <2>1, <2>2, <2>6
    <3> HIDE DEF c
    <3> QED  BY <2>1, <2>2, <2>3, <3>1 DEF Follows
  <2> QED  BY <2>4, <2>5, <2>6
<1>13. c \in Cache
  <2>1. \A i \in Slot : c[i] \in Entry \cup {NULL}  BY <1>12
  <2> QED  BY <2>1 DEF Cache
<1>14. h \in Held /\ \A b \in Block : h[b] = IF \E i \in fails : cache[i].packet = b THEN NULL ELSE held[b]
  BY <1>6 DEF Held
<1>15. fails \in SUBSET {i \in Slot : cache[i] # NULL}  OBVIOUS
<1> HIDE DEF c, h, fails, lost, used
<1>16. /\ s \in Tables /\ s.cache = c /\ s.held = h /\ Unique(s.routers, RouterSlot) /\ s.sent = <<>>
  <2>1. /\ s.cache = c /\ s.held = h /\ s.routers = r.routers /\ s.sent = r.sent
        /\ s \in [cache : {c}, held : {h}, routers : {r.routers}, sent : {r.sent}]
    BY <1>4, <1>8 DEF Tables
  <2> QED  BY <1>7, <1>8, <1>13, <1>14, <2>1 DEF Tables
<1>17. Base(s, {})
  <2>1. Survivors(s.cache, fails) /\ Freed(s.held, fails)
    BY <1>11, <1>12, <1>14, <1>16 DEF Survivors, Freed
  <2> QED  BY <1>15, <1>16, <2>1, RoundBase
<1>18. Told(s.cache, s.sent, asks)
  <2>1. ASSUME NEW i \in Slot \ asks, Grew(i, c[i]) PROVE FALSE
    <3>1. c[i] # NULL /\ Wants(c[i])  BY <2>1 DEF Grew, Wants
    <3>2. cache[i] # NULL /\ cache[i].nscount \in Nat  BY <1>10, <1>12, <3>1
    <3>3. CASE Follows(c[i], cache[i])
      <4>1. Asked(i) /\ c[i].nscount = cache[i].nscount
        BY <3>1, <3>2, <3>3 DEF Follows, Wants, Asked
      <4> QED  BY <2>1, <3>2, <4>1 DEF Grew
    <3>4. CASE c[i].nscount = 0  BY <2>1, <3>2, <3>4 DEF Grew
    <3> QED  BY <1>12, <3>1, <3>3, <3>4
  <2> QED  BY <1>16, <2>1 DEF Told
<1>19. CASE asks = {}  BY <1>5, <1>17, <1>18, <1>19 DEF Outcome, Good
<1>20. CASE asks # {}
  <2>1. PICK k \in Slot : asks = {k} /\ Max(asks) = k  BY <1>9, <1>20
  <2>2. s.cache[k] # NULL  BY <1>9, <1>11, <1>16, <2>1 DEF fails, used
  <2>3. PICK t : t = Ask(s, k)  OBVIOUS
  <2>4. Good(t)  BY <1>17, <1>18, <2>1, <2>2, <2>3, AskGood
  <2>5. Become(t)  BY <1>5, <1>20, <2>1, <2>3
  <2> QED  BY <2>4, <2>5 DEF Outcome
<1> QED  BY <1>19, <1>20

-----------------------------------------------------------------------------
LEMMA InitOk == Init => IInv
<1> SUFFICES ASSUME Init PROVE IInv  OBVIOUS
<1>1. PICK s : s = S  OBVIOUS
<1>2. /\ s = [cache |-> cache, held |-> held, routers |-> routers, sent |-> <<>>]
      /\ s.cache = cache /\ s.held = held /\ s.routers = routers /\ s.sent = <<>>
  BY <1>1 DEF S
<1>3. cache \in Cache /\ held \in Held /\ routers \in Routers /\ <<>> \in Seq(Message)
  BY DEF Init, Cache, Held, Routers
<1>4. s \in Tables  BY <1>2, <1>3 DEF Tables
<1>5. /\ \A i \in Slot : cache[i] = NULL
      /\ \A b \in Block : held[b] = NULL
      /\ \A i \in RouterSlot : routers[i] = NULL
  BY DEF Init
<1>6. Fits(cache) /\ Unique(cache, Slot) /\ Unique(routers, RouterSlot) /\ Routed(held)
      /\ Kept(cache, held, {})
  BY <1>5 DEF Fits, Unique, Routed, Kept, Waits
<1>7. Range(<<>>) = {}  BY DEF Range
<1>8. Base(s, {})  BY <1>2, <1>4, <1>6, <1>7 DEF Base
<1> QED  BY <1>1, <1>3, <1>7, <1>8 DEF Init, IInv

LEMMA NextOutcome == ASSUME IInv, Next
  PROVE  /\ Outcome
         /\ late' \subseteq Block /\ defRoute' \in RouterSlot \cup {NULL} /\ nbr' \in Slot \cup {NULL}
<1>0. late \subseteq Block /\ defRoute \in RouterSlot \cup {NULL} /\ nbr \in Slot \cup {NULL}
  BY DEF IInv
<1>1. CASE OwnPacket  BY <1>0, <1>1, OwnPacketOk DEF OwnPacket
<1>2. CASE NsInput
  <2>1. UNCHANGED <<late, defRoute>>  BY <1>2 DEF NsInput
  <2> QED  BY <1>0, <1>2, <2>1, NsInputOk
<1>3. CASE NaDoubt
  <2>1. UNCHANGED <<late, defRoute>>  BY <1>3 DEF NaDoubt
  <2> QED  BY <1>0, <1>3, <2>1, NaDoubtOk
<1>4. CASE NaInput
  <2>1. UNCHANGED <<late, defRoute>>  BY <1>4 DEF NaInput
  <2> QED  BY <1>0, <1>4, <2>1, NaInputOk
<1>5. CASE RaInput
  <2>1. UNCHANGED <<late, defRoute>>  BY <1>5 DEF RaInput
  <2> QED  BY <1>0, <1>5, <2>1, RaInputOk
<1>6. CASE DioInput  BY <1>0, <1>6, DioInputOk DEF DioInput
<1>7. CASE SetDefaultRoute
  <2>1. UNCHANGED <<late, nbr>>  BY <1>7 DEF SetDefaultRoute
  <2> QED  BY <1>0, <1>7, <2>1, SetDefaultRouteOk
<1>8. CASE PeriodicTimer
  <2>1. UNCHANGED <<late, defRoute, nbr>>  BY <1>8 DEF PeriodicTimer, Periodic
  <2> QED  BY <1>0, <1>8, <2>1, PeriodicTimerOk
<1>9. ASSUME NEW b \in Block, LifeExpires(b)
      PROVE  /\ Outcome /\ late' \subseteq Block
             /\ defRoute' \in RouterSlot \cup {NULL} /\ nbr' \in Slot \cup {NULL}
  BY <1>0, <1>9, LifeExpiresOk DEF LifeExpires
<1>10. ASSUME NEW b \in Block, LifeEvent(b)
       PROVE  /\ Outcome /\ late' \subseteq Block
              /\ defRoute' \in RouterSlot \cup {NULL} /\ nbr' \in Slot \cup {NULL}
  BY <1>0, <1>10, LifeEventOk DEF LifeEvent
<1> QED  BY <1>1, <1>2, <1>3, <1>4, <1>5, <1>6, <1>7, <1>8, <1>9, <1>10 DEF Next

LEMMA NextOk == IInv /\ [Next]_vars => IInv'
<1> SUFFICES ASSUME IInv, [Next]_vars PROVE IInv'  OBVIOUS
<1>1. CASE Next
  <2>1. /\ Outcome
        /\ late' \subseteq Block /\ defRoute' \in RouterSlot \cup {NULL} /\ nbr' \in Slot \cup {NULL}
    BY <1>1, NextOutcome
  <2>2. Base(S', {}) /\ sent' \in Seq(Message) /\ \A p \in Range(sent') : Sane(p)
    BY <2>1, OutcomeCorrect
  <2> QED  BY <2>1, <2>2 DEF IInv
<1>2. CASE UNCHANGED vars
  <2>1. /\ cache' = cache /\ held' = held /\ routers' = routers /\ late' = late
        /\ defRoute' = defRoute /\ nbr' = nbr /\ sent' = sent
    BY <1>2 DEF vars
  <2>2. S' = S  BY <2>1 DEF S
  <2> QED  BY <2>1, <2>2 DEF IInv
<1> QED  BY <1>1, <1>2

LEMMA Invariant == Spec => []IInv
BY InitOk, NextOk, PTL DEF Spec

(* A set in which any two are the same. *)
LEMMA AtMostOne ==
  ASSUME NEW A, \A x, y \in A : x = y
  PROVE  Cardinality(A) <= 1 /\ (A # {} => Cardinality(A) = 1)
<1>1. CASE A = {}  BY <1>1, FS_EmptySet
<1>2. CASE A # {}
  <2>1. PICK x : x \in A  BY <1>2
  <2>2. A = {x}  BY <2>1
  <2>3. Cardinality({x}) = 1  BY FS_Singleton
  <2>4. Cardinality(A) = 1  BY <2>2, <2>3
  <2> QED  BY <2>4
<1> QED  BY <1>1, <1>2

LEMMA TypeImplied == IInv => TypeOK
<1> SUFFICES ASSUME IInv PROVE TypeOK  OBVIOUS
<1>1. /\ S.cache = cache /\ S.held = held /\ S.routers = routers
      /\ cache \in Cache /\ held \in Held /\ routers \in Routers
      /\ Fits(cache) /\ Unique(cache, Slot) /\ Unique(routers, RouterSlot)
  BY SGood, Fields DEF Good, Base
<1>2. \A i \in Slot : cache[i] = NULL \/ cache[i] \in Entry  BY <1>1 DEF Cache
<1>3. \A b \in Block : held[b] = NULL \/ held[b] \in Packet  BY <1>1 DEF Held
<1>4. \A i \in RouterSlot : routers[i] = NULL \/ routers[i] \in Router  BY <1>1 DEF Routers
<1>5. ASSUME NEW a \in Address PROVE Cardinality(SlotOf(cache, a)) <= 1
  <2>1. \A i, j \in SlotOf(cache, a) : i = j  BY <1>1 DEF SlotOf, Unique
  <2> QED  BY <2>1, AtMostOne
<1>6. ASSUME NEW a \in Nbr PROVE Cardinality(RouterSlotOf(S, a)) <= 1
  <2>1. \A i, j \in RouterSlotOf(S, a) : i = j  BY <1>1 DEF RouterSlotOf, Unique
  <2> QED  BY <2>1, AtMostOne
<1>7. \A i \in Slot : cache[i] # NULL =>
        cache[i].nscount <= IF cache[i].state = "INCOMPLETE" THEN MaxMulticast ELSE MaxUnicast
  BY <1>1 DEF Fits, Fit, Limit
<1>8. late \subseteq Block /\ defRoute \in RouterSlot \cup {NULL} /\ nbr \in Slot \cup {NULL}
  BY DEF IInv
<1> QED  BY <1>2, <1>3, <1>4, <1>5, <1>6, <1>7, <1>8 DEF TypeOK

LEMMA KeptImplied == IInv => PacketsKept
<1> SUFFICES ASSUME IInv, NEW b \in Block
             PROVE  LET owners == {i \in Slot : cache[i] # NULL /\ cache[i].packet = b}
                    IN  IF held[b] = NULL THEN owners = {}
                        ELSE /\ Cardinality(owners) = 1
                             /\ \A i \in owners : /\ cache[i].addr = held[b].hop
                                                  /\ cache[i].state \in {"INCOMPLETE", "STALE"}
  BY DEF PacketsKept
<1> DEFINE owners == {i \in Slot : cache[i] # NULL /\ cache[i].packet = b}
<1>1. Kept(cache, held, {}) /\ b # NULL  BY SGood, NameAssumption DEF Good, Base
<1>2. \A i \in owners : Waits(cache[i]) /\ cache[i].packet = b /\ i \in Slot  BY <1>1 DEF Waits
<1>3. CASE held[b] = NULL
  BY <1>1, <1>2, <1>3 DEF Kept
<1>4. CASE held[b] # NULL
  <2>1. owners # {}  BY <1>1, <1>4 DEF Kept, Waits
  <2>2. \A i, j \in owners : i = j  BY <1>1, <1>2 DEF Kept
  <2>3. Cardinality(owners) = 1
    <3> HIDE DEF owners
    <3> QED  BY <2>1, <2>2, AtMostOne
  <2>4. \A i \in owners : cache[i].addr = held[b].hop /\ cache[i].state \in {"INCOMPLETE", "STALE"}
    BY <1>1, <1>2 DEF Kept
  <2> QED  BY <1>4, <2>3, <2>4
<1> QED  BY <1>3, <1>4

(* TypeOK of Neighbors: no address has two entries in the cache or in the  *)
(* list of default routers, whatever takes a slot from whom, and           *)
(* uip_ds6_periodic asks nobody more often than the limits say.            *)
THEOREM TypeCorrect == Spec => []TypeOK
<1>1. IInv => TypeOK  BY TypeImplied
<1> QED  BY <1>1, Invariant, PTL

(* PacketsKept: a block of uip-packetqueue.c in use belongs to exactly one *)
(* entry of the cache, which is its packet's next hop and is not known to  *)
(* be reachable yet; na_input, ra_input, uip_ds6_nbr_rm and the timers let *)
(* no packet be lost from its entry or be seen by two.                     *)
THEOREM PacketsAlwaysKept == Spec => []PacketsKept
<1>1. IInv => PacketsKept  BY KeptImplied
<1> QED  BY <1>1, Invariant, PTL

(* ToNextHop: tcpip_ipv6_output sends every packet, the ones that waited   *)
(* too, to its destination or to a default router, and only solicitations  *)
(* as multicast.  It goes to the link address the next hop has told, or to *)
(* the one of its DIO: an entry without a link address (Unset) is          *)
(* INCOMPLETE in every state the handlers reach, and nothing is sent to    *)
(* such an entry.                                                          *)
THEOREM AlwaysToNextHop == Spec => []ToNextHop
<1>1. IInv => ToNextHop  BY DEF IInv, ToNextHop, Sane
<1> QED  BY <1>1, Invariant, PTL

(* SolicitsSent: no step of tcpip_ipv6_output or uip_ds6_periodic counts a *)
(* solicitation that it does not send.                                     *)
THEOREM SolicitsAlwaysSent == Spec => SolicitsSent
<1> DEFINE A == \A i \in Slot :
       (Asked(i)' /\ \/ ~ Asked(i) /\ cache'[i].nscount > 0
                     \/ Asked(i) /\ cache'[i].addr = cache[i].addr
                        /\ cache'[i].nscount > cache[i].nscount)
       => \E p \in Range(sent') : p.kind = "NS" /\ p.to = cache'[i].addr
<1>1. IInv /\ [Next]_vars => [A]_vars
  <2> SUFFICES ASSUME IInv, Next PROVE A  OBVIOUS
  <2>1. Told(cache', sent', {})  BY NextOutcome, OutcomeCorrect
  <2>2. \A i \in Slot : Asked(i)' <=> Wants(cache'[i])  BY DEF Asked, Wants
  <2> QED  BY <2>1, <2>2 DEF Told, Grew, SolicitFor
<1>2. Spec => [][A]_vars
  <2> HIDE DEF A
  <2> QED  BY <1>1, Invariant, PTL DEF Spec
<1> QED  BY <1>2 DEF SolicitsSent

=============================================================================
