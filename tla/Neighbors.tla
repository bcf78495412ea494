----------------------------- MODULE Neighbors ------------------------------
(***************************************************************************)
(* The neighbour cache of the stack: address resolution and unreachability *)
(* detection (uip-nd6.c, the neighbour loop of uip_ds6_periodic), the      *)
(* packets that wait for an address (uip-packetqueue.c), the list of       *)
(* default routers, which router advertisements and RPL both write, and    *)
(* tcpip_ipv6_output, which uses all of them.                              *)
(*                                                                         *)
(* Every handler runs to its end before the next.  Timers are not counted: *)
(* any that runs may have expired when it is looked at.  nscount is kept   *)
(* only while an entry is asked for (INCOMPLETE, PROBE): elsewhere nobody  *)
(* reads it before it is set.  The daemon has a preferred link-local       *)
(* address; how it gets one is in PacketPath.                              *)
(***************************************************************************)
EXTENDS Integers, Sequences, FiniteSetsExt, Functions

CONSTANTS
  Nbr,            \* the nodes of the link
  RplNbr,         \* those of them that send DIOs
  RouterNbr,      \* those of them that send router advertisements
  Self,           \* this node's own address
  Far,            \* an address that is not on the link and has no route
  Multicast,      \* the link address of multicast packets
  Unset,          \* zeros, where no link address has been filled in
  Sender,         \* PACKETBUF_ADDR_SENDER: zeros too, nothing on Ethernet sets it
  NbrNB,          \* UIP_DS6_NBR_NB
  DefrtNB,        \* UIP_DS6_DEFRT_NB
  Block,          \* the blocks of packets_memb
  MaxMulticast,   \* UIP_ND6_MAX_MULTICAST_SOLICIT
  RplInfinite,    \* does the default route of RPL have no lifetime?
  MaxUnicast,     \* UIP_ND6_MAX_UNICAST_SOLICIT
  NULL

ASSUME NumberAssumption ==
  {NbrNB, DefrtNB, MaxMulticast, MaxUnicast} \subseteq Nat \ {0}
VARIABLES
  cache,      \* uip_ds6_nbr_cache: an entry or NULL in each slot
  held,       \* packets_memb: the packet in each block, NULL if it is free
  late,       \* the blocks of which a TIMER event is in the event queue
  routers,    \* uip_ds6_defrt_list: a router or NULL in each slot
  defRoute,   \* instance->def_route: a slot of routers
  nbr,        \* the static variable nbr of uip-nd6.c: a slot of cache
  sent        \* history: the packets the last step gave to the device

vars == <<cache, held, late, routers, defRoute, nbr, sent>>

Slot == 1 .. NbrNB
RouterSlot == 1 .. DefrtNB
Address == Nbr \cup {Self}
Target == Address \cup {Far}

(* The link address of a node goes by the name of the node.                *)
LinkAddress == Address \cup {Unset, Sender}
Entry == [addr : Address, lladdr : LinkAddress,
          state : {"INCOMPLETE", "REACHABLE", "STALE", "DELAY", "PROBE"}, nscount : Nat, isrouter : BOOLEAN, packet : Block \cup {NULL}]
Packet == [to : Target, hop : Address]
Router == [addr : Nbr, infinite : BOOLEAN]

ASSUME RoleAssumption == RplNbr \subseteq Nbr /\ RouterNbr \subseteq Nbr

ASSUME NameAssumption ==
  /\ Self \notin Nbr /\ Far \notin Address
  /\ {Multicast, Unset, Sender} \cap Target = {} /\ Multicast \notin {Unset, Sender}
  /\ Unset # Sender
  /\ NULL \notin Target \cup Block \cup Slot \cup RouterSlot
  /\ NULL \notin Entry /\ NULL \notin Packet /\ NULL \notin Router
  /\ RplInfinite \in BOOLEAN

-----------------------------------------------------------------------------
(* The tables.  What a handler may change is one record, s.                *)
SlotOf(c, a) == {i \in Slot : c[i] # NULL /\ c[i].addr = a}
NbrLookup(c, a) == IF SlotOf(c, a) = {} THEN NULL ELSE Min(SlotOf(c, a))

(* uip_packetqueue_free.  (A name with a suffix, here and below, is a      *)
(* wrong variant of the definition after it: with it in its place some     *)
(* property fails.)                                                        *)
PacketFree_KeepsBlock(s, i) == [s EXCEPT !.cache[i].packet = NULL]

PacketFree(s, i) ==
  LET b == s.cache[i].packet
  IN  IF b = NULL THEN s ELSE [s EXCEPT !.cache[i].packet = NULL, !.held[b] = NULL]

(* uip_packetqueue_alloc and the copy after it: nothing is queued if a     *)
(* packet waits already or no block is free.                               *)
Enqueue(s, i, to) ==
  LET free == {b \in Block : s.held[b] = NULL}
  IN  IF s.cache[i].packet # NULL \/ free = {} THEN s
      ELSE LET b == CHOOSE x \in free : TRUE
           IN  [s EXCEPT !.cache[i].packet = b,
                         !.held[b] = [to |-> to, hop |-> s.cache[i].addr]]

NbrRm(s, i) == [PacketFree(s, i) EXCEPT !.cache[i] = NULL]

NewEntry(a, lladdr, state, isrouter) ==
  [addr |-> a, lladdr |-> lladdr, state |-> state, nscount |-> 0, isrouter |-> isrouter, packet |-> NULL]

(* An entry whose neighbour has told its link address. *)
Resolved(e) == [e EXCEPT !.lladdr = e.addr]

(* An entry in another state, for which it has not been asked yet.         *)
Turned(e, state) == [e EXCEPT !.state = state, !.nscount = 0]

(* uip_ds6_nbr_add of an address that has no entry: the outcomes, with the *)
(* slot taken.  A full cache gives up the entry that was looked up longest *)
(* ago, whichever it is, or none if all were looked up just now.           *)
NbrAdd(s, e) ==
  LET free == {i \in Slot : s.cache[i] = NULL}
  IN  IF free # {} THEN {<<[s EXCEPT !.cache[Max(free)] = e], Max(free)>>}
      ELSE {<<s, NULL>>} \cup {<<[NbrRm(s, i) EXCEPT !.cache[i] = e], i>> : i \in Slot}

RouterSlotOf(s, a) == {i \in RouterSlot : s.routers[i] # NULL /\ s.routers[i].addr = a}

(* uip_ds6_defrt_rm and uip_ds6_defrt_add; the slot taken, if any.         *)
DefrtRm(s, R) == [s EXCEPT !.routers = [i \in RouterSlot |-> IF i \in R THEN NULL ELSE @[i]]]

FreeRouter(s) == {i \in RouterSlot : s.routers[i] = NULL}

DefrtAdd(s, a, infinite) ==
  IF RouterSlotOf(s, a) # {} \/ FreeRouter(s) = {} THEN s
  ELSE [s EXCEPT !.routers[Max(FreeRouter(s))] = [addr |-> a, infinite |-> infinite]]

(* uip_ds6_defrt_choose: the first router whose address is resolved, else  *)
(* the last one.                                                           *)
DefrtChoose(s) ==
  LET used == {i \in RouterSlot : s.routers[i] # NULL}
      resolved == {i \in used : \E j \in SlotOf(s.cache, s.routers[i].addr) :
                                  s.cache[j].state # "INCOMPLETE"}
  IN  IF used = {} THEN NULL
      ELSE s.routers[IF resolved # {} THEN Min(resolved) ELSE Max(used)].addr

-----------------------------------------------------------------------------
(* tcpip_ipv6_output.  Its packets are solicitations (NS) and all others.  *)
Send(s, kind, to, hop, via) ==
  [s EXCEPT !.sent = Append(@, [kind |-> kind, to |-> to, hop |-> hop, via |-> via])]

(* A resolved neighbour: the packet goes out, and the one that waits.      *)
Transmit(s, i, kind, to) ==
  LET e == s.cache[i]
      up == IF e.state = "STALE"
            THEN [s EXCEPT !.cache[i] = Turned(e, "DELAY")] ELSE s
      out == Send(up, kind, to, e.addr, e.lladdr)
  IN  IF e.packet = NULL THEN out
      ELSE Send(PacketFree(out, i), "data", s.held[e.packet].to, s.held[e.packet].hop, e.lladdr)

(* An unknown one: the packet waits and a solicitation goes out.           *)
Solicit(s, i, to) ==
  Send([Enqueue(s, i, to) EXCEPT !.cache[i].nscount = 1],
       "NS", s.cache[i].addr, s.cache[i].addr, Multicast)

NextHop(s, to) == IF to = Far THEN DefrtChoose(s) ELSE to

Output(s, kind, to) ==
  LET hop == NextHop(s, to)
      i == NbrLookup(s.cache, hop)
  IN  IF hop = NULL THEN {s}
      ELSE IF i = NULL
      THEN {IF r[2] = NULL THEN r[1] ELSE Solicit(r[1], r[2], to) :
              r \in NbrAdd(s, NewEntry(hop, Unset, "INCOMPLETE", FALSE))}
      ELSE IF s.cache[i].state = "INCOMPLETE" THEN {Enqueue(s, i, to)}
      ELSE {Transmit(s, i, kind, to)}

(* The end of na_input and ra_input: the packet that waits takes the place *)
(* of the message in uip_buf, and packet_input sends it off.               *)
Release(s, i) ==
  IF i = NULL \/ s.cache[i] = NULL \/ s.cache[i].packet = NULL THEN {s}
  ELSE Output(PacketFree(s, i), "data", s.held[s.cache[i].packet].to)

-----------------------------------------------------------------------------
S == [cache |-> cache, held |-> held, routers |-> routers, sent |-> <<>>]

Become(s) ==
  /\ cache' = s.cache /\ held' = s.held
  /\ routers' = s.routers /\ sent' = s.sent

Init ==
  /\ cache = [i \in Slot |-> NULL]
  /\ held = [b \in Block |-> NULL] /\ late = {}
  /\ routers = [i \in RouterSlot |-> NULL] /\ defRoute = NULL
  /\ nbr = NULL
  /\ sent = <<>>

(* A unicast packet of this node's own: a DAO, an echo reply; or a packet  *)
(* it has received itself and that a timer sends back (PacketPath).        *)
OwnPacket ==
  \E to \in Target :
    /\ \E s \in Output(S, "data", to) : Become(s)
    /\ UNCHANGED <<late, defRoute, nbr>>

(* What a message says of its sender's link address: nothing, the one the  *)
(* sender's entry has, if it has one, or another.                          *)
Llao(i) ==
  {NULL, "other"} \cup
  IF i = NULL \/ cache[i].lladdr \in {Unset, Sender} THEN {} ELSE {"same"}

(* uip_nd6_ns_input, of a solicitation that is not a duplicate address     *)
(* check: the sender is learned, the answer goes out if it asks for us.    *)
(* nbr is what the lookup found, not what it added.                        *)
LearnNs_Forgets(i, llao) ==
  IF llao = "other" THEN [S EXCEPT !.cache[i] = Turned(@, "STALE")] ELSE S

LearnNs(i, llao) ==
  IF llao = "other" THEN [S EXCEPT !.cache[i] = Turned(Resolved(@), "STALE")] ELSE S

NsInput ==
  \E from \in Nbr, ours \in BOOLEAN :
    LET i == NbrLookup(cache, from)
        learned(llao) == IF llao = NULL THEN {S}
                         ELSE IF i = NULL
                         THEN {r[1] : r \in NbrAdd(S, NewEntry(from, from, "STALE", FALSE))}
                         ELSE {LearnNs(i, llao)}
    IN  \E llao \in Llao(i) :
          /\ nbr' = IF llao = NULL THEN nbr ELSE i
          /\ \E s \in learned(llao) :
               \E t \in IF ours THEN Output(s, "data", from) ELSE {s} : Become(t)
          /\ UNCHANGED <<late, defRoute>>

(* uip_nd6_na_input, of an advertisement for the sender's own address.     *)
Advertised(e, llao, solicited, isrouter) ==
  LET changes == solicited \/ llao = "other"
  IN  [e EXCEPT !.lladdr = IF llao = "other" THEN e.addr ELSE @,
                !.state = IF solicited THEN "REACHABLE" ELSE IF changes THEN "STALE" ELSE @,
                !.nscount = IF changes THEN 0 ELSE @,
                !.isrouter = isrouter]

(* An advertisement that is not to override, of another link address,      *)
(* leaves the cached one in doubt; one without an address says nothing of  *)
(* an entry that waits for it.                                             *)
NaDoubt ==
  \E from \in Nbr :
    LET i == NbrLookup(cache, from)
    IN  /\ nbr' = i
        /\ Become(IF i # NULL /\ cache[i].state = "REACHABLE"
                  THEN [S EXCEPT !.cache[i].state = "STALE"] ELSE S)
        /\ UNCHANGED <<late, defRoute>>

(* A neighbour that was a router and is none now is no default router.     *)
NaInput ==
  \E from \in Nbr, solicited, isrouter \in BOOLEAN :
    LET i == NbrLookup(cache, from)
        resigns == cache[i].state # "INCOMPLETE" /\ cache[i].isrouter /\ ~ isrouter
        told(llao) == [S EXCEPT !.cache[i] = Advertised(@, llao, solicited, isrouter)]
    IN  /\ i # NULL /\ nbr' = i
        /\ \E llao \in Llao(i) :
             /\ cache[i].state = "INCOMPLETE" => llao # NULL
             /\ \E s \in Release(DefrtRm(told(llao), IF resigns THEN RouterSlotOf(S, from) ELSE {}), i) :
                  Become(s)
        /\ UNCHANGED <<late, defRoute>>

(* uip_nd6_ra_input.  Without a link address option the neighbour it goes  *)
(* on with is the one of an earlier message, or the entry that has taken   *)
(* its slot since.                                                         *)
LearnRa(i, llao) == [LearnNs(i, llao) EXCEPT !.cache[i].isrouter = TRUE]

MarkRouter(s, i) ==
  IF i = NULL \/ s.cache[i] = NULL THEN s ELSE [s EXCEPT !.cache[i].isrouter = TRUE]

RaInput ==
  \E from \in RouterNbr, lives \in BOOLEAN :
    LET i == NbrLookup(cache, from)
        learned(llao) == IF llao = NULL THEN {<<S, nbr>>}
                         ELSE IF i = NULL THEN NbrAdd(S, NewEntry(from, from, "STALE", TRUE))
                         ELSE {<<LearnRa(i, llao), i>>}
    IN  /\ \E r \in UNION {learned(llao) : llao \in Llao(i)} :
             LET s == IF lives THEN DefrtAdd(MarkRouter(r[1], r[2]), from, FALSE)
                      ELSE DefrtRm(r[1], RouterSlotOf(S, from))
             IN  nbr' = r[2] /\ \E t \in Release(s, r[2]) : Become(t)
        /\ UNCHANGED <<late, defRoute>>

(* dio_input: the sender of a DIO is taken for reachable, at the link      *)
(* address packetbuf names.                                                *)
DioInput ==
  \E from \in RplNbr :
    /\ NbrLookup(cache, from) = NULL
    /\ \E r \in NbrAdd(S, NewEntry(from, Sender, "REACHABLE", FALSE)) : Become(r[1])
    /\ UNCHANGED <<late, defRoute, nbr>>

(* rpl_set_default_route: the router is unlisted that is in the slot now.  *)
SetDefaultRoute ==
  \E from \in RplNbr \cup {NULL} :
    LET s == DefrtRm(S, {defRoute} \ {NULL})
        t == IF from = NULL THEN s ELSE DefrtAdd(s, from, RplInfinite)
    IN  /\ Become(t)
        /\ defRoute' = IF t = s THEN NULL ELSE Max(FreeRouter(s))
        /\ UNCHANGED <<late, nbr>>

-----------------------------------------------------------------------------
(* uip_ds6_periodic.  Default routers expire; the timers of the entries in *)
(* expired have run out.  Only one solicitation fits in uip_buf, and none  *)
(* if a received packet is there: for the entry, as if its timer still ran.*)
GivenUp_Later(e) ==
  \/ e.state = "INCOMPLETE" /\ e.nscount > MaxMulticast
  \/ e.state = "PROBE" /\ e.nscount > MaxUnicast

GivenUp(e) ==
  \/ e.state = "INCOMPLETE" /\ e.nscount >= MaxMulticast
  \/ e.state = "PROBE" /\ e.nscount >= MaxUnicast

Aged(e) ==
  IF e.state = "REACHABLE" THEN [e EXCEPT !.state = "STALE"]
  ELSE IF e.state = "DELAY" THEN Turned(e, "PROBE")
  ELSE e

Asking_All(wants) == wants
Asking(wants) == IF wants = {} THEN {} ELSE {Min(wants)}

(* The solicitation of an entry in state PROBE is unicast.                 *)
Ask(s, i) ==
  IF s.cache[i].state = "PROBE" THEN Transmit(s, i, "NS", s.cache[i].addr)
  ELSE Send(s, "NS", s.cache[i].addr, s.cache[i].addr, Multicast)

Periodic(expired, gone) ==
  LET used == {i \in Slot : cache[i] # NULL}
      fails == {i \in used : GivenUp(cache[i])}
      lost == {i \in RouterSlot : routers[i] # NULL /\ ~ routers[i].infinite
                 /\ \E j \in fails : cache[j].state = "PROBE" /\ cache[j].addr = routers[i].addr}
      wants == {i \in (used \ fails) \cap expired : cache[i].state \in {"INCOMPLETE", "PROBE"}}
      asks == Asking(wants)
      s == [DefrtRm(S, gone \cup lost) EXCEPT
              !.cache = [i \in Slot |->
                 IF i \in fails THEN NULL
                 ELSE IF i \in asks THEN [cache[i] EXCEPT !.nscount = @ + 1]
                 ELSE IF i \in used \cap expired THEN Aged(cache[i])
                 ELSE cache[i]],
              !.held = [b \in Block |->
                 IF \E i \in fails : cache[i].packet = b THEN NULL ELSE held[b]]]
  IN  /\ Become(IF asks = {} THEN s ELSE Ask(s, Max(asks)))
      /\ UNCHANGED <<late, defRoute, nbr>>

PeriodicTimer ==
  \E expired \in SUBSET {i \in Slot : cache[i] # NULL},
     gone \in SUBSET {i \in RouterSlot : routers[i] # NULL /\ ~ routers[i].infinite} :
    Periodic(expired, gone)

(* The timer of a waiting packet expires: its event goes into the queue,   *)
(* and stays there if the packet leaves its block and another one takes it.*)
LifeExpires(b) ==
  /\ held[b] # NULL /\ b \notin late
  /\ late' = late \cup {b}
  /\ sent' = <<>>
  /\ UNCHANGED <<cache, held, routers, defRoute, nbr>>

(* packet_timedout, if the timer of the block is still set.                *)
TimedOut_Resolved(e, b) == e # NULL /\ e.packet = b /\ e.state = "INCOMPLETE"
TimedOut(e, b) == e # NULL /\ e.packet = b

LifeEvent(b) ==
  LET out == {i \in Slot : TimedOut(cache[i], b)}
  IN  /\ b \in late /\ late' = late \ {b}
      /\ Become(IF out = {} THEN S ELSE PacketFree(S, Min(out)))
      /\ UNCHANGED <<defRoute, nbr>>

Next ==
  \/ OwnPacket \/ NsInput \/ NaDoubt \/ NaInput \/ RaInput \/ DioInput
  \/ SetDefaultRoute \/ PeriodicTimer
  \/ \E b \in Block : LifeExpires(b) \/ LifeEvent(b)

Spec == Init /\ [][Next]_vars

(* A timer that runs expires, and its event is handled (Ctimer, Process).  *)
FairSpec == Spec /\ \A b \in Block : WF_vars(LifeExpires(b) \/ LifeEvent(b))

-----------------------------------------------------------------------------
(* Type invariant.  No address has two entries, in either table, and no    *)
(* entry is asked more often than it may be.                               *)
TypeOK ==
  /\ \A i \in Slot : cache[i] = NULL \/ cache[i] \in Entry
  /\ \A i \in Slot : cache[i] # NULL =>
       cache[i].nscount <= IF cache[i].state = "INCOMPLETE" THEN MaxMulticast ELSE MaxUnicast
  /\ \A b \in Block : held[b] = NULL \/ held[b] \in Packet
  /\ late \subseteq Block
  /\ \A i \in RouterSlot : routers[i] = NULL \/ routers[i] \in Router
  /\ defRoute \in RouterSlot \cup {NULL} /\ nbr \in Slot \cup {NULL}
  /\ \A a \in Address : Cardinality(SlotOf(cache, a)) <= 1
  /\ \A a \in Nbr : Cardinality(RouterSlotOf(S, a)) <= 1

(* Packets that wait (uip-packetqueue.c) are neither lost nor shared: each *)
(* block in use belongs to one entry, whose neighbour is the packet's next *)
(* hop and is not known to be reachable yet; a free block to none.         *)
PacketsKept ==
  \A b \in Block :
    LET owners == {i \in Slot : cache[i] # NULL /\ cache[i].packet = b}
    IN  IF held[b] = NULL THEN owners = {}
        ELSE /\ Cardinality(owners) = 1
             /\ \A i \in owners : /\ cache[i].addr = held[b].hop
                                  /\ cache[i].state \in {"INCOMPLETE", "STALE"}

(* What tcpip_ipv6_output sends, now or when the neighbour has answered,   *)
(* goes to its destination, or to a router if that is not on the link, at  *)
(* the link address the next hop itself has told last: never at one not    *)
(* filled in, however packets, messages and evictions follow each other.   *)
(* Only solicitations go out as multicast.  The exception is an entry that *)
(* a DIO has made: packets go to Sender until its neighbour tells another. *)
ToNextHop ==
  \A p \in Range(sent) :
    /\ p.via \in {p.hop, Multicast, Sender}
    /\ p.via = Multicast => p.kind = "NS"
    /\ p.hop = p.to \/ p.to = Far

(* Nobody is given up, or taken to have been asked, unasked: when the      *)
(* count of solicitations of an entry (nscount) grows, and when an entry   *)
(* without a link address is made, a solicitation leaves in that step.     *)
Asked(i) == cache[i] # NULL /\ cache[i].state \in {"INCOMPLETE", "PROBE"}

SolicitsSent ==
  [][\A i \in Slot :
       (Asked(i)' /\ \/ ~ Asked(i) /\ cache'[i].nscount > 0
                     \/ Asked(i) /\ cache'[i].addr = cache[i].addr
                        /\ cache'[i].nscount > cache[i].nscount)
       => \E p \in Range(sent') : p.kind = "NS" /\ p.to = cache'[i].addr]_vars

(* No packet waits for ever, whatever messages and timers do to its entry: *)
(* every block of packets_memb becomes free again and again.               *)
Drains == \A b \in Block : []<>(held[b] = NULL)
=============================================================================
