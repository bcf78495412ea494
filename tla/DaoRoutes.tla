----------------------------- MODULE DaoRoutes ------------------------------
(***************************************************************************)
(* The routes a node of a DODAG keeps to what lies below it (dao_input of  *)
(* rpl-icmp6.c, rpl_add_route and rpl_purge_routes of rpl.c, and the       *)
(* routing table of uip-ds6.c they write).  A DAO announces a target, a    *)
(* prefix, for a lifetime; one without a lifetime, a No-Path DAO, takes it *)
(* back.  The node routes to the target through the sender, passes the DAO *)
(* on to its preferred parent and counts the lifetime down.                *)
(*                                                                         *)
(* Sequence numbers are not looked at, so any DAO may come at any moment:  *)
(* lost, late and doubled ones are all among the behaviours.  rpld is a    *)
(* root and has no parent, until it moves to another DODAG.                *)
(***************************************************************************)
EXTENDS Integers, Sequences, FiniteSetsExt

CONSTANTS
  Prefix,       \* the targets of DAOs, as sequences of bits
  AddrLen,      \* the bits of an address, 128
  Octet,        \* the bits of an octet, 8
  Nbr,          \* the senders of DAOs
  RouteNB,      \* UIP_DS6_ROUTE_NB, the slots of uip_ds6_routing_table
  SizeRange,    \* the values of a uint8_t, 256
  Lifetime,     \* the lifetimes DAOs carry, in seconds
  Expiration,   \* DAO_EXPIRATION_TIMEOUT
  NULL

ASSUME PrefixAssumption ==
  \A p \in Prefix : p \in Seq({0, 1}) /\ Len(p) <= AddrLen
ASSUME LifetimeAssumption == Lifetime \subseteq Nat \ {0} /\ Expiration \in Nat \ {0}
ASSUME SlotAssumption == RouteNB \in Nat /\ SizeRange \in Nat \ {0}
ASSUME AddressAssumption == AddrLen \in Nat /\ Octet \in Nat \ {0}
Slot == 1 .. RouteNB

(* The slots uip_ds6_list_loop searches: its parameter size is a uint8_t,  *)
(* so of rpld's 1000 it searches 232.                                      *)
Searched == 1 .. RouteNB % SizeRange

VARIABLES
  table,       \* uip_ds6_routing_table: a route or NULL in each slot
  nearer,      \* the parents of a lower rank than the node's
  preferred,   \* dag->preferred_parent
  got,         \* history: the DAO the last step took, or NULL
  sent         \* the neighbour the last step passed a DAO on to, or NULL

parentVars == <<nearer, preferred>>
vars == <<table, nearer, preferred, got, sent>>

(* saved says whether saved_lifetime is set: its value is never used.      *)
Route == [prefix : Prefix, hop : Nbr, lifetime : Nat \ {0}, saved : BOOLEAN]

Dao == [from : Nbr, target : Prefix, lifetime : Lifetime \cup {0}]

ASSUME NullAssumption == NULL \notin Nbr \cup Route \cup Dao

-----------------------------------------------------------------------------
(* The address of a prefix: the rest is zeros, as senders of DAOs leave it *)
(* in its last octet, of which dao_input copies all bits.                  *)
Address(p) == [i \in 1 .. AddrLen |-> IF i <= Len(p) THEN p[i] ELSE 0]

(* uip_ipaddr_prefixcmp compares the whole octets of a prefix only: bits   *)
(* beyond the last of them are not looked at.                              *)
Compared(p) == 1 .. (Len(p) \div Octet) * Octet
Matches(p, addr) == \A i \in Compared(p) : p[i] = addr[i]

Used(t) == {i \in Slot : t[i] # NULL}

(* uip_ds6_route_lookup: the longest match, the last of several; 0 if none.*)
Lookup(t, addr) ==
  LET hits == {i \in Used(t) : Matches(t[i].prefix, addr)}
      longest == {i \in hits : \A j \in hits : Len(t[j].prefix) <= Len(t[i].prefix)}
  IN  IF hits = {} THEN 0 ELSE Max(longest)

(* uip_ds6_list_loop: the first entry that agrees with p as far as p goes, *)
(* else the last free slot, else 0.                                        *)
Agree(t, p) == {i \in Used(t) \cap Searched : Matches(p, Address(t[i].prefix))}
SlotFor(t, p) ==
  IF Agree(t, p) # {} THEN Min(Agree(t, p))
  ELSE IF Searched \subseteq Used(t) THEN 0
  ELSE Max(Searched \ Used(t))

(* rpl_add_route and the lifetime dao_input then gives the route.  An      *)
(* entry that is there keeps its prefix and saved lifetime; its next hop   *)
(* changes if it is what the lookup finds.  (A name with a suffix, here    *)
(* and below, is a wrong variant of the definition after it: with it in    *)
(* its place some property fails.)                                         *)
AddRoute_KeepsHop(t, dao) ==
  LET found == Lookup(t, Address(dao.target))
      i == SlotFor(t, dao.target)
  IN  IF found # 0 THEN [t EXCEPT ![found].lifetime = dao.lifetime]
      ELSE IF t[i] = NULL
      THEN [t EXCEPT ![i] = [prefix |-> dao.target, hop |-> dao.from,
                             lifetime |-> dao.lifetime, saved |-> FALSE]]
      ELSE [t EXCEPT ![i].lifetime = dao.lifetime]

AddRoute(t, dao) ==
  LET found == Lookup(t, Address(dao.target))
      i == SlotFor(t, dao.target)
  IN  IF found # 0
      THEN [t EXCEPT ![found].hop = dao.from, ![found].lifetime = dao.lifetime]
      ELSE IF t[i] = NULL
      THEN [t EXCEPT ![i] = [prefix |-> dao.target, hop |-> dao.from,
                             lifetime |-> dao.lifetime, saved |-> FALSE]]
      ELSE [t EXCEPT ![i].lifetime = dao.lifetime]

NoRoom(t, p) == Lookup(t, Address(p)) = 0 /\ SlotFor(t, p) = 0

(* rpl_purge_routes. *)
Purge_AtZero(t) ==
  [i \in Slot |-> IF t[i] = NULL \/ t[i].lifetime = 0 THEN NULL
                  ELSE [t[i] EXCEPT !.lifetime = @ - 1]]

Purge(t) ==
  [i \in Slot |-> IF t[i] = NULL \/ t[i].lifetime <= 1 THEN NULL
                  ELSE [t[i] EXCEPT !.lifetime = @ - 1]]

(* rpl_remove_routes: every route is of the DODAG the node is in.          *)
RemoveRoutes == [i \in Slot |-> NULL]

(* rpl_remove_routes_by_nexthop. *)
RemoveByNextHop(t, n) ==
  [i \in Slot |-> IF t[i] # NULL /\ t[i].hop = n THEN NULL ELSE t[i]]

-----------------------------------------------------------------------------
Init ==
  /\ table = RemoveRoutes
  /\ nearer = {} /\ preferred = NULL
  /\ got = NULL /\ sent = NULL

Gets(dao) == got' = dao

(* A No-Path DAO lets the route live for a while: the target may move, and *)
(* is to be reached until its new DAO comes.  It takes back the route that *)
(* is found if the lengths agree.                                          *)
Expiring_Again(t, dao) ==
  {i \in {Lookup(t, Address(dao.target))} \ {0} : Len(t[i].prefix) = Len(dao.target)}

Expiring(t, dao) ==
  {i \in {Lookup(t, Address(dao.target))} \ {0} :
     ~ t[i].saved /\ Len(t[i].prefix) = Len(dao.target)}

NoPathInput ==
  \E dao \in Dao :
    /\ dao.lifetime = 0 /\ Gets(dao)
    /\ table' = [i \in Slot |-> IF i \in Expiring(table, dao)
                                THEN [table[i] EXCEPT !.lifetime = Expiration, !.saved = TRUE]
                                ELSE table[i]]
    /\ sent' = NULL
    /\ UNCHANGED parentVars

(* A DAO from above: it goes in a circle.  The parent gets an infinite     *)
(* rank, but stays the preferred one until the next tick.                  *)
FromAbove(dao) == dao.from \in nearer

DaoLoop ==
  \E dao \in Dao :
    /\ dao.lifetime # 0 /\ FromAbove(dao) /\ Gets(dao)
    /\ nearer' = nearer \ {dao.from}
    /\ sent' = NULL
    /\ UNCHANGED <<table, preferred>>

DaoInput ==
  \E dao \in Dao :
    /\ dao.lifetime # 0 /\ ~ FromAbove(dao) /\ ~ NoRoom(table, dao.target) /\ Gets(dao)
    /\ table' = AddRoute(table, dao)
    /\ sent' = preferred
    /\ UNCHANGED parentVars

DaoNoRoom ==
  \E dao \in Dao :
    /\ dao.lifetime # 0 /\ ~ FromAbove(dao) /\ NoRoom(table, dao.target) /\ Gets(dao)
    /\ sent' = NULL
    /\ UNCHANGED <<table, parentVars>>

-----------------------------------------------------------------------------
(* What happens to the parents (RplDag), as far as routes are concerned.   *)
Quiet == got' = NULL /\ sent' = NULL

NewParents ==
  /\ nearer' \in SUBSET Nbr
  /\ preferred' \in nearer' \cup {NULL}

(* A DIO: ranks and the preferred parent may change.                       *)
DioInput == NewParents /\ Quiet /\ UNCHANGED table

(* A DIO that makes the node leave its DODAG (rpl_select_dag).             *)
LeaveDag == NewParents /\ Quiet /\ table' = RemoveRoutes

(* A DIO that takes a parent to another DODAG (rpl_move_parent).           *)
MoveParent ==
  \E n \in nearer \ {preferred} :
    /\ table' = RemoveByNextHop(table, n)
    /\ nearer' = nearer \ {n}
    /\ Quiet
    /\ UNCHANGED preferred

(* rpl_ipv6_neighbor_callback: the routes through the neighbour stay.      *)
NeighborRemoved ==
  \E n \in nearer :
    /\ nearer' = nearer \ {n}
    /\ Quiet
    /\ UNCHANGED <<table, preferred>>

(* handle_periodic_timer: routes age, and a preferred parent of infinite   *)
(* rank is given up.                                                       *)
PeriodicTimer ==
  /\ table' = Purge(table)
  /\ IF preferred \in nearer \cup {NULL} THEN UNCHANGED preferred
     ELSE preferred' \in nearer \cup {NULL}
  /\ Quiet
  /\ UNCHANGED nearer

DaoStep == NoPathInput \/ DaoLoop \/ DaoInput \/ DaoNoRoom

Next == DaoStep \/ DioInput \/ LeaveDag \/ MoveParent \/ NeighborRemoved \/ PeriodicTimer

Spec == Init /\ [][Next]_vars

(* The periodic timer never stops (Ctimer). *)
FairSpec == Spec /\ WF_vars(PeriodicTimer)

-----------------------------------------------------------------------------
(* PROPERTIES *)

(* Every variable has its type; a route in the table has a second to live, *)
(* and no slot beyond the searched ones is ever used.                      *)
TypeOK ==
  /\ table \in [Slot -> Route \cup {NULL}] /\ Used(table) \subseteq Searched
  /\ nearer \subseteq Nbr
  /\ preferred \in Nbr \cup {NULL}
  /\ got \in Dao \cup {NULL}
  /\ sent \in Nbr \cup {NULL}

(* Targets one of which agrees with the other, as far as the code looks:   *)
(* one lies in the other, or both differ beyond their whole octets only.   *)
(* A flat target has no other such target.                                 *)
Related ==
  {r \in Prefix \X Prefix : Matches(r[1], Address(r[2])) \/ Matches(r[2], Address(r[1]))}
Flat == {p \in Prefix : \A q \in Prefix \ {p} : <<p, q>> \notin Related}

HopTo(t, p) == {t[i].hop : i \in {j \in Used(t) : t[j].prefix = p}}

(* The last step took a DAO for p, or one for p or a related target.       *)
Announced(p) == got # NULL /\ got.lifetime # 0 /\ got.target = p
Refreshed(p) == got # NULL /\ got.lifetime # 0 /\ <<p, got.target>> \in Related

(* No prefix has two routes.  A target gets a new next hop from a DAO for  *)
(* a related target only, and then the sender of it, whatever other DAOs,  *)
(* No-Path DAOs, parents and timers do; and a flat target is never left    *)
(* with another next hop than the sender of the last DAO for it            *)
(* (rpl_add_route, uip_ds6_route_add).                                     *)
HopFollowsDao ==
  [][/\ \A i, j \in Used(table') : table'[i].prefix = table'[j].prefix => i = j
     /\ \A p \in Prefix :
          ~ HopTo(table', p) \subseteq HopTo(table, p) =>
              Refreshed(p)' /\ HopTo(table', p) = {got'.from}
     /\ \A p \in Flat :
          Announced(p)' /\ got'.from \notin nearer => HopTo(table', p) \in {{}, {got'.from}}]_vars

(* A target is forgotten once nobody announces it or a related one any     *)
(* more, however often it is taken back: its route does not outlive its    *)
(* lifetime for ever (dao_input, rpl_purge_routes).                        *)
Expires ==
  \A p \in Prefix : []<>Refreshed(p) \/ <>[](HopTo(table, p) = {})

(* What a node announces to its parent it can route itself: when a DAO is  *)
(* passed on, the address of its target is looked up to a route through    *)
(* the sender, whichever slot the search for one has come upon.  The       *)
(* exception is a network whose DAO comes after that of a host in it: it   *)
(* gets no route of its own (uip_ds6_route_add takes the host's for it).   *)
AnnouncesRouted ==
  [][sent' # NULL =>
       LET i == Lookup(table', Address(got'.target))
       IN  IF i # 0 THEN table'[i].hop = got'.from
           ELSE Agree(table, got'.target) # {}]_vars
=============================================================================
