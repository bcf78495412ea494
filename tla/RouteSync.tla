----------------------------- MODULE RouteSync ------------------------------
(***************************************************************************)
(* The border router process of rpld.c: it mirrors the routes RPL has      *)
(* learned, uip_ds6_routing_table, in the routing table of the kernel.     *)
(* rpld keeps a radix tree of the routes it knows between the two, loads   *)
(* it from the kernel when it starts (br_init), and after every packet     *)
(* runs br_poll: unlock every node, lock and mark the node of every        *)
(* learned route, then walk the tree and tell the kernel what changed.     *)
(*                                                                         *)
(* br_poll runs to its end before any other process of the daemon does, so *)
(* routes are learned and forgotten between polls only.  The daemon can    *)
(* stop between any two messages to the kernel, as it does itself when a   *)
(* send fails, and is then started again on what it left in the kernel.    *)
(***************************************************************************)
EXTENDS RouteTable

CONSTANTS
  RouteNB,         \* the slots of uip_ds6_routing_table that are ever used
  MaxChanges       \* the changes RPL makes to its routes between two polls

ASSUME MaxChangesAssumption == MaxChanges \in Nat
ASSUME RouteNBAssumption == RouteNB \in Nat

VARIABLES
  table,      \* rt
  ds6,        \* uip_ds6_routing_table: the next hop of each prefix, or NULL
  place,      \* the slot of each learned route in that table, 0 for the others
  fib,        \* external: the kernel's RPL routes through this interface
  pc,         \* where br_init or br_poll stands
  todo,       \* the routes its loop still has to look at
  cursor,     \* the node its walk stands on, or NULL
  changes,    \* the changes made to ds6 since the last poll
  calm        \* history: since the start no poll has found two changes

vars == <<table, ds6, place, fib, pc, todo, cursor, changes, calm>>

Learned == {p \in Prefix : ds6[p] # NULL}

-----------------------------------------------------------------------------
(* br_init: every route of the kernel's dump gets a node, in any order. *)

Init ==
  /\ table = EmptyTable
  /\ ds6 = [p \in Prefix |-> NULL] /\ place = [p \in Prefix |-> 0]
  /\ fib = {}
  /\ pc = "load"
  /\ todo = {}
  /\ cursor = NULL
  /\ changes = 0
  /\ calm = TRUE

(* A node holds a route, by a next hop, and is locked once more. *)
SetRoute(n, hop, status) == [n EXCEPT !.info = hop, !.status = status, !.lock = @ + 1]

FromKernel(t, p, hop) ==
  [GetNode(t, p) EXCEPT !.node[p] = SetRoute(@, hop, "KERNEL")]

Load ==
  /\ pc = "load"
  /\ \E r \in todo : /\ table' = Scrub(FromKernel(table, r[1], r[2]))
                     /\ todo' = todo \ {r}
  /\ UNCHANGED <<ds6, place, fib, pc, cursor, changes, calm>>

Loaded ==
  /\ pc = "load" /\ todo = {}
  /\ pc' = "idle"
  /\ UNCHANGED <<table, ds6, place, fib, todo, cursor, changes, calm>>

-----------------------------------------------------------------------------
(* What the other processes do to the learned routes between two polls.  A *)
(* new route takes the last free slot (uip_ds6_list_loop), a new next hop  *)
(* none, and a full table takes no new route.                              *)
Slot == 1 .. RouteNB
Taken(i) == \E p \in Learned : place[p] = i
LastFree(i) == ~ Taken(i) /\ \A j \in Slot : j > i => Taken(j)

Change(p, hop) ==
  /\ pc = "idle" /\ changes < MaxChanges
  /\ ds6' = [ds6 EXCEPT ![p] = hop]
  /\ changes' = changes + 1
  /\ calm' = (calm /\ changes = 0)
  /\ UNCHANGED <<table, fib, pc, todo, cursor>>

Learn ==
  \E p \in Prefix, hop \in Hop :
    /\ ds6[p] # hop /\ Change(p, hop)
    /\ \/ p \in Learned /\ UNCHANGED place
       \/ p \notin Learned /\ \E i \in Slot : LastFree(i) /\ place' = [place EXCEPT ![p] = i]

Forget == \E p \in Learned : Change(p, NULL) /\ place' = [place EXCEPT ![p] = 0]

-----------------------------------------------------------------------------
(* br_poll: every node is unlocked, and that of a learned route locked     *)
(* again and marked with what became of the route since the last poll, in  *)
(* the order of the slots.                                                 *)

Poll ==
  /\ pc = "idle"
  /\ pc' = "sync"
  /\ table' = UnlockAll(table)
  /\ todo' = {<<p, ds6[p]>> : p \in Learned}
  /\ changes' = 0
  /\ UNCHANGED <<ds6, place, fib, cursor, calm>>

Mark_NeverModified(t, p, hop) ==
  IF ~ Has(t, p) THEN "CREATED" ELSE "UPDATED"

Mark_NeverUpdated(t, p, hop) ==
  IF ~ Has(t, p) THEN "CREATED" ELSE "MODIFIED"

Mark(t, p, hop) ==
  IF ~ Has(t, p) THEN "CREATED"
  ELSE IF t.node[p].info = hop THEN "UPDATED"
  ELSE "MODIFIED"

Sync ==
  /\ pc = "sync"
  /\ \E r \in todo :
       LET p == r[1]
       IN  /\ \A q \in todo : place[p] <= place[q[1]]
           /\ table' = Scrub([GetNode(table, p) EXCEPT
                                !.node[p] = SetRoute(@, r[2], Mark(table, p, r[2]))])
           /\ todo' = todo \ {r}
  /\ UNCHANGED <<ds6, place, fib, pc, cursor, changes, calm>>

Synced ==
  /\ pc = "sync" /\ todo = {}
  /\ pc' = "update"
  /\ cursor' = table.top
  /\ UNCHANGED <<table, ds6, place, fib, todo, changes, calm>>

-----------------------------------------------------------------------------
(* kernel_route_create and kernel_route_delete: a create that names a      *)
(* route that is there changes nothing; a delete names no next hop and     *)
(* takes out one route of the prefix, if there is one.                     *)

KernelCreate(f, p, hop) == f \cup {<<p, hop>>}
KernelDelete(f, p) ==
  LET of == {r \in f : r[1] = p}
  IN  IF of = {} THEN {f} ELSE {f \ {r} : r \in of}

(* The rest of a visit of kernel_route_update, with table t and routes f:  *)
(* a node no route holds any more is withdrawn and deleted, and the loop   *)
(* goes on from there, through the links of a node that may be free.       *)
AfterWithdraw(t, n) == Delete([t EXCEPT !.node[n].info = NULL], n)

Leave_KeepsKernel(t, f, n) ==
  LET u == IF t.node[n].lock > 0 THEN t ELSE AfterWithdraw(t, n)
  IN  /\ table' = Scrub(u) /\ fib' = f /\ cursor' = NextNode(u, n)

Leave(t, f, n) ==
  IF t.node[n].lock > 0
  THEN /\ table' = t /\ fib' = f /\ cursor' = NextNode(t, n)
  ELSE LET u == AfterWithdraw(t, n)
       IN  /\ table' = Scrub(u)
           /\ fib' \in KernelDelete(f, n)
           /\ cursor' = NextNode(u, n)

Visiting(n) == pc = "update" /\ cursor = n /\ ~ table.failed

(* A branching point. *)
VisitBare ==
  \E n \in Key :
    /\ Visiting(n) /\ table.node[n].info = NULL
    /\ cursor' = NextNode(table, n)
    /\ UNCHANGED <<table, ds6, place, fib, pc, todo, changes, calm>>

VisitCreated ==
  \E n \in Key :
    /\ Visiting(n) /\ table.node[n].info # NULL /\ table.node[n].status = "CREATED"
    /\ Leave(table, KernelCreate(fib, n, table.node[n].info), n)
    /\ UNCHANGED <<ds6, place, pc, todo, changes, calm>>

VisitUpdated ==
  \E n \in Key :
    /\ Visiting(n) /\ table.node[n].info # NULL /\ table.node[n].status = "UPDATED"
    /\ Leave(table, fib, n)
    /\ UNCHANGED <<ds6, place, pc, todo, changes, calm>>

(* A route a former run left behind keeps itself alive. *)
HoldKernel(t, n) == [t EXCEPT !.node[n].lock = @ + 1]

VisitKernel ==
  \E n \in Key :
    /\ Visiting(n) /\ table.node[n].info # NULL /\ table.node[n].status = "KERNEL"
    /\ Leave(HoldKernel(table, n), fib, n)
    /\ UNCHANGED <<ds6, place, pc, todo, changes, calm>>

(* A new next hop takes two messages: delete, then create. *)
VisitModified ==
  \E n \in Key :
    /\ Visiting(n) /\ table.node[n].info # NULL /\ table.node[n].status = "MODIFIED"
    /\ fib' \in KernelDelete(fib, n)
    /\ pc' = "recreate"
    /\ UNCHANGED <<table, ds6, place, todo, cursor, changes, calm>>

Recreate ==
  \E n \in Key :
    /\ pc = "recreate" /\ cursor = n
    /\ pc' = "update"
    /\ Leave(table, KernelCreate(fib, n, table.node[n].info), n)
    /\ UNCHANGED <<ds6, place, todo, changes, calm>>

Updated ==
  /\ pc = "update" /\ cursor = NULL /\ ~ table.failed
  /\ pc' = "idle"
  /\ UNCHANGED <<table, ds6, place, fib, todo, cursor, changes, calm>>

(* The daemon stops, by itself or not, and is started again. *)
Crash ==
  /\ pc # "load"
  /\ table' = EmptyTable
  /\ ds6' = [p \in Prefix |-> NULL] /\ place' = [p \in Prefix |-> 0]
  /\ pc' = "load"
  /\ todo' = fib
  /\ cursor' = NULL
  /\ changes' = 0
  /\ calm' = TRUE
  /\ UNCHANGED fib

-----------------------------------------------------------------------------
Visit == VisitBare \/ VisitCreated \/ VisitUpdated \/ VisitKernel \/ VisitModified \/ Recreate

Daemon == Load \/ Loaded \/ Poll \/ Sync \/ Synced \/ Visit \/ Updated

Next == Daemon \/ Learn \/ Forget \/ Crash

Spec == Init /\ [][Next]_vars

(* Packets keep coming, so polls do, and the daemon runs each to its end.  *)
(* (Said of pc and not as WF_vars(Daemon), which is the same for a daemon  *)
(* that is not stopped for ever, and which TLC takes hours to check.)      *)
FairSpec == Spec /\ []<>(pc = "sync") /\ []<>(pc = "idle")

-----------------------------------------------------------------------------
(* PROPERTIES *)

(* Every variable has its type. *)
TypeOK ==
  /\ table \in Table
  /\ ds6 \in [Prefix -> Hop \cup {NULL}] /\ place \in [Prefix -> 0 .. RouteNB]
  /\ fib \subseteq Prefix \X Hop
  /\ pc \in {"load", "idle", "sync", "update", "recreate"}
  /\ todo \subseteq Prefix \X Hop
  /\ cursor \in Pointer
  /\ changes \in 0 .. MaxChanges
  /\ calm \in BOOLEAN

(* A loop with route_top and route_next comes to every node exactly once,  *)
(* whatever sequence of insertions and deletions built the tree.           *)
WalkComplete ==
  /\ Walked(table) = table.used
  /\ Walk(table)[Cardinality(table.used)] = NULL

(* The tree that insertions, splits and cascading deletions leave is a     *)
(* radix tree: links and prefixes agree in both directions, no stub is     *)
(* left behind and a walk finds every node (route_node_get,                *)
(* route_node_delete).  No node that has a route is freed, which the two   *)
(* assertions of route_node_delete exclude for the parents a deletion      *)
(* cascades to as well, and the walk of kernel_route_update, which goes on *)
(* from the links of a freed node, never stands on one.                    *)
TreeOK ==
  /\ WellFormed(table) /\ WalkComplete
  /\ ~ table.failed
  /\ cursor # NULL => cursor \in table.used

(* The routes a former run left and RPL has not learned since. *)
Inherited == {k \in table.used : table.node[k].info # NULL /\ table.node[k].status = "KERNEL"}

(* When a poll is over the kernel has exactly the learned routes, by their *)
(* learned next hops, and the routes of a former run that RPL has not      *)
(* learned again (br_poll, kernel_route_update).  This is for polls that   *)
(* find one change at most: with two, a withdrawal may hide a new route    *)
(* from the walk, and the next poll takes that route for one the kernel    *)
(* has.                                                                    *)
KernelMirrors ==
  pc = "idle" /\ changes = 0 /\ calm =>
    fib = {<<p, ds6[p]>> : p \in Learned} \cup {<<k, table.node[k].info>> : k \in Inherited}

(* Every message moves the kernel towards the learned routes: a route is   *)
(* created only as RPL has it now, and none that RPL has is taken away     *)
(* (again with one change to a poll).                                      *)
KernelFollows ==
  [][calm => /\ \A r \in fib' \ fib : ds6[r[1]] = r[2]
             /\ \A r \in fib \ fib' : ds6[r[1]] # r[2]]_vars

(* A route RPL has forgotten for good leaves the kernel, unless it is one  *)
(* a former run left or the daemon stops again and again.                  *)
Withdrawn ==
  \A p \in Prefix :
    <>[](pc # "load" /\ ds6[p] = NULL /\ p \notin Inherited)
      => <>[](\A r \in fib : r[1] # p)

(* Once a poll has looked at every learned route, each is in the tree with *)
(* its next hop: to add a node never takes another out (route_node_get).   *)
(* And one lock holds it, not two, whatever locks earlier polls left: a    *)
(* lock too many would keep the route in the kernel when RPL has forgotten *)
(* it (route_table_unlock, the KERNEL case of kernel_route_update).        *)
LearnedInTree ==
  pc = "update" => \A p \in Learned : /\ p \in table.used /\ table.node[p].info = ds6[p]
                                     /\ table.node[p].lock = 1
=============================================================================
