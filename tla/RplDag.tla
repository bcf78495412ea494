------------------------------- MODULE RplDag -------------------------------
(***************************************************************************)
(* One node's view of its RPL instance (rpl-dag.c with the objective       *)
(* function of rpl-of-etx.c): the DODAGs it knows, the candidate parents   *)
(* of each, the one it is in, its rank there and its default route.  rpld  *)
(* sets the node up as the root of a DODAG of its own when it starts, and  *)
(* from then on it handles the DIOs of its neighbours, the loss of a       *)
(* neighbour, DAOs that loop, and the periodic recalculation of ranks.     *)
(*                                                                         *)
(* Each handler runs to its end before another starts, so it is one step.  *)
(* The code changes the instance in place, through helpers that call each  *)
(* other; here a helper takes the instance as a value and returns the      *)
(* instance it leaves, together with its result if it has one.             *)
(*                                                                         *)
(* There is one instance (RPL_MAX_INSTANCES is 1).  Ranks and metrics are  *)
(* counted in units of min_hoprankinc, the ETX of every link stays what it *)
(* starts with (Ethernet gives no feedback), and grounded is left out      *)
(* (all DODAGs of rpld are floating).                                      *)
(***************************************************************************)
EXTENDS Integers, SequencesExt, Lollipop

CONSTANTS
  Nbr,           \* neighbours: the senders of DIOs
  DagId,         \* the DODAGs neighbours may be in
  MyDag,         \* the DODAG rpld is the root of
  Preference,    \* the preference each DODAG announces
  Rank,          \* the ranks neighbours announce
  Version,       \* the versions they announce
  Config,        \* the configurations they announce
  Stale,         \* what a block of parent_memb may hold in its updated field
  Increase,      \* what a hop adds to the rank: INITIAL_LINK_METRIC
  MaxRankInc,    \* max_rankinc
  MaxParents,    \* RPL_MAX_PARENTS_PER_DAG
  NULL

Infinite == 255
RootRank == 1
MaxPathCost == 100

ASSUME RankAssumption ==
  /\ Rank \subseteq RootRank - 1 .. Infinite
  /\ Increase \in Nat \ {0} /\ MaxRankInc \in Nat
ASSUME DagAssumption ==
  /\ MyDag \in DagId /\ Preference \in [DagId -> 0 .. 7]
  /\ Version \subseteq Counter /\ MaxParents \in Nat \ {0}
ASSUME ConfigAssumption == /\ Config \subseteq {"same", "other", "unknown objective"}
                           /\ Stale \subseteq BOOLEAN
ASSUME NullAssumption == NULL \notin Nbr \cup DagId

(* RPL_MAX_DAG_PER_INSTANCE slots, and the blocks of parent_memb. *)
Slot == 1 .. 2
Pool == 2 * MaxParents

VARIABLES
  rpl,       \* the instance, its DODAGs and their parents
  cache,     \* external: the neighbours in the neighbour cache (uip-ds6.c)
  alone      \* history: no DIO of another DODAG has come yet

vars == <<rpl, cache, alone>>

(* config says how the configuration in a DIO compares with that of the    *)
(* instance; stale is what the block a new parent gets happens to hold in  *)
(* its updated field, which rpl_add_parent does not set.                   *)
Dio == [from : Nbr, id : DagId, rank : Rank, version : Version, config : Config,
        stale : Stale]

(* What a sender that follows the same objective function announces as its *)
(* path metric, one ETX being worth one unit of rank.                      *)
MetricOf(dio) == IF dio.rank > RootRank THEN dio.rank - RootRank ELSE 0

-----------------------------------------------------------------------------
(* The instance.  A pointer to a DODAG is its slot, 0 if it is NULL.  A    *)
(* parent is a record of a neighbour in one DODAG: a pointer to it is the  *)
(* slot and the neighbour.                                                 *)

NoDag == [used |-> FALSE, id |-> NULL, version |-> 0, rank |-> Infinite, min |-> Infinite,
          joined |-> FALSE, preferred |-> NULL, parents |-> <<>>]

NoParent == [rank |-> 0, metric |-> 0, updated |-> FALSE]
NoParents == [n \in Nbr |-> NoParent]

NoInstance == [used |-> FALSE, current |-> 0, route |-> NULL, free |-> Pool,
               dag |-> [d \in Slot |-> NoDag], parent |-> [d \in Slot |-> NoParents]]

UsedDags(s) == {d \in Slot : s.dag[d].used}
Parents(s, d) == ToSet(s.dag[d].parents)

(* The first and the last parent of a DODAG's list that is in S. *)
Places(s, d, S) == {i \in DOMAIN s.dag[d].parents : s.dag[d].parents[i] \in S}
FirstOf(s, d, S) == s.dag[d].parents[Min(Places(s, d, S))]
LastOf(s, d, S) == s.dag[d].parents[Max(Places(s, d, S))]

(* The slot of a DODAG the node knows, the first DODAG a neighbour is a    *)
(* parent in; 0 if there is none (get_dag, find_parent_dag).               *)
SlotOf(s, id) ==
  IF \E d \in UsedDags(s) : s.dag[d].id = id
  THEN CHOOSE d \in UsedDags(s) : s.dag[d].id = id
  ELSE 0

DagsOf(s, n) == {d \in UsedDags(s) : n \in Parents(s, d)}
DagOf(s, n) == IF DagsOf(s, n) = {} THEN 0 ELSE Min(DagsOf(s, n))

-----------------------------------------------------------------------------
(* The objective function. *)

PathMetric(p) ==
  IF p.metric = 0 /\ p.rank > RootRank THEN MaxPathCost ELSE p.metric + Increase

CalculateRank_NoIncrease(s, d, n) ==
  IF n = NULL THEN Infinite ELSE s.parent[d][n].rank

CalculateRank(s, d, n) ==
  IF n = NULL \/ Infinite - s.parent[d][n].rank < Increase THEN Infinite
  ELSE s.parent[d][n].rank + Increase

BestDag(s, c, d) ==
  IF Preference[s.dag[c].id] # Preference[s.dag[d].id]
  THEN IF Preference[s.dag[c].id] > Preference[s.dag[d].id] THEN c ELSE d
  ELSE IF s.dag[c].rank < s.dag[d].rank THEN c ELSE d

(* best_parent, asked of one parent after another: of those with the       *)
(* lowest metric the last.  The hysteresis is half an ETX, so it decides   *)
(* between equal metrics only, for the preferred parent.                   *)
BestParent(s, d, S) ==
  LET cost(n) == PathMetric(s.parent[d][n])
      least == {n \in S : \A m \in S : cost(n) <= cost(m)}
  IN  IF s.dag[d].preferred \in least THEN s.dag[d].preferred ELSE LastOf(s, d, least)

Acceptable(s, d, rank) ==
  rank # Infinite /\ (MaxRankInc = 0 \/ rank <= s.dag[d].min + MaxRankInc)

-----------------------------------------------------------------------------
(* rpl_nullify_parent: the preferred parent is given up, and with it the   *)
(* rank and, if the node is in this DODAG, the default route.              *)
Nullify_KeepsRank(s, d, n) ==
  IF n # s.dag[d].preferred THEN s
  ELSE [s EXCEPT !.dag[d].preferred = NULL, !.route = IF s.dag[d].joined THEN NULL ELSE @]

Nullify(s, d, n) ==
  IF n # s.dag[d].preferred THEN s
  ELSE [s EXCEPT !.dag[d].preferred = NULL, !.dag[d].rank = Infinite,
                 !.route = IF s.dag[d].joined THEN NULL ELSE @]

RemoveParent_KeepsBlock(s, d, n) ==
  [Nullify(s, d, n) EXCEPT !.dag[d].parents = RemoveFirst(@, n), !.parent[d][n] = NoParent]

RemoveParent(s, d, n) ==
  [Nullify(s, d, n) EXCEPT !.dag[d].parents = RemoveFirst(@, n), !.free = @ + 1,
                           !.parent[d][n] = NoParent]

(* remove_parents and nullify_parents with a minimum rank of 0: all of     *)
(* them, of which only the preferred one leaves a trace.                   *)
NullifyAll(s, d) == IF s.dag[d].preferred \in Parents(s, d)
                    THEN Nullify(s, d, s.dag[d].preferred) ELSE s

RemoveAll(s, d) ==
  [NullifyAll(s, d) EXCEPT !.dag[d].parents = <<>>, !.parent[d] = NoParents,
                           !.free = @ + Len(s.dag[d].parents)]

(* remove_worst_parent: the first of the highest rank but the preferred    *)
(* one goes, if it is worse than the newcomer.                             *)
RemoveWorst(s, d, rank) ==
  LET others == Parents(s, d) \ {s.dag[d].preferred}
      highest == {n \in others : \A m \in others : s.parent[d][m].rank <= s.parent[d][n].rank}
      worst == FirstOf(s, d, highest)
  IN  IF others # {} /\ s.parent[d][worst].rank > rank
      THEN RemoveParent(s, d, worst) ELSE s

(* rpl_add_parent, where there is room. *)
Room(s, d) == Len(s.dag[d].parents) < MaxParents /\ s.free > 0

AddParent_TakesNoBlock(s, d, dio) ==
  [s EXCEPT !.dag[d].parents = Append(@, dio.from),
            !.parent[d][dio.from] = [rank |-> dio.rank, metric |-> MetricOf(dio),
                                     updated |-> dio.stale]]

AddParent(s, d, dio) ==
  [s EXCEPT !.dag[d].parents = Append(@, dio.from), !.free = @ - 1,
            !.parent[d][dio.from] = [rank |-> dio.rank, metric |-> MetricOf(dio),
                                     updated |-> dio.stale]]

(* rpl_move_parent: the parent keeps the rank it had in the other DODAG. *)
MoveParent_KeepsPreferred(s, c, d, n) ==
  [s EXCEPT !.dag[c].parents = RemoveFirst(@, n), !.dag[d].parents = Append(@, n),
            !.parent[d][n] = s.parent[c][n], !.parent[c][n] = NoParent]

MoveParent(s, c, d, n) ==
  [Nullify(s, c, n) EXCEPT
     !.dag[c].parents = RemoveFirst(@, n), !.dag[d].parents = Append(@, n),
     !.parent[d][n] = s.parent[c][n], !.parent[c][n] = NoParent]

-----------------------------------------------------------------------------
(* rpl_free_dag: the parents of a DODAG the node is not in are left where  *)
(* they are.  rpl_free_instance: what a freed instance holds is never read.*)
FreeDag(s, d) ==
  LET left == IF s.dag[d].joined
              THEN RemoveAll([s EXCEPT !.dag[d].joined = FALSE], d) ELSE s
  IN  IF s.dag[d].used THEN [left EXCEPT !.dag[d].used = FALSE] ELSE s

Gone(s) == [NoInstance EXCEPT !.free = s.free]
FreeInstance(s) == Gone(FreeDag(FreeDag(s, 1), 2))

(* rpl_alloc_dag in an instance with a free slot; rpl_alloc_instance. *)
FreeSlots(s) == Slot \ UsedDags(s)
FirstFree(s) == Min(FreeSlots(s))

NewDag(s, d, id) ==
  [s EXCEPT !.dag[d] = [NoDag EXCEPT !.used = TRUE, !.id = id], !.parent[d] = NoParents]

NewInstance(s) == [NoInstance EXCEPT !.used = TRUE, !.free = s.free]

-----------------------------------------------------------------------------
(* rpl_select_parent: the best parent of a finite rank, NULL if none has.  *)
BestIn(s, d) ==
  LET finite == {n \in Parents(s, d) : s.parent[d][n].rank # Infinite}
  IN  IF finite = {} THEN NULL ELSE BestParent(s, d, finite)

SelectParent(s, d) ==
  LET best == BestIn(s, d)
  IN  IF best = NULL THEN s ELSE [s EXCEPT !.dag[d].preferred = best]

(* The DODAG rpl_select_dag settles for: 0 if none has a usable parent.    *)
Usable(s) ==
  {d \in UsedDags(s) : /\ s.dag[d].preferred # NULL
                       /\ s.parent[d][s.dag[d].preferred].rank # Infinite}

Choice(s, d) ==
  IF s.dag[s.current].rank = RootRank THEN s.current
  ELSE IF BestIn(s, d) # NULL
  THEN IF d = s.current THEN d ELSE BestDag(SelectParent(s, d), s.current, d)
  ELSE IF d # s.current THEN s.current
  ELSE IF Usable(s) = {} THEN 0
  ELSE IF Usable(s) = Slot THEN BestDag(s, 1, 2)
  ELSE CHOOSE e \in Usable(s) : TRUE

(* The node moves from its DODAG into another one. *)
Enter_StaysJoined(s, d) ==
  IF d = s.current THEN s ELSE [s EXCEPT !.dag[d].joined = TRUE, !.current = d]

Enter(s, d) ==
  IF d = s.current THEN s
  ELSE [s EXCEPT !.dag[d].joined = TRUE, !.dag[s.current].joined = FALSE, !.current = d]

(* Its rank follows its preferred parent; it is bound by the lowest rank   *)
(* it has had.                                                             *)
UpdateRank(s, d) ==
  LET rank == CalculateRank(s, d, s.dag[d].preferred)
  IN  [s EXCEPT !.dag[d].rank = rank, !.dag[d].min = IF rank < @ THEN rank ELSE @]

(* rpl_select_dag, called for an event of parent n of DODAG d. *)
Selected(s, d) == IF s.dag[s.current].rank = RootRank THEN s ELSE SelectParent(s, d)

SelectDag_AnyRank(s, d) ==
  LET best == Choice(s, d)
      t == UpdateRank(Enter(Selected(s, d), best), best)
  IN  IF best = 0 THEN [ok |-> FALSE, s |-> Selected(s, d)]
      ELSE [ok |-> t.dag[best].rank # Infinite, s |-> [t EXCEPT !.route = t.dag[best].preferred]]

SelectDag_RouteOnMove(s, d) ==
  LET best == Choice(s, d)
      t == UpdateRank(Enter(Selected(s, d), best), best)
  IN  IF best = 0 THEN [ok |-> FALSE, s |-> Selected(s, d)]
      ELSE IF ~ Acceptable(t, best, t.dag[best].rank)
      THEN [ok |-> FALSE, s |-> [t EXCEPT !.dag[best].preferred = NULL]]
      ELSE IF best = s.current THEN [ok |-> TRUE, s |-> t]
      ELSE [ok |-> TRUE, s |-> [t EXCEPT !.route = t.dag[best].preferred]]

SelectDag(s, d) ==
  LET best == Choice(s, d)
      last == <<s.current, s.dag[s.current].preferred>>
      t == UpdateRank(Enter(Selected(s, d), best), best)
  IN  IF best = 0 THEN [ok |-> FALSE, s |-> Selected(s, d)]
      ELSE IF ~ Acceptable(t, best, t.dag[best].rank)
      THEN [ok |-> FALSE, s |-> [t EXCEPT !.dag[best].preferred = NULL]]
      ELSE IF <<best, t.dag[best].preferred>> = last THEN [ok |-> TRUE, s |-> t]
      ELSE [ok |-> TRUE, s |-> [t EXCEPT !.route = t.dag[best].preferred]]

-----------------------------------------------------------------------------
(* rpl_local_repair: the node gives up every rank and preferred parent. *)
RepairDag(s, d) ==
  IF s.dag[d].used THEN NullifyAll([s EXCEPT !.dag[d].rank = Infinite], d) ELSE s

LocalRepair(s) == RepairDag(RepairDag(s, 1), 2)

(* rpl_process_parent_event: something about parent n of DODAG d has       *)
(* changed.                                                                *)
ParentEvent(s, d, n) ==
  LET fit == Acceptable(s, d, s.parent[d][n].rank)
      preferred == d = s.current /\ n = s.dag[d].preferred
      r == SelectDag(IF fit THEN s ELSE Nullify(s, d, n), d)
  IN  IF ~ fit /\ ~ preferred THEN Nullify(s, d, n)
      ELSE IF r.ok THEN r.s
      ELSE LocalRepair(r.s)

-----------------------------------------------------------------------------
(* rpl_join_instance: the first DODAG of a new instance. *)
JoinInstance(s, dio) ==
  LET t == AddParent(NewDag(NewInstance(s), 1, dio.id), 1, dio)
      rank == CalculateRank(t, 1, dio.from)
  IN  IF ~ Room(NewInstance(s), 1) THEN Gone(s)
      ELSE IF dio.config = "unknown objective" THEN Gone(RemoveParent(t, 1, dio.from))
      ELSE [t EXCEPT !.current = 1, !.route = dio.from,
                     !.dag[1] = [@ EXCEPT !.joined = TRUE, !.version = dio.version,
                                          !.preferred = dio.from, !.rank = rank, !.min = rank]]

(* rpl_add_dag: another DODAG of the instance. *)
AddDag(s, dio) ==
  LET d == FirstFree(s)
      from == DagOf(s, dio.from)
      new == NewDag(s, d, dio.id)
      t == IF from = 0 THEN AddParent(new, d, dio) ELSE MoveParent(new, from, d, dio.from)
      rank == CalculateRank(t, d, dio.from)
      u == [t EXCEPT !.dag[d] = [@ EXCEPT !.version = dio.version, !.preferred = dio.from,
                                          !.rank = rank, !.min = rank]]
  IN  IF FreeSlots(s) = {} THEN FreeInstance(s)
      ELSE IF from = 0 /\ ~ Room(new, d) THEN [new EXCEPT !.dag[d].used = FALSE]
      ELSE IF dio.config # "same"
      THEN [RemoveParent(t, d, dio.from) EXCEPT !.dag[d].used = FALSE]
      ELSE ParentEvent(u, d, dio.from)

(* global_repair: the DODAG has a new version. *)
GlobalRepair(s, d, dio) ==
  LET bare == [RemoveAll(s, d) EXCEPT !.dag[d] = [@ EXCEPT !.version = dio.version,
                                                           !.min = Infinite]]
      t == AddParent(bare, d, dio)
      rank == CalculateRank(t, d, dio.from)
  IN  IF ~ Room(bare, d) THEN [bare EXCEPT !.dag[d].rank = Infinite]
      ELSE ParentEvent([t EXCEPT !.dag[d] = [@ EXCEPT !.rank = rank, !.min = rank]], d, dio.from)

(* A DIO of the node's version of a DODAG it knows: the sender is made a   *)
(* candidate parent, if there is room for it, and judged.                  *)
Candidate(s, d, dio) ==
  LET n == dio.from
      from == IF n \in Parents(s, d) THEN d ELSE DagOf(s, n)
      room == IF from = 0 /\ Len(s.dag[d].parents) = MaxParents
              THEN RemoveWorst(s, d, dio.rank) ELSE s
      t == IF from = d THEN [s EXCEPT !.parent[d][n].rank = dio.rank]
           ELSE IF from # 0 THEN MoveParent(s, from, d, n)
           ELSE AddParent(room, d, dio)
  IN  IF from = 0 /\ ~ Room(room, d) THEN room
      ELSE ParentEvent([t EXCEPT !.parent[d][n].metric = MetricOf(dio)], d, n)

(* rpl_process_dio. *)
ProcessKnown_RootRepairs(s, d, dio) ==
  IF GreaterThan(dio.version, s.dag[d].version) THEN GlobalRepair(s, d, dio)
  ELSE IF \/ GreaterThan(s.dag[d].version, dio.version) /\ s.dag[d].joined
          \/ dio.rank < RootRank
          \/ s.dag[d].rank = RootRank
  THEN s
  ELSE Candidate(s, d, dio)

ProcessKnown(s, d, dio) ==
  IF GreaterThan(dio.version, s.dag[d].version)
  THEN IF s.dag[d].rank = RootRank
       THEN [s EXCEPT !.dag[d].version = Increment(dio.version)]
       ELSE GlobalRepair(s, d, dio)
  ELSE IF \/ GreaterThan(s.dag[d].version, dio.version) /\ s.dag[d].joined
          \/ dio.rank < RootRank
          \/ s.dag[d].rank = RootRank
  THEN s
  ELSE Candidate(s, d, dio)

ProcessDio(s, dio) ==
  LET d == SlotOf(s, dio.id)
  IN  IF dio.rank = Infinite THEN s
      ELSE IF ~ s.used THEN JoinInstance(s, dio)
      ELSE IF d = 0 THEN AddDag(s, dio)
      ELSE ProcessKnown(s, d, dio)

-----------------------------------------------------------------------------
(* rpl_recalculate_ranks: in each DODAG, the first parent marked updated.  *)
Marked(s, d) ==
  IF s.dag[d].used THEN {n \in Parents(s, d) : s.parent[d][n].updated} ELSE {}

RecalculateDag_Skips(s, d) ==
  IF Marked(s, d) = {} THEN s
  ELSE [s EXCEPT !.parent[d][FirstOf(s, d, Marked(s, d))].updated = FALSE]

RecalculateDag(s, d) ==
  IF Marked(s, d) = {} THEN s
  ELSE LET n == FirstOf(s, d, Marked(s, d))
       IN  ParentEvent([s EXCEPT !.parent[d][n].updated = FALSE], d, n)

RecalculateRanks(s) == IF s.used THEN RecalculateDag(RecalculateDag(s, 1), 2) ELSE s

(* The rank of a parent is not to be used any more; the ranks are          *)
(* recalculated at the next tick of the periodic timer.                    *)
Poison(s, d, n) ==
  [s EXCEPT !.parent[d][n].rank = Infinite, !.parent[d][n].updated = TRUE]

-----------------------------------------------------------------------------
(* rpl_set_root and rpl_set_prefix, as rpld starts. *)
Root ==
  [NewDag(NewInstance(NoInstance), 1, MyDag)
     EXCEPT !.current = 1,
            !.dag[1] = [@ EXCEPT !.version = LollipopInit, !.joined = TRUE, !.rank = RootRank]]

Init == rpl = Root /\ cache = {} /\ alone = TRUE

(* dio_input: the sender is known from now on. *)
DioInput ==
  \E dio \in Dio :
    /\ rpl' = ProcessDio(rpl, dio)
    /\ cache' = cache \cup {dio.from}
    /\ alone' = (alone /\ dio.id = MyDag)

(* A neighbour leaves the neighbour cache; rpl_ipv6_neighbor_callback.     *)
NeighborRemoved ==
  \E n \in cache :
    /\ cache' = cache \ {n}
    /\ rpl' = IF rpl.used /\ DagOf(rpl, n) # 0 THEN Poison(rpl, DagOf(rpl, n), n) ELSE rpl
    /\ UNCHANGED alone

(* dao_input: a DAO comes from a parent that is nearer to the root. *)
DaoLoop ==
  \E n \in Nbr :
    /\ rpl.used /\ n \in Parents(rpl, rpl.current)
    /\ rpl.parent[rpl.current][n].rank < rpl.dag[rpl.current].rank
    /\ rpl' = Poison(rpl, rpl.current, n)
    /\ UNCHANGED <<cache, alone>>

(* handle_periodic_timer. *)
PeriodicTimer ==
  /\ rpl' = RecalculateRanks(rpl)
  /\ UNCHANGED <<cache, alone>>

Next == DioInput \/ NeighborRemoved \/ DaoLoop \/ PeriodicTimer

Spec == Init /\ [][Next]_vars

-----------------------------------------------------------------------------
(* PROPERTIES *)

DagRecord ==
  [used : BOOLEAN, id : DagId \cup {NULL}, version : Counter, rank : 0 .. Infinite,
   min : 0 .. Infinite, joined : BOOLEAN, preferred : Nbr \cup {NULL}, parents : Seq(Nbr)]

ParentRecord == [rank : 0 .. Infinite, metric : Nat, updated : BOOLEAN]

(* Every variable has its type. *)
TypeOK ==
  /\ rpl \in [used : BOOLEAN, current : Slot \cup {0}, route : Nbr \cup {NULL}, free : 0 .. Pool,
              dag : [Slot -> DagRecord], parent : [Slot -> [Nbr -> ParentRecord]]]
  /\ cache \subseteq Nbr
  /\ alone \in BOOLEAN

Current == rpl.dag[rpl.current]
PreferredParent == rpl.parent[rpl.current][Current.preferred]

(* A preferred parent is one of its DODAG's parents, never one that has    *)
(* been freed or moved, and no list holds a neighbour twice                *)
(* (rpl_remove_parent, rpl_move_parent, global_repair).  With two DODAGs   *)
(* every block of parent_memb is free or in a list: evictions, moves and   *)
(* additions that fail half way lose none.                                 *)
ParentsOK ==
  /\ rpl.used => \A d \in UsedDags(rpl) :
                   /\ IsInjective(rpl.dag[d].parents)
                   /\ rpl.dag[d].preferred \in Parents(rpl, d) \cup {NULL}
  /\ Pool = rpl.free + (IF rpl.used THEN Len(rpl.dag[1].parents) + Len(rpl.dag[2].parents)
                        ELSE 0)

(* The node is in exactly one DODAG of its instance, the current one.      *)
OneDag == rpl.used => {d \in UsedDags(rpl) : rpl.dag[d].joined} = {rpl.current}

(* In the current DODAG a node is farther from the root than its preferred *)
(* parent, unless that has just been lost and waits for the next tick.     *)
RankAboveParent ==
  rpl.used /\ Current.preferred # NULL =>
    Current.rank > PreferredParent.rank \/ PreferredParent.updated

(* A node without a preferred parent has no rank, unless it is the root.   *)
RankNeedsParent ==
  rpl.used /\ Current.preferred = NULL => Current.rank \in {Infinite, RootRank}

(* In one version of a DODAG a node never goes farther down than           *)
(* max_rankinc below its best position (acceptable_rank).                  *)
RankBounded ==
  rpl.used => Current.rank = Infinite \/ Current.rank <= Current.min + MaxRankInc

(* While all the DIOs are of its own DODAG, the root stays the root,       *)
(* whatever ranks and versions they announce.                              *)
RootAloneStays ==
  alone => rpl.used /\ Current.id = MyDag /\ Current.rank = RootRank

(* The root of a DODAG stays its root. *)
RootStays == rpl.used /\ Current.id = MyDag /\ Current.rank = RootRank

(* A node that has a preferred parent and a default route sends upwards    *)
(* through that parent, also after it has moved to another DODAG, lost a   *)
(* parent or joined again (rpl_select_dag, rpl_nullify_parent).            *)
RouteToParent ==
  rpl.used /\ rpl.route # NULL /\ Current.preferred # NULL => rpl.route = Current.preferred

(* A preferred parent that has left the neighbour cache is marked, so that *)
(* the next tick gives it up (rpl_ipv6_neighbor_callback).                 *)
ParentReachable ==
  rpl.used /\ Current.preferred # NULL =>
    Current.preferred \in cache \/ PreferredParent.updated
=============================================================================
