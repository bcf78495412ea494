-------------------------------- MODULE Dtsn --------------------------------
(***************************************************************************)
(* How a parent asks its children for DAOs (rpl-icmp6.c, rpl-dag.c and     *)
(* rpl-timers.c).  A child announces itself to its preferred parent with a *)
(* DAO, from which the parent learns the route to it.  The parent asks     *)
(* for a new DAO with the trigger number of its DIOs, a lollipop counter   *)
(* it increments after each DIO it sends, and the child schedules one when *)
(* the number of a DIO is greater than the last it has seen.               *)
(*                                                                         *)
(* DIOs and DAOs are not acknowledged: each may be lost.  Either side may  *)
(* start again, the parent with the initial number and no routes.          *)
(***************************************************************************)
EXTENDS Lollipop

VARIABLES
  out,         \* the parent's dtsn_out
  route,       \* the parent has a route to the child
  joined,      \* the child has the parent as its preferred parent
  seen,        \* the child's p->dtsn
  scheduled,   \* the child's DAO timer is set
  gap          \* history: the increments of out since the child has seen it,
               \* SequenceWindows if there are as many or out was reset

DtsnVars == <<out, route, joined, seen, scheduled, gap>>

DtsnInit ==
  /\ out = LollipopInit
  /\ route = FALSE
  /\ joined = FALSE
  /\ seen = 0
  /\ scheduled = FALSE
  /\ gap = SequenceWindows

Widen(g) == IF g < SequenceWindows THEN g + 1 ELSE g

-----------------------------------------------------------------------------
(* dio_output: the DIO has the number out; always request a new DAO. *)
DioLost ==
  /\ out' = Increment(out)
  /\ gap' = Widen(gap)
  /\ UNCHANGED <<route, joined, seen, scheduled>>

(* rpl_join_instance on a first DIO; should_send_dao on a later one. *)
DioReceived ==
  /\ out' = Increment(out)
  /\ joined' = TRUE
  /\ seen' = out
  /\ scheduled' = (scheduled \/ ~ joined \/ GreaterThan(out, seen))
  /\ gap' = 1
  /\ UNCHANGED route

(* The parent asks for DAOs out of turn: it has another preferred parent   *)
(* itself, or takes part in a global repair.                               *)
AskAgain ==
  /\ out' = Increment(out)
  /\ gap' = Widen(gap)
  /\ UNCHANGED <<route, joined, seen, scheduled>>

(* handle_dao_timer: the child sends a DAO, dao_input learns the route. *)
DaoReceived ==
  /\ scheduled
  /\ scheduled' = FALSE
  /\ route' = TRUE
  /\ UNCHANGED <<out, joined, seen, gap>>

DaoLost ==
  /\ scheduled
  /\ scheduled' = FALSE
  /\ UNCHANGED <<out, route, joined, seen, gap>>

(* rpl_purge_routes. *)
RouteExpires ==
  /\ route
  /\ route' = FALSE
  /\ UNCHANGED <<out, joined, seen, scheduled, gap>>

ParentRestarts ==
  /\ out' = LollipopInit
  /\ route' = FALSE
  /\ gap' = SequenceWindows
  /\ UNCHANGED <<joined, seen, scheduled>>

ChildRestarts ==
  /\ joined' = FALSE
  /\ seen' = 0
  /\ scheduled' = FALSE
  /\ gap' = SequenceWindows
  /\ UNCHANGED <<out, route>>

DtsnNext ==
  \/ DioLost \/ DioReceived \/ AskAgain \/ DaoReceived \/ DaoLost
  \/ RouteExpires \/ ParentRestarts \/ ChildRestarts

DtsnSpec == DtsnInit /\ [][DtsnNext]_DtsnVars

(* The trickle timer sends DIOs for ever, and a link that loses messages   *)
(* at random delivers, for ever again, a DAO and two DIOs in a row.        *)
DtsnFairSpec ==
  /\ DtsnSpec
  /\ WF_DtsnVars(DioReceived) /\ SF_DtsnVars(gap = 1 /\ DioReceived)
  /\ SF_DtsnVars(DaoReceived)

-----------------------------------------------------------------------------
(* PROPERTIES *)

(* Every variable has its type. *)
DtsnTypeOK ==
  /\ out \in Counter /\ seen \in Counter
  /\ route \in BOOLEAN /\ joined \in BOOLEAN /\ scheduled \in BOOLEAN
  /\ gap \in 1 .. SequenceWindows

(* A DIO makes the child schedule a DAO unless SequenceWindows increments  *)
(* or more separate it from the last the child has seen, all the way       *)
(* round the counter and from the stick into the circle (should_send_dao). *)
DioTriggers ==
  [][DioReceived /\ (gap < SequenceWindows \/ ~ joined) => scheduled']_DtsnVars

(* A parent that has no route to a child gets one in the end, also after   *)
(* either has restarted.                                                   *)
RouteComes == ~ route ~> route
=============================================================================
