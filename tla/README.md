# A verification of rpld

`rpld` is a border router for RPL, the routing protocol of low-power networks:
a daemon that runs the Contiki network stack in one Unix process, takes part in
RPL on an Ethernet interface and copies the routes RPL learns into the routing
table of the Linux kernel. This directory holds TLA+ models of its core, TLC
configurations that check them on small instances, and proofs of the theorems
that hold for instances of every size. Nothing here is generated: each module is
written from the C code it names, and `PROJECT.json` gives for every definition
the lines it stands for.

Contents: 1 the system, 2 the modules, 3 the runs, 4 bounds, 5 fairness,
6 the proofs, 7 where code and documentation disagree, 8 what is not modelled,
9 the plan.

## 1 The system

    ethdev.c --broadcast of a packet--> process.c --event--> tcpip.c --> uip6.c
    (device)                            (kernel)                          |
                                           ^  ^                     uip-icmp6.c
                 etimer.c --TIMER event----+  |                           |
                    ^                         |                      rpl-icmp6.c
                 ctimer.c <-----set/stop------+-- rpl-timers.c <--------> |
                                              |                       rpl-dag.c
                                              |                           |
    Linux kernel <--netlink-- rpld.c <--poll--+      uip-ds6.c <--routes--+
                              (radix tree, table.c)  (route table)

Everything runs in one thread. There is no preemption, yet calls nest: a thread
that posts a synchronous event, starts or exits a process runs other threads
before it goes on. Concurrency proper is between rpld, its neighbours (whose
messages are lost, delayed and reordered) and the Linux kernel (which keeps its
routes when rpld stops).

| component | state | operations | what makes it correct |
|---|---|---|---|
| process kernel (`process.c`, loop in `main.c`) | process list, ring of events, poll flags, `process_current` | start, exit, post, post_synch, poll, run | events are a FIFO queue; no poll request is lost; no thread is entered twice; a broadcast reaches everyone once; every pass ends |
| event and callback timers (`etimer.c`, `ctimer.c`) | `timerlist`, `ctimer_list`, `TIMER` events in the ring | set, reset, stop, the poll of the etimer process, the event of the ctimer process | no callback is forgotten, doubled or early, also when the ring is full |
| RPL DODAG and parents (`rpl-dag.c`, `rpl-of-etx.c`) | one instance, two DODAGs, the parents of each, a memory pool, the default route | DIO, lost neighbour, looping DAO, periodic recalculation, local and global repair | rank above the parent's; one DODAG at a time; pointers to live parents; no leak; the root stays the root |
| DAO triggers (`rpl-icmp6.c`, `rpl-timers.c`) | `dtsn_out`, `p->dtsn`, DAO timer, the route | send and receive DIO and DAO | a parent gets the route to its child in the end, over lossy links, through restarts and the wrap of a byte |
| trickle timer (`rpl-timers.c`) | interval, redundancy counter | fire, double, reset | DIOs keep coming at a bounded rate |
| DAO routes (`rpl-icmp6.c`, `rpl.c`) | lifetimes, saved lifetimes, next hops | DAO, No-Path DAO, purge | a route lives while it is refreshed and goes when it is not |
| route mirror (`rpld.c`, `table.c`) | radix tree with locks and marks, the kernel's table | load, poll: mark and update | the kernel has the learned routes and no others, also after a crash |
| IPv6 tables (`uip-ds6.c`) | routes, neighbours, default routers, prefixes, addresses | add, remove, look up, periodic | no entry beyond its lifetime, no full table mishandled |
| neighbour discovery (`uip-nd6.c`, `uip-packetqueue.c`) | the state of each neighbour, one waiting packet per entry, the blocks for them, default routers | NS, NA, RA, the timers, output of a packet | waiting packets are neither lost, shared nor kept for ever; solicitations are counted when they leave |
| packet path (`ethdev.c`, `tcpip.c`) | one `uip_buf`, its length, the broadcast in the ring | poll, handler | no packet handled twice, the buffer free again, every address asked for |
| start-up (`main.c`, `netdrv.c`, `rpld.c`) | the order of initialisations | start each process | nothing set before it is cleared |

How they interact. The kernel calls everybody. Timers live on the kernel: an
etimer that expires is an event in the ring, which may be full, and the ctimer
process finds the callback for it. RPL lives on callbacks of `ctimer` and on
packets. It writes the route table of `uip-ds6.c`, which `rpld.c` reads when its
process is polled after a packet. Between the two there is no signal: the mirror compares.

What is hard: lists changed while they are walked; flags cleared before the work
they announce; events that wait while the world they were posted in changes;
pointers from a DODAG to parents that other code frees or moves; a repair in the
middle of an event; one buffer for every packet; full tables that evict what is
in use; one-byte counters and sizes; a restart between two messages to the kernel.
`PROJECT.json` lists 39 such hazards, each at its line with the properties that
would catch it; the few without one say why.

## 2 The modules

| module | models | extends | about |
|---|---|---|---|
| `EventQueue` | (abstract) | | a bounded FIFO queue with `Post` and `Take` |
| `Process` | `process.c`, loop of `main.c` | `EventQueue` by INSTANCE | the kernel and whatever threads may call |
| `ProcessProofs` | | `Process` | theorems: types, the queue, no thread entered twice, the list and its polls, broadcasts |
| `Ctimer` | `etimer.c`, `ctimer.c` | | timers and their events |
| `CtimerProofs` | | `Ctimer` | theorems |
| `RouteTable` | `table.c`, `prefix.c` | | radix tree, as operators on a value |
| `RouteSync` | `rpld.c` | `RouteTable` | the mirror, the kernel's table, crashes |
| `RouteProofs` | | `RouteSync` | theorems: types, the tree, its walks, the mirror |
| `Lollipop` | macros of `rpl-private.h`, `lollipop_greater_than` | | one-byte counters |
| `RplDag` | `rpl-dag.c`, `rpl-of-etx.c` | `Lollipop` | DODAGs and parents |
| `RplDagProofs` | | `RplDag` | theorems: types, ranks, one DODAG, the pool of parents, lost parents |
| `Dtsn` | `dtsn_out` and the DAO timer | `Lollipop` | parent and child over a lossy link |
| `DaoRoutes` | `dao_input`, `rpl.c`, routing table of `uip-ds6.c` | | the routes DAOs make, move and end |
| `DaoRoutesProofs` | | `DaoRoutes`, `Dtsn` | theorems: the routes, the trigger numbers |
| `DataLemmas` | | | lemmas on `Min` and `Max`, induction over numbers, iteration, and lists, which the proofs share |
| `Neighbors` | `uip-nd6.c`, `uip-packetqueue.c`, `tcpip_ipv6_output`, neighbours and routers of `uip-ds6.c` | | address resolution and waiting packets |
| `NeighborsProofs` | | `Neighbors` | theorems |
| `PacketPath` | `ethdev.c`, `tcpip.c`, addresses and periodic timer of `uip-ds6.c` | | the one packet buffer and its writers |
| `PacketPathProofs` | | `PacketPath` | theorems |

The modules named `MC...` instantiate these for TLC. Definitions keep the
names of the C functions, in the capitals of TLA+ (`process_post` is
`ProcessPost`). A definition whose name has a suffix after an underscore
(`FreeSlot_FromStart`) is a wrong variant of the one that follows it, of the
kind a slip in the code would be: put in its place it makes the property that
`PROJECT.json` names with it fail. They show that each property depends on the code.

**Process.** The C stack is the variable `stack`: a frame for each
`do_poll`, `do_event`, `exit_process`, `process_post_synch` and thread that is
under way, with the loop variable where it walks the process list. A step is
one visit of one loop, one kernel call by the thread that is running, or the
return of that thread. So every interleaving of nested calls that the code
allows is there, and a loop reads `p->next` only after the call it made.
`next` keeps the value it has in a process that left the list, as in the code.
Threads are arbitrary: in each activation one may make any `MaxOps` kernel
calls, except that none exits a process that is under way (rpld's
processes never do, see section 7). `taken`, `asked`, `owed` and `stray` are history variables.

**Ctimer.** `timers.armed` is `timerlist`, the newest first; `timers.listed` is
`ctimer_list`; `queue` is the kernel's ring (its order is `EventQueue`'s). Time
is counted down: `due` is start + interval - now. A poll of the etimer process is
one step (`EtimerPoll`): `PostFirst` is one pass of its scan, which posts the first
expired timer if the queue has room and then starts over; `Scan` repeats it until nothing changes.
`Calls` is what any handler does to the timers. RPL's `periodic_timer`, which is
reset by its own callback and never stopped, is kept apart.

**RouteTable and RouteSync.** A prefix is a sequence of bits, a tree is a record
of nodes with links in both directions, as in `table.c`; pointers to freed nodes
can be told from others, and `Scrub` makes the content of a freed node
meaningless. `route_node_delete` is recursive there and a recursive function
here, like the loops that go down and up the tree; the two assertions it makes are `failed`. In `RouteSync` each message to the kernel is a step, so a
crash may fall between any two of them; a crash leaves `fib`, the kernel's table,
and the next run loads it in the order the kernel likes. The two loops of
`br_poll` are `Sync` (one learned route at a time, in the order of their slots) and `Visit...` (one node at a time).
`place` is the slot a learned route has in `uip_ds6_routing_table`: a new one gets the last free slot.

**RplDag.** A handler runs to its end before the next, so one DIO is one step,
with the whole cascade `rpl_process_dio` -> `rpl_process_parent_event` ->
`rpl_select_dag` -> `rpl_local_repair` in it. The code changes the instance in
place; here a helper takes the instance and returns the changed one. A parent
pointer is a slot and a neighbour. Ranks are in units of `min_hoprankinc`, and
`INFINITE_RANK` (0xffff) is 255 of them, which leaves the outcome of every
comparison the same. The node starts as the daemon starts it, as root of its
own DODAG. `stale` is the value of a field that `rpl_add_parent` does not set:
what the block of memory held before. Two things are simpler than in the code, and the runs cannot tell. 250 units and
5 more are `Infinite` here and 65280 in `calculate_rank` (rpl-of-etx.c:124); the ranks of the runs do not come near, and the
theorems are about the model's arithmetic there. The sender of a DIO is always put into the neighbour cache;
`uip_ds6_nbr_add` gives up where the cache is full of entries all looked up in the same clock tick.

**Dtsn.** A parent and a child; every DIO and DAO is delivered or lost, either
side restarts, routes expire. `gap` is history.

**DaoRoutes.** The routing table of one node. `uip_ds6_route_lookup` (longest
match, the last of several) and `uip_ds6_list_loop` (the first entry that agrees,
else the last free slot, in the part of the table its 8-bit size reaches) are
`Lookup` and `SlotFor`, over all of the table and over `Searched`. Both compare prefixes by `uip_ipaddr_prefixcmp`
(uip.h:1051), that is, by whole octets: `Matches` looks at the bits in `Compared`. What a DAO carries beyond its
prefix is taken for zeros (`Address`), though `dao_input` copies whole octets and clears nothing. A DAO of
any neighbour for any target may come at any moment, as the code looks at no
sequence number. Of RplDag there is here what routes depend on: `nearer`, the
parents of a lower rank, and the preferred one.

**Neighbors.** The cache, the blocks that hold waiting packets, the default
routers that both router advertisements and RPL write, the pointer `def_route` of RPL and
the static variable `nbr` of `uip-nd6.c`, which outlives a message. A handler
is one step; helpers take the tables as a record and return it. `NbrAdd` has
several outcomes where the code picks the least recently used entry. An entry has a link address, `lladdr`: the
neighbour's own (which goes by the neighbour's name), none (`Unset`), or the one `dio_input` gives it (`Sender`, also zeros, but a
mistake of another kind); packets go out to what the entry has. Timers
are not counted down: any that runs may have run out. `held` and `late` are the
blocks and their lifetimers, whose `TIMER` event may wait while the block changes hands.

**PacketPath.** `uip` is the buffer by what it holds: a packet that was told of or not,
one already handled, one of the daemon's own. A poll of the device may come
between any two handlers (`Process` shows that it does, also between the
receivers of one broadcast: `turn`). Addresses are tentative, counted and preferred; the
loops of `uip_ds6_periodic` go on while the buffer is empty and stop with the first message.

## 3 The runs

| run | question | states | properties |
|---|---|---|---|
| kernel_static | processes that never end, as in rpld | 180 970 | TypeOK QueueSpec PollServed PassEnds |
| kernel_churn | a process ends, another starts, under every loop | 141 346 | KernelOK BroadcastExact |
| ctimer | three timers set and stopped from everywhere, ring full or not | 61 893 | TypeOK NotForgotten OneTick Expires |
| route_mirror | changes and withdrawals between polls, crashes anywhere | 331 000 | TypeOK TreeOK KernelMirrors LearnedInTree KernelFollows Withdrawn |
| route_lost | three hosts that come and go, a split below the top | counterexample | LearnedInTree |
| rpl_node | two neighbours, three DODAGs, two slots | 158 226 | RankAboveParent RankBounded RouteToParent ParentReachable |
| rpl_repair | two DODAGs, two versions, room for one parent each | 147 643 | TypeOK ParentsOK OneDag RankNeedsParent RootAloneStays |
| rpl_root | the root hears a DIO of another DODAG | counterexample | RootStays |
| dtsn | every value of the trigger numbers | 278 016 | DtsnTypeOK DioTriggers RouteComes |
| dao_routes | nested targets, targets alike in their whole octets, two senders, a table that is full | 103 616 | TypeOK HopFollowsDao Expires AnnouncesRouted |
| neighbors | three addresses, a cache of two, one block, one router | 119 316 | TypeOK PacketsKept ToNextHop SolicitsSent Drains |
| packet_path | packets, timers and RPL on one buffer and a short ring | 45 300 | TypeOK BufferSound Ready |

What they show.

*Kernel.* `process_post` and `do_event` implement a FIFO queue (`QueueSpec`,
a refinement with `Queued`, the ring read from `fevent`, as the mapping) and serve
it (part of `PassEnds`). `poll_requested` may be cleared before
the loop that serves it because a request made during the loop either sets it
again or lies ahead of the loop (`PollNotLost`, part of `KernelOK`, and `PollServed`).
A broadcast that polls before each receiver still ends, reaches every process that
stays, no process twice and none that came later (`BroadcastExact`),
even while processes come and go: it relies on an exiting process keeping
its `next` and on a new one going to the head; the wrong variants of `Unlink`
and `Link` fail. `call_process` never enters a thread twice.

*Timers.* A callback that is set is on a list or its event is in the ring,
whoever stops and sets it meanwhile (`NotForgotten`); the periodic timer of RPL
is never doubled nor early (`OneTick`), and no due timer waits for ever behind others
(`Expires`): the scan must go past timers that are not due and past a full ring.

*Mirror.* After a poll the kernel has exactly the learned routes and those a
former run left that were not learned again (`KernelMirrors`); on the way every
message is a step towards them (`KernelFollows`), crashes included. Both are said of
polls that find one change at most (`calm`; section 7 has what happens with
two). A route forgotten for good leaves, whatever else changes (`Withdrawn`). The
tree stays a radix tree that a walk goes through completely, its assertions hold
and the walk never stands on a freed node (`TreeOK`); a poll finds every learned route in it,
held by one lock and no more (`LearnedInTree`).

*RPL.* A node is farther from the root than its preferred parent, except
from the loss of that parent to the next tick, when it is marked
(`RankAboveParent`, `ParentReachable`); it is in one DODAG (`OneDag`), never
deeper than `max_rankinc` below its best (`RankBounded`), with a default route
to its preferred parent where it has both (`RouteToParent`), also where a third
DODAG makes it start the instance afresh. No DODAG points to
a freed or moved parent and no block leaks (`ParentsOK`, with two DODAGs). A root that hears
of no other DODAG stays one through every message (`RootAloneStays`).

*Triggers.* A DIO triggers a DAO unless 16 increments or more separate it
from the last one seen (`DioTriggers`), and a parent without a route gets one in
the end, also after it restarted with its numbers behind (`RouteComes`).

*DAO routes.* No prefix has two routes. A target gets a new next hop only from a DAO for itself or for a related target
(one lies in the other, or they agree in their whole octets), and the sender of that DAO; one related to no other is always
routed to the sender of the last DAO for it (`HopFollowsDao`), whatever lookups in a full table, purges and parents do. For
related targets the last part is false (section 7). A route ends when no DAO for it or a related target comes any more,
also if it was taken back twice (`Expires`). What a node announces to its parent it can route itself, through the sender of
the DAO, unless a network's DAO comes after that of a host in it (`AnnouncesRouted`).

*Neighbours.* A waiting packet belongs to one entry of the cache whose neighbour is its next
hop, through evictions, late `TIMER` events and entries removed while it waits
(`PacketsKept`), leaves to its next hop, at the link address that has told last (`ToNextHop`; the exception is
a neighbour added by a DIO, section 7),
and does not wait for ever (`Drains`). Nobody is given up unasked (`SolicitsSent`).

*Buffer.* Between two handlers the buffer holds nothing but a packet that was never
handled, whose event is still to come if there was room for it; what the daemon wrote has left,
and every solicitation counted for an address was sent (`BufferSound`). Packets
do get lost and sent back out (section 7). The buffer is free again and again, and each address is asked for
and becomes preferred, if the periodic timer finds the buffer empty again and again (`Ready`).

## 4 Bounds

- **Kernel.** Three processes: a loop visits one, one changes the list, one is
  after it. Two slots (one when processes come and go) already fill and wrap; `NumWidth`
  is 4, so that two slots are as many as the width of the index type allows, the
  critical case; the theorems cover every size. `MaxOps` is 1: one activation
  makes one kernel call, but activations follow and nest without bound on their
  number. rpld's own ring has 32 slots and an index of 8 bits.
- **Timers.** Three timers (periodic, DIO, DAO) and three slots. A ring smaller
  than the number of timers would starve the last of them; the program
  has 32 slots and fewer etimers, so there are never fewer slots than timers. Intervals
  0 and 1 against a period of 2; `MaxLate` 2 stops the clock when a
  waiting timer is that late. A handler makes one timer call; one that makes two is two events.
- **Mirror.** A network and two hosts in it, two next hops, three slots; `route_lost` needs
  three hosts. `MaxChanges` 2 bounds the changes between two polls: one is the common case,
  two already hide a route from a walk, cascade deletions and break what `calm` excludes.
- **RPL.** Two slots for DODAGs, as in the code. Ranks 1 and 11 with
  `Increase` 5 are a root and a grandchild, 16 what a child of that has, 255 a node without a rank, and 7 is the code's
  `max_rankinc`: a rank of 16 is acceptable where 11 is the best position and not
  under 6. Two neighbours compete, move and evict; versions 240 and 241 are the
  initial one and the next. `rpl_node` has a DODAG too many, `rpl_repair` with `MaxParents` 1 lists and pool full at once. Both take
  neighbours, and foreign DODAGs, for symmetric: the handlers compare ranks, metrics, places and slots, never names. The theorems cover
  every number of neighbours, ranks and DODAGs, but for the pool, which is proved for two DODAGs.
- **Dtsn.** No bound: the byte is whole.
- **DAO routes.** Octets of two bits: two networks of three bits that differ in the last, beyond their whole octet, a host
  in one of them, and two networks elsewhere, in a table of five slots
  of which two are searched (`RouteNB % SizeRange`, as 1000 % 256 in rpld): more targets than room, and
  all orders of a network, its host and its sibling. A lifetime of 1 and an `Expiration` of 2: a second
  No-Path DAO would let the route live on. The theorems cover every size.
- **Neighbours.** Two neighbours and the own address for two slots, one block and one
  router: every table fills and evicts. Two multicast solicitations and one unicast: a count
  that is not the last, and one that is. One neighbour advertises itself as a router and also
  sends DIOs, so that both ways to a default router and to an entry of the cache meet, the other does neither;
  the theorems let each do what it likes. A second block or router only repeats what the first does.
- **Buffer.** A link-local and two global addresses (the loop skips, stops and goes on), two
  slots for four kinds of events, two solicitations for each address. The theorems cover every number.

Nothing else is bounded, no state constraint is used, and deadlock is checked in every run.

## 5 Fairness

- `Process`: `WF_vars(Next)`. main loops for ever and every thread returns: its
  calls are bounded. The kernel is one thread, so progress of any enabled step is progress.
- `Ctimer`: events are dispatched (weak fairness), and again and again the ring
  is empty (`[]<>`), and the etimer process is polled while it is (strong fairness of
  `queue = <<>> /\ EtimerPoll`). main requests that poll after every pass. That the ring runs empty is an
  assumption on the load: under packets at every poll the code does starve
  its timers (section 7), and `Expires` does not claim otherwise.
- `RouteSync`: again and again the daemon is in the first loop of `br_poll` and again and again
  it is between two polls: packets keep coming and each poll runs to its end. This is weak fairness of the daemon's steps
  said of `pc`; TLC takes hours for the other form. Crashes and changes are not fair;
  `Withdrawn` excludes a daemon that stops for ever again.
- `Dtsn`: the trickle timer sends DIOs for ever; a link that loses messages at
  random delivers again and again a DAO, and two DIOs in a row. The second is
  needed: after a restart of the parent one DIO may be passed over.
- `DaoRoutes`: `WF_vars(PeriodicTimer)`, the timer of which `Ctimer` shows that it comes again and again.
- `Neighbors`: weak fairness of `LifeExpires` or `LifeEvent` (never enabled together) for each block: a timer that runs expires, and its
  event is handled. Nothing is assumed of the neighbours: none need ever answer.
- `PacketPath`: `WF_vars(Handler)`, the kernel takes the next event, and `SF` of `TimerExpires` for each timer: the ring has room again
  and again, and etimer_process then posts the event.
  That the periodic timer finds the buffer empty is not assumed but a condition of `Ready`: under load it need not.

## 6 The proofs

Checked by tlapm for every value of the constants under the named assumptions
`KernelAssumption` (the ring has a slot and at most half the range
of its index type; there are finitely many process objects), `Dtsn` has none.

- `ProcessProofs!TypeCorrect`: `Spec => []TypeOK`, by induction, one step per
  action. `TypeOK` is inductive because it types the stack: `Frame` says that a
  frame of `do_event` that has polled stands on a process and not on NULL, which is
  what `BroadcastCall` needs. Lemmas give the types of `call_process`,
  `process_start`, `exit_process`, `process_poll` and `process_post`.
- `ProcessProofs!RingImplementsQueue`: `Spec => Queue!Spec`. `QueuedType`
  says that the ring read from `fevent` is a sequence of length `nevents`;
  `PostAppends` and `DoEventTakes` show the two steps that change it, with
  `RingIndex` for the arithmetic of the wrap and `FreeSlotIndex` for the sum
  that is cut to a byte first: that is where the assumption on the width is used.
- `DaoRoutesProofs!DtsnTypeCorrect` and `TriggersCorrect`: the inductive invariant is `InStep`
  (`out` is `gap` increments ahead of `seen` while `gap` counts them);
  `LeadIsGreater` shows that `lollipop_greater_than` sees every lead from 1 to
  15, from any starting value, on the stick, in the circle and where the byte wraps at 255.

- `ProcessProofs!NeverReentered`: `Spec => []NoReentry`. `NoReentry` speaks of threads and
  `state` only and is not inductive: to know that the process do_poll is about to call is not
  already called one must know that nothing but `do_event` lies below `do_poll` (`Loops`); to know that
  the thread exit_process runs is not on the stack, that what exits was stopped and exits
  once (`Exits`, `OneOfEach`); to know that do_poll goes on with a listed process although the one it
  visited may just have been freed from the list, that the list has no cycle (`Chained`, with
  a rank that grows along it) and that an unlinked process still points into it
  (`UnlinkChained`). These make `ReInv`. Each way a stack changes (push, replace, pop, return) has a lemma,
  each action one that combines them. It uses `Ev \cap KernelEv = {}`: a thread that posted
  `INIT` would have do_event set a process running that is called.
- `ProcessProofs!KernelAlways`: `Spec => []KernelOK`. What a walk along the list visits (`OnWalk`) is a
  recursive function, so `KernelOK` is not inductive as it stands. `KInv` says the same with a rank:
  the list is what is reachable from its head because ranks grow along `next` and no listed process has a
  rank between two neighbours (`Ranked`); who is listed and does not run is about to be unlinked (`Left`); and
  who asked for a poll is marked, with the poll requested or a loop still on its way to it (`Polled`). A new process
  gets a rank below all, an exiting one keeps its own, with which a loop that stands on it goes on.
  `WalkReaches`, `WalkOrder` and `WalkMeets` relate rank and `OnWalk`, by induction over the number of processes.
- `ProcessProofs!BroadcastsExact`: `Spec => []BroadcastExact`, from `BInv`: who is still owed the broadcast is
  who is listed behind the process do_event visited last, which may have left the list (`Due`), and no process that
  comes later is (`Told`). It assumes that no process that ends is started again, `Starting \cap Exiting = {}`: one that ends and is
  started while do_event stands at it goes to the head, and the loop starts over. rpld starts no process twice;
  `KernelAlways` needs no such assumption.
- `CtimerProofs!TypeCorrect`, `NeverForgotten` and `OneTickAlways`: invariant `Whole`, the types,
  every listed timer armed or in the ring, and the periodic timer in one place. Any number of passes of the scan
  keeps it (`PostFirstStays`, with `Iteration` of `DataLemmas`), and so does each call a handler makes.
- `NeighborsProofs!TypeCorrect`, `PacketsAlwaysKept`, `AlwaysToNextHop`, `SolicitsAlwaysSent`: from one invariant on
  the tables, `Base`. Two packets in one block, or an entry and a block that do not know each other, can only be
  excluded together: `Kept` says that entries and blocks in use are paired, and that the
  entry is the packet's next hop. `Routed` says that this hop is right for the packet, which is what makes a packet that
  leaves later leave to the right neighbour. `na_input` makes an entry reachable before it takes the packet out, so `Kept`
  has an exception for that entry until `ReleaseGood`. `Told`, that whoever was counted has a
  solicitation among the messages of this step, is carried the same way, with an exception from the count to the message. `Fits` says that an entry without a link address is INCOMPLETE
  and every other has the one its neighbour has told or `Sender`: this is what makes `AlwaysToNextHop` more than a look at
  `Transmit`, and why an advertisement without an address must leave INCOMPLETE entries alone. There is
  a lemma for each helper (`EnqueueBase`, `FreeBase`, `AddGood`, `TransmitGood`, `OutputGood`, ...) and one for each handler.
- `DaoRoutesProofs!TypeCorrect`, `HopsCorrect`, `AnnouncedRouted`: invariant `IInv`, the types
  and no prefix twice, for every set of targets and every length of octets. `LookupCorrect` and `SlotForCorrect` give what the two searches return,
  from `LeastNatural` (a set of numbers has a least element), since `Min` and `Max` are
  CHOOSE expressions; `AddRouteCorrect` is the heart: it shows for the three branches of
  `rpl_add_route` what becomes of the next hops. The two action properties follow from one lemma on steps (`Step`).
- `PacketPathProofs!TypeCorrect` and `BufferCorrect`: type and `BufferSound` are together inductive
  (`Parts`); `AppendTo`, `TailOf` and the lemmas on the queue carry the events, `PeriodicKeeps` the loop over the addresses.

- `RplDagProofs`, nine theorems from one inductive invariant, `IInv`. It says of the instance that its lists are
  without doubles and hold nothing in an unused slot (`Sound`), that no two slots in use have
  the same DODAG (`IdsOK`), that one DODAG is joined and is the current one (`Joined`), how rank, preferred parent,
  best rank and default route of that DODAG relate (`Ranked`), that an unused instance is empty, that free and listed
  blocks are at most the pool (`Blocks`), and that a root that has heard nothing foreign has its rank
  and no parents (`RootAlone`). All are needed at once: a rank is above that of the preferred parent only
  because that parent is in the list, and it is there only because lists have no doubles. The handlers are one
  cascade of helpers, so the argument goes from the inside out: a helper that touches one DODAG is a patch
  (`PatchStep`), patches that move blocks only between list and pool are steps, which compose (`StepTransitive`),
  steps that may also change the DODAG are moves (`MoveTransitive`). Half way through a handler
  `Ranked` does not hold; `ParentEventMoves` shows that `rpl_process_parent_event`, with which each handler
  ends, makes it hold again whatever it finds. `RankBoundedAlways` assumes that `max_rankinc` is not 0, which the code
  takes for no limit. `ParentsAccounted` assumes that there are two DODAGs: with a third `rpl_free_instance`
  loses the blocks of the DODAG that is not joined (section 7), so that in general only `Blocks(rpl) <= Pool` is proved.
  `ParentReachableAlways` adds to `IInv` how the lists and the neighbour cache relate (`Reach`): every parent is in the
  cache or has lost its rank (`Known`), every preferred one is in the cache or marked (`Held`), and nobody is in two
  lists (`Apart`), without which the callback of the cache, which marks the first record it finds, would miss one. The helpers
  of a handler either judge, and change no list or record (`Judged`, `EventReach`), or put the sender of a DIO, who is
  in the cache, into one list (`Takes`, `TakesReach`); a new preferred parent always has a rank (`Fit`). It
  assumes that no version announced is newer than another or than a root's first (`NoneNewer`), that is, no global
  repair: `global_repair` adds the sender without looking for it in the other DODAG, and TLC then refutes `ParentReachable`
  in five states (section 7). In the run rpl_node, with one version, the assumption holds.

- `RouteProofs!TypeCorrect` and `TreeCorrect`: for every set of prefixes. `IInv` says of the tree that its links agree
  with the prefixes in both directions and that a node without a route has two children (`WellFormed`), that only
  prefixes hold routes, and of the walk that every route above the node it stands on is locked (`Held`, `Stands`). The
  last is what keeps a deletion from freeing a route or a branching point in use as it goes up: above the freed node it finds
  locked routes, at which it stops, and branching points, which one child short are what it is to take out. The loops
  of the code are recursive functions; `TailRecursion` shows that such a loop defines one, and then `DescendCorrect`,
  `ClimbPasses` and `DeleteCorrect` follow by induction on the length of prefixes or the number of nodes. Splits below the top
  (section 7) are included: what they lose leaves `used`, and what is left is a radix tree. `WalkCorrect` shows that a walk of
  any linked tree comes to its nodes in the order of their prefixes (`Before`), to each once, and ends after as many steps as
  there are nodes; it is the part that makes `br_poll` and `route_table_unlock` complete.

- `RouteProofs!LearnedInTreeOnTop`, `KernelMirrorsOnTop` and `KernelFollowsOnTop`: the mirror, for every set of prefixes and
  next hops, in behaviours in which every split is made at the top (`OnTop`, a condition on the steps that add a node). Without it
  they are false: a split below the top loses routes (section 7, `route_lost`). The invariant is `MInv`. While the dump is loaded a
  route of the kernel is in the tree or still to come, and not both (`Loading`); while a poll marks, a learned route
  is marked with its next hop and one lock or still to be looked at (`Syncing`); a second lock never comes about, because a lock
  is a learned route's or, on nodes the walk has passed, a former run's (`Locking`), which is why the KERNEL case, which locks
  again, finds its node unlocked; the kernel has one route at most for a prefix, has routes of the tree only, and none
  but its own for a node marked CREATED (`Marks`). As long as polls find one change at most, all routes but one are as the last
  poll left them (`SyncedBut`, `MirrorsBut`), and the one is right in the kernel as soon as the walk is past it
  (`Changing`). A visit then does one of two things to the routes: the node stays, locked once (`Stays`), or
  goes, with its route in the kernel (`Goes`); that the walk goes on behind what it has passed, after a deletion too, is `BeforeOrder`
  and `LeaveRoutes`.

The assumptions on constants are in the modules: slots and numbers are natural and not zero,
NULL is no element, prefixes are bits no longer than an address.

Only model-checked: all liveness (the prover has no rule for fairness and
ENABLED). Every invariant and action property of a passing run is stated by a theorem; those of the mirror under
the conditions above, which the code does not meet in general.

## 7 Where code and documentation disagree

Shown by a run, as findings of `PROJECT.json`:

1. **route_lost.** `route_node_get` makes the node of every split the top of the
   table (table.c:321), also a split below the top; what is beside and above it
   is lost to the walk that finds "all the node exist" (table.c:372). `br_poll` looks at routes in the order of their slots
   and new ones take the last free slot, so routes that are only added are all found again: the newest, whose split it
   is, comes first. The run forgets one and learns it again, which gets it a slot behind another: the split then
   takes out a route found just before. The next poll misses that route, makes its node anew and sends the create again; if RPL
   forgets it before that, it stays in the kernel.
2. **rpl_root.** A DIO of another DODAG of the instance takes the daemon's root rank
   (rpl-dag.c:614): its rank is recalculated from a preferred parent that a root does not have.

Met while modelling, and kept out of the passing properties by the bound or
condition named with each:

*Kernel.*

- `call_process` sets a process running again when its thread
  returns (process.c:197), also when the thread exited itself by
  `process_exit`, which process.h:385 allows ("either be the currently executing
  process"): off the list and yet called. No process of rpld does that, and `Exit` excludes it.

*Mirror.*

- Two changes between two polls: a withdrawal may hide another node from the walk. Its route keeps the mark CREATED
  or MODIFIED, the next poll marks it UPDATED, and it never reaches the kernel (rpld.c:259).
  `KernelMirrors` and `KernelFollows` ask for `calm`.
- `kernel_route_update` goes on from a node it may have freed (rpld.c:259), whose
  links no longer lead to its children's new place: nodes of that pass are skipped
  and follow at the next poll. In C the read is of freed memory; the model reads what was there.

*RPL, triggers and timers.*

- An unacceptable rank clears `preferred_parent` and leaves the default route
  (rpl-dag.c:619); the local repair that follows finds no parent to nullify. rpl.h:203 calls
  it "The current default router". `RouteToParent` speaks of nodes that have both.
- After a global repair a lost neighbour may have records in two DODAGs, of which
  only the first found is marked (rpl.c:196): `ParentReachable` is checked with one version and proved without a newer one.
- A third DODAG frees the instance and with it only the parents of the joined DODAG
  (rpl-dag.c:466, :425): that no block leaks, in `ParentsOK`, is checked with two DODAGs.
- rpl-dag.c:357: `def_route` may name a router that an advertisement has made since the route expired; RPL then removes
  that one. rpl-dag.c:370: a finite default route is not refreshed while the parent stays.
- A parent that restarts starts at trigger 240, which a child that last saw 0 or a
  number in 240 .. 255 does not take for new, although the code says "always request
  new DAO to refresh route" (rpl-icmp6.c:449): `RouteComes` takes more than one DIO.
- A timer that is set again while its `TIMER` event waits has its callback run from
  the old event, at once; `OneTick` speaks of the periodic timer, which nobody sets twice.
- A process that is exited and started again within one broadcast can be called in
  both its lives; `kernel_churn` starts a process that was not there before.

*DAO routes.*

- rpl-icmp6.c:687: `dao_input` checks "whether this is a DAO forwarding loop" (rpl-icmp6.c:662) and gives the parent it finds in
  one an infinite rank, but leaves it the preferred one until the next tick. Its next DAO is accepted and passed on to itself.
- rpl-icmp6.c:649: `saved_lifetime` is never cleared. After DAO, No-Path DAO, DAO a second No-Path
  DAO is ignored and the route lives as long as the DAO said. `Expires` allows it.
- rpl.c:116: a DAO for a host inside a known network finds the network's route by longest
  match and moves its next hop. `HopFollowsDao` says of related targets only that a new next hop is the sender of the DAO.
- uip.h:1051: `uip_ipaddr_prefixcmp` compares whole octets only. Two targets X::/33 that differ in bit 32 share one entry: the DAO for
  the second gets no route of its own, but overwrites the next hop of the first and keeps it alive, and a No-Path
  DAO for the one takes back the other. Whole addresses and prefixes of whole octets are not affected.
  The properties of `DaoRoutes` count such targets as related.

*Packets and neighbours.*

- `tcpip_ipv6_output` "does address resolution and then calls tcpip_output" (tcpip.h:352). `dio_input` adds an unknown
  neighbour as reachable with packetbuf's sender address (rpl-icmp6.c:239), which nothing sets on Ethernet: it is zero.
  Packets to the neighbour go there, without resolution, until it sends a solicitation or an advertisement with its address, or
  unreachability detection gives it up and it is resolved as others are. `ToNextHop` excepts such packets.
- A `TIMER` event handled between the poll that filled `uip_buf` and the broadcast that announces it sends the
  received packet back out (`tcpip_ipv6_output` of whatever is there). With a full ring a packet is
  never announced, and the next one overwrites it. `BufferSound` claims neither is absent.
- uip-nd6.c:921: an advertisement without a link address goes on with the `nbr` of an earlier message.
- The `TIMER` event of a block that was freed and taken again frees the next packet in it early.
- `uip_ds6_dad_failed` returns 0 for the link-local address and its callers ignore that
  ("it" is to be disabled, uip-ds6.c:952): the address becomes preferred all the same.
- `uip_ds6_addr_rm` leaves the solicited-node group another address with the same interface identifier needs.
- While the node has no usable source address a solicitation is counted and not sent (uip-nd6.c:357).
- An address late in the list is never asked for if one before it is given up and given anew for ever: the condition on `Stays` in `Ready`.

*Start-up.*

- tcpip_process, started after the border router, clears what that has set up (tcpip.c:771).

## 8 What is not modelled

Most lines of the repository are Contiki's: 6LoWPAN, Rime, MAC layers, file
systems, loader, device drivers, resolver, DHCP, shell and examples are vendored with
the stack and neither started nor, for the most part, linked into rpld. They say
nothing of this program and are left out; that is why the modules map to a small share of all lines and to most of the
stateful code that runs: `rpld.c`, `table.c`, `prefix.c`, `process.c`, `etimer.c`, `ctimer.c`,
`rpl-dag.c`, `rpl-of-etx.c`, `rpl-icmp6.c`, `rpl.c`, `rpl-timers.c`, `uip-ds6.c`, `uip-nd6.c`, `uip-packetqueue.c`,
`tcpip.c` and `ethdev.c`.

Of the code that does run:

- parsing and printing of packets, checksums, addresses derived from prefixes (`uip6.c`, `uiplib.c`): data, no state of its own;
- `route_node_dump`, verbose output, options of `main`;
- netlink's attributes, metrics and acknowledgements: the code asks for them and never reads them, the
  model's kernel does as it is told; kernel routes without a gateway;
- the trickle timer's intervals and redundancy counter: whatever they are, a DIO is sent sooner or later, which is all that
  `Dtsn` uses; the overflow of 32 bits at rpl-timers.c:95 keeps the interval in its bounds;
- the order of initialisations (one sequence without choices);
- prefix list, multicast and anycast addresses, the choice of a source address, DIS, DAO acknowledgements;
- TCP, UDP and the RPL extension header: rpld gives this stack ICMPv6 only, the Linux kernel forwards the rest.

External to `src/` and modelled from its use: the Linux kernel's routing table
(`KernelCreate`, `KernelDelete`) and the coming and going of neighbours.

## 9 The plan

Done in this order: the kernel, on which all else runs; the route mirror, the purpose of rpld; RPL's
DODAG logic; triggers and timers; DAO routes; neighbours; the packet buffer. What is left, in order:

1. **Composition.** `DaoRoutes` as the source of `RouteSync`'s learned routes, `RplDag` as the source of `DaoRoutes`' parents: today each
   leaves the other arbitrary, which is safe for what they claim and larger than what happens.
2. **Prefixes and source addresses** of `uip-ds6.c`, on `PacketPath`.
3. **Trickle.** Intervals and the redundancy counter with two nodes that hear each other.

To run: `tlc -config Ctimer.cfg MCCtimer` checks a run (the module and configuration of each
are in `PROJECT.json`), `tlapm ProcessProofs.tla` the proofs.
