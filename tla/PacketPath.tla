----------------------------- MODULE PacketPath -----------------------------
(***************************************************************************)
(* The one packet buffer of the daemon, uip_buf, and those who write it:   *)
(* the poll handler of the Ethernet device (ethdev.c), which announces a   *)
(* packet by an event; the border router, which takes that event and has   *)
(* the stack handle the packet (rpld.c, tcpip_input); the timers of the    *)
(* stack (tcpip.c, uip-ds6.c), which put solicitations there; and RPL,     *)
(* which puts its messages there.                                          *)
(*                                                                         *)
(* The kernel polls before every call of a process (Process), so a packet  *)
(* may come between any two handlers.  A handler runs to its end.  What a  *)
(* packet does to the neighbours is in Neighbors, to RPL in RplDag; here   *)
(* it counts as far as it concerns the node's own addresses.               *)
(***************************************************************************)
EXTENDS Integers, Sequences

CONSTANTS
  AddrNB,      \* UIP_DS6_ADDR_NB; the link-local address has slot 1
  NumEvents,   \* PROCESS_CONF_NUMEVENTS
  MaxDad,      \* uip_ds6_if.maxdadns
  MaxRs,       \* UIP_ND6_MAX_RTR_SOLICITATIONS
  NULL

ASSUME NumberAssumption == {AddrNB, NumEvents, MaxDad, MaxRs} \subseteq Nat \ {0}
ASSUME NullAssumption == NULL \notin Nat /\ NULL \notin {"told", "untold", "handled", "own"}

VARIABLES
  uip,       \* what is in uip_buf, NULL if uip_len is 0
  queue,     \* the event queue
  turn,      \* a broadcast of ethnet_event has not come to the border router
  timers,    \* the timers of the stack that run
  addrs,     \* uip_ds6_if.addr_list: how often each address was asked for
  asked,     \* history: how many of these solicitations have left
  rscount    \* router solicitations sent

vars == <<uip, queue, turn, timers, addrs, asked, rscount>>
stackVars == <<timers, addrs, asked, rscount>>

Slot == 1 .. AddrNB
LinkLocal == 1
Global == Slot \ {LinkLocal}

Timer == {"periodic", "rs"}
Event == Timer \cup {"ethnet", "rpl"}

(* A packet of the link is told or not told to the border router, or it is *)
(* one that was handled already; "own" is one the daemon made itself.      *)
Content == {"told", "untold", "handled", "own"}

(* The states of an address: MaxDad + 1 stands for ADDR_PREFERRED, fewer   *)
(* for ADDR_TENTATIVE and dadnscount.                                      *)
Preferred == MaxDad + 1
Tentative(n) == n \in 0 .. MaxDad

-----------------------------------------------------------------------------
Init ==
  /\ uip = NULL
  /\ queue = <<>> /\ turn = FALSE
  /\ timers = Timer
  /\ addrs = [i \in Slot |-> IF i = LinkLocal THEN 0 ELSE NULL]
  /\ asked = [i \in Slot |-> 0]
  /\ rscount = 0

Room == Len(queue) < NumEvents

(* pollhandler of ethdev.c: the packet replaces what is in the buffer, and *)
(* nobody looks whether its event found room.  (A name with a suffix, here *)
(* and below, is a wrong variant of the definition after it: with it in    *)
(* its place some property fails.)                                         *)
Poll ==
  /\ IF Room THEN uip' = "told" /\ queue' = Append(queue, "ethnet")
     ELSE uip' = "untold" /\ UNCHANGED queue
  /\ UNCHANGED <<turn, stackVars>>

TimerExpires_Runs(t) ==
  /\ t \in timers /\ Room
  /\ queue' = Append(queue, t)
  /\ UNCHANGED <<uip, turn, timers, addrs, asked, rscount>>

(* A timer expires and etimer_process posts its event, if there is room.   *)
(* It stands still until its handler sets it again.                        *)
TimerExpires(t) ==
  /\ t \in timers /\ Room
  /\ timers' = timers \ {t} /\ queue' = Append(queue, t)
  /\ UNCHANGED <<uip, turn, addrs, asked, rscount>>

(* A timer of RPL, or another event that has this node send a message.     *)
RplExpires ==
  /\ Room /\ queue' = Append(queue, "rpl")
  /\ UNCHANGED <<uip, turn, stackVars>>

-----------------------------------------------------------------------------
(* do_event: the next event.  That of a packet is broadcast, and there are *)
(* processes before the border router.                                     *)
Dispatch(ev) ==
  /\ ~ turn /\ queue # <<>> /\ Head(queue) = ev
  /\ queue' = Tail(queue)

EthnetEvent ==
  /\ Dispatch("ethnet") /\ turn' = TRUE
  /\ UNCHANGED <<uip, stackVars>>

(* uip_ds6_addr_add and uip_ds6_addr_rm.                                   *)
AddrSet(i, n) == addrs' = [addrs EXCEPT ![i] = n] /\ asked' = [asked EXCEPT ![i] = 0]

(* What a packet may do: nothing here; claim a tentative address, which is *)
(* given up (uip_ds6_dad_failed) unless it is the link-local one; or give  *)
(* this node a new address (a prefix in a router advertisement or a DIO).  *)
PacketInput ==
  \/ UNCHANGED <<addrs, asked>>
  \/ \E i \in Global : addrs[i] # NULL /\ Tentative(addrs[i]) /\ AddrSet(i, NULL)
  \/ \E i \in Global : addrs[i] = NULL /\ AddrSet(i, 0)

(* The border router's turn: tcpip_input.  The answer, if any, is sent.    *)
AfterInput_Kept == IF uip = NULL THEN NULL ELSE "handled"
AfterInput == NULL

TcpipInput ==
  /\ turn /\ turn' = FALSE
  /\ IF uip = NULL THEN UNCHANGED <<addrs, asked>> ELSE PacketInput
  /\ uip' = AfterInput
  /\ UNCHANGED <<queue, timers, rscount>>

(* RPL sends a message of its own: uip_icmp6_send.                         *)
RplOutput ==
  /\ Dispatch("rpl")
  /\ uip' = NULL
  /\ UNCHANGED <<turn, stackVars>>

-----------------------------------------------------------------------------
(* uip_ds6_periodic: its loop over the addresses.  old are those whose     *)
(* lifetime is over, due those whose DAD timer has expired.  A solicitation*)
(* needs the buffer; from then on, or with a packet in it from the start,  *)
(* the others are left alone.                                              *)
Live(old) == {i \in Slot : addrs[i] # NULL} \ old

AsksNow(old, due) ==
  LET open == {i \in Live(old) \cap due : addrs[i] < MaxDad}
  IN  {i \in open : uip = NULL /\ \A j \in open : i <= j}

Passes(old, due) ==
  {i \in Live(old) \cap due : /\ uip = NULL /\ addrs[i] = MaxDad
                              /\ \A j \in AsksNow(old, due) : i < j}

(* Its loop over the neighbours may solicit too, if the buffer is free.    *)
NbrMayAsk_Always(content) == TRUE
NbrMayAsk(content) == content = NULL

(* Whatever is in the buffer at the end is sent (tcpip_ipv6_output): this  *)
(* may be a packet that was received and not handled yet.                  *)
Sent_OnlyOwn(content) == IF content = "own" THEN NULL ELSE content
Sent(content) == NULL

Periodic(old, due, nbrAsks) ==
  LET asks == AsksNow(old, due)
      content == IF asks # {} THEN "own" ELSE uip
      overwritten == nbrAsks /\ asks # {}
  IN  /\ Dispatch("periodic")
      /\ nbrAsks => NbrMayAsk(content)
      /\ addrs' = [i \in Slot |-> IF i \in old THEN NULL
                                  ELSE IF i \in asks THEN addrs[i] + 1
                                  ELSE IF i \in Passes(old, due) THEN Preferred
                                  ELSE addrs[i]]
      /\ asked' = [i \in Slot |-> IF i \in old THEN 0
                                  ELSE IF i \in asks /\ ~ overwritten THEN asked[i] + 1
                                  ELSE asked[i]]
      /\ uip' = Sent(IF nbrAsks THEN "own" ELSE content)
      /\ timers' = timers \cup {"periodic"}
      /\ UNCHANGED <<turn, rscount>>

PeriodicEvent ==
  \E old \in SUBSET {i \in Global : addrs[i] # NULL}, due \in SUBSET Slot, nbrAsks \in BOOLEAN :
    Periodic(old, due, nbrAsks)

(* uip_ds6_send_rs, until a router is found or MaxRs were sent: it writes  *)
(* its message over whatever is in the buffer.  Then tcpip_ipv6_output, as *)
(* above.                                                                  *)
RsEvent ==
  /\ Dispatch("rs")
  /\ \/ /\ rscount < MaxRs /\ rscount' = rscount + 1
        /\ timers' = timers \cup {"rs"}
        /\ uip' = Sent("own")
     \/ /\ uip' = Sent(uip)
        /\ UNCHANGED <<rscount, timers>>
  /\ UNCHANGED <<turn, addrs, asked>>

Next ==
  \/ Poll \/ (\E t \in Timer : TimerExpires(t)) \/ RplExpires
  \/ EthnetEvent \/ TcpipInput \/ RplOutput \/ PeriodicEvent \/ RsEvent

Spec == Init /\ [][Next]_vars

(* The kernel takes every event, and a timer that runs expires and finds   *)
(* room (Process, Ctimer).                                                 *)
Handler == EthnetEvent \/ TcpipInput \/ RplOutput \/ PeriodicEvent \/ RsEvent

FairSpec ==
  /\ Spec /\ WF_vars(Handler)
  /\ \A t \in Timer : SF_vars(TimerExpires(t))

-----------------------------------------------------------------------------
(* Type invariant.  A timer never has two events, nor one while it runs.   *)
TypeOK ==
  /\ uip \in Content \cup {NULL}
  /\ queue \in Seq(Event) /\ Len(queue) <= NumEvents
  /\ turn \in BOOLEAN /\ timers \subseteq Timer
  /\ \A i \in DOMAIN queue :
       queue[i] \in Timer => /\ queue[i] \notin timers
                             /\ \A j \in DOMAIN queue : queue[j] = queue[i] => j = i
  /\ addrs \in [Slot -> 0 .. Preferred \cup {NULL}] /\ asked \in [Slot -> 0 .. MaxDad]
  /\ addrs[LinkLocal] # NULL
  /\ rscount \in 0 .. MaxRs

(* Between two handlers uip_buf holds nothing but the last packet of the   *)
(* link, never handled before; if the device could post its event, that or *)
(* an earlier one is still to come to the border router.  What the stack   *)
(* wrote itself has left: each solicitation it counts for an address.      *)
BufferSound ==
  /\ uip \in {NULL, "told", "untold"}
  /\ uip = "told" => turn \/ \E i \in DOMAIN queue : queue[i] = "ethnet"
  /\ \A i \in Slot : addrs[i] # NULL => asked[i] = IF addrs[i] = Preferred THEN MaxDad ELSE addrs[i]

(* Every address is asked for on the link (uip_ds6_dad) and can be used in *)
(* the end, unless it is taken away, if the periodic timer finds the       *)
(* buffer empty again and again (under load it need not: every pass of the *)
(* kernel may read a packet) and those before it in the list are not taken *)
(* away and given anew for ever: they are asked for first.  And the buffer *)
(* becomes free again and again, though nobody may be told of the packet   *)
(* in it.                                                                  *)
Quiet == uip = NULL /\ Periodic({}, Slot, FALSE)
Stays(i) == addrs'[i] = NULL => addrs[i] = NULL

Ready ==
  /\ []<><<Quiet>>_vars =>
       \A i \in Slot :
         <>[][\A j \in 1 .. i - 1 : Stays(j)]_vars =>
           ((addrs[i] # NULL) ~> (addrs[i] \in {NULL, Preferred}))
  /\ []<>(uip = NULL)

=============================================================================
