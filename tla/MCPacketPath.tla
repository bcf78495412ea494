---------------------------- MODULE MCPacketPath ----------------------------
(* A link-local and two global addresses, and an event queue of two slots  *)
(* that four kinds of events compete for.                                  *)
EXTENDS PacketPath
=============================================================================
