---------------------------- MODULE MCRouteSync -----------------------------
(* Small instances of the route mirror for TLC. *)
EXTENDS RouteSync, TLC

CONSTANTS h1, h2

(* A network and two hosts in it. *)
Nested == {<<0>>, <<0, 0>>, <<0, 1>>}

(* Two hosts under one branching point and one beside it. *)
ThreeHosts == {<<0, 0>>, <<0, 1>>, <<1, 1>>}
=============================================================================
