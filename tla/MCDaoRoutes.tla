---------------------------- MODULE MCDaoRoutes -----------------------------
(* A small instance of the DAO routes for TLC, with octets of two bits. *)
EXTENDS DaoRoutes

CONSTANTS n1, n2

(* Two networks that differ beyond the whole octet they share, a host in   *)
(* the second, and two targets elsewhere.                                  *)
Nested == {<<0, 0, 0>>, <<0, 0, 1>>, <<0, 0, 1, 1>>, <<1, 0>>, <<0, 1>>}
=============================================================================
