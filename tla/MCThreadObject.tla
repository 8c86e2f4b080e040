--------------------------- MODULE MCThreadObject ---------------------------
(* One Thread object with a few clients that restart it. *)
EXTENDS ThreadObject

CONSTANTS c1, c2, c3

MCClients == {c1, c2, c3}
=============================================================================
