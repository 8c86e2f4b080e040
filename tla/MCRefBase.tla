----------------------------- MODULE MCRefBase -----------------------------
(* The reference counts of one object with a few sp<> and wp<> instances. *)
EXTENDS RefBase

CONSTANTS h1, h2, h3, h4

MCHandles == {h1, h2, h3, h4}
=============================================================================
