---------------------------- MODULE MCWorkQueue ----------------------------
(* Two clients that post six units to two threads. *)
EXTENDS WorkQueue
=============================================================================
