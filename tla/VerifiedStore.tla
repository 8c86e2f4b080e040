---------------------------- MODULE VerifiedStore ----------------------------
(***************************************************************************)
(* What fetch-sources.sh promises the scripts that run after it, without   *)
(* saying how: a store of archives in which a file appears complete and    *)
(* with the right content or not at all, a producer's checksum file is     *)
(* only ever written next to the archive it describes, and success is      *)
(* announced only while everything that was asked for is good.             *)
(***************************************************************************)
CONSTANTS
    Names, Producers, Pinned, Content, Junk, Absent,
    Always      \* the archives asked for without --with-reference

VARIABLES
    store,      \* the archives
    sums,       \* the producers' checksum files
    announced   \* the last invocation has ended with success

vars == <<store, sums, announced>>

Genuine(n) == IF n \in Producers THEN Content \ {Junk} ELSE {Pinned[n]}

Good(n) ==
    /\ store[n] \in Genuine(n)
    /\ n \in Producers => sums[n] = store[n]

Init ==
    /\ store \in [Names -> Content \cup {Absent}]
    /\ sums = [p \in Producers |-> Absent]
    /\ announced = FALSE

\* A new invocation.
Begin == /\ announced' = FALSE
         /\ UNCHANGED <<store, sums>>

Evict(n) ==
    /\ ~announced
    /\ store' = [store EXCEPT ![n] = Absent]
    /\ UNCHANGED <<sums, announced>>

Install(n) ==
    /\ ~announced
    /\ store[n] = Absent
    /\ \E c \in Genuine(n) : store' = [store EXCEPT ![n] = c]
    /\ UNCHANGED <<sums, announced>>

Pair(p) ==
    /\ ~announced
    /\ store[p] \in Genuine(p)
    /\ sums' = [sums EXCEPT ![p] = store[p]]
    /\ UNCHANGED <<store, announced>>

Announce ==
    /\ ~announced
    /\ \E asked \in {Always, Names} : \A n \in asked : Good(n)
    /\ announced' = TRUE
    /\ UNCHANGED <<store, sums>>

Next ==
    \/ Begin
    \/ Announce
    \/ \E n \in Names : Evict(n) \/ Install(n)
    \/ \E p \in Producers : Pair(p)

Spec == Init /\ [][Next]_vars
=============================================================================
