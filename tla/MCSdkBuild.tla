----------------------------- MODULE MCSdkBuild -----------------------------
(***************************************************************************)
(* Two NDK builds that agree on every file the validator compares.         *)
(***************************************************************************)
EXTENDS SdkBuild

CONSTANTS b1, b2
MCAnchors == [b \in Builds |-> 0]
=============================================================================
