------------------------- MODULE MCReleaseChecksum -------------------------
(***************************************************************************)
(* Two digests, one of them also in upper case, and a word that is none.   *)
(***************************************************************************)
EXTENDS ReleaseChecksum

MCDigests == {"d1", "d2"}
MCSpellings == {"d1", "D1", "d2", "bad"}
MCLower == [w \in MCSpellings |-> IF w = "D1" THEN "d1" ELSE w]
=============================================================================
