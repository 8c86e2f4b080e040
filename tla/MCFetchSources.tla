--------------------------- MODULE MCFetchSources ---------------------------
(***************************************************************************)
(* One pinned archive, one producer and one reference archive, in the      *)
(* order of fetch-sources.sh.                                              *)
(***************************************************************************)
EXTENDS FetchSources

MCNames == {"cmake", "ndk", "reference"}
MCPlan == <<"cmake", "ndk", "reference">>
MCProducers == {"ndk"}
MCPinned == [n \in {"cmake", "reference"} |-> CHOOSE c \in Builds : TRUE]
=============================================================================
