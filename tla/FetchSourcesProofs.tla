------------------------- MODULE FetchSourcesProofs -------------------------
(***************************************************************************)
(* What module FetchSources checks on a small instance, proved for every   *)
(* plan, set of producers, number of Releases and number of failures.  The *)
(* invariant FetchInv is inductive: after lemmas on the types of what the  *)
(* operators give, one lemma per conjunct says that every step preserves   *)
(* it, and the theorems follow.                                            *)
(***************************************************************************)
EXTENDS FetchSources, TLAPS

\* While a script runs, the archive in hand is one of the plan's.
LEMMA ItemFacts ==
    ASSUME TypeOK, PlanInv, pc \in Running
    PROVE  /\ Item \in Names
           /\ step \in 1..Steps /\ step \in 1..Last
           /\ Last \in 1..Steps
           /\ pc \in Resolving => Item \in Producers
           /\ Item \notin Producers => Pinned[Item] \in Builds
  BY FetchAssumption DEF TypeOK, PlanInv, Item, Last

\* A producer's name is the name of an archive.
LEMMA ProducerNames == Producers \subseteq Names
  BY FetchAssumption

\* The server has a file or none.
LEMMA ServedType ==
    ASSUME FetchInv, pc \in {"curl", "checksum"}
    PROVE  /\ pc = "curl" => Served \in File
           /\ pc = "checksum" => ServedChecksum \in File
<1>1. pc \in Running /\ Item \in Names /\ (Item \notin Producers => Pinned[Item] \in Builds)
  BY ItemFacts DEF FetchInv, Running, Resolving, Downloading
<1>2. ASSUME Item \in Producers
      PROVE  /\ assets[Item][metadata.tag]["zip"] \in File
             /\ assets[Item][metadata.tag]["sum"] \in File
  <2>1. metadata.tag \in 1..MaxTags
    BY <1>1, <1>2, FetchAssumption DEF FetchInv, ReleaseInv, TypeOK
  <2>2. assets[Item] \in [1..MaxTags -> [Asset -> File]]
    BY <1>2 DEF FetchInv, TypeOK
  <2>3. assets[Item][metadata.tag] \in [Asset -> File]
    BY Zenon, <2>1, <2>2
  <2> QED BY <2>3 DEF Asset
<1>3. pc = "checksum" => Item \in Producers
  BY DEF FetchInv, PlanInv, Resolving
<1> QED BY <1>1, <1>2, <1>3 DEF Served, ServedChecksum, File, Builds

\* The shell's variables after it has exited have their types.
LEMMA StopType ==
    ASSUME TypeOK, NEW status \in {"failed", "done"}, Stop(status)
    PROVE  /\ pc' = status
           /\ step' \in 1..(Steps + 1)
           /\ withReference' \in BOOLEAN
           /\ tag' \in [Producers -> Tags]
           /\ metadata' \in [tag : Tags, listed : BOOLEAN, zip : File, sum : File]
           /\ expected' \in File
           /\ since' \in [Producers -> Tags]
  BY FetchAssumption DEF TypeOK, Stop, NoTags, NoMetadata, Tags, File

\* So have they after the script has moved on in its plan.
LEMMA AdvanceType ==
    ASSUME TypeOK, PlanInv, pc \in Running, Advance
    PROVE  /\ pc' \in {"resolve", "clean", "check"}
           /\ step' \in 1..(Steps + 1)
           /\ withReference' \in BOOLEAN
           /\ metadata' \in [tag : Tags, listed : BOOLEAN, zip : File, sum : File]
           /\ expected' \in File
           /\ since' \in [Producers -> Tags]
<1>1. step \in 1..Steps
  BY ItemFacts
<1>2. step' \in 1..(Steps + 1)
  BY <1>1, FetchAssumption DEF Advance
<1>3. pc' \in {"resolve", "clean", "check"}
  BY DEF Advance, Command
<1>4. metadata' \in [tag : Tags, listed : BOOLEAN, zip : File, sum : File]
  BY FetchAssumption DEF Advance, NoMetadata, Tags, File
<1> QED BY <1>2, <1>3, <1>4 DEF Advance, TypeOK, File

\* And after download_checked has returned.
LEMMA ReturnType ==
    ASSUME TypeOK, PlanInv, pc \in Running, Return
    PROVE  /\ pc' \in {"resolve", "clean", "check", "pair"}
           /\ step' \in 1..(Steps + 1)
           /\ withReference' \in BOOLEAN
           /\ tag' \in [Producers -> Tags]
           /\ metadata' \in [tag : Tags, listed : BOOLEAN, zip : File, sum : File]
           /\ expected' \in File
           /\ since' \in [Producers -> Tags]
  BY AdvanceType DEF Return, TypeOK, local

\* The assets of a producer's latest Release.
LEMMA AssetsType ==
    ASSUME TypeOK, NEW p \in Producers
    PROVE  LatestAssets(p) \in [Asset -> File]
<1>1. assets[p] \in [1..MaxTags -> [Asset -> File]] /\ latest[p] \in 1..MaxTags
  BY DEF TypeOK
<1> QED BY Zenon, <1>1 DEF LatestAssets

\* Writing one Release's assets.
LEMMA SetAssetsType ==
    ASSUME TypeOK, NEW p \in Producers, NEW t \in 1..MaxTags,
           NEW files \in [Asset -> File], SetAssets(p, t, files)
    PROVE  assets' \in [Producers -> [1..MaxTags -> [Asset -> File]]]
<1>1. [assets[p] EXCEPT ![t] = files] \in [1..MaxTags -> [Asset -> File]]
  BY DEF TypeOK
<1> QED BY <1>1 DEF SetAssets, TypeOK

\* The initial files and variables have their types.
LEMMA InitType == Init => TypeOK
<1> SUFFICES ASSUME Init PROVE TypeOK
  OBVIOUS
<1>1. assets \in [Producers -> [1..MaxTags -> [Asset -> File]]]
  BY DEF Init, File, Builds
<1>2. archive \in [Names -> File]
  BY DEF Init
<1>3. latest \in [Producers -> 1..MaxTags]
  BY FetchAssumption DEF Init
<1>4. NoTags \in [Producers -> Tags]
  BY FetchAssumption DEF NoTags, Tags
<1>5. metadata \in [tag : Tags, listed : BOOLEAN, zip : File, sum : File]
  BY FetchAssumption DEF Init, NoMetadata, Tags, File
<1>6. step \in 1..(Steps + 1) /\ faults \in 0..MaxFaults
  BY FetchAssumption DEF Init
<1>7. metadataPart \in [Producers -> BOOLEAN] /\ withReference \in BOOLEAN
  BY Zenon DEF Init
<1> QED BY <1>1, <1>2, <1>3, <1>4, <1>5, <1>6, <1>7 DEF Init, TypeOK, File, Over

\* Every step keeps the type invariant.
LEMMA TypeStep == ASSUME FetchInv, [Next]_vars PROVE TypeOK'
<1> USE DEF disk, local, remote
<1>a. TypeOK /\ PlanInv
  BY DEF FetchInv
<1>b. pc \in Running => Item \in Names /\ (pc \in Resolving => Item \in Producers)
  BY <1>a, ItemFacts
<1>c. File = Content \cup {Absent} /\ Junk \in File /\ Absent \in File
  BY FetchAssumption DEF File
<1>1. CASE Start
  <2>1. since' \in [Producers -> Tags]
    BY <1>1, <1>a, FetchAssumption DEF Start, TypeOK, Tags
  <2>2. pc' \in {"clean", "check"} /\ step' \in 1..(Steps + 1)
    BY <1>1, FetchAssumption DEF Start, Command
  <2> QED BY <1>1, <1>a, <2>1, <2>2 DEF Start, TypeOK
<1>2. CASE TruncateResolved
  BY <1>2, <1>a, FetchAssumption DEF TruncateResolved, TypeOK, NoTags, Tags
<1>3. CASE WriteResolved
  BY <1>3, <1>a, StopType DEF WriteResolved, TypeOK, Over
<1>4. CASE UseCached
  <2>1. pc \in Running
    BY <1>4 DEF UseCached, Running
  <2> QED BY <1>4, <1>a, <2>1, ReturnType DEF UseCached, TypeOK
<1>5. CASE DropStale
  BY <1>5, <1>a, <1>b, <1>c DEF DropStale, TypeOK, Running
<1>6. CASE RemovePart
  BY <1>6, <1>a, <1>b, <1>c DEF RemovePart, TypeOK, Running, Downloading
<1>7. CASE Curl
  <2>1. Served \in File /\ Item \in Names
    BY <1>7, <1>b, ServedType DEF Curl, Running, Downloading
  <2>2. archivePart' \in [Names -> File]
    BY Zenon, <1>7, <1>a, <1>c, <2>1 DEF Curl, TypeOK
  <2>3. faults' \in 0..MaxFaults
    BY <1>7, <1>a, FetchAssumption DEF Curl, Fault, TypeOK
  <2> QED BY <1>7, <1>a, <2>2, <2>3 DEF Curl, TypeOK
<1>8. CASE CurlFails
  <2>1. archivePart' \in [Names -> File]
    BY <1>8, <1>a, <1>b, <1>c DEF CurlFails, TypeOK, Running, Downloading
  <2>2. faults' \in 0..MaxFaults
    BY <1>8, <1>a, FetchAssumption DEF CurlFails, Fault, TypeOK
  <2> QED BY <1>8, <1>a, <2>1, <2>2, StopType DEF CurlFails, TypeOK, Over
<1>9. CASE VerifyPart
  <2>1. archivePart' \in [Names -> File]
    BY Zenon, <1>9, <1>a, <1>b, <1>c DEF VerifyPart, TypeOK, Running, Downloading
  <2>2. CASE pc' = "install" /\ UNCHANGED local
    BY <1>9, <1>a, <2>1, <2>2 DEF VerifyPart, TypeOK
  <2>3. CASE Stop("failed")
    BY <1>9, <1>a, <2>1, <2>3, StopType DEF VerifyPart, TypeOK, Over
  <2> QED BY <1>9, <2>2, <2>3 DEF VerifyPart
<1>10. CASE InstallArchive
  <2>1. pc \in Running
    BY <1>10 DEF InstallArchive, Running, Downloading
  <2>2. archive' \in [Names -> File] /\ archivePart' \in [Names -> File]
    BY <1>10, <1>a, <1>b, <1>c, <2>1 DEF InstallArchive, TypeOK
  <2> QED BY <1>10, <1>a, <2>1, <2>2, ReturnType DEF InstallArchive, TypeOK
<1>11. CASE CleanTemporaries
  BY Zenon, <1>11, <1>a, <1>b, <1>c DEF CleanTemporaries, TypeOK, Running, Resolving
<1>12. CASE FetchMetadata
  <2>1. Item \in Producers
    BY <1>12, <1>b DEF FetchMetadata, Running, Resolving
  <2>2. latest[Item] \in 1..MaxTags /\ latest[Item] \in Tags
    BY <1>a, <2>1, FetchAssumption DEF TypeOK, Tags
  <2>3. LatestAssets(Item) \in [Asset -> File]
    BY <1>a, <2>1, AssetsType
  <2>4. metadata' \in [tag : Tags, listed : BOOLEAN, zip : File, sum : File]
    BY <1>12, <1>c, <2>2, <2>3 DEF FetchMetadata, Asset
  <2> QED BY <1>12, <1>a, <2>1, <2>4 DEF FetchMetadata, TypeOK
<1>13. CASE FetchMetadataFails
  <2>1. Item \in Producers
    BY <1>13, <1>b DEF FetchMetadataFails, Running, Resolving
  <2>2. faults' \in 0..MaxFaults
    BY <1>13, <1>a, FetchAssumption DEF FetchMetadataFails, Fault, TypeOK
  <2> QED BY <1>13, <1>a, <2>1, <2>2, StopType DEF FetchMetadataFails, TypeOK, Over
<1>14. CASE ParseMetadata
  <2>1. Item \in Producers
    BY <1>14, <1>b DEF ParseMetadata, Running, Resolving
  <2>2. CASE pc' = "checksum" /\ UNCHANGED local
    BY Zenon, <1>14, <1>a, <2>1, <2>2 DEF ParseMetadata, TypeOK
  <2>3. CASE Stop("failed")
    BY Zenon, <1>14, <1>a, <2>1, <2>3, StopType DEF ParseMetadata, TypeOK, Over
  <2> QED BY <1>14, <2>2, <2>3 DEF ParseMetadata
<1>15. CASE FetchChecksum
  <2>1. ServedChecksum \in File /\ Item \in Producers
    BY <1>15, <1>b, ServedType DEF FetchChecksum, Running, Resolving
  <2>2. checksumPart' \in [Producers -> File]
    BY Zenon, <1>15, <1>a, <1>c, <2>1 DEF FetchChecksum, TypeOK
  <2>3. faults' \in 0..MaxFaults
    BY <1>15, <1>a, FetchAssumption DEF FetchChecksum, Fault, TypeOK
  <2> QED BY <1>15, <1>a, <2>2, <2>3 DEF FetchChecksum, TypeOK
<1>16. CASE FetchChecksumFails
  <2>1. Item \in Producers
    BY <1>16, <1>b DEF FetchChecksumFails, Running, Resolving
  <2>2. checksumPart' \in [Producers -> File]
    BY <1>16, <1>a, <1>c, <2>1 DEF FetchChecksumFails, TypeOK
  <2>3. faults' \in 0..MaxFaults
    BY <1>16, <1>a, FetchAssumption DEF FetchChecksumFails, Fault, TypeOK
  <2> QED BY Zenon, <1>16, <1>a, <2>2, <2>3, StopType DEF FetchChecksumFails, TypeOK, Over
<1>17. CASE AcceptChecksum
  <2>1. Item \in Producers
    BY Zenon, <1>17, <1>b DEF AcceptChecksum, Running, Resolving
  <2> QED BY <1>17, <1>a, <2>1 DEF AcceptChecksum, TypeOK
<1>18. CASE RejectChecksum
  <2>1. Item \in Producers
    BY <1>18, <1>b DEF RejectChecksum, Running, Resolving
  <2> QED BY <1>18, <1>a, <1>c, <2>1, StopType DEF RejectChecksum, TypeOK, Over
<1>19. CASE UnreadableChecksum
  BY Zenon, <1>19, <1>a, StopType DEF UnreadableChecksum, TypeOK, Over
<1>20. CASE InstallChecksum
  <2>1. pc \in Running /\ Item \in Producers
    BY Zenon, <1>20, <1>b DEF InstallChecksum, Running, Resolving
  <2>2. tag' \in [Producers -> Tags]
    BY <1>20, <1>a, <2>1 DEF InstallChecksum, TypeOK
  <2>3. checksum' \in [Producers -> File] /\ checksumPart' \in [Producers -> File]
    BY Zenon, <1>20, <1>a, <1>c, <2>1 DEF InstallChecksum, TypeOK
  <2> QED BY Zenon, <1>20, <1>a, <2>1, <2>2, <2>3, AdvanceType DEF InstallChecksum, TypeOK
<1>21. CASE Kill
  <2>1. faults' \in 0..MaxFaults
    BY <1>21, <1>a, FetchAssumption DEF Kill, Fault, TypeOK
  <2> QED BY <1>21, <1>a, <2>1, StopType DEF Kill, TypeOK, Over
<1>22. ASSUME NEW p \in Producers, Publish(p) PROVE TypeOK'
  <2>1. faults' \in 0..MaxFaults
    BY <1>22, <1>a, FetchAssumption DEF Publish, Fault, TypeOK
  <2>2. latest' \in [Producers -> 1..MaxTags]
    BY <1>22, <1>a, FetchAssumption DEF Publish, TypeOK
  <2>3. assets' \in [Producers -> [1..MaxTags -> [Asset -> File]]]
    <3>1. latest[p] + 1 \in 1..MaxTags
      BY <1>22, <1>a, FetchAssumption DEF Publish, TypeOK
    <3> QED BY Zenon, <1>22, <1>a, <1>c, <3>1, SetAssetsType DEF Publish, Builds
  <2> QED BY Zenon, <1>22, <1>a, <2>1, <2>2, <2>3 DEF Publish, TypeOK
<1>23. ASSUME NEW p \in Producers, Replace(p) PROVE TypeOK'
  <2>1. faults' \in 0..MaxFaults
    BY <1>23, <1>a, FetchAssumption DEF Replace, Fault, TypeOK
  <2> QED BY <1>23, <1>a, <1>c, <2>1 DEF Replace, TypeOK, Builds
<1>24. ASSUME NEW p \in Producers, NEW a \in Asset, DeleteAsset(p, a) PROVE TypeOK'
  <2>1. assets' \in [Producers -> [1..MaxTags -> [Asset -> File]]]
    <3>1. [LatestAssets(p) EXCEPT ![a] = Absent] \in [Asset -> File]
      BY <1>24, <1>a, <1>c, AssetsType
    <3> QED BY Zenon, <1>24, <1>a, <3>1, SetAssetsType DEF DeleteAsset, TypeOK
  <2> QED BY <1>24, <1>a, <2>1 DEF DeleteAsset, TypeOK
<1>25. ASSUME NEW p \in Producers, NEW a \in Asset, UploadAsset(p, a) PROVE TypeOK'
  <2>1. assets' \in [Producers -> [1..MaxTags -> [Asset -> File]]]
    <3>1. [LatestAssets(p) EXCEPT ![a] = rollout[p]] \in [Asset -> File]
      BY Zenon, <1>25, <1>a, AssetsType DEF TypeOK
    <3> QED BY Zenon, <1>25, <1>a, <3>1, SetAssetsType DEF UploadAsset, TypeOK
  <2> QED BY <1>25, <1>a, <2>1 DEF UploadAsset, TypeOK
<1>26. ASSUME NEW p \in Producers, Replaced(p) PROVE TypeOK'
  BY Zenon, <1>26, <1>a, <1>c DEF Replaced, TypeOK
<1>27. CASE UNCHANGED vars
  BY <1>27, <1>a DEF vars, TypeOK
<1> QED
  BY <1>1, <1>2, <1>3, <1>4, <1>5, <1>6, <1>7, <1>8, <1>9, <1>10, <1>11, <1>12,
     <1>13, <1>14, <1>15, <1>16, <1>17, <1>18, <1>19, <1>20, <1>21, <1>22, <1>23,
     <1>24, <1>25, <1>26, <1>27
  DEF Next, Script, Producer, Finish

\* The producers touch none of the script's files and variables.
LEMMA ProducerFrame == ASSUME Producer PROVE UNCHANGED <<disk, pc, local>>
  BY Zenon DEF Producer, Finish, Publish, Replace, Replaced, DeleteAsset, UploadAsset

\* They only ever publish newer Releases.
LEMMA LatestGrows ==
    ASSUME TypeOK, Producer
    PROVE  \A q \in Producers : latest[q] \in Nat /\ latest'[q] \in Nat /\ latest[q] <= latest'[q]
<1>1. latest \in [Producers -> 1..MaxTags] /\ 1..MaxTags \subseteq Nat
  BY FetchAssumption DEF TypeOK
<1>2. CASE UNCHANGED latest
  BY <1>1, <1>2
<1>3. ASSUME NEW p \in Producers, Publish(p)
      PROVE  \A q \in Producers : latest[q] \in Nat /\ latest'[q] \in Nat /\ latest[q] <= latest'[q]
  <2>1. latest' = [latest EXCEPT ![p] = @ + 1]
    BY Zenon, <1>3 DEF Publish
  <2> QED BY <1>1, <2>1
<1>4. UNCHANGED latest \/ \E p \in Producers : Publish(p)
  BY Zenon DEF Producer, Finish, Replace, Replaced, DeleteAsset, UploadAsset
<1> QED BY Zenon, <1>2, <1>3, <1>4

\* The ways in which an invocation ends.
Ends == \/ WriteResolved \/ CurlFails \/ FetchMetadataFails \/ FetchChecksumFails
        \/ RejectChecksum \/ UnreadableChecksum \/ Kill

\* What an invocation that ends leaves in its program counter.
LEMMA EndsOver ==
    ASSUME Ends
    PROVE  /\ pc' \in {"failed", "done"}
           /\ UNCHANGED <<latest, since, withReference>>
  BY Zenon DEF Ends, WriteResolved, CurlFails, FetchMetadataFails, FetchChecksumFails,
     RejectChecksum, UnreadableChecksum, Kill, Stop, remote

\* Every step keeps the position within the part of the plan asked for.
LEMMA PlanStep == ASSUME FetchInv, [Next]_vars, TypeOK' PROVE PlanInv'
<1> USE DEF PlanInv, Running, Resolving, Downloading, Over, Item, Last
<1>a. PlanInv /\ Steps \in Nat /\ Cut \in 1..Steps /\ step \in 1..(Steps + 1)
  BY FetchAssumption DEF FetchInv, TypeOK
<1>b. withReference \in BOOLEAN /\ withReference' \in BOOLEAN
  BY DEF FetchInv, TypeOK
<1>u. CASE UNCHANGED <<pc, step, withReference>>
  BY <1>a, <1>u
<1>o. CASE pc' \in Over
  BY <1>o
<1>v. CASE Advance /\ pc \in Running
  BY <1>a, <1>b, <1>v DEF Advance, Command
<1>1. CASE Start
  BY <1>1, <1>a, <1>b, FetchAssumption DEF Start, Command
<1>2. CASE Ends
  BY Zenon, <1>2, <1>o, EndsOver
<1>3. CASE TruncateResolved \/ CleanTemporaries \/ ParseMetadata \/ AcceptChecksum
  BY Zenon, <1>3, <1>a, <1>b, <1>o DEF TruncateResolved, CleanTemporaries, ParseMetadata,
     AcceptChecksum, Stop, local
<1>4. CASE FetchMetadata \/ FetchChecksum
  BY <1>4, <1>a, <1>b DEF FetchMetadata, FetchChecksum, local
<1>5. CASE DropStale \/ RemovePart \/ Curl
  BY <1>5, <1>a, <1>b DEF DropStale, RemovePart, Curl, local
<1>6. CASE VerifyPart
  BY <1>6, <1>a, <1>b, <1>o DEF VerifyPart, Stop, local
<1>7. CASE UseCached \/ InstallArchive
  BY <1>7, <1>a, <1>b, <1>v DEF UseCached, InstallArchive, Return, local
<1>8. CASE InstallChecksum
  BY <1>8, <1>v DEF InstallChecksum
<1>9. CASE Producer
  BY <1>9, <1>u, ProducerFrame DEF local
<1>10. CASE UNCHANGED vars
  BY <1>10, <1>u DEF vars, local
<1> QED
  BY Zenon, <1>1, <1>2, <1>3, <1>4, <1>5, <1>6, <1>7, <1>8, <1>9, <1>10 DEF Next, Script, Ends

\* Every step keeps a temporary archive and its final file apart.
LEMMA PartStep == ASSUME FetchInv, [Next]_vars, TypeOK' PROVE PartInv'
<1>a. PartInv /\ archive \in [Names -> File] /\ archivePart \in [Names -> File]
  BY DEF FetchInv, TypeOK
<1>b. pc \in Running => Item \in Names
  BY Zenon, ItemFacts DEF FetchInv
<1>u. CASE UNCHANGED <<archive, archivePart, pc, step, expected>>
  BY <1>a, <1>u DEF PartInv, PartOrArchive, Wanted, Item
<1>o. CASE UNCHANGED <<archive, archivePart>> /\ pc' \notin Downloading
  BY <1>a, <1>o DEF PartInv, PartOrArchive, Downloading
\* The temporary archive changes, between the deletion and the rename.
<1>w. ASSUME pc \in Downloading, UNCHANGED archive, NEW x,
             archivePart' = [archivePart EXCEPT ![Item] = x],
             pc' \in Downloading => UNCHANGED <<step, expected>>,
             pc' = "install" => x = Wanted
      PROVE  PartInv'
  <2>1. archive[Item] = Absent /\ Item \in Names
    BY <1>a, <1>b, <1>w DEF PartInv, Running
  <2>2. archivePart'[Item] = x /\ \A n \in Names \ {Item} : archivePart'[n] = archivePart[n]
    BY <1>a, <1>w, <2>1
  <2>3. PartOrArchive'
    BY Zenon, <1>a, <1>w, <2>1, <2>2 DEF PartInv, PartOrArchive
  <2>4. pc' \in Downloading => Item' = Item /\ Wanted' = Wanted
    BY <1>w DEF Item, Wanted
  <2> QED BY <1>w, <2>1, <2>2, <2>3, <2>4 DEF PartInv, Downloading
<1>1. CASE Start
  BY <1>1, <1>o DEF Start, Command, Downloading, disk
<1>2. CASE Ends /\ UNCHANGED archivePart
  <2>1. UNCHANGED archive
    BY <1>2 DEF Ends, WriteResolved, CurlFails, FetchMetadataFails, FetchChecksumFails,
       RejectChecksum, UnreadableChecksum, Kill, disk
  <2> QED BY Zenon, <1>2, <1>o, <2>1, EndsOver DEF Downloading
<1>3. CASE CurlFails
  <2>1. PICK left \in {Absent, Junk} : archivePart' = [archivePart EXCEPT ![Item] = left]
    BY Zenon, <1>3 DEF CurlFails
  <2>2. pc = "curl" /\ pc' = "failed" /\ UNCHANGED archive
    BY <1>3 DEF CurlFails, Stop
  <2> QED BY Zenon, <1>w, <2>1, <2>2 DEF Downloading
<1>4. CASE TruncateResolved \/ CleanTemporaries \/ ParseMetadata \/ AcceptChecksum
  BY Zenon, <1>4, <1>o DEF TruncateResolved, CleanTemporaries, ParseMetadata, AcceptChecksum,
     Stop, Downloading, disk
<1>5. CASE FetchMetadata \/ FetchChecksum
  BY <1>5, <1>o DEF FetchMetadata, FetchChecksum, Downloading
<1>6. CASE DropStale
  <2>1. /\ archive' = [archive EXCEPT ![Item] = Absent] /\ pc' = "rmpart" /\ pc \in Running
        /\ UNCHANGED <<archivePart, step>>
    BY <1>6 DEF DropStale, Running, local
  <2>2. archive'[Item] = Absent /\ \A n \in Names \ {Item} : archive'[n] = archive[n]
    BY <1>a, <1>b, <2>1
  <2> QED BY <1>a, <2>1, <2>2 DEF PartInv, PartOrArchive, Item
<1>7. CASE RemovePart
  BY Zenon, <1>7, <1>w DEF RemovePart, Downloading, local
<1>8. CASE Curl
  <2>1. PICK x : archivePart' = [archivePart EXCEPT ![Item] = x]
    BY Zenon, <1>8 DEF Curl
  <2> QED BY Zenon, <1>8, <1>w, <2>1 DEF Curl, Downloading, local
<1>9. CASE VerifyPart
  <2>1. CASE archivePart[Item] = Wanted
    <3>1. pc \in Downloading /\ pc' = "install" /\ UNCHANGED <<archive, archivePart, step, expected>>
      BY <1>9, <2>1 DEF VerifyPart, Downloading, local
    <3>2. Item' = Item /\ Wanted' = Wanted
      BY <3>1 DEF Item, Wanted
    <3> QED BY <1>a, <2>1, <3>1, <3>2 DEF PartInv, PartOrArchive
  <2>2. CASE archivePart[Item] # Wanted
    BY Zenon, <1>9, <1>w, <2>2 DEF VerifyPart, Stop, Downloading
  <2> QED BY <2>1, <2>2
<1>10. CASE UseCached \/ InstallChecksum
  BY Zenon, <1>10, <1>o DEF UseCached, InstallChecksum, Return, Advance, Command, Downloading, disk
<1>11. CASE InstallArchive
  <2>1. /\ archive' = [archive EXCEPT ![Item] = archivePart[Item]] /\ pc \in Running
        /\ archivePart' = [archivePart EXCEPT ![Item] = Absent]
    BY <1>11 DEF InstallArchive, Running, Downloading
  <2>2. pc' \notin Downloading
    BY <1>11 DEF InstallArchive, Return, Advance, Command, Downloading
  <2>3. /\ archivePart'[Item] = Absent
        /\ \A n \in Names \ {Item} : archive'[n] = archive[n] /\ archivePart'[n] = archivePart[n]
    BY <1>a, <1>b, <2>1
  <2> QED BY <1>a, <2>2, <2>3 DEF PartInv, PartOrArchive, Downloading
<1>12. CASE Producer
  BY <1>12, <1>u, ProducerFrame DEF disk, local
<1>13. CASE UNCHANGED vars
  BY Zenon, <1>13, <1>u DEF vars, disk, local
<1>14. Ends => UNCHANGED archivePart \/ CurlFails
  BY DEF Ends, WriteResolved, FetchMetadataFails, FetchChecksumFails,
     RejectChecksum, UnreadableChecksum, Kill, disk
<1> QED
  BY Zenon, <1>1, <1>2, <1>3, <1>4, <1>5, <1>6, <1>7, <1>8, <1>9, <1>10, <1>11, <1>12, <1>13,
     <1>14
  DEF Next, Script, Ends

\* A step never goes back to a Release older than the start of the run.
LEMMA ReleaseStep == ASSUME FetchInv, [Next]_vars, TypeOK' PROVE ReleaseInv'
<1> DEFINE InHand == Running \ {"clean", "metadata"}
<1>a. ReleaseInv /\ latest \in [Producers -> 1..MaxTags] /\ since \in [Producers -> Tags]
  BY DEF FetchInv, TypeOK
<1>b. pc \in Resolving => Item \in Producers
  BY DEF FetchInv, PlanInv
<1>c. MaxTags \in Nat /\ Tags = 0..MaxTags
  BY FetchAssumption DEF Tags
<1>o. CASE UNCHANGED <<latest, since>> /\ (pc' \in InHand => Item' \notin Producers)
  BY <1>a, <1>o DEF ReleaseInv
<1>u. CASE UNCHANGED <<latest, since, step, metadata>> /\ (pc' \in InHand => pc \in InHand)
  BY <1>a, <1>u DEF ReleaseInv, Item
<1>v. CASE UNCHANGED <<latest, since>> /\ Advance
  BY <1>o, <1>v DEF Advance, Command, Item, Running, Resolving, Downloading
<1>1. CASE Start
  BY <1>1, <1>a, <1>c DEF Start, Command, ReleaseInv, Item, Running, Resolving, Downloading, remote
<1>2. CASE Ends
  BY <1>2, <1>o, EndsOver DEF Running, Resolving, Downloading
<1>3. CASE TruncateResolved \/ CleanTemporaries
  BY Zenon, <1>3, <1>o DEF TruncateResolved, CleanTemporaries, Running, Resolving, Downloading, local, remote
<1>4. CASE ParseMetadata \/ AcceptChecksum \/ FetchChecksum
  BY <1>4, <1>o, <1>u DEF ParseMetadata, AcceptChecksum, FetchChecksum, Stop, Running, Resolving,
     Downloading, local, remote
<1>5. CASE FetchMetadata
  <2>1. metadata'.tag = latest[Item] /\ UNCHANGED <<step, latest, since>> /\ Item \in Producers
    BY <1>5, <1>b DEF FetchMetadata, Resolving, remote
  <2>2. latest[Item] \in 1..latest[Item]
    BY <1>a, <1>c, <2>1
  <2> QED BY Zenon, <1>a, <2>1, <2>2 DEF ReleaseInv, Item
<1>6. CASE DropStale \/ RemovePart \/ Curl \/ VerifyPart
  BY <1>6, <1>o, <1>u DEF DropStale, RemovePart, Curl, VerifyPart, Stop, Running, Resolving,
     Downloading, local, remote
<1>7. CASE UseCached \/ InstallArchive
  <2>1. UNCHANGED <<latest, since>> /\ pc \in InHand /\ Return
    BY <1>7 DEF UseCached, InstallArchive, Return, Advance, Running, Downloading, local, remote
  <2> QED BY Zenon, <1>u, <1>v, <2>1 DEF Return, local
<1>8. CASE InstallChecksum
  BY <1>8, <1>v DEF InstallChecksum, Advance, remote
<1>9. CASE Producer
  <2>1. UNCHANGED <<pc, step, since, metadata>>
    BY <1>9, ProducerFrame DEF local
  <2>2. \A q \in Producers : latest[q] \in Nat /\ latest'[q] \in Nat /\ latest[q] <= latest'[q]
    BY <1>9, LatestGrows DEF FetchInv
  <2>3. \A q \in Producers : since[q] \in Nat
    BY <1>a, <1>c
  <2>4. \A q \in Producers : since'[q] <= latest'[q]
    BY <1>a, <2>1, <2>2, <2>3 DEF ReleaseInv
  <2>5. ASSUME pc' \in InHand, Item' \in Producers
        PROVE  metadata'.tag \in 1..latest'[Item'] /\ since'[Item'] <= metadata'.tag
    <3>1. Item' = Item
      BY <2>1 DEF Item
    <3>2. metadata.tag \in 1..latest[Item] /\ since[Item] <= metadata.tag
      BY <1>a, <2>1, <2>5, <3>1 DEF ReleaseInv
    <3> QED BY <2>1, <2>2, <2>5, <3>1, <3>2
  <2> QED BY <2>4, <2>5 DEF ReleaseInv
<1>10. CASE UNCHANGED vars
  BY <1>10, <1>u DEF vars, local, remote
<1> QED
  BY Zenon, <1>1, <1>2, <1>3, <1>4, <1>5, <1>6, <1>7, <1>8, <1>9, <1>10 DEF Next, Script, Ends

\* Every step keeps the expected digest equal to the checksum file's.
LEMMA ExpectedStep == ASSUME FetchInv, [Next]_vars, TypeOK' PROVE ExpectedInv'
<1> DEFINE Known == Downloading \cup {"check", "pair"}
<1>a. /\ ExpectedInv /\ checksumPart \in [Producers -> File] /\ archive \in [Names -> File]
      /\ pc = "install" => archivePart[Item] = Wanted
  BY DEF FetchInv, TypeOK, PartInv
<1>b. pc \in Resolving => Item \in Producers
  BY DEF FetchInv, PlanInv
<1>c. File = Content \cup {Absent} /\ Junk # Absent /\ Builds = Content \ {Junk}
  BY FetchAssumption DEF File, Builds
<1>o. CASE pc' \notin {"compare", "pair"} /\ (pc' \in Known => Item' \notin Producers)
  BY Zenon, <1>o DEF ExpectedInv
<1>u. CASE UNCHANGED <<pc, step, checksumPart, expected, metadata, archive>>
  BY Zenon, <1>a, <1>u DEF ExpectedInv, Item
<1>d. CASE UNCHANGED <<step, checksumPart, expected, metadata>> /\ pc \in Known /\ pc' \in Downloading
  BY Zenon, <1>a, <1>d DEF ExpectedInv, Item, Downloading
<1>p. CASE /\ UNCHANGED <<step, checksumPart, expected, metadata>> /\ pc \in Known
           /\ pc' = "pair" /\ Item \in Producers /\ archive'[Item] = expected
  BY <1>a, <1>p DEF ExpectedInv, Item, Downloading
<1>v. CASE Advance
  BY <1>o, <1>v DEF Advance, Command, Item, Downloading
<1>1. CASE Start
  BY <1>1, <1>o DEF Start, Command, Item, Downloading
<1>2. CASE Ends
  BY Zenon, <1>2, <1>o, EndsOver DEF Downloading
<1>3. CASE TruncateResolved \/ CleanTemporaries \/ FetchMetadata \/ ParseMetadata
  BY Zenon, <1>3, <1>o DEF TruncateResolved, CleanTemporaries, FetchMetadata, ParseMetadata, Stop,
     Downloading
<1>4. CASE FetchChecksum
  <2>1. /\ pc' = "compare" /\ UNCHANGED step /\ Item \in Producers /\ ServedChecksum # Absent
        /\ \E x \in {ServedChecksum, Junk} : checksumPart' = [checksumPart EXCEPT ![Item] = x]
    BY <1>4, <1>b DEF FetchChecksum, Resolving, local
  <2>2. checksumPart'[Item] # Absent
    BY Zenon, <1>a, <1>c, <2>1
  <2> QED BY <2>1, <2>2 DEF ExpectedInv, Item, Downloading
<1>5. CASE AcceptChecksum
  <2>1. /\ pc = "compare" /\ pc' = "check" /\ UNCHANGED <<step, metadata, checksumPart>>
        /\ expected' = checksumPart[Item] /\ checksumPart[Item] # Junk
        /\ metadata.zip \in {Absent, checksumPart[Item]}
    BY Zenon, <1>5 DEF AcceptChecksum, ChecksumAgrees, disk
  <2>2. checksumPart[Item] # Absent /\ checksumPart[Item] \in File
    BY <1>a, <1>b, <2>1 DEF ExpectedInv, Resolving
  <2> QED BY Zenon, <1>c, <2>1, <2>2 DEF ExpectedInv, Item, Downloading
<1>6. CASE DropStale \/ RemovePart \/ Curl \/ VerifyPart
  <2>1. CASE pc' = "failed"
    BY Zenon, <1>o, <2>1 DEF Downloading
  <2>2. CASE pc' # "failed"
    BY Zenon, <1>6, <1>d, <2>2 DEF DropStale, RemovePart, Curl, VerifyPart, Stop, Downloading, local
  <2> QED BY <2>1, <2>2
<1>7. CASE UseCached
  <2>1. pc = "check" /\ archive[Item] = Wanted /\ Return /\ UNCHANGED <<archive, checksumPart>>
    BY <1>7 DEF UseCached, disk
  <2> QED BY <1>p, <1>v, <2>1 DEF Return, Wanted, Downloading, local
<1>8. CASE InstallArchive
  <2>1. CASE Item \in Producers
    <3>1. /\ pc' = "pair" /\ pc = "install" /\ UNCHANGED <<step, checksumPart, expected, metadata>>
          /\ archive' = [archive EXCEPT ![Item] = archivePart[Item]]
      BY <1>8, <2>1 DEF InstallArchive, Return, local
    <3>2. archive'[Item] = expected
      BY <1>a, <2>1, <3>1, ProducerNames DEF Wanted
    <3> QED BY <1>p, <2>1, <3>1, <3>2 DEF Downloading
  <2>2. CASE Item \notin Producers
    BY <1>8, <1>v, <2>2 DEF InstallArchive, Return
  <2> QED BY <2>1, <2>2
<1>9. CASE InstallChecksum
  BY <1>9, <1>v DEF InstallChecksum
<1>10. CASE Producer
  BY <1>10, <1>u, ProducerFrame DEF disk, local
<1>11. CASE UNCHANGED vars
  BY <1>11, <1>u DEF vars, disk, local
<1> QED
  BY Zenon, <1>1, <1>2, <1>3, <1>4, <1>5, <1>6, <1>7, <1>8, <1>9, <1>10, <1>11
  DEF Next, Script, Ends

\* Tags are numbers.
LEMMA TagsAreNat == Tags \subseteq Nat /\ 1..MaxTags \subseteq Nat
  BY FetchAssumption DEF Tags

\* An archive already fetched stays so when its files and its recorded tag do
\* not change and its producer publishes at most newer Releases.
LEMMA FetchedFrame ==
    ASSUME TypeOK, TypeOK', NEW k \in 1..Steps, Fetched(k),
           archive'[Plan[k]] = archive[Plan[k]],
           Plan[k] \in Producers =>
               /\ checksum'[Plan[k]] = checksum[Plan[k]]
               /\ tag'[Plan[k]] = tag[Plan[k]]
               /\ since'[Plan[k]] = since[Plan[k]]
               /\ latest[Plan[k]] <= latest'[Plan[k]]
    PROVE  Fetched(k)'
<1>1. CASE Plan[k] \in Producers
  <2>1. VerifyCached(Plan[k])'
    BY <1>1 DEF Fetched, VerifyCached
  <2>2. latest[Plan[k]] \in Nat /\ latest'[Plan[k]] \in Nat /\ since[Plan[k]] \in Nat
    BY Zenon, <1>1, TagsAreNat DEF TypeOK
  <2>3. tag[Plan[k]] \in since[Plan[k]]..latest'[Plan[k]]
    BY <1>1, <2>2 DEF Fetched
  <2> QED BY Zenon, <1>1, <2>1, <2>3 DEF Fetched
<1>2. CASE Plan[k] \notin Producers
  BY <1>2 DEF Fetched
<1> QED BY Zenon, <1>1, <1>2

\* The archives already fetched stay as they were left.
LEMMA PrefixStep == ASSUME FetchInv, [Next]_vars, TypeOK' PROVE PrefixInv'
<1> USE DEF disk, local, remote
<1> SUFFICES ASSUME pc' \notin Over, NEW k \in 1..Steps, k < step'
             PROVE  Fetched(k)'
  BY DEF PrefixInv
<1>a. TypeOK /\ PlanInv /\ PrefixInv /\ PartInv /\ ReleaseInv /\ ExpectedInv
  BY Zenon DEF FetchInv
<1>b. /\ step \in 1..(Steps + 1) /\ step' \in 1..(Steps + 1)
      /\ Steps \in Nat /\ k \in 1..Steps /\ k < step'
  BY Zenon, FetchAssumption DEF FetchInv, TypeOK
<1> DEFINE Kept ==
        /\ archive'[Plan[k]] = archive[Plan[k]]
        /\ Plan[k] \in Producers =>
               /\ checksum'[Plan[k]] = checksum[Plan[k]]
               /\ tag'[Plan[k]] = tag[Plan[k]]
               /\ since'[Plan[k]] = since[Plan[k]]
               /\ latest[Plan[k]] <= latest'[Plan[k]]
<1>c. pc \notin Over /\ k < step /\ Kept => Fetched(k)'
  BY Zenon, <1>a, <1>b, FetchedFrame DEF PrefixInv
<1>d. \A p \in Producers : latest[p] \in Nat
  BY Zenon, <1>a, TagsAreNat DEF TypeOK
<1>e. k < step /\ pc \in Running => Plan[k] # Item
  BY <1>a, <1>b, ItemFacts, FetchAssumption DEF Item
<1>f. CASE UNCHANGED <<archive, checksum, tag, since, latest, step>> /\ pc \notin Over
  <2>1. Kept
    BY <1>d, <1>f
  <2> QED BY Zenon, <1>b, <1>c, <1>f, <2>1
<1>g. archive \in [Names -> File] /\ Plan[k] \in Names
  BY Zenon, <1>a, FetchAssumption DEF TypeOK
<1>1. CASE Start
  BY <1>1, <1>b DEF Start
<1>2. CASE \/ TruncateResolved \/ RemovePart \/ Curl \/ CleanTemporaries
           \/ FetchMetadata \/ ParseMetadata \/ FetchChecksum \/ AcceptChecksum
           \/ VerifyPart
  BY Zenon, <1>2, <1>f DEF TruncateResolved, RemovePart, Curl, CleanTemporaries, FetchMetadata,
     ParseMetadata, FetchChecksum, AcceptChecksum, VerifyPart, Stop, Over
<1>3. CASE \/ WriteResolved \/ CurlFails \/ FetchMetadataFails \/ FetchChecksumFails
           \/ RejectChecksum \/ UnreadableChecksum \/ Kill
  BY Zenon, <1>3 DEF WriteResolved, CurlFails, FetchMetadataFails, FetchChecksumFails,
     RejectChecksum, UnreadableChecksum, Kill, Stop, Over
<1>4. CASE DropStale
  <2>1. archive' = [archive EXCEPT ![Item] = Absent] /\ pc \in Running /\ pc \notin Over
    BY <1>4 DEF DropStale, Running, Over
  <2>2. step' = step /\ checksum' = checksum /\ tag' = tag /\ since' = since /\ latest' = latest
    BY <1>4 DEF DropStale
  <2>3. archive'[Plan[k]] = archive[Plan[k]]
    BY <1>b, <1>e, <1>g, <2>1, <2>2
  <2>4. Kept
    BY <1>d, <2>2, <2>3
  <2> QED BY Zenon, <1>b, <1>c, <2>1, <2>2, <2>4
<1>5. CASE UseCached
  <2>1. pc \in Running /\ pc \notin Over
    BY <1>5 DEF UseCached, Running, Over
  <2>2. CASE Item \in Producers
    BY <1>5, <1>f, <2>1, <2>2 DEF UseCached, Return
  <2>3. CASE Item \notin Producers
    <3>1. step' = step + 1 /\ UNCHANGED <<archive, checksum, tag, since, latest>>
      BY Zenon, <1>5, <2>3 DEF UseCached, Return, Advance
    <3>2. CASE k = step
      BY Zenon, <1>5, <2>3, <3>1, <3>2 DEF UseCached, Fetched, Item, Wanted
    <3>3. CASE k # step
      <4>1. k < step
        BY <1>b, <3>1, <3>3
      <4>2. Kept
        BY <1>d, <3>1
      <4> QED BY <1>c, <2>1, <4>1, <4>2
    <3> QED BY <3>2, <3>3
  <2> QED BY <2>2, <2>3
<1>6. CASE InstallArchive
  <2>1. pc \in Running /\ pc \notin Over /\ Item \in Names
    BY Zenon, <1>6, <1>a, ItemFacts DEF InstallArchive, Running, Downloading, Over
  <2>2. archive' = [archive EXCEPT ![Item] = Wanted] /\ archive \in [Names -> File]
    BY <1>6, <1>a DEF InstallArchive, PartInv, TypeOK
  <2>3. k < step => archive'[Plan[k]] = archive[Plan[k]]
    BY <1>e, <2>1, <2>2
  <2>4. CASE Item \in Producers
    <3>1. step' = step /\ checksum' = checksum /\ tag' = tag /\ since' = since /\ latest' = latest
      BY <1>6, <2>4 DEF InstallArchive, Return
    <3>2. k < step
      BY Zenon, <1>b, <3>1
    <3>3. Kept
      BY <1>d, <2>3, <3>1, <3>2
    <3> QED BY Zenon, <1>c, <2>1, <3>2, <3>3
  <2>5. CASE Item \notin Producers
    <3>1. step' = step + 1 /\ UNCHANGED <<checksum, tag, since, latest>>
      BY Zenon, <1>6, <2>5 DEF InstallArchive, Return, Advance
    <3>2. CASE k = step
      BY Zenon, <2>1, <2>2, <2>5, <3>2 DEF Fetched, Item, Wanted
    <3>3. CASE k # step
      <4>1. k < step
        BY <1>b, <3>1, <3>3
      <4>2. Kept
        BY <1>d, <2>3, <3>1, <4>1
      <4> QED BY <1>c, <2>1, <4>1, <4>2
    <3> QED BY <3>2, <3>3
  <2> QED BY <2>4, <2>5
<1>7. CASE InstallChecksum
  <2>1. pc \in Running /\ pc \notin Over /\ Item \in Producers /\ Item \in Names
    BY Zenon, <1>7, <1>a, ItemFacts DEF InstallChecksum, Running, Resolving, Over
  <2>2. /\ step' = step + 1 /\ UNCHANGED <<archive, since, latest>>
        /\ checksum' = [checksum EXCEPT ![Item] = checksumPart[Item]]
        /\ tag' = [tag EXCEPT ![Item] = metadata.tag]
        /\ checksum \in [Producers -> File] /\ tag \in [Producers -> Tags]
    BY Zenon, <1>7, <1>a DEF InstallChecksum, Advance, TypeOK
  <2>3. CASE k = step
    <3>1. VerifyCached(Plan[k])'
      <4>1. archive[Plan[k]] = checksumPart[Plan[k]] /\ checksumPart[Plan[k]] \in Builds
        BY <1>7, <1>a, <2>1, <2>3 DEF InstallChecksum, ExpectedInv, Item
      <4>2. Absent \notin Builds /\ Junk \notin Builds
        BY Zenon, FetchAssumption DEF Builds
      <4>3. checksum'[Plan[k]] = checksumPart[Plan[k]] /\ archive'[Plan[k]] = checksumPart[Plan[k]]
        BY Zenon, <2>1, <2>2, <2>3, <4>1 DEF Item
      <4> QED BY Zenon, <4>1, <4>2, <4>3 DEF VerifyCached
    <3>2. tag'[Plan[k]] \in since'[Plan[k]]..latest'[Plan[k]]
      <4>1. metadata.tag \in 1..latest[Plan[k]] /\ since[Plan[k]] <= metadata.tag
        BY Zenon, <1>7, <1>a, <2>1, <2>3 DEF InstallChecksum, ReleaseInv, Running, Resolving, Item
      <4>2. since[Plan[k]] \in Nat /\ latest[Plan[k]] \in Nat
        BY <1>a, <1>d, <2>1, <2>3, FetchAssumption DEF TypeOK, Tags, Item
      <4>3. tag'[Plan[k]] = metadata.tag
        BY Zenon, <2>1, <2>2, <2>3 DEF Item
      <4> QED BY <2>2, <4>1, <4>2, <4>3
    <3> QED BY Zenon, <2>1, <2>3, <3>1, <3>2 DEF Fetched, Item
  <2>4. CASE k # step
    <3>1. k < step /\ Plan[k] # Item
      BY <1>b, <1>e, <2>1, <2>2, <2>4
    <3>2. Kept
      BY <1>d, <2>1, <2>2, <3>1
    <3> QED BY Zenon, <1>c, <2>1, <3>1, <3>2
  <2> QED BY <2>3, <2>4
<1>8. CASE Producer
  <2>1. \A q \in Producers : latest[q] <= latest'[q]
    BY Zenon, <1>8, <1>a, LatestGrows
  <2>2. UNCHANGED <<archive, checksum, tag, since, pc, step>>
    BY Zenon, <1>8, ProducerFrame
  <2>3. Kept
    BY Zenon, <2>1, <2>2
  <2>4. k < step
    BY <1>b, <2>2
  <2> QED BY Zenon, <1>c, <2>2, <2>3, <2>4
<1>9. CASE UNCHANGED vars
  BY Zenon, <1>9, <1>f DEF vars
<1> QED
  BY Zenon, <1>1, <1>2, <1>3, <1>4, <1>5, <1>6, <1>7, <1>8, <1>9 DEF Next, Script

\* When the script reports success it has gone through its whole plan; until
\* the next start nothing changes what it reported on but newer Releases.
LEMMA DoneStep ==
    ASSUME FetchInv, [Next]_vars, TypeOK' PROVE AllVerified' /\ ResolvedIsLatest'
<1> USE DEF disk, local, remote
<1> SUFFICES ASSUME pc' = "done" PROVE AllVerified' /\ ResolvedIsLatest'
  BY DEF AllVerified, ResolvedIsLatest
<1>a. TypeOK /\ PlanInv /\ PrefixInv /\ AllVerified /\ ResolvedIsLatest
  BY DEF FetchInv
<1>b. \A p \in Producers : latest[p] \in Nat /\ latest'[p] \in Nat /\ since[p] \in Nat
  BY Zenon, <1>a, TagsAreNat DEF TypeOK
<1>1. CASE WriteResolved
  <2>1. /\ pc = "record" /\ resolved' = tag
        /\ UNCHANGED <<archive, checksum, withReference, since, latest>>
    BY Zenon, <1>1 DEF WriteResolved, Stop
  <2>2. Last \in 1..Steps /\ Cut \in 1..Last /\ Steps \in Nat /\ Cut \in Nat /\ step = Last + 1
    BY <1>a, <2>1, FetchAssumption DEF PlanInv, TypeOK, Last
  <2>3. \A k \in 1..Last : Fetched(k)
    BY <1>a, <2>1, <2>2 DEF PrefixInv, Over
  <2>4. AllVerified'
    BY Zenon, <2>1, <2>3 DEF AllVerified, Fetched, VerifyCached, Last
  <2>5. ASSUME NEW p \in Producers PROVE resolved'[p] \in since'[p]..latest'[p]
    <3>1. PICK k \in 1..Cut : p = Plan[k]
      BY FetchAssumption
    <3>2. k \in 1..Last
      BY <2>2
    <3> QED BY <2>1, <2>3, <3>1, <3>2 DEF Fetched
  <2> QED BY <2>4, <2>5 DEF ResolvedIsLatest
<1>2. ASSUME /\ pc = "done"
             /\ UNCHANGED <<archive, checksum, resolved, withReference, since>>
             /\ \A p \in Producers : latest[p] <= latest'[p]
      PROVE  AllVerified' /\ ResolvedIsLatest'
  <2>1. AllVerified'
    BY Zenon, <1>2, <1>a DEF AllVerified, VerifyCached, Last
  <2>2. ResolvedIsLatest'
    BY <1>2, <1>a, <1>b DEF ResolvedIsLatest
  <2> QED BY Zenon, <2>1, <2>2
<1>3. CASE Producer
  <2>1. \A q \in Producers : latest[q] <= latest'[q]
    BY Zenon, <1>3, <1>a, LatestGrows
  <2>2. UNCHANGED <<disk, pc, local>>
    BY Zenon, <1>3, ProducerFrame
  <2> QED BY Zenon, <1>2, <2>1, <2>2
<1>5. CASE UNCHANGED vars
  <2>1. \A q \in Producers : latest[q] <= latest'[q]
    BY <1>5, <1>b DEF vars
  <2> QED BY Zenon, <1>2, <1>5, <2>1 DEF vars
<1>6. CASE \/ Start \/ UseCached \/ InstallArchive \/ InstallChecksum
  BY Zenon, <1>6 DEF Start, UseCached, InstallArchive, InstallChecksum, Return, Advance, Command
<1>7. CASE \/ TruncateResolved \/ DropStale \/ RemovePart \/ Curl \/ CleanTemporaries
           \/ FetchMetadata \/ ParseMetadata \/ FetchChecksum \/ AcceptChecksum
           \/ VerifyPart
  BY Zenon, <1>7 DEF TruncateResolved, DropStale, RemovePart, Curl, CleanTemporaries,
     FetchMetadata, ParseMetadata, FetchChecksum, AcceptChecksum, VerifyPart, Stop
<1>8. CASE \/ CurlFails \/ FetchMetadataFails \/ FetchChecksumFails
           \/ RejectChecksum \/ UnreadableChecksum \/ Kill
  BY Zenon, <1>8 DEF CurlFails, FetchMetadataFails, FetchChecksumFails,
     RejectChecksum, UnreadableChecksum, Kill, Stop
<1> QED
  BY Zenon, <1>1, <1>3, <1>5, <1>6, <1>7, <1>8 DEF Next, Script

\* Before the first invocation there is nothing to be wrong about.
LEMMA InitInv == Init => FetchInv
<1> SUFFICES ASSUME Init PROVE FetchInv
  OBVIOUS
<1>1. TypeOK
  BY Zenon, InitType
<1>2. PlanInv /\ PrefixInv /\ ExpectedInv /\ AllVerified /\ ResolvedIsLatest
  BY Zenon DEF Init, PlanInv, PrefixInv, ExpectedInv, AllVerified, ResolvedIsLatest,
     Over, Running, Resolving, Downloading
<1>3. PartInv
  BY Zenon DEF Init, PartInv, PartOrArchive, Downloading
<1>4. ReleaseInv
  BY DEF Init, ReleaseInv, NoTags, Running, Resolving, Downloading
<1> QED BY <1>1, <1>2, <1>3, <1>4 DEF FetchInv

\* The strengthened invariant holds in every state fetch-sources.sh, its
\* failures, its restarts and its producers can reach.
THEOREM Invariance == Spec => []FetchInv
<1>1. FetchInv /\ [Next]_vars => FetchInv'
  BY TypeStep, PlanStep, PrefixStep, PartStep, ReleaseStep, ExpectedStep, DoneStep
  DEF FetchInv
<1> QED BY InitInv, <1>1, PTL DEF Spec

\* Every variable keeps its type.
THEOREM TypeCorrect == Spec => []TypeOK
<1>1. FetchInv => TypeOK
  BY DEF FetchInv
<1> QED BY Invariance, <1>1, PTL

\* Success means that everything asked for is there with its digest, and that
\* verify_cached_release_archive accepts every producer's archive.
THEOREM SuccessIsVerified == Spec => []AllVerified
<1>1. FetchInv => AllVerified
  BY DEF FetchInv
<1> QED BY Invariance, <1>1, PTL

\* Success means that the recorded Releases were the latest during the run.
THEOREM SuccessIsLatest == Spec => []ResolvedIsLatest
<1>1. FetchInv => ResolvedIsLatest
  BY DEF FetchInv
<1> QED BY Invariance, <1>1, PTL

\* A temporary archive is never there together with the one it replaces.
THEOREM TemporaryOrFinal == Spec => []PartOrArchive
<1>1. FetchInv => PartOrArchive
  BY DEF FetchInv, PartInv
<1> QED BY Invariance, <1>1, PTL

\* Only DropStale, InstallArchive and InstallChecksum change a file under its
\* final name.
LEMMA FilesChange ==
    ASSUME [Next]_vars
    PROVE  \/ UNCHANGED <<archive, checksum>>
           \/ DropStale \/ InstallArchive \/ InstallChecksum
<1> USE DEF disk
<1>1. CASE \/ Start \/ TruncateResolved \/ WriteResolved \/ UseCached \/ RemovePart
           \/ Curl \/ CurlFails \/ VerifyPart
  BY Zenon, <1>1 DEF Start, TruncateResolved, WriteResolved, UseCached, RemovePart, Curl,
     CurlFails, VerifyPart
<1>2. CASE \/ CleanTemporaries \/ FetchMetadata \/ FetchMetadataFails \/ ParseMetadata
           \/ FetchChecksum \/ FetchChecksumFails
  BY Zenon, <1>2 DEF CleanTemporaries, FetchMetadata, FetchMetadataFails, ParseMetadata,
     FetchChecksum, FetchChecksumFails
<1>5. CASE AcceptChecksum \/ RejectChecksum \/ UnreadableChecksum \/ Kill
  BY <1>5 DEF AcceptChecksum, RejectChecksum, UnreadableChecksum, Kill
<1>3. CASE Producer
  BY Zenon, <1>3 DEF Producer, Finish, Publish, Replace, Replaced, DeleteAsset, UploadAsset
<1>4. CASE UNCHANGED vars
  BY <1>4 DEF vars
<1> QED BY Zenon, <1>1, <1>2, <1>3, <1>4, <1>5 DEF Next, Script

\* What the rename in download_checked installs.
LEMMA Installed ==
    ASSUME FetchInv, InstallArchive
    PROVE  /\ Item \in Names
           /\ archive[Item] = Absent
           /\ archive' = [archive EXCEPT ![Item] = Wanted]
           /\ checksum' = checksum
           /\ pc # "done" /\ pc' # "done"
           /\ Item \in Producers => /\ Wanted = checksumPart[Item]
                                    /\ Wanted \in Builds
                                    /\ metadata.zip \in {Absent, Wanted}
           /\ Item \notin Producers => Wanted = Pinned[Item]
<1>1. pc = "install" /\ pc \in Running /\ pc \in Downloading
  BY DEF InstallArchive, Running, Downloading
<1>2. pc' # "done"
  BY <1>1 DEF InstallArchive, Return, Advance, Command
<1> QED
  BY Zenon, <1>1, <1>2, ItemFacts DEF FetchInv, PartInv, ExpectedInv, InstallArchive, Wanted

\* What the rename in download_latest_github_release_asset installs.
LEMMA Paired ==
    ASSUME FetchInv, InstallChecksum
    PROVE  /\ Item \in Producers
           /\ archive' = archive
           /\ checksum' = [checksum EXCEPT ![Item] = archive[Item]]
           /\ archive[Item] \in Builds
           /\ pc # "done" /\ pc' # "done"
<1>1. pc = "pair" /\ pc \in Running /\ pc \in Resolving
  BY DEF InstallChecksum, Running, Resolving
<1>2. pc' # "done"
  BY DEF InstallChecksum, Advance, Command
<1> QED
  BY Zenon, <1>1, <1>2, ItemFacts DEF FetchInv, ExpectedInv, InstallChecksum

\* No step makes an unverified file visible under an archive's final name.
THEOREM OnlyVerifiedInstalled == Spec => InstallsOnlyVerified
<1> DEFINE Verified(n) ==
        archive'[n] \in {archive[n], Absent} \/
            IF n \in Producers
            THEN /\ archive'[n] = checksumPart[n]
                 /\ archive'[n] # Junk
                 /\ metadata.zip \in {Absent, archive'[n]}
            ELSE archive'[n] = Pinned[n]
<1>1. ASSUME FetchInv, [Next]_vars, NEW n \in Names PROVE Verified(n)
  <2>0. archive \in [Names -> File]
    BY <1>1 DEF FetchInv, TypeOK
  <2>1. CASE UNCHANGED archive
    BY Zenon, <2>1
  <2>2. CASE DropStale
    BY Zenon, <2>0, <2>2 DEF DropStale
  <2>3. CASE InstallArchive
    BY Zenon, <1>1, <2>0, <2>3, Installed DEF Builds
  <2>4. CASE InstallChecksum
    BY Zenon, <2>4 DEF InstallChecksum
  <2> QED BY Zenon, <1>1, <2>1, <2>2, <2>3, <2>4, FilesChange
<1>2. FetchInv /\ [Next]_vars => [\A n \in Names : Verified(n)]_archive
  BY <1>1
<1> QED BY <1>2, Invariance, PTL DEF Spec, InstallsOnlyVerified

\* A checksum file is only ever installed next to the archive it describes.
THEOREM ChecksumAfterArchive == Spec => ChecksumFollowsArchive
<1> DEFINE Follows ==
        \A p \in Producers : checksum'[p] # checksum[p] => checksum'[p] = archive'[p]
<1>1. ASSUME FetchInv, [Next]_vars PROVE [Follows]_checksum
  <2>1. CASE UNCHANGED checksum
    BY Zenon, <2>1
  <2>2. CASE DropStale \/ InstallArchive
    BY Zenon, <2>2 DEF DropStale, InstallArchive
  <2>3. CASE InstallChecksum
    <3>1. checksum \in [Producers -> File]
      BY <1>1 DEF FetchInv, TypeOK
    <3> QED BY <1>1, <2>3, <3>1, Paired
  <2> QED BY <1>1, <2>1, <2>2, <2>3, FilesChange
<1> QED BY <1>1, Invariance, PTL DEF Spec, ChecksumFollowsArchive

\* The commands of fetch-sources.sh implement the store its successors rely on.
THEOREM Refinement == Spec => ImplementsStore
<1>1. Init => Store!Init
  BY InitType DEF Init, Store!Init, TypeOK, File
<1>2. ASSUME FetchInv, FetchInv', [Next]_vars PROVE [Store!Next]_Store!vars
  <2>0. archive \in [Names -> File]
    BY <1>2 DEF FetchInv, TypeOK
  <2>1. CASE DropStale
    <3>1. Item \in Names
      BY Zenon, <1>2, <2>1, ItemFacts DEF FetchInv, DropStale, Running
    <3>2. Store!Evict(Item)
      BY Zenon, <2>1 DEF DropStale, Store!Evict
    <3> QED BY Zenon, <3>1, <3>2 DEF Store!Next
  <2>2. CASE InstallArchive
    <3>1. Store!Install(Item) /\ Item \in Names
      BY Zenon, <1>2, <2>2, Installed DEF Store!Install, Store!Genuine, Builds
    <3> QED BY Zenon, <3>1 DEF Store!Next
  <2>3. CASE InstallChecksum
    <3>1. Store!Pair(Item) /\ Item \in Producers
      BY Zenon, <1>2, <2>3, Paired DEF Store!Pair, Store!Genuine, Builds
    <3> QED BY Zenon, <3>1 DEF Store!Next
  <2>4. CASE UNCHANGED <<archive, checksum>>
    <3>1. CASE pc' # "done"
      BY <2>4, <3>1 DEF Store!Next, Store!Begin
    <3>2. CASE pc = "done" /\ pc' = "done"
      BY Zenon, <2>4, <3>2 DEF Store!vars
    <3>3. CASE pc # "done" /\ pc' = "done"
      <4>1. AllVerified'
        BY <1>2 DEF FetchInv
      <4>2. Last' \in {Cut, Steps} /\ (Last' = Steps \/ Last' = Cut)
        BY DEF Last
      <4>3. \A k \in 1..Last' : Store!Good(Plan[k])
        <5> SUFFICES ASSUME NEW k \in 1..Last' PROVE Store!Good(Plan[k])
          OBVIOUS
        <5>1. CASE Plan[k] \in Producers
          <6>1. /\ archive[Plan[k]] # Absent /\ checksum[Plan[k]] # Junk
                /\ archive[Plan[k]] = checksum[Plan[k]]
            BY <2>4, <3>3, <4>1, <5>1 DEF AllVerified, VerifyCached
          <6>2. archive[Plan[k]] \in File
            BY Zenon, <2>0, <5>1, ProducerNames
          <6> QED BY Zenon, <5>1, <6>1, <6>2 DEF Store!Good, Store!Genuine, File
        <5>2. CASE Plan[k] \notin Producers
          BY <2>4, <3>3, <4>1, <5>2 DEF AllVerified, Store!Good, Store!Genuine
        <5> QED BY <5>1, <5>2
      <4>4. \/ \A n \in {Plan[k] : k \in 1..Cut} : Store!Good(n)
            \/ \A n \in Names : Store!Good(n)
        BY <4>2, <4>3, FetchAssumption
      <4> QED BY <2>4, <3>3, <4>4 DEF Store!Next, Store!Announce
    <3> QED BY <3>1, <3>2, <3>3
  <2> QED BY Zenon, <1>2, <2>1, <2>2, <2>3, <2>4, FilesChange
<1> QED BY <1>1, <1>2, Invariance, PTL DEF Spec, ImplementsStore, Store!Spec
=============================================================================
