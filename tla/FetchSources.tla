---------------------------- MODULE FetchSources ----------------------------
(***************************************************************************)
(* scripts/fetch-sources.sh with the two functions of scripts/common.sh it *)
(* is made of: download_checked, which puts one digest-pinned archive into *)
(* .cache, and download_latest_github_release_asset, which resolves a      *)
(* producer's latest GitHub Release and puts its archive and its .sha256   *)
(* into .cache.  One step of the model is one command that changes a file  *)
(* or can fail, so that the script can be killed between any two of them   *)
(* and started again over the files it left.  The producers publish and    *)
(* replace Release assets while the script runs.                           *)
(*                                                                         *)
(* A file is modelled by its content, and a content by its digest: two     *)
(* contents with the same digest are the same content.  A checksum file is *)
(* the content whose digest it lists for the asset.                        *)
(***************************************************************************)
EXTENDS Naturals

CONSTANTS
    Names,      \* the archives, named by their path in .cache
    Steps,      \* how many archives fetch-sources.sh asks for in all
    Plan,       \* Plan[k] is the k-th archive it asks for
    Cut,        \* it stops after Plan[Cut] unless --with-reference is given
    Producers,  \* the archives taken from a producer's latest Release
    Pinned,     \* Pinned[n]: the content whose digest sources.lock gives for n
    Content,    \* what a file may hold
    Junk,       \* a torn or foreign file: has no expected digest, lists none
    Absent,     \* there is no such file
    MaxTags,    \* bound: Releases a producer publishes
    MaxFaults   \* bound: failures, kills and producer activity in a behaviour

Builds == Content \ {Junk}

ASSUME FetchAssumption ==
    /\ Steps \in Nat \ {0}
    /\ Cut \in 1..Steps
    /\ Plan \in [1..Steps -> Names]
    /\ \A j, k \in 1..Steps : Plan[j] = Plan[k] => j = k
    /\ Names = {Plan[k] : k \in 1..Steps}
    /\ Producers \subseteq {Plan[k] : k \in 1..Cut}
    /\ Junk \in Content
    /\ Absent \notin Content
    /\ Pinned \in [Names \ Producers -> Builds]
    /\ MaxTags \in Nat \ {0}
    /\ MaxFaults \in Nat

VARIABLES
    archive,       \* $output of each download
    checksum,      \* ${output}.sha256 of each producer's archive
    archivePart,   \* ${output}.part
    checksumPart,  \* ${output}.sha256.part
    metadataPart,  \* ${output}.release.json.part: is it there?
    resolved,      \* resolved-community-releases.txt: tag per producer, 0 if none
    pc,            \* the next command, or how the last invocation ended
    step,          \* index in Plan of the archive being fetched
    withReference, \* include_reference
    tag,           \* platform_tools_release_tag, ndk_release_tag
    metadata,      \* the fields read from the latest Release
    expected,      \* the digest parsed from the checksum asset
    latest,        \* GitHub: the tag of each producer's latest Release
    assets,        \* GitHub: the assets of each producer's Releases, by tag
    rollout,       \* GitHub: build whose assets are replacing the latest ones
    since,         \* auxiliary: each producer's latest tag at the start
    faults         \* failures so far

disk   == <<archive, checksum, archivePart, checksumPart, metadataPart, resolved>>
local  == <<step, withReference, tag, metadata, expected, since>>
remote == <<latest, assets, rollout>>
vars   == <<disk, pc, local, remote, faults>>

File  == Content \cup {Absent}
Asset == {"zip", "sum"}
Tags  == 0..MaxTags
Over  == {"idle", "failed", "done"}

NoTags     == [p \in Producers |-> 0]
NoMetadata == [tag |-> 0, listed |-> FALSE, zip |-> Absent, sum |-> Absent]

(***************************************************************************)
(* A Release is identified by its tag, the number of its publication.  Of  *)
(* its two assets either may be missing while it is being replaced.        *)
(***************************************************************************)
LatestAssets(p) == assets[p][latest[p]]

Item == Plan[step]
Last == IF withReference THEN Steps ELSE Cut

\* The digest that download_checked is called with.
Wanted == IF Item \in Producers THEN expected ELSE Pinned[Item]

\* The first command that fetches archive n.
Command(n) == IF n \in Producers THEN "clean" ELSE "check"

\* One of the boundedly many times that something goes wrong.
Fault == /\ faults < MaxFaults
         /\ faults' = faults + 1

\* The shell exits: its variables are gone, its files stay.
Stop(status) ==
    /\ pc' = status
    /\ step' = 1
    /\ tag' = NoTags
    /\ metadata' = NoMetadata
    /\ expected' = Absent
    /\ UNCHANGED <<withReference, since>>

\* The next archive of the plan, or the record of the resolved Releases.
Advance ==
    /\ step' = step + 1
    /\ pc' = IF step = Last THEN "resolve" ELSE Command(Plan[step + 1])
    /\ metadata' = NoMetadata
    /\ expected' = Absent
    /\ UNCHANGED <<withReference, since>>

Init ==
    /\ \E old \in [Names -> File] :
           /\ \A n \in Names : old[n] \in IF n \in Producers
                                          THEN {Absent}
                                          ELSE {Absent, Junk, Pinned[n]}
           /\ archive = old
    /\ checksum = [p \in Producers |-> Absent]
    /\ archivePart = [n \in Names |-> Absent]
    /\ checksumPart = [p \in Producers |-> Absent]
    /\ metadataPart = [p \in Producers |-> FALSE]
    /\ resolved = NoTags
    /\ pc = "idle"
    /\ step = 1
    /\ withReference = FALSE
    /\ tag = NoTags
    /\ metadata = NoMetadata
    /\ expected = Absent
    /\ \E first \in [Producers -> Builds] :
           assets = [p \in Producers |-> [t \in 1..MaxTags |->
                        [a \in Asset |-> IF t = 1 THEN first[p] ELSE Absent]]]
    /\ latest = [p \in Producers |-> 1]
    /\ rollout = [p \in Producers |-> Absent]
    /\ since = NoTags
    /\ faults = 0

(***************************************************************************)
(* fetch-sources.sh                                                        *)
(***************************************************************************)
Start ==
    /\ pc \in Over
    /\ withReference' \in BOOLEAN
    /\ since' = latest
    /\ step' = 1
    /\ pc' = Command(Plan[1])
    /\ UNCHANGED <<disk, tag, metadata, expected, remote, faults>>

\* The redirection empties the record before the first printf.
TruncateResolved ==
    /\ pc = "resolve"
    /\ resolved' = NoTags
    /\ pc' = "record"
    /\ UNCHANGED <<archive, checksum, archivePart, checksumPart, metadataPart,
                   local, remote, faults>>

WriteResolved ==
    /\ pc = "record"
    /\ resolved' = tag
    /\ Stop("done")
    /\ UNCHANGED <<archive, checksum, archivePart, checksumPart, metadataPart,
                   remote, faults>>

(***************************************************************************)
(* download_checked                                                        *)
(***************************************************************************)
\* Where the function returns to.
Return ==
    IF Item \in Producers
    THEN pc' = "pair" /\ UNCHANGED local
    ELSE Advance /\ UNCHANGED tag

\* Mutant: any cached file is used.
UseCachedUnchecked ==
    /\ pc = "check"
    /\ archive[Item] # Absent
    /\ Return
    /\ UNCHANGED <<disk, remote, faults>>

UseCached ==
    /\ pc = "check"
    /\ archive[Item] = Wanted
    /\ Return
    /\ UNCHANGED <<disk, remote, faults>>

\* Mutant: a cached file with another digest is an error.
DropStaleFailing ==
    /\ pc = "check"
    /\ archive[Item] # Wanted
    /\ IF archive[Item] = Absent
       THEN pc' = "rmpart" /\ UNCHANGED local
       ELSE Stop("failed")
    /\ UNCHANGED <<disk, remote, faults>>

\* A cached file with another digest is deleted before the new one is there.
DropStale ==
    /\ pc = "check"
    /\ archive[Item] # Wanted
    /\ archive' = [archive EXCEPT ![Item] = Absent]
    /\ pc' = "rmpart"
    /\ UNCHANGED <<checksum, archivePart, checksumPart, metadataPart, resolved,
                   local, remote, faults>>

RemovePart ==
    /\ pc = "rmpart"
    /\ archivePart' = [archivePart EXCEPT ![Item] = Absent]
    /\ pc' = "curl"
    /\ UNCHANGED <<archive, checksum, checksumPart, metadataPart, resolved,
                   local, remote, faults>>

\* What the server has under the URL: the pinned file, or the asset that is
\* in the resolved Release now.
Served ==
    IF Item \in Producers
    THEN assets[Item][metadata.tag]["zip"]
    ELSE Pinned[Item]

\* curl exits 0, with the file or, rarely, with something else.
Curl ==
    /\ pc = "curl"
    /\ Served # Absent
    /\ \/ /\ archivePart' = [archivePart EXCEPT ![Item] = Served]
          /\ UNCHANGED faults
       \/ /\ archivePart' = [archivePart EXCEPT ![Item] = Junk]
          /\ Fault
    /\ pc' = "verify"
    /\ UNCHANGED <<archive, checksum, checksumPart, metadataPart, resolved,
                   local, remote>>

\* curl fails, or is killed: nothing or a torn file is left, set -e exits.
CurlFails ==
    /\ pc = "curl"
    /\ \/ Served = Absent /\ UNCHANGED faults
       \/ Fault
    /\ \E left \in {Absent, Junk} :
           archivePart' = [archivePart EXCEPT ![Item] = left]
    /\ Stop("failed")
    /\ UNCHANGED <<archive, checksum, checksumPart, metadataPart, resolved, remote>>

\* Mutant: what curl has written is installed without looking at it.
VerifyPartSkipped ==
    /\ pc = "verify"
    /\ pc' = "install"
    /\ UNCHANGED <<disk, local, remote, faults>>

VerifyPart ==
    /\ pc = "verify"
    /\ \/ /\ archivePart[Item] = Wanted
          /\ pc' = "install"
          /\ UNCHANGED <<archivePart, local>>
       \/ /\ archivePart[Item] # Wanted
          /\ archivePart' = [archivePart EXCEPT ![Item] = Absent]
          /\ Stop("failed")
    /\ UNCHANGED <<archive, checksum, checksumPart, metadataPart, resolved,
                   remote, faults>>

InstallArchive ==
    /\ pc = "install"
    /\ archive' = [archive EXCEPT ![Item] = archivePart[Item]]
    /\ archivePart' = [archivePart EXCEPT ![Item] = Absent]
    /\ Return
    /\ UNCHANGED <<checksum, checksumPart, metadataPart, resolved, remote, faults>>

(***************************************************************************)
(* download_latest_github_release_asset                                    *)
(***************************************************************************)
CleanTemporaries ==
    /\ pc = "clean"
    /\ metadataPart' = [metadataPart EXCEPT ![Item] = FALSE]
    /\ checksumPart' = [checksumPart EXCEPT ![Item] = Absent]
    /\ pc' = "metadata"
    /\ UNCHANGED <<archive, checksum, archivePart, resolved, local, remote, faults>>

\* Mutant: the Release that an earlier run recorded is asked for again.
FetchMetadataRecorded ==
    /\ pc = "metadata"
    /\ metadataPart' = [metadataPart EXCEPT ![Item] = TRUE]
    /\ \E t \in {IF resolved[Item] = 0 THEN latest[Item] ELSE resolved[Item]} :
           metadata' = [tag |-> t,
                        listed |-> \A a \in Asset : assets[Item][t][a] # Absent,
                        zip |-> assets[Item][t]["zip"], sum |-> assets[Item][t]["sum"]]
    /\ pc' = "parse"
    /\ UNCHANGED <<archive, checksum, archivePart, checksumPart, resolved,
                   step, withReference, tag, expected, since, remote, faults>>

\* GitHub may or may not give the digest of an asset.
FetchMetadata ==
    /\ pc = "metadata"
    /\ metadataPart' = [metadataPart EXCEPT ![Item] = TRUE]
    /\ \E zip \in {LatestAssets(Item)["zip"], Absent},
          sum \in {LatestAssets(Item)["sum"], Absent} :
           metadata' = [tag |-> latest[Item],
                        listed |-> \A a \in Asset : LatestAssets(Item)[a] # Absent,
                        zip |-> zip, sum |-> sum]
    /\ pc' = "parse"
    /\ UNCHANGED <<archive, checksum, archivePart, checksumPart, resolved,
                   step, withReference, tag, expected, since, remote, faults>>

FetchMetadataFails ==
    /\ pc = "metadata"
    /\ Fault
    /\ \E left \in BOOLEAN : metadataPart' = [metadataPart EXCEPT ![Item] = left]
    /\ Stop("failed")
    /\ UNCHANGED <<archive, checksum, archivePart, checksumPart, resolved, remote>>

\* Fewer than five fields mean that the reader of the metadata gave up.
ParseMetadata ==
    /\ pc = "parse"
    /\ metadataPart' = [metadataPart EXCEPT ![Item] = FALSE]
    /\ \/ /\ metadata.listed
          /\ pc' = "checksum"
          /\ UNCHANGED local
       \/ /\ ~metadata.listed
          /\ Stop("failed")
    /\ UNCHANGED <<archive, checksum, archivePart, checksumPart, resolved,
                   remote, faults>>

ServedChecksum == assets[Item][metadata.tag]["sum"]

FetchChecksum ==
    /\ pc = "checksum"
    /\ ServedChecksum # Absent
    /\ \/ /\ checksumPart' = [checksumPart EXCEPT ![Item] = ServedChecksum]
          /\ UNCHANGED faults
       \/ /\ checksumPart' = [checksumPart EXCEPT ![Item] = Junk]
          /\ Fault
    /\ pc' = "compare"
    /\ UNCHANGED <<archive, checksum, archivePart, metadataPart, resolved,
                   local, remote>>

FetchChecksumFails ==
    /\ pc = "checksum"
    /\ \/ ServedChecksum = Absent /\ UNCHANGED faults
       \/ Fault
    /\ \E left \in {Absent, Junk} :
           checksumPart' = [checksumPart EXCEPT ![Item] = left]
    /\ Stop("failed")
    /\ UNCHANGED <<archive, checksum, archivePart, metadataPart, resolved, remote>>

\* The checksum file has GitHub's digest, if GitHub gave one.
ChecksumAuthentic == metadata.sum \in {Absent, checksumPart[Item]}

\* The archive digest it lists is GitHub's, if GitHub gave one.
ChecksumAgrees == metadata.zip \in {Absent, checksumPart[Item]}

\* Mutant: the checksum file is installed as soon as it is accepted.
AcceptChecksumEarly ==
    /\ pc = "compare"
    /\ ChecksumAuthentic
    /\ checksumPart[Item] # Junk
    /\ ChecksumAgrees
    /\ expected' = checksumPart[Item]
    /\ checksum' = [checksum EXCEPT ![Item] = checksumPart[Item]]
    /\ pc' = "check"
    /\ UNCHANGED <<archive, archivePart, checksumPart, metadataPart, resolved,
                   step, withReference, tag, metadata, since, remote, faults>>

AcceptChecksum ==
    /\ pc = "compare"
    /\ ChecksumAuthentic
    /\ checksumPart[Item] # Junk
    /\ ChecksumAgrees
    /\ expected' = checksumPart[Item]
    /\ pc' = "check"
    /\ UNCHANGED <<disk, step, withReference, tag, metadata, since, remote, faults>>

\* Both digest mismatches delete the file.
RejectChecksum ==
    /\ pc = "compare"
    /\ \/ ~ChecksumAuthentic
       \/ checksumPart[Item] # Junk /\ ~ChecksumAgrees
    /\ checksumPart' = [checksumPart EXCEPT ![Item] = Absent]
    /\ Stop("failed")
    /\ UNCHANGED <<archive, checksum, archivePart, metadataPart, resolved,
                   remote, faults>>

\* A file without exactly one entry ends the script and stays behind.
UnreadableChecksum ==
    /\ pc = "compare"
    /\ ChecksumAuthentic
    /\ checksumPart[Item] = Junk
    /\ Stop("failed")
    /\ UNCHANGED <<disk, remote, faults>>

\* Mutant: the rename of the checksum file is forgotten.
InstallChecksumForgotten ==
    /\ pc = "pair"
    /\ tag' = [tag EXCEPT ![Item] = metadata.tag]
    /\ Advance
    /\ UNCHANGED <<disk, remote, faults>>

\* Last, after the archive it describes.
InstallChecksum ==
    /\ pc = "pair"
    /\ checksum' = [checksum EXCEPT ![Item] = checksumPart[Item]]
    /\ checksumPart' = [checksumPart EXCEPT ![Item] = Absent]
    /\ tag' = [tag EXCEPT ![Item] = metadata.tag]
    /\ Advance
    /\ UNCHANGED <<archive, archivePart, metadataPart, resolved, remote, faults>>

\* The process is killed between two commands.
Kill ==
    /\ pc \notin Over
    /\ Fault
    /\ Stop("failed")
    /\ UNCHANGED <<disk, remote>>

(***************************************************************************)
(* The producers.  A new Release appears with its assets; the assets of    *)
(* the latest one are replaced, each deleted and then uploaded, in any     *)
(* order and possibly overtaken by the next replacement.                   *)
(***************************************************************************)
SetAssets(p, t, files) ==
    assets' = [assets EXCEPT ![p] = [@ EXCEPT ![t] = files]]

Publish(p) ==
    /\ Fault
    /\ rollout[p] = Absent
    /\ latest[p] < MaxTags
    /\ latest' = [latest EXCEPT ![p] = @ + 1]
    /\ \E build \in Builds : SetAssets(p, latest[p] + 1, [a \in Asset |-> build])
    /\ UNCHANGED <<disk, pc, local, rollout>>

Replace(p) ==
    /\ Fault
    /\ \E build \in Builds : rollout' = [rollout EXCEPT ![p] = build]
    /\ UNCHANGED <<disk, pc, local, latest, assets>>

DeleteAsset(p, a) ==
    /\ rollout[p] # Absent
    /\ LatestAssets(p)[a] \notin {Absent, rollout[p]}
    /\ SetAssets(p, latest[p], [LatestAssets(p) EXCEPT ![a] = Absent])
    /\ UNCHANGED <<disk, pc, local, latest, rollout, faults>>

UploadAsset(p, a) ==
    /\ rollout[p] # Absent
    /\ LatestAssets(p)[a] = Absent
    /\ SetAssets(p, latest[p], [LatestAssets(p) EXCEPT ![a] = rollout[p]])
    /\ UNCHANGED <<disk, pc, local, latest, rollout, faults>>

Replaced(p) ==
    /\ rollout[p] # Absent
    /\ \A a \in Asset : LatestAssets(p)[a] = rollout[p]
    /\ rollout' = [rollout EXCEPT ![p] = Absent]
    /\ UNCHANGED <<disk, pc, local, latest, assets, faults>>

Finish == \E p \in Producers :
    \/ \E a \in Asset : DeleteAsset(p, a) \/ UploadAsset(p, a)
    \/ Replaced(p)

Script ==
    \/ TruncateResolved \/ WriteResolved
    \/ UseCached \/ DropStale \/ RemovePart \/ Curl \/ CurlFails
    \/ VerifyPart \/ InstallArchive
    \/ CleanTemporaries \/ FetchMetadata \/ FetchMetadataFails \/ ParseMetadata
    \/ FetchChecksum \/ FetchChecksumFails
    \/ AcceptChecksum \/ RejectChecksum \/ UnreadableChecksum
    \/ InstallChecksum

Producer == Finish \/ \E p \in Producers : Publish(p) \/ Replace(p)

Next == Start \/ Script \/ Kill \/ Producer

Spec == Init /\ [][Next]_vars

(***************************************************************************)
(* A running script takes its next command, a failed one is run again, and *)
(* a producer that began to replace its assets completes it.  Nothing else *)
(* has to happen.                                                          *)
(***************************************************************************)
Rerun == pc = "failed" /\ Start

FairSpec == Spec /\ WF_vars(Script) /\ WF_vars(Rerun) /\ WF_vars(Finish)

-----------------------------------------------------------------------------
(* verify_cached_release_archive: what preflight and the validator require *)
(* of a producer's archive before they use it.  The shell reads a checksum *)
(* file that sha256sum wrote as the fetch does (module ReleaseChecksum).   *)
VerifyCached(p) ==
    /\ archive[p] # Absent
    /\ checksum[p] \notin {Absent, Junk}
    /\ archive[p] = checksum[p]

TypeOK ==
    /\ archive \in [Names -> File]
    /\ checksum \in [Producers -> File]
    /\ archivePart \in [Names -> File]
    /\ checksumPart \in [Producers -> File]
    /\ metadataPart \in [Producers -> BOOLEAN]
    /\ resolved \in [Producers -> Tags]
    /\ pc \in Over \cup {"resolve", "record", "check", "rmpart", "curl", "verify",
                         "install", "clean", "metadata", "parse", "checksum",
                         "compare", "pair"}
    /\ step \in 1..(Steps + 1)
    /\ withReference \in BOOLEAN
    /\ tag \in [Producers -> Tags]
    /\ metadata \in [tag : Tags, listed : BOOLEAN, zip : File, sum : File]
    /\ expected \in File
    /\ latest \in [Producers -> 1..MaxTags]
    /\ assets \in [Producers -> [1..MaxTags -> [Asset -> File]]]
    /\ rollout \in [Producers -> File]
    /\ since \in [Producers -> Tags]
    /\ faults \in 0..MaxFaults

\* fetch-sources.sh:67.  When the script reports success, every archive it was
\* asked for holds the content of its pinned digest, and every producer's
\* archive passes verify_cached_release_archive, whatever earlier invocations
\* left behind and whatever the producers did meanwhile.
AllVerified ==
    pc = "done" =>
        \A k \in 1..Last :
            IF Plan[k] \in Producers THEN VerifyCached(Plan[k])
            ELSE archive[Plan[k]] = Pinned[Plan[k]]

\* The Releases recorded after a successful run were the latest ones at some
\* moment of that run: a cached archive never keeps an older Release alive.
ResolvedIsLatest ==
    pc = "done" => \A p \in Producers : resolved[p] \in since[p]..latest[p]

\* A temporary file and the file it is to replace never exist together, so
\* after a kill the next invocation always downloads afresh and cleans up.
PartOrArchive == \A n \in Names : archivePart[n] = Absent \/ archive[n] = Absent

\* No step puts anything under an archive's final name but the content whose
\* digest is pinned or is listed by the checksum file at hand, and given by
\* GitHub when GitHub gave one: no torn or unverified file is ever visible.
InstallsOnlyVerified ==
    [][\A n \in Names : archive'[n] \in {archive[n], Absent} \/
           IF n \in Producers
           THEN /\ archive'[n] = checksumPart[n]
                /\ archive'[n] # Junk
                /\ metadata.zip \in {Absent, archive'[n]}
           ELSE archive'[n] = Pinned[n]]_archive

\* A checksum file is only ever installed next to the archive it describes.
ChecksumFollowsArchive ==
    [][\A p \in Producers : checksum'[p] # checksum[p] => checksum'[p] = archive'[p]]_checksum

\* Once the failures stop, running the script again succeeds: nothing an
\* earlier invocation left behind can make every later one fail.
Recovers == pc \notin {"idle", "done"} ~> pc = "done"

(***************************************************************************)
(* The inductive invariant behind these properties.                        *)
(***************************************************************************)
Resolving   == {"clean", "metadata", "parse", "checksum", "compare", "pair"}
Downloading == {"rmpart", "curl", "verify", "install"}
Running     == Resolving \cup Downloading \cup {"check"}

\* Archive k of the plan is as the script leaves it.
Fetched(k) ==
    IF Plan[k] \in Producers
    THEN VerifyCached(Plan[k]) /\ tag[Plan[k]] \in since[Plan[k]]..latest[Plan[k]]
    ELSE archive[Plan[k]] = Pinned[Plan[k]]

\* The position in the plan is within the part of it that was asked for.
PlanInv ==
    /\ pc \in Running => step \in 1..Last
    /\ pc \in {"resolve", "record"} => step = Last + 1
    /\ pc \in Resolving => Item \in Producers

\* The archives before that position stay as they were left.
PrefixInv ==
    pc \notin Over => \A k \in 1..Steps : k < step => Fetched(k)

\* Between the deletion of a stale archive and the rename nothing is there.
PartInv ==
    /\ PartOrArchive
    /\ pc \in Downloading => archive[Item] = Absent
    /\ pc = "install" => archivePart[Item] = Wanted

\* The Release in hand was the latest at some moment of this run.
ReleaseInv ==
    /\ \A p \in Producers : since[p] <= latest[p]
    /\ pc \in Running \ {"clean", "metadata"} /\ Item \in Producers =>
           metadata.tag \in 1..latest[Item] /\ since[Item] <= metadata.tag

\* The expected digest is the one the checksum file in hand lists.
ExpectedInv ==
    /\ pc = "compare" => checksumPart[Item] # Absent
    /\ pc \in Downloading \cup {"check", "pair"} /\ Item \in Producers =>
           /\ expected = checksumPart[Item]
           /\ expected \in Builds
           /\ metadata.zip \in {Absent, expected}
    /\ pc = "pair" => archive[Item] = expected

\* The conjunction that every step preserves: the properties above and, while
\* fetch-sources.sh is under way, what they rest on.
FetchInv ==
    /\ TypeOK /\ PlanInv /\ PrefixInv /\ PartInv /\ ReleaseInv /\ ExpectedInv
    /\ AllVerified /\ ResolvedIsLatest

(***************************************************************************)
(* The script implements the store its successors rely on.                 *)
(***************************************************************************)
Store == INSTANCE VerifiedStore WITH
    store <- archive, sums <- checksum, announced <- (pc = "done"),
    Always <- {Plan[k] : k \in 1..Cut}

\* Seen through the files under their final names, every command of
\* fetch-sources.sh is a step of the store or changes nothing.
ImplementsStore == Store!Spec
=============================================================================
