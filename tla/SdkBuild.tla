------------------------------ MODULE SdkBuild ------------------------------
(***************************************************************************)
(* scripts/resolute-local-build.sh and the scripts it runs one after the   *)
(* other: fetch-sources, preflight-ndk, build-cmake, build-build-tools,    *)
(* assemble-sdk, assemble-reference-sdk and validate-sdk, over the         *)
(* directories .cache, build and dist of one checkout.  A user may also    *)
(* run one script alone, edit the embedded sources between two runs, lose  *)
(* a run at any command, and fetch in another shell while one runs; the    *)
(* next run finds what the last one left.                                  *)
(*                                                                         *)
(* The fetch stage is the abstract store of module VerifiedStore, which    *)
(* module FetchSources is shown to implement.                              *)
(***************************************************************************)
EXTENDS Naturals, Sequences

CONSTANTS
    Content,    \* what an archive may hold
    Junk, Absent,
    Pin,        \* the content of every archive pinned by sources.lock
    Compatible, \* the NDK builds that pass tests/ndk_entrypoints_test.py
    Anchors,    \* Anchors[b]: the NDK files the validator compares bytewise
    MaxEvents   \* bound: failures, kills, edits, evictions, single scripts

Producers == {"platform-tools", "ndk"}
Names     == {"google", "host", "reference"} \cup Producers
Builds    == Content \ {Junk}

ASSUME BuildAssumption ==
    /\ Junk \in Content /\ Absent \notin Content /\ Pin \in Builds
    /\ Compatible \subseteq Builds
    /\ Builds \subseteq DOMAIN Anchors
    /\ MaxEvents \in Nat

VARIABLES
    store,      \* .cache: the archives
    sums,       \* .cache: the producers' .sha256 files
    announced,  \* fetch-sources.sh has ended with success
    source,     \* build-tools/src: is it the tree of the recorded manifest?
    built,      \* build/: the outputs of the two build scripts
    sdk,        \* dist/sdk
    reference,  \* build/reference-sdk: the archives it was made of
    zip,        \* dist/android-sdk-linux.zip: the tree packed in it
    zipSum,     \* dist/android-sdk-linux.zip.sha256: the archive it names
    run,        \* the scripts of the current or last invocation, in order
    at,         \* index in run of the current script
    pc,         \* the script's next command, "idle" when none runs
    result,     \* how the last invocation ended
    given,      \* REFERENCE_DIR is set
    before,     \* auxiliary: dist/sdk when validate-sdk.sh started
    disturbed,  \* auxiliary: another fetch has touched .cache under this run
    events      \* interventions so far

Store == INSTANCE VerifiedStore WITH
    Pinned <- [n \in Names \ Producers |-> Pin],
    Always <- Names \ {"reference"}

cache == <<store, sums, announced>>
trees == <<built, sdk, reference, zip, zipSum>>
frame == <<run, at, result, before, given, disturbed>>
vars  == <<cache, source, trees, frame, pc, events>>

(***************************************************************************)
(* A tree is a function from its parts to their contents.  "modes" is the  *)
(* permission pass that ends the assembly, "known" the .knownPackages file *)
(* that sdkmanager may leave in an SDK it is asked to list.                *)
(***************************************************************************)
Part      == {"google", "platform-tools", "host", "tools", "ndk", "modes", "known"}
Source    == {"recorded", "edited"}
NoTree    == [part \in Part |-> Absent]
Complete(tree) == \A part \in Part \ {"known"} : tree[part] # Absent
NoReference == [google |-> Absent, reference |-> Absent]
NoTools   == [host |-> Absent, tools |-> Absent]

\* The runs of resolute-local-build.sh: in full with a generated reference,
\* in full with REFERENCE_DIR, and with --preflight-only.
Generated == <<"fetch", "preflight", "cmake", "tools", "assemble", "reference", "validate">>
Given     == <<"fetch", "preflight", "cmake", "tools", "assemble", "validate">>
Preflight == <<"fetch", "preflight">>
Pipelines == {Generated, Given, Preflight}
Script    == {Generated[k] : k \in 1..Len(Generated)}

Entry == [fetch |-> "fetch", preflight |-> "preflight", cmake |-> "rm_host",
          tools |-> "snapshot", assemble |-> "rm_sdk", reference |-> "rm_reference",
          validate |-> "inputs"]

Event == /\ events < MaxEvents
         /\ events' = events + 1

Calm == UNCHANGED events

Init ==
    /\ Store!Init
    /\ \A n \in Names : store[n] \in IF n = "google" THEN {Absent, Junk} ELSE {Absent}
    /\ source = "recorded"
    /\ built = NoTools
    /\ sdk = NoTree
    /\ reference = NoReference
    /\ zip = NoTree
    /\ zipSum = NoTree
    /\ run = Preflight
    /\ at = 1
    /\ pc = "idle"
    /\ result = "none"
    /\ before = NoTree
    /\ given = FALSE
    /\ disturbed = FALSE
    /\ events = 0

-----------------------------------------------------------------------------
\* What before remembers when a script starts.
Saved(script) == IF script = "validate" THEN sdk ELSE NoTree

\* One of the three ways to run the whole, which also fixes the reference.
StartPipeline ==
    /\ pc = "idle"
    /\ given' \in BOOLEAN
    /\ run' \in {Preflight, IF given' THEN Given ELSE Generated}
    /\ at' = 1
    /\ pc' = Entry["fetch"]
    /\ result' = "none"
    /\ before' = Saved("fetch")
    /\ disturbed' = FALSE
    /\ Calm
    /\ Store!Begin
    /\ UNCHANGED <<source, trees>>

StartScript ==
    /\ pc = "idle"
    /\ Event
    /\ \E s \in Script : /\ run' = <<s>>
                         /\ pc' = Entry[s]
                         /\ before' = Saved(s)
                         /\ IF s = "fetch" THEN Store!Begin ELSE UNCHANGED cache
    /\ given' \in BOOLEAN
    /\ at' = 1
    /\ result' = "none"
    /\ disturbed' = FALSE
    /\ UNCHANGED <<source, trees>>

\* The script ends with status 0: the next one starts, or the run is over.
Leave ==
    IF at < Len(run)
    THEN /\ at' = at + 1
         /\ pc' = Entry[run[at + 1]]
         /\ before' = Saved(run[at + 1])
         /\ UNCHANGED <<run, result, given, disturbed>>
    ELSE /\ pc' = "idle"
         /\ result' = "ok"
         /\ UNCHANGED <<run, at, before, given, disturbed>>

\* set -e: the script and its caller end with an error status.
Die == /\ pc' = "idle"
       /\ result' = "failed"
       /\ UNCHANGED <<run, at, before, given, disturbed>>

Go(next) == pc' = next /\ UNCHANGED frame

EditSource ==
    /\ pc = "idle"
    /\ Event
    /\ source = "recorded"
    /\ source' = "edited"
    /\ UNCHANGED <<cache, trees, frame, pc>>

RestoreSource ==
    /\ pc = "idle"
    /\ source = "edited"
    /\ source' = "recorded"
    /\ Calm
    /\ UNCHANGED <<cache, trees, frame, pc>>

-----------------------------------------------------------------------------
(* fetch-sources.sh.  A file is evicted because it is not the wanted one or *)
(* because the producer has a newer Release.                                *)
Asked == IF given THEN Names \ {"reference"} ELSE Names

Fetch ==
    /\ pc = "fetch"
    /\ \/ \E n \in Asked :
              \/ Store!Install(n) /\ Calm
              \/ /\ store[n] # Absent
                 /\ Store!Evict(n)
                 /\ IF store[n] \in Store!Genuine(n) THEN Event ELSE Calm
       \/ \E p \in Producers : sums[p] # store[p] /\ Store!Pair(p) /\ Calm
    /\ UNCHANGED <<source, trees, frame, pc>>

Fetched ==
    /\ pc = "fetch"
    /\ \A n \in Asked : Store!Good(n)
    /\ Store!Announce
    /\ Leave
    /\ Calm
    /\ UNCHANGED <<source, trees>>

\* fetch-sources.sh in another shell, while a script of this run works.  It
\* leaves a good pinned archive alone; a producer may have a newer Release.
OtherFetch ==
    /\ pc \notin {"idle", "fetch"}
    /\ disturbed' = TRUE
    /\ \/ announced /\ Store!Begin /\ Calm
       \/ \E p \in Producers :
              \/ store[p] # Absent /\ Store!Evict(p) /\ Event
              \/ Store!Install(p) /\ Calm
              \/ sums[p] # store[p] /\ Store!Pair(p) /\ Calm
    /\ UNCHANGED <<source, trees, run, at, result, before, given, pc>>

\* verify_cached_release_archive, for the checksum files that sha256sum writes.
VerifyCached(p) ==
    /\ store[p] # Absent
    /\ sums[p] \notin {Absent, Junk}
    /\ store[p] = sums[p]

\* Mutant: the entry-point tests are not run.
PreflightUntested ==
    /\ VerifyCached("ndk")
    /\ {store["google"], store["host"]} \cap {Absent, Junk} = {}

\* preflight-ndk.sh: the cached NDK, with the two CMake packages, must pass.
PreflightPasses ==
    /\ VerifyCached("ndk")
    /\ {store["google"], store["host"]} \cap {Absent, Junk} = {}
    /\ store["ndk"] \in Compatible

PreflightNdk ==
    /\ pc = "preflight"
    /\ IF PreflightPasses THEN Leave ELSE Die
    /\ Calm
    /\ UNCHANGED <<cache, source, trees>>

-----------------------------------------------------------------------------
(* build-cmake.sh *)
CleanHost ==
    /\ pc = "rm_host"
    /\ built' = [built EXCEPT !.host = Absent]
    /\ Go("host")
    /\ Calm
    /\ UNCHANGED <<cache, source, sdk, reference, zip, zipSum>>

\* A toolchain that is not the expected one links against a runtime that the
\* package does not carry.  The check of that reads readelf's output through a
\* pipe under pipefail: grep -q stops reading at its match, and should that
\* kill readelf, the pipeline fails and the condition that should end the
\* script is false.
BuildHost ==
    /\ pc = "host"
    /\ \/ /\ store["host"] \in {Absent, Junk}
          /\ Die /\ Calm
          /\ UNCHANGED built
       \/ /\ store["host"] \notin {Absent, Junk}
          /\ built' = [built EXCEPT !.host = store["host"]]
          /\ Leave /\ Calm
       \/ /\ store["host"] \notin {Absent, Junk}
          /\ built' = [built EXCEPT !.host = "defective"]
          /\ Leave \/ Die
          /\ Event
    /\ UNCHANGED <<cache, source, sdk, reference, zip, zipSum>>

(* build-build-tools.sh.  The source check fails before the old output is *)
(* removed.                                                               *)
VerifySnapshot ==
    /\ pc = "snapshot"
    /\ IF source = "recorded" THEN Go("rm_tools") ELSE Die
    /\ Calm
    /\ UNCHANGED <<cache, source, trees>>

CleanTools ==
    /\ pc = "rm_tools"
    /\ built' = [built EXCEPT !.tools = Absent]
    /\ Go("tools")
    /\ Calm
    /\ UNCHANGED <<cache, source, sdk, reference, zip, zipSum>>

BuildTools ==
    /\ pc = "tools"
    /\ \/ built' = [built EXCEPT !.tools = source] /\ Calm
       \/ built' = [built EXCEPT !.tools = "defective"] /\ Event
    /\ Go("gate")
    /\ UNCHANGED <<cache, source, sdk, reference, zip, zipSum>>

\* Each tool is installed and then checked, through the same kind of pipe.  A
\* tool that is refused stays installed; unless it was the last, others are
\* missing.
GateTools ==
    /\ pc = "gate"
    /\ \/ /\ Leave
          /\ IF built.tools = "defective" THEN Event ELSE Calm
          /\ UNCHANGED built
       \/ /\ built.tools = "defective"
          /\ built' \in {built, [built EXCEPT !.tools = Absent]}
          /\ Die /\ Calm
    /\ UNCHANGED <<cache, source, sdk, reference, zip, zipSum>>

-----------------------------------------------------------------------------
(* assemble-sdk.sh.  dist/sdk goes first, the old archive only after the new *)
(* tree is complete.                                                         *)
Put(tree, part, content) == [tree EXCEPT ![part] = content]

\* Mutant: rm -rf "$sdk"/* leaves the hidden .knownPackages behind.
RemoveSdkVisible ==
    /\ pc = "rm_sdk"
    /\ sdk' = Put(NoTree, "known", sdk["known"])
    /\ Go("google")
    /\ Calm
    /\ UNCHANGED <<cache, source, built, reference, zip, zipSum>>

\* Mutant: the new tree is assembled over the old one.
RemoveSdkForgotten ==
    /\ pc = "rm_sdk"
    /\ Go("google")
    /\ Calm
    /\ UNCHANGED <<cache, source, trees>>

RemoveSdk ==
    /\ pc = "rm_sdk"
    /\ sdk' = NoTree
    /\ Go("google")
    /\ Calm
    /\ UNCHANGED <<cache, source, built, reference, zip, zipSum>>

\* Unpacking fails if the archive is not there or is not an archive.
CopyArchive(part, next) ==
    /\ pc = part
    /\ IF store[part] \in {Absent, Junk}
       THEN UNCHANGED sdk /\ Die
       ELSE sdk' = Put(sdk, part, store[part]) /\ Go(next)
    /\ Calm
    /\ UNCHANGED <<cache, source, built, reference, zip, zipSum>>

\* install fails at the first file that no build has left in build/.
InstallBuilt ==
    /\ pc = "install"
    /\ \/ built.host = Absent /\ UNCHANGED sdk /\ Die
       \/ /\ built.host # Absent /\ built.tools = Absent
          /\ sdk' = Put(sdk, "host", built.host)
          /\ Die
       \/ /\ Absent \notin {built.host, built.tools}
          /\ sdk' = Put(Put(sdk, "host", built.host), "tools", built.tools)
          /\ Go("ndk")
    /\ Calm
    /\ UNCHANGED <<cache, source, built, reference, zip, zipSum>>

NormaliseModes ==
    /\ pc = "modes"
    /\ sdk' = Put(sdk, "modes", Pin)
    /\ Go("rm_zip")
    /\ Calm
    /\ UNCHANGED <<cache, source, built, reference, zip, zipSum>>

RemoveZip ==
    /\ pc = "rm_zip"
    /\ zip' = NoTree
    /\ zipSum' = NoTree
    /\ Go("zip")
    /\ Calm
    /\ UNCHANGED <<cache, source, built, sdk, reference>>

\* zip writes a file of its own and renames it when it is complete.
PackZip ==
    /\ pc = "zip"
    /\ zip' = sdk
    /\ Go("sum")
    /\ Calm
    /\ UNCHANGED <<cache, source, built, sdk, reference, zipSum>>

SumZip ==
    /\ pc = "sum"
    /\ zipSum' = zip
    /\ Leave
    /\ Calm
    /\ UNCHANGED <<cache, source, built, sdk, reference, zip>>

Assemble ==
    \/ RemoveSdk
    \/ CopyArchive("google", "platform-tools")
    \/ CopyArchive("platform-tools", "install")
    \/ InstallBuilt
    \/ CopyArchive("ndk", "modes")
    \/ NormaliseModes \/ RemoveZip \/ PackZip \/ SumZip

-----------------------------------------------------------------------------
(* assemble-reference-sdk.sh *)
RemoveReference ==
    /\ pc = "rm_reference"
    /\ reference' = NoReference
    /\ Go("reference")
    /\ Calm
    /\ UNCHANGED <<cache, source, built, sdk, zip, zipSum>>

BuildReference ==
    /\ pc = "reference"
    /\ IF {store["google"], store["reference"]} \cap {Absent, Junk} # {}
       THEN UNCHANGED reference /\ Die
       ELSE /\ reference' = [google |-> store["google"], reference |-> store["reference"]]
            /\ Leave
    /\ Calm
    /\ UNCHANGED <<cache, source, built, sdk, zip, zipSum>>

-----------------------------------------------------------------------------
(* validate-sdk.sh.  Up to the probe it only reads. *)

\* REFERENCE_DIR, if set, is an official SDK: the pinned archives.
Official == IF given THEN [google |-> Pin, reference |-> Pin] ELSE reference

ReferenceAccepted == \A part \in DOMAIN Official : Official[part] \notin {Absent, Junk}

ArchiveAccepted == zip # NoTree /\ zipSum = zip

\* Mutant: the validator trusts the gate of the build.
HostElfsTrusted == TRUE

\* The structure, dependency, interpreter and runpath checks of the host ELF
\* files, here without a pipe.
HostElfsAccepted == {sdk["host"], sdk["tools"]} \cap {Junk, "defective"} = {}

\* compare-reference-layout.py: no part missing or torn, no .knownPackages,
\* Google's files byte-identical, and the NDK files that a Release archive
\* anchors equal to those in the cached archive.
LayoutMatches ==
    /\ Complete(sdk)
    /\ \A part \in Part : sdk[part] # Junk
    /\ sdk["known"] = Absent
    /\ sdk["google"] = Official.google
    /\ Anchors[sdk["ndk"]] = Anchors[store["ndk"]]

\* Mutant: the validator trusts the preflight.
ToolsTrusted == TRUE

\* The entry-point tests once more, on the NDK of the tree.
ToolsRun == sdk["ndk"] \in Compatible

ValidateInputs ==
    /\ pc = "inputs"
    /\ IF /\ \A p \in Producers : VerifyCached(p)
          /\ ReferenceAccepted
          /\ ArchiveAccepted
          /\ HostElfsAccepted
          /\ LayoutMatches
          /\ ToolsRun
       THEN Go("probe")
       ELSE Die
    /\ Calm
    /\ UNCHANGED <<cache, source, trees>>

\* sdkmanager --list_installed may write .knownPackages into the SDK.
Probe ==
    /\ pc = "probe"
    /\ sdk' \in {sdk, Put(sdk, "known", Pin)}
    /\ Go("cleanup")
    /\ Calm
    /\ UNCHANGED <<cache, source, built, reference, zip, zipSum>>

\* Mutant: what sdkmanager has written stays.
RestoredNothing == sdk

\* cleanup_probe: the SDK's own .knownPackages or none.
Restored == Put(sdk, "known", before["known"])

CleanupProbe ==
    /\ pc = "cleanup"
    /\ sdk' = Restored
    /\ Go("archive")
    /\ Calm
    /\ UNCHANGED <<cache, source, built, reference, zip, zipSum>>

\* compare-extracted-tree.py.
CompareArchive ==
    /\ pc = "archive"
    /\ IF zip = sdk THEN Leave ELSE Die
    /\ Calm
    /\ UNCHANGED <<cache, source, trees>>

Validate == ValidateInputs \/ Probe \/ CleanupProbe \/ CompareArchive

-----------------------------------------------------------------------------
\* The empty file that the redirection of sha256sum creates.
TornSum == Put(NoTree, "modes", Junk)

\* rm -rf stopped after some parts of a tree.
Remains(tree, gone) == [part \in DOMAIN tree |-> IF part \in gone THEN Absent ELSE tree[part]]

(***************************************************************************)
(* A command fails or the run is killed.  What it was writing is left torn *)
(* and what it was deleting is left incomplete.  Outputs of a build of     *)
(* which some are missing are as good as absent: nothing installs them.    *)
(***************************************************************************)
Torn ==
    /\ built' \in CASE pc = "rm_host"  -> {built, [built EXCEPT !.host = Absent]}
                    [] pc = "host"     -> {built, [built EXCEPT !.host = Junk]}
                    [] pc = "rm_tools" -> {built, [built EXCEPT !.tools = Absent]}
                    [] pc = "gate"     -> {built, [built EXCEPT !.tools = Absent],
                                           [built EXCEPT !.tools = Junk]}
                    [] OTHER           -> {built}
    /\ sdk' \in CASE pc = "rm_sdk" -> {Remains(sdk, gone) : gone \in SUBSET Part}
                  [] pc \in {"google", "platform-tools", "ndk"} -> {sdk, Put(sdk, pc, Junk)}
                  [] pc = "install" -> {sdk, Put(sdk, "host", Junk),
                                        Put(Put(sdk, "host", built.host), "tools", Junk)}
                  [] OTHER -> {sdk}
    /\ zipSum' \in IF pc = "sum" THEN {zipSum, TornSum} ELSE {zipSum}
    /\ zip' \in IF pc = "rm_zip" THEN {zip, NoTree} ELSE {zip}
    /\ reference' \in CASE pc = "rm_reference" -> {Remains(reference, gone) :
                                                     gone \in SUBSET DOMAIN reference}
                        [] pc = "reference" ->
                               {reference, [reference EXCEPT !.google = Junk],
                                [google |-> store["google"], reference |-> Junk]}
                        [] OTHER -> {reference}

Kill ==
    /\ pc # "idle"
    /\ Event
    /\ Torn
    /\ pc' = "idle"
    /\ result' = "killed"
    /\ UNCHANGED <<cache, source, run, at, before, given, disturbed>>

\* A failing command runs the EXIT trap that validate-sdk.sh has set.
Fail ==
    /\ pc # "idle"
    /\ Event
    /\ IF pc \in {"probe", "cleanup"}
       THEN sdk' = Restored /\ UNCHANGED <<built, reference, zip, zipSum>>
       ELSE Torn
    /\ Die
    /\ UNCHANGED <<cache, source>>

Step ==
    \/ Fetch \/ Fetched \/ PreflightNdk
    \/ CleanHost \/ BuildHost
    \/ VerifySnapshot \/ CleanTools \/ BuildTools \/ GateTools
    \/ Assemble
    \/ RemoveReference \/ BuildReference
    \/ Validate

Next ==
    \/ StartPipeline \/ StartScript \/ EditSource \/ RestoreSource
    \/ Step \/ OtherFetch \/ Kill \/ Fail

Spec == Init /\ [][Next]_vars

\* The pipeline is run again until it has ended with status 0, the sources
\* are put back, and a script takes its next command.
FairSpec ==
    /\ Spec
    /\ WF_vars(Step)
    /\ SF_vars(RestoreSource)
    /\ SF_vars(StartPipeline /\ Len(run') > 2)

-----------------------------------------------------------------------------
Value == Content \cup {Absent} \cup Source \cup {"defective"}
Tree  == [Part -> Value]

TypeOK ==
    /\ store \in [Names -> Content \cup {Absent}]
    /\ sums \in [Producers -> Content \cup {Absent}]
    /\ announced \in BOOLEAN
    /\ source \in Source
    /\ built \in [host : Value, tools : Value]
    /\ {sdk, zip, zipSum, before} \subseteq Tree
    /\ reference \in [google : Content \cup {Absent}, reference : Content \cup {Absent}]
    /\ run \in Pipelines \cup {<<s>> : s \in Script}
    /\ at \in 1..Len(run)
    /\ pc \in {Entry[s] : s \in Script} \cup
              {"idle", "host", "rm_tools", "tools", "gate", "google", "platform-tools",
               "install", "ndk", "modes", "rm_zip", "zip", "sum", "reference",
               "probe", "cleanup", "archive"}
    /\ result \in {"none", "ok", "failed", "killed"}
    /\ given \in BOOLEAN /\ disturbed \in BOOLEAN
    /\ events \in 0..MaxEvents

Validated == result = "ok" /\ run[Len(run)] = "validate"

\* What validate-sdk.sh:544 reports of the tree, by itself and whatever earlier
\* runs left: it is whole and untorn, its tools passed the ELF checks even when
\* the build's own gates missed them, its NDK passes the entry-point tests
\* whatever the preflight has seen, nothing of the probe is left in it, and the
\* archive with its checksum holds exactly this tree.
ValidatedArchive ==
    Validated =>
        /\ zip = sdk /\ zipSum = zip
        /\ Complete(sdk)
        /\ Junk \notin {sdk[part] : part \in Part}
        /\ sdk["known"] = Absent
        /\ "defective" \notin {sdk["host"], sdk["tools"]}
        /\ sdk["ndk"] \in Compatible

\* resolute-local-build.sh: when it succeeds, the SDK is made of the pinned
\* archives, of the producers' archives, and of tools built from the recorded
\* sources, never of what an earlier run or another version of the sources left
\* in build/ or dist/.  The NDK in it passes the entry-point tests even if
\* another fetch replaced the one that the preflight had tested; without such a
\* fetch the producers' archives are those in the cache, which match their
\* checksum files.
MadeByThisRun ==
    Validated /\ Len(run) > 1 =>
        /\ sdk["google"] = Pin /\ sdk["host"] = Pin
        /\ sdk["tools"] = "recorded"
        /\ sdk["platform-tools"] \in Builds /\ sdk["ndk"] \in Compatible
        /\ ~disturbed => \A p \in Producers : sdk[p] = store[p] /\ VerifyCached(p)

\* preflight-ndk.sh:3, "Consumer contract gate BEFORE building Ninja or
\* Build-Tools": resolute-local-build.sh changes nothing under build/ or dist/
\* unless the cached NDK is verified and passes the entry-point tests, or was
\* replaced by another fetch since.
PreflightGuardsTrees ==
    [][Len(run) > 1 /\ ~disturbed =>
           VerifyCached("ndk") /\ store["ndk"] \in Compatible]_trees

\* assemble-sdk.sh:105-119.  An archive that matches its checksum file is, at
\* every moment, a complete SDK whose packages from .cache are untorn, without
\* probe files: an interrupted assembly leaves the previous pair or none.  What
\* a killed build left in build/ may be in it when assemble-sdk.sh is run alone.
ChecksummedArchiveIsWhole ==
    zip # NoTree /\ zipSum = zip =>
        /\ Complete(zip)
        /\ Junk \notin {zip[part] : part \in {"google", "platform-tools", "ndk"}}
        /\ zip["known"] = Absent

\* The probe of validate-sdk.sh runs the SDK's own sdkmanager in the tree.  The
\* EXIT trap undoes what it wrote: unless killed, the validator ends with the
\* tree it was given, so that a failed validation can be repeated.
ValidationLeavesTree ==
    pc = "idle" /\ result \in {"ok", "failed"} /\ run[at] = "validate" => sdk = before

\* After any failure, kill, edit or lone script, running the pipeline again
\* ends with a validated SDK, if the NDK it gets passes the preflight tests: no
\* leftover makes every later run fail.
Recovers == <>[](store["ndk"] \notin Builds \ Compatible) => []<>Validated
=============================================================================
