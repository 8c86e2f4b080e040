--------------------------- MODULE SdkBuildProofs ---------------------------
(***************************************************************************)
(* What module SdkBuild checks on a small instance, proved for every set   *)
(* of contents, every choice of compatible NDK builds and any number of    *)
(* failures, kills, edits, lone scripts and fetches in another shell.  The *)
(* properties speak of the end of a run; the inductive invariant says what *)
(* each script has left for the next one, command by command.              *)
(***************************************************************************)
EXTENDS SdkBuild, TLAPS

\* The script that a command is part of.
ScriptOf(label) ==
    CASE label = "fetch" -> "fetch"
      [] label = "preflight" -> "preflight"
      [] label \in {"rm_host", "host"} -> "cmake"
      [] label \in {"snapshot", "rm_tools", "tools", "gate"} -> "tools"
      [] label \in {"rm_sdk", "google", "platform-tools", "install", "ndk", "modes",
                    "rm_zip", "zip", "sum"} -> "assemble"
      [] label \in {"rm_reference", "reference"} -> "reference"
      [] OTHER -> "validate"

\* The command under way is one of the current script's, and success is only
\* reported after the last script.
ScriptInv ==
    /\ pc # "idle" => result = "none" /\ run[at] = ScriptOf(pc)
    /\ result = "ok" => pc = "idle" /\ at = Len(run)

\* build-build-tools.sh compiles what the source check has accepted.
SourceInv ==
    /\ pc \in {"rm_tools", "tools", "gate"} => source = "recorded"
    /\ pc = "gate" => built.tools \in {"recorded", "defective"}

\* assemble-sdk.sh: the parts of dist/sdk that are in place before each command.
\* Another fetch may have replaced a producer's archive since.
Replaced(n) == n \in Producers /\ disturbed = TRUE

Unpacked(part) == sdk[part] \in Builds /\ (Replaced(part) \/ sdk[part] = store[part])

Installed ==
    /\ sdk["host"] = built.host /\ sdk["tools"] = built.tools
    /\ Absent \notin {built.host, built.tools}

Packing  == {"rm_zip", "zip", "sum"}
AfterNdk == Packing \cup {"modes"}
AfterInstall == AfterNdk \cup {"ndk"}
AfterPlatformTools == AfterInstall \cup {"install"}
AfterGoogle == AfterPlatformTools \cup {"platform-tools"}

AssemblyInv ==
    /\ pc \in AfterGoogle \cup {"google"} => sdk["known"] = Absent
    /\ pc \in AfterGoogle => Unpacked("google")
    /\ pc \in AfterPlatformTools => Unpacked("platform-tools")
    /\ pc \in AfterInstall => Installed
    /\ pc \in AfterNdk => Unpacked("ndk")
    /\ pc \in Packing => sdk["modes"] = Pin

\* Whatever archive is in dist/ holds a complete SDK.
Whole(tree) ==
    /\ Complete(tree)
    /\ Junk \notin {tree[part] : part \in {"google", "platform-tools", "ndk"}}
    /\ tree["known"] = Absent

ZipInv == zip = NoTree \/ Whole(zip)

\* validate-sdk.sh: the tree it was started on has passed every check but the
\* comparison with the archive, and is there again after the cleanup.
Accepted(tree) ==
    /\ zipSum = zip
    /\ Complete(tree)
    /\ Junk \notin {tree[part] : part \in Part}
    /\ tree["known"] = Absent
    /\ "defective" \notin {tree["host"], tree["tools"]}
    /\ tree["ndk"] \in Compatible

ValidateInv ==
    /\ pc \in {"inputs", "probe", "archive"} => sdk = before
    /\ pc = "cleanup" => \A part \in Part \ {"known"} : sdk[part] = before[part]
    /\ pc \in {"probe", "cleanup", "archive"} => Accepted(before)

\* resolute-local-build.sh: what the scripts that have ended established.
Stocked == \A n \in Names \ {"reference"} : Replaced(n) \/ Store!Good(n)

NdkTested == disturbed = TRUE \/ PreflightPasses

FromThisRun ==
    /\ sdk["google"] = Pin
    /\ sdk["host"] \in {Pin, "defective"}
    /\ sdk["tools"] \in {"recorded", "defective"}
    /\ \A p \in Producers : sdk[p] \in Builds /\ (Replaced(p) \/ sdk[p] = store[p])

PipelineInv ==
    Len(run) > 1 /\ result \in {"none", "ok"} =>
        /\ at > 1 => Stocked
        /\ at > 2 => NdkTested
        /\ at > 3 => built.host \in {Pin, "defective"}
        /\ at > 4 => built.tools \in {"recorded", "defective"}
        /\ at > 5 => FromThisRun

IInv ==
    /\ TypeOK /\ ScriptInv /\ SourceInv /\ AssemblyInv /\ ZipInv /\ ValidateInv
    /\ PipelineInv /\ ValidationLeavesTree /\ ValidatedArchive

-----------------------------------------------------------------------------
(* The scripts and the runs made of them. *)
Runs   == Pipelines \cup {<<s>> : s \in Script}
Labels == {"fetch", "preflight", "rm_host", "host", "snapshot", "rm_tools", "tools", "gate",
           "rm_sdk", "google", "platform-tools", "install", "ndk", "modes", "rm_zip", "zip",
           "sum", "rm_reference", "reference", "inputs", "probe", "cleanup", "archive", "idle"}

\* The seven scripts of resolute-local-build.sh.
LEMMA Scripts ==
    Script = {"fetch", "preflight", "cmake", "tools", "assemble", "reference", "validate"}
  BY DEF Script, Generated

\* The first command of a script belongs to it.
LEMMA Entries ==
    ASSUME NEW s \in Script
    PROVE  /\ ScriptOf(Entry[s]) = s
           /\ Entry[s] \in {"fetch", "preflight", "rm_host", "snapshot", "rm_sdk",
                            "rm_reference", "inputs"}
           /\ s = "validate" <=> Entry[s] = "inputs"
  BY Scripts DEF Entry, ScriptOf

\* The commands are those that TypeOK lists.
LEMMA LabelsOfTypes ==
    Labels = {Entry[s] : s \in Script} \cup
              {"idle", "host", "rm_tools", "tools", "gate", "google", "platform-tools",
               "install", "ndk", "modes", "rm_zip", "zip", "sum", "reference",
               "probe", "cleanup", "archive"}
  BY Scripts DEF Entry, Labels

\* A run is a script alone or one of the three pipelines.
LEMMA RunShape ==
    ASSUME NEW r \in Runs
    PROVE  \/ Len(r) = 1 /\ r[1] \in Script
           \/ Len(r) = 2 /\ r[1] = "fetch" /\ r[2] = "preflight"
           \/ /\ Len(r) = 6 /\ r[1] = "fetch" /\ r[2] = "preflight" /\ r[3] = "cmake"
              /\ r[4] = "tools" /\ r[5] = "assemble" /\ r[6] = "validate"
           \/ /\ Len(r) = 7 /\ r[1] = "fetch" /\ r[2] = "preflight" /\ r[3] = "cmake"
              /\ r[4] = "tools" /\ r[5] = "assemble" /\ r[6] = "reference" /\ r[7] = "validate"
<1>1. CASE r = Generated
  BY <1>1 DEF Generated
<1>2. CASE r = Given
  BY <1>2 DEF Given
<1>3. CASE r = Preflight
  BY <1>3 DEF Preflight
<1>4. CASE \E s \in Script : r = <<s>>
  BY <1>4
<1> QED BY <1>1, <1>2, <1>3, <1>4 DEF Runs, Pipelines

\* Every script of a run is one of the seven; validate-sdk.sh is the last one.
LEMMA RunScripts ==
    ASSUME NEW r \in Runs, NEW k \in 1..Len(r)
    PROVE  r[k] \in Script /\ Len(r) \in 1..7 /\ (r[k] = "validate" => k = Len(r))
<1>1. CASE Len(r) = 1 /\ r[1] \in Script
  BY <1>1
<1>2. CASE Len(r) = 2 /\ r[1] = "fetch" /\ r[2] = "preflight"
  <2>1. k = 1 \/ k = 2
    BY <1>2
  <2> QED BY <1>2, <2>1, Scripts
<1>3. CASE /\ Len(r) = 6 /\ r[1] = "fetch" /\ r[2] = "preflight" /\ r[3] = "cmake"
           /\ r[4] = "tools" /\ r[5] = "assemble" /\ r[6] = "validate"
  <2>1. k = 1 \/ k = 2 \/ k = 3 \/ k = 4 \/ k = 5 \/ k = 6
    BY <1>3
  <2> QED BY <1>3, <2>1, Scripts
<1>4. CASE /\ Len(r) = 7 /\ r[1] = "fetch" /\ r[2] = "preflight" /\ r[3] = "cmake"
           /\ r[4] = "tools" /\ r[5] = "assemble" /\ r[6] = "reference" /\ r[7] = "validate"
  <2>1. k = 1 \/ k = 2 \/ k = 3 \/ k = 4 \/ k = 5 \/ k = 6 \/ k = 7
    BY <1>4
  <2> QED BY <1>4, <2>1, Scripts
<1> QED BY Zenon, <1>1, <1>2, <1>3, <1>4, RunShape

\* Where a pipeline is when a script runs.
LEMMA Position ==
    ASSUME NEW r \in Runs, NEW k \in 1..Len(r), Len(r) > 1
    PROVE  /\ r[k] = "fetch" <=> k = 1
           /\ r[k] = "preflight" <=> k = 2
           /\ r[k] = "cmake" <=> k = 3
           /\ r[k] = "tools" <=> k = 4
           /\ r[k] = "assemble" <=> k = 5
           /\ r[k] \in {"reference", "validate"} <=> k > 5
<1>1. CASE Len(r) = 1
  BY <1>1
<1>2. CASE Len(r) = 2 /\ r[1] = "fetch" /\ r[2] = "preflight"
  <2>1. k = 1 \/ k = 2
    BY <1>2
  <2> QED BY <1>2, <2>1
<1>3. CASE /\ Len(r) = 6 /\ r[1] = "fetch" /\ r[2] = "preflight" /\ r[3] = "cmake"
           /\ r[4] = "tools" /\ r[5] = "assemble" /\ r[6] = "validate"
  <2>1. k = 1 \/ k = 2 \/ k = 3 \/ k = 4 \/ k = 5 \/ k = 6
    BY <1>3
  <2> QED BY <1>3, <2>1
<1>4. CASE /\ Len(r) = 7 /\ r[1] = "fetch" /\ r[2] = "preflight" /\ r[3] = "cmake"
           /\ r[4] = "tools" /\ r[5] = "assemble" /\ r[6] = "reference" /\ r[7] = "validate"
  <2>1. k = 1 \/ k = 2 \/ k = 3 \/ k = 4 \/ k = 5 \/ k = 6 \/ k = 7
    BY <1>4
  <2> QED BY <1>4, <2>1
<1> QED BY Zenon, <1>1, <1>2, <1>3, <1>4, RunShape

-----------------------------------------------------------------------------
(* Types, one group of variables after the other. *)
File == Content \cup {Absent}

CacheOK ==
    /\ store \in [Names -> File] /\ sums \in [Producers -> File]
    /\ announced \in BOOLEAN

TreesOK ==
    /\ built \in [host : Value, tools : Value]
    /\ sdk \in Tree /\ zip \in Tree /\ zipSum \in Tree
    /\ reference \in [google : File, reference : File]

ControlOK ==
    /\ before \in Tree /\ run \in Runs /\ at \in 1..Len(run) /\ pc \in Labels
    /\ result \in {"none", "ok", "failed", "killed"}
    /\ given \in BOOLEAN /\ disturbed \in BOOLEAN

\* TypeOK is the conjunction of its groups.
LEMMA TypeParts ==
    TypeOK <=> /\ CacheOK /\ TreesOK /\ ControlOK
               /\ source \in Source /\ events \in 0..MaxEvents
  BY Zenon, LabelsOfTypes DEF TypeOK, CacheOK, TreesOK, ControlOK, File, Runs

\* What the steps write into a tree.
LEMMA Values ==
    /\ Absent \in Value /\ Junk \in Value /\ Pin \in Value /\ "defective" \in Value
    /\ Source \subseteq Value /\ File \subseteq Value
    /\ Junk \in File /\ Absent \in File /\ Pin \in File
    /\ Pin \notin {Absent, Junk} /\ Junk # Absent
  BY BuildAssumption DEF Value, File, Builds

\* Writing one part of a tree.
LEMMA PutFacts ==
    ASSUME NEW tree \in Tree, NEW part \in Part, NEW content \in Value
    PROVE  /\ Put(tree, part, content) \in Tree
           /\ Put(tree, part, content)[part] = content
           /\ \A q \in Part \ {part} : Put(tree, part, content)[q] = tree[q]
  BY DEF Put, Tree

\* It leaves a tree.
LEMMA PutType ==
    ASSUME NEW tree \in Tree, NEW part \in Part, NEW content \in Value
    PROVE  Put(tree, part, content) \in Tree
  BY DEF Put, Tree

\* The tree of which nothing is there.
LEMMA NoTreeFacts == NoTree \in Tree /\ \A part \in Part : NoTree[part] = Absent
  BY Values DEF NoTree, Tree

\* The initial directories.
LEMMA InitType == Init => TypeOK
<1> SUFFICES ASSUME Init PROVE TypeOK
  OBVIOUS
<1>1. CacheOK
  BY Zenon, Values DEF Init, Store!Init, CacheOK, File
<1>2. TreesOK
  BY Values, NoTreeFacts DEF Init, TreesOK, NoTools, NoReference
<1>3. ControlOK
  <2>1. run = Preflight /\ at = 1 /\ pc = "idle" /\ result = "none" /\ before = NoTree
        /\ given = FALSE /\ disturbed = FALSE
    BY Zenon DEF Init
  <2>2. run \in Runs /\ 1 \in 1..Len(run)
    BY <2>1 DEF Runs, Pipelines, Preflight
  <2> QED BY Zenon, <2>1, <2>2, NoTreeFacts DEF ControlOK, Labels
<1>4. source \in Source /\ events \in 0..MaxEvents
  BY BuildAssumption DEF Init, Source
<1> QED BY <1>1, <1>2, <1>3, <1>4, TypeParts

\* Ways to leave a command.
Ended == /\ pc' = "idle" /\ result' \in {"failed", "killed"}
         /\ UNCHANGED <<run, at, before, given, disturbed>>

Advance == pc # "idle" /\ Leave

Within == /\ pc # "idle" /\ pc' # "idle" /\ pc' \in Labels
          /\ ScriptOf(pc') = ScriptOf(pc) /\ UNCHANGED frame /\ ~OtherFetch

Begun == StartPipeline \/ StartScript

Edited == EditSource \/ RestoreSource

\* Every step of a script goes on in it, ends it with success or ends the run.
LEMMA Control ==
    ASSUME Next
    PROVE  Begun \/ Edited \/ OtherFetch \/ (pc # "idle" /\ Ended) \/ Advance \/ Within
<1> USE DEF Ended, Advance, Within, Labels, ScriptOf
<1>1. CASE Fetch
  BY <1>1 DEF Fetch
<1>2. CASE Fetched \/ PreflightNdk
  BY <1>2 DEF Fetched, PreflightNdk, Die
<1>3. CASE CleanHost \/ BuildHost
  BY <1>3 DEF CleanHost, BuildHost, Go, Die
<1>4. CASE VerifySnapshot \/ CleanTools
  BY <1>4 DEF VerifySnapshot, CleanTools, Go, Die
<1>5. CASE BuildTools \/ GateTools
  BY <1>5 DEF BuildTools, GateTools, Go, Die
<1>6. CASE RemoveSdk \/ CopyArchive("google", "platform-tools")
  BY <1>6 DEF RemoveSdk, CopyArchive, Go, Die
<1>7. CASE CopyArchive("platform-tools", "install") \/ InstallBuilt
  BY <1>7 DEF InstallBuilt, CopyArchive, Go, Die
<1>8. CASE CopyArchive("ndk", "modes") \/ NormaliseModes
  BY <1>8 DEF NormaliseModes, CopyArchive, Go, Die
<1>9. CASE RemoveZip \/ PackZip \/ SumZip
  BY <1>9 DEF RemoveZip, PackZip, SumZip, Go
<1>10. CASE RemoveReference \/ BuildReference
  BY <1>10 DEF RemoveReference, BuildReference, Go, Die
<1>11. CASE ValidateInputs \/ Probe
  BY <1>11 DEF ValidateInputs, Probe, Go, Die
<1>12. CASE CleanupProbe \/ CompareArchive
  BY <1>12 DEF CleanupProbe, CompareArchive, Go, Die
<1>13. CASE Kill \/ Fail
  BY <1>13 DEF Kill, Fail, Die
<1> QED
  BY Zenon, <1>1, <1>2, <1>3, <1>4, <1>5, <1>6, <1>7, <1>8, <1>9, <1>10, <1>11, <1>12, <1>13
  DEF Next, Step, Assemble, Validate, Begun, Edited

\* What fetch-sources.sh may put under a name.
LEMMA GenuineType == ASSUME NEW n \in Names PROVE Store!Genuine(n) \subseteq Builds
  BY BuildAssumption DEF Store!Genuine, Builds, Names

\* The commands that change an archive or a checksum file are those of
\* fetch-sources.sh.
LEMMA CacheChanges ==
    ASSUME Next
    PROVE  Fetch \/ OtherFetch \/ (UNCHANGED <<store, sums>> /\ announced' \in {announced, TRUE, FALSE})
<1>1. CASE Begun
  BY Zenon, <1>1 DEF Begun, StartPipeline, StartScript, Store!Begin, cache
<1>2. CASE Fetched
  BY Zenon, <1>2 DEF Fetched, Store!Announce
<1>3. CASE Edited \/ PreflightNdk \/ CleanHost \/ BuildHost \/ VerifySnapshot \/ CleanTools
           \/ BuildTools \/ GateTools
  BY Zenon, <1>3 DEF Edited, EditSource, RestoreSource, PreflightNdk, CleanHost, BuildHost,
     VerifySnapshot, CleanTools, BuildTools, GateTools, cache
<1>4. CASE Assemble
  BY Zenon, <1>4 DEF Assemble, RemoveSdk, CopyArchive, InstallBuilt, NormaliseModes, RemoveZip,
     PackZip, SumZip, cache
<1>5. CASE RemoveReference \/ BuildReference \/ Validate \/ Kill \/ Fail
  BY Zenon, <1>5 DEF RemoveReference, BuildReference, Validate, ValidateInputs, Probe,
     CleanupProbe, CompareArchive, Kill, Fail, cache
<1> QED BY Zenon, <1>1, <1>2, <1>3, <1>4, <1>5 DEF Next, Step, Begun, Edited

\* The cache keeps its type.
LEMMA CacheStep == ASSUME TypeOK, Next PROVE CacheOK'
<1>1. CacheOK
  BY TypeParts
<1>2. CASE UNCHANGED <<store, sums>> /\ announced' \in {announced, TRUE, FALSE}
  BY Zenon, <1>1, <1>2 DEF CacheOK
<1>3. ASSUME NEW n \in Names, Store!Install(n) PROVE CacheOK'
  <2>1. PICK c \in Store!Genuine(n) : store' = [store EXCEPT ![n] = c]
    BY Zenon, <1>3 DEF Store!Install
  <2>2. c \in File
    BY <2>1, GenuineType DEF File, Builds
  <2>3. UNCHANGED <<sums, announced>>
    BY Zenon, <1>3 DEF Store!Install
  <2> QED BY <1>1, <2>1, <2>2, <2>3 DEF CacheOK
<1>4. ASSUME NEW n \in Names, Store!Evict(n) PROVE CacheOK'
  BY <1>1, <1>4, Values DEF CacheOK, Store!Evict
<1>5. ASSUME NEW p \in Producers, Store!Pair(p) PROVE CacheOK'
  <2>1. store[p] \in File
    BY <1>1 DEF CacheOK, Names
  <2> QED BY <1>1, <1>5, <2>1 DEF CacheOK, Store!Pair
<1>6. CASE Fetch
  <2>1. Asked \subseteq Names
    BY DEF Asked
  <2> QED BY Zenon, <1>3, <1>4, <1>5, <1>6, <2>1 DEF Fetch
<1>7. CASE OtherFetch
  <2>1. CASE Store!Begin
    BY Zenon, <1>2, <2>1 DEF Store!Begin
  <2>2. Producers \subseteq Names
    BY DEF Names
  <2> QED BY Zenon, <1>3, <1>4, <1>5, <1>7, <2>1, <2>2 DEF OtherFetch
<1> QED BY Zenon, <1>2, <1>6, <1>7, CacheChanges

\* A fetch in another shell touches the producers' archives only.
LEMMA OtherShape ==
    ASSUME TypeOK, OtherFetch
    PROVE  /\ disturbed' = TRUE /\ pc \notin {"idle", "fetch"}
           /\ UNCHANGED <<source, built, sdk, reference, zip, zipSum>>
           /\ UNCHANGED <<run, at, result, before, given, pc>>
           /\ \A n \in Names \ Producers : store'[n] = store[n]
<1>1. CacheOK
  BY TypeParts
<1>2. ASSUME NEW p \in Producers, Store!Evict(p) \/ Store!Install(p) \/ Store!Pair(p)
      PROVE  \A n \in Names \ Producers : store'[n] = store[n]
  <2>1. store' = store \/ \E c : store' = [store EXCEPT ![p] = c]
    BY Zenon, <1>2 DEF Store!Evict, Store!Install, Store!Pair
  <2> QED BY <1>1, <1>2, <2>1 DEF CacheOK
<1>3. \A n \in Names \ Producers : store'[n] = store[n]
  BY Zenon, <1>2 DEF OtherFetch, Store!Begin
<1> QED BY Zenon, <1>3 DEF OtherFetch, trees

\* The shell's control keeps its type.
LEMMA ControlStep == ASSUME TypeOK, Next PROVE ControlOK'
<1>1. ControlOK /\ {sdk, NoTree} \subseteq Tree
  BY Zenon, TypeParts, NoTreeFacts DEF TreesOK
<1>2. CASE StartPipeline
  <2>1. run' \in Runs /\ 1 \in 1..Len(run')
    <3>1. run' \in Runs
      BY <1>2 DEF StartPipeline, Runs, Pipelines
    <3> QED BY <3>1, RunShape
  <2>2. /\ given' \in BOOLEAN /\ disturbed' = FALSE /\ at' = 1 /\ pc' = "fetch"
        /\ result' = "none" /\ before' \in {sdk, NoTree}
    BY <1>2 DEF StartPipeline, Entry, Saved
  <2> QED BY Zenon, <1>1, <2>1, <2>2 DEF ControlOK, Labels
<1>3. CASE StartScript
  <2>1. PICK s \in Script : run' = <<s>> /\ pc' = Entry[s]
    BY Zenon, <1>3 DEF StartScript
  <2>2. run' \in Runs /\ 1 \in 1..Len(run')
    BY <2>1 DEF Runs
  <2>3. pc' \in Labels
    BY <2>1, Entries DEF Labels
  <2>4. /\ given' \in BOOLEAN /\ disturbed' = FALSE /\ at' = 1 /\ result' = "none"
        /\ before' \in {sdk, NoTree}
    BY Zenon, <1>3 DEF StartScript, Saved
  <2> QED BY Zenon, <1>1, <2>2, <2>3, <2>4 DEF ControlOK
<1>4. CASE Edited
  BY Zenon, <1>1, <1>4 DEF Edited, EditSource, RestoreSource, frame, ControlOK
<1>5. CASE Ended
  BY Zenon, <1>1, <1>5 DEF Ended, ControlOK, Labels
<1>6. CASE Advance
  <2>1. CASE at < Len(run)
    <3>1. at + 1 \in 1..Len(run) /\ Len(run) \in Nat
      BY <1>1, <2>1, RunScripts DEF ControlOK
    <3>2. Entry[run[at + 1]] \in Labels
      <4>1. run[at + 1] \in Script
        BY Zenon, <1>1, <3>1, RunScripts DEF ControlOK
      <4> QED BY <4>1, Entries DEF Labels
    <3>3. /\ at' = at + 1 /\ pc' = Entry[run[at + 1]] /\ before' \in {sdk, NoTree}
          /\ UNCHANGED <<run, result, given, disturbed>>
      BY Zenon, <1>6, <2>1 DEF Advance, Leave, Saved
    <3> QED BY Zenon, <1>1, <3>1, <3>2, <3>3 DEF ControlOK
  <2>2. CASE ~(at < Len(run))
    <3>1. pc' = "idle" /\ result' = "ok" /\ UNCHANGED <<run, at, before, given, disturbed>>
      BY Zenon, <1>6, <2>2 DEF Advance, Leave
    <3> QED BY Zenon, <1>1, <3>1 DEF ControlOK, Labels
  <2> QED BY Zenon, <2>1, <2>2
<1>7. CASE Within
  BY Zenon, <1>1, <1>7 DEF Within, frame, ControlOK
<1>8. CASE OtherFetch
  BY Zenon, <1>1, <1>8 DEF OtherFetch, ControlOK
<1> QED BY Zenon, <1>2, <1>3, <1>4, <1>5, <1>6, <1>7, <1>8, Control DEF Begun

\* The sources are edited and restored between runs only.
LEMMA SourceChanges == ASSUME Next PROVE Edited \/ UNCHANGED source
<1>1. CASE \/ Begun \/ Fetch \/ OtherFetch \/ Fetched \/ PreflightNdk \/ CleanHost \/ BuildHost
           \/ VerifySnapshot \/ CleanTools \/ BuildTools \/ GateTools
  BY Zenon, <1>1 DEF Begun, StartPipeline, StartScript, Fetch, OtherFetch, Fetched, PreflightNdk, CleanHost,
     BuildHost, VerifySnapshot, CleanTools, BuildTools, GateTools
<1>2. CASE Assemble
  BY Zenon, <1>2 DEF Assemble, RemoveSdk, CopyArchive, InstallBuilt, NormaliseModes, RemoveZip,
     PackZip, SumZip
<1>3. CASE RemoveReference \/ BuildReference \/ Validate \/ Kill \/ Fail
  BY Zenon, <1>3 DEF RemoveReference, BuildReference, Validate, ValidateInputs, Probe,
     CleanupProbe, CompareArchive, Kill, Fail
<1> QED BY Zenon, <1>1, <1>2, <1>3 DEF Next, Step, Begun, Edited

\* A step is one of the boundedly many interventions or is none.
LEMMA EventsChange == ASSUME Next PROVE Event \/ Calm
<1>1. CASE Begun \/ Edited \/ Kill \/ Fail
  BY Zenon, <1>1 DEF Begun, StartPipeline, StartScript, Edited, EditSource, RestoreSource, Kill, Fail
<1>2. CASE \/ Fetch \/ OtherFetch \/ Fetched \/ PreflightNdk \/ CleanHost \/ BuildHost
           \/ VerifySnapshot \/ CleanTools \/ BuildTools \/ GateTools
  BY Zenon, <1>2 DEF Fetch, OtherFetch, Fetched, PreflightNdk, CleanHost, BuildHost, VerifySnapshot,
     CleanTools, BuildTools, GateTools
<1>3. CASE Assemble
  BY Zenon, <1>3 DEF Assemble, RemoveSdk, CopyArchive, InstallBuilt, NormaliseModes, RemoveZip,
     PackZip, SumZip
<1>4. CASE RemoveReference \/ BuildReference \/ Validate
  BY Zenon, <1>4 DEF RemoveReference, BuildReference, Validate, ValidateInputs, Probe,
     CleanupProbe, CompareArchive
<1> QED BY Zenon, <1>1, <1>2, <1>3, <1>4 DEF Next, Step, Begun, Edited

\* Only the two build scripts change build/ outside the reference; between runs
\* and while fetch-sources.sh and preflight-ndk.sh run, nothing there changes.
LEMMA TreesChange ==
    ASSUME Next
    PROVE  /\ UNCHANGED built \/ CleanHost \/ BuildHost \/ CleanTools \/ BuildTools \/ GateTools
                \/ Kill \/ Fail
           /\ UNCHANGED sdk \/ RemoveSdk \/ InstallBuilt \/ NormaliseModes \/ Probe \/ CleanupProbe
                \/ CopyArchive("google", "platform-tools")
                \/ CopyArchive("platform-tools", "install")
                \/ CopyArchive("ndk", "modes") \/ Kill \/ Fail
           /\ UNCHANGED <<zip, zipSum>> \/ RemoveZip \/ PackZip \/ SumZip \/ Kill \/ Fail
           /\ UNCHANGED reference \/ RemoveReference \/ BuildReference \/ Kill \/ Fail
<1>1. CASE Begun \/ Edited \/ Fetch \/ OtherFetch \/ Fetched \/ PreflightNdk
  BY Zenon, <1>1 DEF Begun, StartPipeline, StartScript, Edited, EditSource, RestoreSource, Fetch,
     OtherFetch, Fetched, PreflightNdk, trees
<1>2. CASE CleanHost \/ BuildHost \/ VerifySnapshot \/ CleanTools \/ BuildTools \/ GateTools
  BY Zenon, <1>2 DEF CleanHost, BuildHost, VerifySnapshot, CleanTools, BuildTools, GateTools, trees
<1>3. CASE Assemble
  BY Zenon, <1>3 DEF Assemble, RemoveSdk, CopyArchive, InstallBuilt, NormaliseModes, RemoveZip,
     PackZip, SumZip
<1>4. CASE RemoveReference \/ BuildReference \/ Validate
  BY Zenon, <1>4 DEF RemoveReference, BuildReference, Validate, ValidateInputs, Probe,
     CleanupProbe, CompareArchive, trees
<1> QED BY Zenon, <1>1, <1>2, <1>3, <1>4 DEF Next, Step, Begun, Edited

-----------------------------------------------------------------------------
(* What the steps leave in build/ and dist/. *)
Outputs == [host : Value, tools : Value]

\* Writing one of the two outputs in build/.
LEMMA BuiltFacts ==
    ASSUME built \in Outputs, NEW v \in Value
    PROVE  /\ [built EXCEPT !.host = v] \in Outputs
           /\ [built EXCEPT !.tools = v] \in Outputs
           /\ [built EXCEPT !.host = v].host = v
           /\ [built EXCEPT !.host = v].tools = built.tools
           /\ [built EXCEPT !.tools = v].tools = v
           /\ [built EXCEPT !.tools = v].host = built.host
  BY DEF Outputs

\* A command that is interrupted leaves at most its own output torn.
LEMMA TornBuilt ==
    ASSUME Torn, TypeOK
    PROVE  built' \in Outputs /\ (built' = built \/ pc \in {"rm_host", "host", "rm_tools", "gate"})
<1>0. built \in Outputs /\ Absent \in Value /\ Junk \in Value
  BY Zenon, TypeParts, Values DEF TreesOK, Outputs
<1>1. CASE pc = "rm_host"
  <2>1. built' \in {built, [built EXCEPT !.host = Absent]}
    BY <1>1 DEF Torn
  <2> QED BY Zenon, <1>0, <1>1, <2>1, BuiltFacts
<1>2. CASE pc = "host"
  <2>1. built' \in {built, [built EXCEPT !.host = Junk]}
    BY <1>2 DEF Torn
  <2> QED BY Zenon, <1>0, <1>2, <2>1, BuiltFacts
<1>3. CASE pc = "rm_tools"
  <2>1. built' \in {built, [built EXCEPT !.tools = Absent]}
    BY <1>3 DEF Torn
  <2> QED BY Zenon, <1>0, <1>3, <2>1, BuiltFacts
<1>4. CASE pc = "gate"
  <2>1. built' \in {built, [built EXCEPT !.tools = Absent], [built EXCEPT !.tools = Junk]}
    BY <1>4 DEF Torn
  <2> QED BY Zenon, <1>0, <1>4, <2>1, BuiltFacts
<1>5. CASE pc \notin {"rm_host", "host", "rm_tools", "gate"}
  <2>1. built' \in {built}
    BY <1>5 DEF Torn
  <2> QED BY Zenon, <1>0, <2>1
<1> QED BY Zenon, <1>1, <1>2, <1>3, <1>4, <1>5

\* The same of dist/sdk, which only assemble-sdk.sh leaves torn.
LEMMA TornSdk ==
    ASSUME Torn, TypeOK
    PROVE  /\ sdk' \in Tree
           /\ sdk' = sdk \/ pc \in {"rm_sdk", "google", "platform-tools", "ndk", "install"}
<1>0. /\ built \in Outputs /\ sdk \in Tree /\ Absent \in Value /\ Junk \in Value
      /\ "google" \in Part /\ "platform-tools" \in Part /\ "ndk" \in Part
      /\ "host" \in Part /\ "tools" \in Part
  BY Zenon, TypeParts, Values DEF TreesOK, Outputs, Part
<1>1. CASE pc = "rm_sdk"
  <2>1. PICK gone \in SUBSET Part : sdk' = Remains(sdk, gone)
    BY <1>1 DEF Torn
  <2>2. sdk' \in Tree
    BY <1>0, <2>1 DEF Remains, Tree
  <2> QED BY Zenon, <1>1, <2>2
<1>2. CASE pc \in {"google", "platform-tools", "ndk"}
  <2>1. sdk' \in {sdk, Put(sdk, pc, Junk)}
    BY <1>2 DEF Torn
  <2> QED BY Zenon, <1>0, <1>2, <2>1, PutType
<1>3. CASE pc = "install"
  <2>1. sdk' \in {sdk, Put(sdk, "host", Junk), Put(Put(sdk, "host", built.host), "tools", Junk)}
    BY <1>3 DEF Torn
  <2>2. built.host \in Value
    BY <1>0 DEF Outputs
  <2>3. Put(Put(sdk, "host", built.host), "tools", Junk) \in Tree
    BY Zenon, <1>0, <2>2, PutType
  <2> QED BY Zenon, <1>0, <1>3, <2>1, <2>3, PutType
<1>4. CASE pc \notin {"rm_sdk", "google", "platform-tools", "ndk", "install"}
  <2>1. sdk' \in {sdk}
    BY <1>4 DEF Torn
  <2> QED BY Zenon, <1>0, <2>1
<1> QED BY Zenon, <1>1, <1>2, <1>3, <1>4

\* The same of the archive, its checksum and the reference tree.
LEMMA TornRest ==
    ASSUME Torn, TypeOK
    PROVE  /\ zip' \in {zip, NoTree} /\ (zip' = zip \/ pc = "rm_zip")
           /\ zipSum' \in Tree /\ (zipSum' = zipSum \/ pc = "sum")
           /\ reference' \in [google : File, reference : File]
           /\ reference' = reference \/ pc \in {"rm_reference", "reference"}
<1>1. zip' \in {zip, NoTree} /\ (zip' = zip \/ pc = "rm_zip")
  BY Zenon DEF Torn
<1>2. zipSum \in Tree /\ reference \in [google : File, reference : File]
  BY Zenon, TypeParts DEF TreesOK
<1>3. TornSum \in Tree
  BY Zenon, NoTreeFacts, PutType, Values DEF TornSum, Part
<1>4. zipSum' \in {zipSum, TornSum} /\ (zipSum' = zipSum \/ pc = "sum")
  BY Zenon DEF Torn
<1>5. CASE pc = "rm_reference"
  <2>1. PICK gone \in SUBSET DOMAIN reference : reference' = Remains(reference, gone)
    BY <1>5 DEF Torn
  <2>2. reference' \in [google : File, reference : File]
    BY <1>2, <2>1, Values DEF Remains
  <2> QED BY Zenon, <1>1, <1>2, <1>3, <1>4, <1>5, <2>2
<1>6. CASE pc = "reference"
  <2>1. reference' \in {reference, [reference EXCEPT !.google = Junk],
                       [google |-> store["google"], reference |-> Junk]}
    BY <1>6 DEF Torn
  <2>2. store["google"] \in File /\ Junk \in File
    BY TypeParts, Values DEF CacheOK, Names
  <2>3. reference' \in [google : File, reference : File]
    BY <1>2, <2>1, <2>2
  <2> QED BY Zenon, <1>1, <1>2, <1>3, <1>4, <1>6, <2>3
<1>7. CASE pc \notin {"rm_reference", "reference"}
  <2>1. reference' \in {reference}
    BY <1>7 DEF Torn
  <2> QED BY Zenon, <1>1, <1>2, <1>3, <1>4, <2>1
<1> QED BY Zenon, <1>5, <1>6, <1>7

\* A killed or failing command: torn outputs, or the EXIT trap of validate-sdk.sh.
LEMMA Interrupted ==
    ASSUME TypeOK, Kill \/ Fail
    PROVE  /\ \/ Torn
              \/ /\ Fail /\ pc \in {"probe", "cleanup"} /\ sdk' = Restored
                 /\ UNCHANGED <<built, reference, zip, zipSum>>
           /\ Restored \in Tree
<1>1. sdk \in Tree /\ before \in Tree /\ "known" \in Part
  BY Zenon, TypeParts DEF TreesOK, ControlOK, Part
<1>2. before["known"] \in Value
  BY <1>1 DEF Tree
<1>3. Restored \in Tree
  BY Zenon, <1>1, <1>2, PutType DEF Restored
<1> QED BY Zenon, <1>3 DEF Kill, Fail

\* build/ keeps its type.
LEMMA BuiltStep == ASSUME TypeOK, Next PROVE built' \in Outputs
<1>0. /\ built \in Outputs /\ source \in Source /\ store \in [Names -> File]
      /\ Absent \in Value /\ "defective" \in Value
  BY Zenon, TypeParts, Values DEF TreesOK, Outputs, CacheOK
<1>1. store["host"] \in Value /\ source \in Value
  BY <1>0, Values DEF Names
<1>2. CASE CleanHost \/ CleanTools
  BY Zenon, <1>0, <1>2, BuiltFacts DEF CleanHost, CleanTools
<1>3. CASE BuildHost
  BY Zenon, <1>0, <1>1, <1>3, BuiltFacts DEF BuildHost
<1>4. CASE BuildTools \/ GateTools
  BY Zenon, <1>0, <1>1, <1>4, BuiltFacts DEF BuildTools, GateTools
<1>5. CASE Kill \/ Fail
  BY Zenon, <1>0, <1>5, Interrupted, TornBuilt
<1>6. CASE UNCHANGED built
  BY Zenon, <1>0, <1>6
<1> QED BY Zenon, <1>2, <1>3, <1>4, <1>5, <1>6, TreesChange

\* dist/sdk keeps its type.
LEMMA SdkStep == ASSUME TypeOK, Next PROVE sdk' \in Tree
<1>0. /\ built \in Outputs /\ sdk \in Tree /\ store \in [Names -> File] /\ before \in Tree
      /\ Pin \in Value /\ File \subseteq Value
  BY Zenon, TypeParts, Values DEF TreesOK, Outputs, CacheOK, ControlOK
<1>1. built.host \in Value /\ built.tools \in Value /\ Part \subseteq DOMAIN before
  BY <1>0 DEF Outputs, Tree
<1>2. ASSUME NEW part \in Names \cap Part, NEW next, CopyArchive(part, next) PROVE sdk' \in Tree
  <2>1. store[part] \in Value
    BY <1>0
  <2> QED BY Zenon, <1>0, <1>2, <2>1, PutType DEF CopyArchive
<1>3. CASE \/ CopyArchive("google", "platform-tools") \/ CopyArchive("platform-tools", "install")
           \/ CopyArchive("ndk", "modes")
  BY Zenon, <1>2, <1>3 DEF Names, Producers, Part
<1>4. CASE RemoveSdk
  BY Zenon, <1>4, NoTreeFacts DEF RemoveSdk
<1>5. CASE InstallBuilt
  BY Zenon, <1>0, <1>1, <1>5, PutType DEF InstallBuilt, Part
<1>6. CASE NormaliseModes \/ Probe
  BY Zenon, <1>0, <1>6, PutType DEF NormaliseModes, Probe, Part
<1>7. CASE CleanupProbe
  <2>1. before["known"] \in Value
    BY <1>0 DEF Tree, Part
  <2> QED BY Zenon, <1>0, <1>7, <2>1, PutType DEF CleanupProbe, Restored, Part
<1>8. CASE Kill \/ Fail
  BY Zenon, <1>8, Interrupted, TornSdk
<1>9. CASE UNCHANGED sdk
  BY Zenon, <1>0, <1>9
<1> QED BY Zenon, <1>3, <1>4, <1>5, <1>6, <1>7, <1>8, <1>9, TreesChange

\* The archive, its checksum and the reference tree keep their types.
LEMMA RestStep ==
    ASSUME TypeOK, Next
    PROVE  zip' \in Tree /\ zipSum' \in Tree /\ reference' \in [google : File, reference : File]
<1>0. /\ sdk \in Tree /\ zip \in Tree /\ zipSum \in Tree /\ NoTree \in Tree
      /\ reference \in [google : File, reference : File]
  BY Zenon, TypeParts, NoTreeFacts DEF TreesOK
<1>1. CASE RemoveZip \/ PackZip \/ SumZip
  BY Zenon, <1>0, <1>1 DEF RemoveZip, PackZip, SumZip
<1>2. NoReference \in [google : File, reference : File]
  BY Values DEF NoReference
<1>3. CASE RemoveReference
  BY Zenon, <1>0, <1>2, <1>3 DEF RemoveReference
<1>4. CASE BuildReference
  <2>1. store["google"] \in File /\ store["reference"] \in File
    BY TypeParts DEF CacheOK, Names
  <2>2. [google |-> store["google"], reference |-> store["reference"]]
            \in [google : File, reference : File]
    BY <2>1
  <2> QED BY Zenon, <1>0, <1>4, <2>2 DEF BuildReference
<1>5. CASE Kill \/ Fail
  BY Zenon, <1>0, <1>5, Interrupted, TornRest
<1> QED BY Zenon, <1>0, <1>1, <1>3, <1>4, <1>5, TreesChange

\* Every step keeps the types.
LEMMA TypeStep == ASSUME TypeOK, Next PROVE TypeOK'
<1>1. source' \in Source
  <2>1. CASE Edited
    BY Zenon, <2>1 DEF Edited, EditSource, RestoreSource, Source
  <2>2. CASE UNCHANGED source
    BY Zenon, <2>2, TypeParts
  <2> QED BY Zenon, <2>1, <2>2, SourceChanges
<1>2. events' \in 0..MaxEvents
  <2>1. events \in 0..MaxEvents
    BY Zenon, TypeParts
  <2> QED BY <2>1, EventsChange, BuildAssumption DEF Event, Calm
<1>3. TreesOK'
  BY Zenon, BuiltStep, SdkStep, RestStep DEF TreesOK, Outputs
<1>4. (CacheOK /\ TreesOK /\ ControlOK /\ source \in Source /\ events \in 0..MaxEvents)'
  BY Zenon, <1>1, <1>2, <1>3, CacheStep, ControlStep
<1> QED BY Zenon, <1>4, TypeParts, LabelsOfTypes DEF TypeOK, CacheOK, TreesOK, ControlOK, File, Runs

-----------------------------------------------------------------------------
(* The steps between the commands: a run begins, the sources are edited, a *)
(* run ends without success.                                               *)

\* A run begins with the first command of a script and the trees as they are.
LEMMA BeginShape ==
    ASSUME Begun
    PROVE  /\ pc' \in {"fetch", "preflight", "rm_host", "snapshot", "rm_sdk", "rm_reference", "inputs"}
           /\ run'[1] = ScriptOf(pc') /\ at' = 1 /\ result' = "none"
           /\ pc' = "inputs" => before' = sdk
           /\ UNCHANGED trees /\ UNCHANGED <<store, sums>>
<1>1. CASE StartPipeline
  <2>1. run'[1] = "fetch" /\ pc' = "fetch"
    BY <1>1 DEF StartPipeline, Preflight, Given, Generated, Entry
  <2> QED BY Zenon, <1>1, <2>1 DEF StartPipeline, ScriptOf, Store!Begin
<1>2. CASE StartScript
  <2>1. PICK s \in Script : run' = <<s>> /\ pc' = Entry[s] /\ before' = Saved(s)
    BY Zenon, <1>2 DEF StartScript
  <2>2. run'[1] = s
    BY <2>1
  <2>3. pc' = "inputs" => before' = sdk
    BY Zenon, <2>1, Entries DEF Saved
  <2> QED BY Zenon, <1>2, <2>1, <2>2, <2>3, Entries DEF StartScript, Store!Begin, cache
<1> QED BY Zenon, <1>1, <1>2 DEF Begun

\* Nothing that a script relies on is claimed of its first command.
LEMMA Beginning == ASSUME IInv, Next, Begun PROVE IInv'
<1>1. TypeOK'
  BY Zenon, TypeStep DEF IInv
<1>2. pc' \notin AfterGoogle \cup {"google", "rm_tools", "tools", "gate", "idle", "probe", "cleanup", "archive"}
  BY BeginShape DEF AfterGoogle, AfterPlatformTools, AfterInstall, AfterNdk, Packing
<1>3. ScriptInv'
  BY Zenon, BeginShape DEF ScriptInv
<1>4. SourceInv' /\ AssemblyInv'
  BY Zenon, <1>2 DEF SourceInv, AssemblyInv, AfterGoogle, AfterPlatformTools, AfterInstall, AfterNdk
<1>5. ZipInv'
  BY Zenon, BeginShape DEF IInv, ZipInv, trees, Whole, Complete
<1>6. ValidateInv'
  BY Zenon, <1>2, BeginShape DEF ValidateInv, trees
<1>7. PipelineInv'
  BY BeginShape DEF PipelineInv
<1>8. ValidationLeavesTree' /\ ValidatedArchive'
  BY Zenon, BeginShape DEF ValidationLeavesTree, ValidatedArchive, Validated
<1> QED BY Zenon, <1>1, <1>3, <1>4, <1>5, <1>6, <1>7, <1>8 DEF IInv

\* Between runs no claim is made of the sources.
LEMMA Editing == ASSUME IInv, Next, Edited PROVE IInv'
<1>1. TypeOK'
  BY Zenon, TypeStep DEF IInv
<1>2. pc = "idle" /\ UNCHANGED <<store, sums, built, sdk, reference, zip, zipSum, run, at, result,
                                 before, given, disturbed, pc>>
  BY Zenon DEF Edited, EditSource, RestoreSource, cache, trees, frame
<1>3. ScriptInv' /\ ZipInv'
  BY Zenon, <1>2 DEF IInv, ScriptInv, ZipInv, Whole, Complete
<1>4. SourceInv' /\ AssemblyInv' /\ ValidateInv'
  BY <1>2 DEF SourceInv, AssemblyInv, ValidateInv, AfterGoogle, AfterPlatformTools, AfterInstall,
     AfterNdk, Packing
<1>5. PipelineInv'
  BY Zenon, <1>2 DEF IInv, PipelineInv, Stocked, Replaced, Store!Good, NdkTested, PreflightPasses,
     VerifyCached, FromThisRun
<1>6. ValidationLeavesTree' /\ ValidatedArchive'
  BY Zenon, <1>2 DEF IInv, ValidationLeavesTree, ValidatedArchive, Validated, Complete
<1> QED BY Zenon, <1>1, <1>3, <1>4, <1>5, <1>6 DEF IInv

\* A fetch in another shell leaves what a script relies on, except that the
\* producers' archives may be others than those that were tested or unpacked.
LEMMA Disturbing == ASSUME IInv, Next, OtherFetch PROVE IInv'
<1>1. TypeOK /\ TypeOK'
  BY Zenon, TypeStep DEF IInv
<1>2. /\ disturbed' = TRUE /\ \A n \in Names \ Producers : store'[n] = store[n]
      /\ UNCHANGED <<source, built, sdk, zip, zipSum, run, at, result, before, pc>>
  BY Zenon, <1>1, OtherShape
<1>3. ScriptInv' /\ SourceInv' /\ ZipInv' /\ ValidateInv'
  BY ZenonT(30), <1>2 DEF IInv, ScriptInv, SourceInv, ZipInv, Whole, Complete, ValidateInv, Accepted
<1>4. ValidationLeavesTree' /\ ValidatedArchive'
  BY Zenon, <1>2 DEF IInv, ValidationLeavesTree, ValidatedArchive, Validated, Complete
<1>5. /\ "google" \in Names \ Producers
      /\ "platform-tools" \in Producers /\ "ndk" \in Producers
  BY DEF Names, Producers
<1>6. AssemblyInv'
  BY Zenon, <1>2, <1>5 DEF IInv, AssemblyInv, Unpacked, Replaced, Installed
<1>7. ASSUME Stocked PROVE Stocked'
  BY Zenon, <1>2, <1>7 DEF Stocked, Replaced, Store!Good, Store!Genuine
<1>8. NdkTested'
  BY Zenon, <1>2 DEF NdkTested
<1>9. ASSUME FromThisRun PROVE FromThisRun'
  BY Zenon, <1>2, <1>9 DEF FromThisRun, Replaced
<1>10. PipelineInv'
  BY Zenon, <1>2, <1>7, <1>8, <1>9 DEF IInv, PipelineInv
<1> QED BY Zenon, <1>1, <1>3, <1>4, <1>6, <1>10 DEF IInv

\* The EXIT trap of validate-sdk.sh puts the tree back.
LEMMA RestoredTree ==
    ASSUME TypeOK, \A part \in Part \ {"known"} : sdk[part] = before[part]
    PROVE  Restored = before
  BY TypeParts DEF TreesOK, ControlOK, Restored, Put, Tree, Part

\* A command that refuses what it finds has not touched the archive; in
\* validate-sdk.sh it is one of the two that only read.
LEMMA Refused ==
    ASSUME Next, pc # "idle", Ended
    PROVE  \/ Kill \/ Fail
           \/ /\ UNCHANGED zip /\ pc \notin {"probe", "cleanup"}
              /\ pc \in {"inputs", "archive"} => UNCHANGED sdk
<1>1. pc' = "idle"
  BY Zenon DEF Ended
<1>2. CASE Begun \/ Edited
  BY Zenon, <1>2 DEF Begun, Edited, StartPipeline, StartScript, EditSource, RestoreSource
<1>3. CASE Fetch \/ Fetched \/ PreflightNdk
  BY <1>3 DEF Fetch, Fetched, PreflightNdk, trees
<1>11. CASE OtherFetch
  BY Zenon, <1>1, <1>11 DEF OtherFetch
<1>4. CASE CleanHost \/ BuildHost \/ VerifySnapshot
  BY <1>4 DEF CleanHost, BuildHost, VerifySnapshot, trees
<1>5. CASE CleanTools \/ BuildTools \/ GateTools
  BY <1>5 DEF CleanTools, BuildTools, GateTools
<1>6. CASE RemoveSdk \/ InstallBuilt \/ NormaliseModes
  BY <1>6 DEF RemoveSdk, InstallBuilt, NormaliseModes
<1>7. CASE \/ CopyArchive("google", "platform-tools") \/ CopyArchive("platform-tools", "install")
           \/ CopyArchive("ndk", "modes")
  BY <1>7 DEF CopyArchive
<1>8. CASE RemoveZip \/ PackZip \/ SumZip
  BY <1>1, <1>8 DEF RemoveZip, PackZip, SumZip, Go
<1>9. CASE RemoveReference \/ BuildReference
  BY <1>9 DEF RemoveReference, BuildReference
<1>10. CASE Validate
  BY <1>1, <1>10 DEF Validate, ValidateInputs, Probe, CleanupProbe, CompareArchive, Go, trees
<1> QED
  BY Zenon, <1>2, <1>3, <1>4, <1>5, <1>6, <1>7, <1>8, <1>9, <1>10, <1>11
  DEF Next, Step, Assemble, Begun, Edited

\* A run that fails or is killed leaves the old archive, if any, and a failing
\* validate-sdk.sh the tree it was given.
LEMMA Ending == ASSUME IInv, Next, pc # "idle", Ended PROVE IInv'
<1>1. TypeOK /\ TypeOK'
  BY Zenon, TypeStep DEF IInv
<1>2. pc' = "idle" /\ result' \in {"failed", "killed"} /\ UNCHANGED <<run, at, before, given>>
  BY Zenon DEF Ended
<1>3. zip' \in {zip, NoTree}
  BY Zenon, <1>1, Refused, Interrupted, TornRest
<1>4. ZipInv'
  BY Zenon, <1>3 DEF IInv, ZipInv, Whole, Complete
<1>5. ASSUME result' = "failed", run[at] = "validate" PROVE sdk' = before
  <2>1. ScriptOf(pc) = "validate" /\ pc \in Labels
    BY Zenon, <1>1, <1>5, TypeParts DEF IInv, ScriptInv, ControlOK
  <2>2. pc \in {"inputs", "probe", "cleanup", "archive"}
    BY <2>1 DEF ScriptOf, Labels
  <2>3. CASE Kill
    BY <1>5, <2>3 DEF Kill
  <2>4. CASE Fail /\ pc \in {"probe", "cleanup"}
    <3>1. \A part \in Part \ {"known"} : sdk[part] = before[part]
      BY Zenon, <2>4 DEF IInv, ValidateInv
    <3> QED BY Zenon, <1>1, <2>4, <3>1, RestoredTree DEF Fail
  <2>5. CASE Fail /\ pc \in {"inputs", "archive"}
    <3>1. Torn /\ sdk = before
      BY <2>5 DEF IInv, ValidateInv, Fail
    <3> QED BY <1>1, <2>5, <3>1, TornSdk
  <2>6. CASE pc \in {"inputs", "archive"} /\ UNCHANGED sdk
    BY Zenon, <2>6 DEF IInv, ValidateInv
  <2> QED BY Zenon, <2>2, <2>3, <2>4, <2>5, <2>6, Refused
<1>6. ScriptInv' /\ SourceInv' /\ AssemblyInv' /\ ValidateInv' /\ PipelineInv'
  BY <1>2 DEF ScriptInv, SourceInv, AssemblyInv, ValidateInv, PipelineInv, AfterGoogle,
     AfterPlatformTools, AfterInstall, AfterNdk, Packing
<1>7. ValidationLeavesTree' /\ ValidatedArchive'
  BY <1>2, <1>5 DEF ValidationLeavesTree, ValidatedArchive, Validated
<1> QED BY Zenon, <1>1, <1>4, <1>6, <1>7 DEF IInv

-----------------------------------------------------------------------------
(* A script ends with success. *)

\* The next script starts, or the run is over.
LEMMA LeaveShape ==
    ASSUME IInv, Advance
    PROVE  \/ /\ at < Len(run) /\ at' = at + 1 /\ run'[at'] = ScriptOf(pc')
              /\ pc' \in {"fetch", "preflight", "rm_host", "snapshot", "rm_sdk", "rm_reference", "inputs"}
              /\ pc' = "inputs" => before' = sdk
              /\ UNCHANGED <<run, result, given, disturbed>>
           \/ /\ at = Len(run) /\ pc' = "idle" /\ result' = "ok"
              /\ UNCHANGED <<run, at, before, given, disturbed>>
<1>0. run \in Runs /\ at \in 1..Len(run) /\ Len(run) \in 1..7
  <2>1. run \in Runs /\ at \in 1..Len(run)
    BY Zenon, TypeParts DEF IInv, ControlOK
  <2> QED BY Zenon, <2>1, RunScripts
<1>1. CASE at < Len(run)
  <2>1. /\ at' = at + 1 /\ pc' = Entry[run[at + 1]] /\ before' = Saved(run[at + 1])
        /\ UNCHANGED <<run, result, given, disturbed>>
    BY Zenon, <1>1 DEF Advance, Leave
  <2>2. at + 1 \in 1..Len(run)
    BY <1>0, <1>1
  <2>3. run[at + 1] \in Script
    BY Zenon, <1>0, <2>2, RunScripts
  <2>4. pc' = "inputs" => before' = sdk
    BY Zenon, <2>1, <2>3, Entries DEF Saved
  <2> QED BY Zenon, <1>1, <2>1, <2>3, <2>4, Entries
<1>2. CASE ~(at < Len(run))
  <2>1. pc' = "idle" /\ result' = "ok" /\ UNCHANGED <<run, at, before, given, disturbed>>
    BY Zenon, <1>2 DEF Advance, Leave
  <2>2. at = Len(run)
    BY <1>0, <1>2
  <2> QED BY Zenon, <2>1, <2>2
<1> QED BY Zenon, <1>1, <1>2

\* A script that ends with success moves on or reports it.
LEMMA LeaveMoves ==
    ASSUME TypeOK, Leave
    PROVE  ~(UNCHANGED at /\ (pc' # "idle" \/ result' # "ok"))
<1>1. at \in Nat
  BY TypeParts DEF ControlOK
<1> QED BY <1>1 DEF Leave

\* What the last command of each script has established.
LEMMA Successful ==
    ASSUME TypeOK, Next, Advance
    PROVE  /\ pc \in {"fetch", "preflight", "host", "gate", "sum", "reference", "archive"}
           /\ UNCHANGED <<store, sums, sdk, zip>>
           /\ pc = "fetch" => \A n \in Asked : Store!Good(n)
           /\ pc = "preflight" => PreflightPasses
           /\ pc = "host" => built'.host \in {store["host"], "defective"}
           /\ pc # "host" => UNCHANGED built
           /\ pc = "archive" => zip = sdk /\ UNCHANGED zipSum
<1>0. ~(UNCHANGED at /\ (pc' # "idle" \/ result' # "ok"))
  BY Zenon, LeaveMoves DEF Advance
<1>1. CASE Fetched
  BY Zenon, <1>1 DEF Fetched, Store!Announce, trees
<1>2. CASE PreflightNdk
  BY Zenon, <1>0, <1>2 DEF PreflightNdk, Die, cache, trees
<1>3. CASE BuildHost
  <2>1. ~Die
    BY Zenon, <1>0 DEF Die
  <2>2. /\ pc = "host" /\ UNCHANGED <<store, sums, sdk, zip>>
        /\ built' \in {[built EXCEPT !.host = store["host"]], [built EXCEPT !.host = "defective"]}
    BY Zenon, <1>3, <2>1 DEF BuildHost, cache
  <2>3. built \in Outputs /\ store["host"] \in Value /\ "defective" \in Value
    <3>1. store["host"] \in File
      BY TypeParts DEF CacheOK, Names
    <3> QED BY Zenon, <3>1, TypeParts, Values DEF TreesOK, Outputs
  <2>4. built'.host \in {store["host"], "defective"}
    BY Zenon, <2>2, <2>3, BuiltFacts
  <2> QED BY <2>2, <2>4
<1>4. CASE GateTools
  BY Zenon, <1>0, <1>4 DEF GateTools, Die, cache
<1>5. CASE SumZip
  BY Zenon, <1>5 DEF SumZip, cache
<1>6. CASE BuildReference
  BY Zenon, <1>6 DEF BuildReference, cache
<1>7. CASE CompareArchive
  BY Zenon, <1>0, <1>7 DEF CompareArchive, Die, cache, trees
<1>8. CASE Begun \/ Edited
  BY Zenon, <1>8 DEF Advance, Begun, Edited, StartPipeline, StartScript, EditSource, RestoreSource
<1>9. CASE \/ Fetch \/ CleanHost \/ CleanTools \/ BuildTools \/ RemoveSdk \/ NormaliseModes
           \/ RemoveZip \/ PackZip \/ RemoveReference \/ Probe \/ CleanupProbe
  BY <1>0, <1>9 DEF Fetch, CleanHost, CleanTools, BuildTools, RemoveSdk, NormaliseModes, RemoveZip,
     PackZip, RemoveReference, Probe, CleanupProbe, Go, frame
<1>10. CASE VerifySnapshot \/ ValidateInputs
  BY <1>0, <1>10 DEF VerifySnapshot, ValidateInputs, Go, Die, frame
<1>11. CASE \/ CopyArchive("google", "platform-tools") \/ CopyArchive("platform-tools", "install")
            \/ CopyArchive("ndk", "modes") \/ InstallBuilt
  BY <1>0, <1>11 DEF CopyArchive, InstallBuilt, Go, Die, frame
<1>12. CASE Kill \/ Fail
  BY <1>0, <1>12 DEF Kill, Fail, Die
<1>13. CASE OtherFetch
  BY Zenon, <1>0, <1>13 DEF OtherFetch, Advance
<1> QED
  BY Zenon, <1>1, <1>2, <1>3, <1>4, <1>5, <1>6, <1>7, <1>8, <1>9, <1>10, <1>11, <1>12, <1>13
  DEF Next, Step, Assemble, Validate, Begun, Edited

\* The archives that every pipeline asks for.
LEMMA StockFacts ==
    /\ Names \ {"reference"} \subseteq Asked
    /\ Stocked => /\ store["google"] = Pin /\ store["host"] = Pin
                  /\ \/ disturbed = TRUE
                     \/ \A p \in Producers : store[p] \in Builds /\ sums[p] = store[p]
<1>1. Names \ {"reference"} \subseteq Asked
  BY Zenon DEF Asked
<1>2. ASSUME Stocked, NEW n \in {"google", "host"} PROVE store[n] = Pin
  <2>1. n \in Names \ Producers /\ n # "reference"
    BY DEF Names, Producers
  <2>2. Store!Genuine(n) = {Pin}
    BY <2>1 DEF Store!Genuine
  <2> QED BY Zenon, <1>2, <2>1, <2>2 DEF Stocked, Replaced, Store!Good
<1>3. ASSUME Stocked, disturbed # TRUE, NEW p \in Producers
      PROVE  store[p] \in Builds /\ sums[p] = store[p]
  <2>1. p \in Names \ {"reference"}
    BY DEF Names, Producers
  <2> QED BY Zenon, <1>3, <2>1, GenuineType DEF Stocked, Replaced, Store!Good
<1> QED BY Zenon, <1>1, <1>2, <1>3

\* What the script that ends hands to the next one.
LEMMA HandsOver == ASSUME IInv, Next, Advance PROVE PipelineInv'
<1> SUFFICES ASSUME Len(run') > 1, result' \in {"none", "ok"}
             PROVE  /\ at' > 1 => Stocked'
                    /\ at' > 2 => NdkTested'
                    /\ at' > 3 => built'.host \in {Pin, "defective"}
                    /\ at' > 4 => built'.tools \in {"recorded", "defective"}
                    /\ at' > 5 => FromThisRun'
  BY Zenon DEF PipelineInv
<1>1. /\ run \in Runs /\ at \in 1..Len(run) /\ run[at] = ScriptOf(pc) /\ result = "none"
      /\ TypeOK
  BY Zenon, TypeParts DEF IInv, ControlOK, ScriptInv, Advance
<1>2. Len(run) > 1 /\ at' \in {at, at + 1} /\ at \in Nat
  BY <1>1, LeaveShape
<1>0. UNCHANGED disturbed
  BY Zenon, LeaveShape
<1>3. /\ at > 1 => Stocked
      /\ at > 2 => NdkTested
      /\ at > 3 => built.host \in {Pin, "defective"}
      /\ at > 4 => built.tools \in {"recorded", "defective"}
      /\ at > 5 => FromThisRun
  BY Zenon, <1>1, <1>2 DEF IInv, PipelineInv
<1>4. /\ at = 1 <=> pc = "fetch"
      /\ at = 2 <=> pc = "preflight"
      /\ at = 3 <=> pc = "host"
      /\ at = 4 <=> pc = "gate"
      /\ at = 5 <=> pc = "sum"
  <2>1. /\ run[at] = "fetch" <=> at = 1
        /\ run[at] = "preflight" <=> at = 2
        /\ run[at] = "cmake" <=> at = 3
        /\ run[at] = "tools" <=> at = 4
        /\ run[at] = "assemble" <=> at = 5
    BY Zenon, <1>1, <1>2, Position
  <2>2. pc \in {"fetch", "preflight", "host", "gate", "sum", "reference", "archive"}
    BY Zenon, <1>1, Successful
  <2> QED BY <1>1, <2>1, <2>2 DEF ScriptOf
<1>5. UNCHANGED <<store, sums, sdk, zip>>
  BY Zenon, <1>1, Successful
<1>6. at >= 1 => Stocked
  <2>1. CASE at = 1
    BY Zenon, <1>1, <1>4, <2>1, Successful, StockFacts DEF Stocked
  <2> QED BY <1>2, <1>3, <2>1
<1>7. at >= 2 => NdkTested
  <2>1. CASE at = 2
    BY Zenon, <1>1, <1>4, <2>1, Successful DEF NdkTested
  <2> QED BY <1>2, <1>3, <2>1
<1>8. at >= 3 => built'.host \in {Pin, "defective"}
  <2>1. CASE at = 3
    <3>1. built'.host \in {store["host"], "defective"}
      BY Zenon, <1>1, <1>4, <2>1, Successful
    <3>2. Stocked
      BY <1>6, <2>1
    <3> QED BY Zenon, <3>1, <3>2, StockFacts
  <2>2. CASE at > 3
    <3>1. UNCHANGED built
      BY <1>1, <1>4, <2>2, Successful
    <3> QED BY Zenon, <1>3, <2>2, <3>1
  <2> QED BY <1>2, <2>1, <2>2
<1>9. at >= 4 => UNCHANGED built /\ built.tools \in {"recorded", "defective"}
  <2>1. CASE at = 4
    BY Zenon, <1>1, <1>4, <2>1, Successful DEF IInv, SourceInv
  <2>2. CASE at > 4
    <3>1. UNCHANGED built
      BY <1>1, <1>4, <2>2, Successful
    <3> QED BY Zenon, <1>3, <2>2, <3>1
  <2> QED BY <1>2, <2>1, <2>2
<1>10. at >= 5 => FromThisRun
  <2>1. CASE at = 5
    <3>1. /\ Unpacked("google") /\ Unpacked("platform-tools") /\ Unpacked("ndk") /\ Installed
      BY <1>4, <2>1 DEF IInv, AssemblyInv, AfterGoogle, AfterPlatformTools, AfterInstall, AfterNdk, Packing
    <3>2. /\ Stocked /\ built.host \in {Pin, "defective"}
          /\ built.tools \in {"recorded", "defective"}
      BY <1>3, <2>1
    <3>3. \A p \in Producers : Unpacked(p)
      BY <3>1 DEF Producers
    <3>4. ~Replaced("google")
      BY DEF Replaced, Producers
    <3> QED BY Zenon, <3>1, <3>2, <3>3, <3>4, StockFacts DEF FromThisRun, Unpacked, Installed
  <2> QED BY <1>2, <1>3, <2>1
<1>11. Stocked => Stocked'
  BY Zenon, <1>0, <1>5 DEF Stocked, Replaced, Store!Good, Store!Genuine
<1>12. NdkTested => NdkTested'
  BY Zenon, <1>0, <1>5 DEF NdkTested, PreflightPasses, VerifyCached
<1>13. FromThisRun => FromThisRun'
  BY Zenon, <1>0, <1>5 DEF FromThisRun, Replaced
<1> QED BY <1>2, <1>6, <1>7, <1>8, <1>9, <1>10, <1>11, <1>12, <1>13

\* The successful end of a script keeps the invariant; that of validate-sdk.sh
\* establishes what it reports.
LEMMA Leaving == ASSUME IInv, Next, Advance PROVE IInv'
<1>1. TypeOK /\ TypeOK' /\ pc # "idle" /\ result = "none" /\ run[at] = ScriptOf(pc)
  BY Zenon, TypeStep DEF IInv, ScriptInv, Advance
<1>2. UNCHANGED <<sdk, zip>>
  BY Zenon, <1>1, Successful
<1>3. \/ pc' \in {"fetch", "preflight", "rm_host", "snapshot", "rm_sdk", "rm_reference", "inputs"}
         /\ (pc' = "inputs" => before' = sdk) /\ result' = "none" /\ run'[at'] = ScriptOf(pc')
      \/ pc' = "idle" /\ result' = "ok" /\ at = Len(run) /\ UNCHANGED <<run, at, before, given>>
  BY Zenon, <1>1, LeaveShape
<1>4. ScriptInv'
  BY <1>3 DEF ScriptInv
<1>5. pc' \notin AfterGoogle \cup {"google", "rm_tools", "tools", "gate", "probe", "cleanup", "archive"}
  BY <1>3 DEF AfterGoogle, AfterPlatformTools, AfterInstall, AfterNdk, Packing
<1>6. SourceInv' /\ AssemblyInv'
  BY Zenon, <1>5 DEF SourceInv, AssemblyInv, AfterGoogle, AfterPlatformTools, AfterInstall, AfterNdk
<1>7. ZipInv'
  BY Zenon, <1>2 DEF IInv, ZipInv, Whole, Complete
<1>8. ValidateInv'
  <2>1. pc' = "inputs" => sdk' = before'
    BY <1>2, <1>3
  <2> QED BY Zenon, <1>5, <2>1 DEF ValidateInv
<1>9. ASSUME pc' = "idle", run[at] = "validate"
      PROVE  sdk = before /\ Accepted(before) /\ zip = sdk /\ UNCHANGED zipSum
  <2>1. pc = "archive"
    <3>1. pc \in {"fetch", "preflight", "host", "gate", "sum", "reference", "archive"}
      BY Zenon, <1>1, Successful
    <3> QED BY <1>1, <1>9, <3>1 DEF ScriptOf
  <2> QED BY Zenon, <1>1, <2>1, Successful DEF IInv, ValidateInv
<1>10. ValidationLeavesTree'
  BY Zenon, <1>2, <1>3, <1>9 DEF ValidationLeavesTree
<1>11. ValidatedArchive'
  <2>1. CASE ~Validated'
    BY Zenon, <2>1 DEF ValidatedArchive
  <2>2. CASE Validated'
    BY Zenon, <1>2, <1>3, <1>9, <2>2 DEF ValidatedArchive, Validated, Accepted, Complete
  <2> QED BY Zenon, <2>1, <2>2
<1> QED BY Zenon, <1>1, <1>4, <1>6, <1>7, <1>8, <1>10, <1>11, HandsOver DEF IInv

-----------------------------------------------------------------------------
(* A script goes on to its next command. *)

\* The commands after which the same script goes on.
LEMMA Continued ==
    ASSUME TypeOK, Next, Within
    PROVE  \/ Fetch \/ CleanHost \/ VerifySnapshot \/ CleanTools \/ BuildTools
           \/ RemoveSdk \/ CopyArchive("google", "platform-tools")
           \/ CopyArchive("platform-tools", "install") \/ InstallBuilt
           \/ CopyArchive("ndk", "modes") \/ NormaliseModes \/ RemoveZip \/ PackZip
           \/ RemoveReference \/ ValidateInputs \/ Probe \/ CleanupProbe
<1>1. pc # "idle" /\ pc' # "idle" /\ UNCHANGED at
  BY Zenon DEF Within, frame
<1>2. ~Leave /\ ~Die
  BY Zenon, <1>1, LeaveMoves DEF Die
<1>3. ~Begun /\ ~Edited /\ ~Kill /\ ~Fail
  BY Zenon, <1>1 DEF Begun, Edited, StartPipeline, StartScript, EditSource, RestoreSource, Kill, Fail, Die
<1>4. ~Fetched /\ ~PreflightNdk /\ ~BuildHost /\ ~GateTools /\ ~SumZip /\ ~BuildReference /\ ~CompareArchive
  BY Zenon, <1>2 DEF Fetched, PreflightNdk, BuildHost, GateTools, SumZip, BuildReference, CompareArchive
<1> QED BY Zenon, <1>3, <1>4 DEF Next, Step, Assemble, Validate, Begun, Edited, Within

\* Which script may change what while a run goes on.
LEMMA WithinChanges ==
    ASSUME TypeOK, Next, Within
    PROVE  /\ UNCHANGED <<store, sums>> \/ ScriptOf(pc) = "fetch"
           /\ \/ UNCHANGED built \/ ScriptOf(pc) = "cmake"
              \/ ScriptOf(pc) = "tools" /\ built'.host = built.host
           /\ \/ ScriptOf(pc) = "assemble"
              \/ \A part \in Part \ {"known"} : sdk'[part] = sdk[part]
<1>0. built \in Outputs /\ sdk \in Tree /\ before \in Tree /\ store \in [Names -> File] /\ source \in Value
  BY Zenon, TypeParts, Values DEF TreesOK, Outputs, CacheOK, ControlOK
<1>1. UNCHANGED <<store, sums>> \/ ScriptOf(pc) = "fetch"
  BY Zenon, CacheChanges DEF Fetch, ScriptOf, Within
<1>2. \/ UNCHANGED built \/ ScriptOf(pc) = "cmake"
      \/ ScriptOf(pc) = "tools" /\ built'.host = built.host
  <2>1. CASE CleanHost
    BY <2>1 DEF CleanHost, ScriptOf
  <2>2. CASE CleanTools \/ BuildTools
    <3>1. ScriptOf(pc) = "tools"
      BY <2>2 DEF CleanTools, BuildTools, ScriptOf
    <3>2. built'.host = built.host
      <4>1. PICK v \in Value : built' = [built EXCEPT !.tools = v]
        BY Zenon, <1>0, <2>2, Values DEF CleanTools, BuildTools
      <4> QED BY <1>0, <4>1 DEF Outputs
    <3> QED BY <3>1, <3>2
  <2>3. ~BuildHost /\ ~GateTools /\ ~Kill /\ ~Fail
    <3>1. pc # "idle" /\ pc' # "idle" /\ UNCHANGED at
      BY Zenon DEF Within, frame
    <3>2. ~Leave /\ ~Die
      BY Zenon, <3>1, LeaveMoves DEF Die
    <3> QED BY Zenon, <3>1, <3>2 DEF BuildHost, GateTools, Kill, Fail
  <2> QED BY Zenon, <2>1, <2>2, <2>3, TreesChange
<1>3. \/ ScriptOf(pc) = "assemble"
      \/ \A part \in Part \ {"known"} : sdk'[part] = sdk[part]
  <2>1. CASE Probe \/ CleanupProbe
    <3>1. Pin \in Value /\ before["known"] \in Value /\ "known" \in Part
      BY <1>0, Values DEF Tree, Part
    <3>2. PICK v \in Value : sdk' = sdk \/ sdk' = Put(sdk, "known", v)
      BY Zenon, <2>1, <3>1 DEF Probe, CleanupProbe, Restored
    <3> QED BY <1>0, <3>1, <3>2 DEF Put, Tree
  <2>2. CASE RemoveSdk \/ InstallBuilt \/ NormaliseModes
    BY <2>2 DEF RemoveSdk, InstallBuilt, NormaliseModes, ScriptOf
  <2>3. CASE \/ CopyArchive("google", "platform-tools") \/ CopyArchive("platform-tools", "install")
             \/ CopyArchive("ndk", "modes")
    BY <2>3 DEF CopyArchive, ScriptOf
  <2>4. CASE Kill \/ Fail
    BY Zenon, <2>4 DEF Within, Kill, Fail, Die
  <2> QED BY Zenon, <2>1, <2>2, <2>3, <2>4, TreesChange
<1> QED BY Zenon, <1>1, <1>2, <1>3

\* A script in the middle of a pipeline leaves alone what the ones before it
\* have established.
LEMMA PipelineKept == ASSUME IInv, Next, Within PROVE PipelineInv'
<1> SUFFICES ASSUME Len(run') > 1
             PROVE  /\ at' > 1 => Stocked'
                    /\ at' > 2 => NdkTested'
                    /\ at' > 3 => built'.host \in {Pin, "defective"}
                    /\ at' > 4 => built'.tools \in {"recorded", "defective"}
                    /\ at' > 5 => FromThisRun'
  BY Zenon DEF PipelineInv
<1>1. /\ run \in Runs /\ at \in 1..Len(run) /\ run[at] = ScriptOf(pc) /\ result = "none"
      /\ TypeOK /\ UNCHANGED <<run, at, result, disturbed>> /\ Len(run) > 1
  BY Zenon, TypeParts DEF IInv, ControlOK, ScriptInv, Within, frame
<1>2. /\ at > 1 => Stocked
      /\ at > 2 => NdkTested
      /\ at > 3 => built.host \in {Pin, "defective"}
      /\ at > 4 => built.tools \in {"recorded", "defective"}
      /\ at > 5 => FromThisRun
  BY Zenon, <1>1 DEF IInv, PipelineInv
<1>3. /\ ScriptOf(pc) = "fetch" <=> at = 1
      /\ ScriptOf(pc) = "cmake" <=> at = 3
      /\ ScriptOf(pc) = "tools" <=> at = 4
      /\ ScriptOf(pc) = "assemble" <=> at = 5
      /\ at \in Nat
  BY <1>1, Position
<1>4. at > 1 => UNCHANGED <<store, sums>>
  BY <1>1, <1>3, WithinChanges
<1>5. at > 3 => built'.host = built.host
  BY <1>1, <1>3, WithinChanges
<1>6. at > 4 => built'.tools = built.tools
  BY <1>1, <1>3, WithinChanges
<1>7. at > 5 => \A part \in Part \ {"known"} : sdk'[part] = sdk[part]
  BY <1>1, <1>3, WithinChanges
<1>8. Stocked /\ UNCHANGED <<store, sums>> => Stocked'
  BY Zenon, <1>1 DEF Stocked, Replaced, Store!Good, Store!Genuine
<1>9. NdkTested /\ UNCHANGED <<store, sums>> => NdkTested'
  BY Zenon, <1>1 DEF NdkTested, PreflightPasses, VerifyCached
<1>10. FromThisRun /\ UNCHANGED <<store, sums>> /\ (\A part \in Part \ {"known"} : sdk'[part] = sdk[part])
           => FromThisRun'
  <2>1. /\ Producers \subseteq Part \ {"known"}
        /\ {"google", "host", "tools"} \subseteq Part \ {"known"}
    BY DEF Part, Producers
  <2> QED BY Zenon, <1>1, <2>1 DEF FromThisRun, Replaced
<1> QED BY <1>1, <1>2, <1>3, <1>4, <1>5, <1>6, <1>7, <1>8, <1>9, <1>10

\* A script goes on if its next command finds what it relies on.
LEMMA Going ==
    ASSUME IInv, Next, Within, SourceInv', AssemblyInv', ZipInv', ValidateInv'
    PROVE  IInv'
<1>1. TypeOK'
  BY Zenon, TypeStep DEF IInv
<1>2. /\ pc' # "idle" /\ result' = "none" /\ run'[at'] = ScriptOf(pc')
  BY Zenon DEF Within, frame, IInv, ScriptInv
<1>3. ScriptInv' /\ ValidationLeavesTree' /\ ValidatedArchive'
  BY <1>2 DEF ScriptInv, ValidationLeavesTree, ValidatedArchive, Validated
<1> QED BY Zenon, <1>1, <1>3, PipelineKept DEF IInv

\* A command outside assemble-sdk.sh and validate-sdk.sh makes no claim of dist/.
LEMMA GoingOutside ==
    ASSUME IInv, Next, Within, UNCHANGED <<sdk, zip, zipSum>>, SourceInv',
           ScriptOf(pc') \in {"fetch", "cmake", "tools", "reference"}
    PROVE  IInv'
<1>1. AssemblyInv' /\ ValidateInv'
  BY DEF AssemblyInv, ValidateInv, ScriptOf, AfterGoogle, AfterPlatformTools, AfterInstall, AfterNdk, Packing
<1>2. ZipInv'
  BY Zenon DEF IInv, ZipInv, Whole, Complete
<1> QED BY Zenon, <1>1, <1>2, Going

\* fetch-sources.sh, build-cmake.sh, build-build-tools.sh and
\* assemble-reference-sdk.sh up to their last commands.
LEMMA OtherCommands ==
    ASSUME IInv, Next, Within,
           Fetch \/ CleanHost \/ VerifySnapshot \/ CleanTools \/ BuildTools \/ RemoveReference
    PROVE  IInv'
<1>0. UNCHANGED <<sdk, zip, zipSum>> /\ UNCHANGED source
  BY Zenon DEF Fetch, CleanHost, VerifySnapshot, CleanTools, BuildTools, RemoveReference, trees
<1>1. CASE Fetch \/ CleanHost \/ RemoveReference
  <2>1. pc' \in {"fetch", "host", "reference"}
    BY Zenon, <1>1 DEF Fetch, CleanHost, RemoveReference, Go
  <2>2. SourceInv' /\ ScriptOf(pc') \in {"fetch", "cmake", "reference"}
    BY <2>1 DEF SourceInv, ScriptOf
  <2> QED BY Zenon, <1>0, <2>2, GoingOutside
<1>2. CASE VerifySnapshot
  <2>1. pc' = "rm_tools" /\ source = "recorded"
    BY Zenon, <1>2 DEF VerifySnapshot, Go, Die, Within
  <2>2. SourceInv' /\ ScriptOf(pc') = "tools"
    BY <1>0, <2>1 DEF SourceInv, ScriptOf
  <2> QED BY Zenon, <1>0, <2>2, GoingOutside
<1>3. CASE CleanTools
  <2>1. pc' = "tools" /\ source = "recorded"
    BY Zenon, <1>3 DEF CleanTools, Go, IInv, SourceInv
  <2>2. SourceInv' /\ ScriptOf(pc') = "tools"
    BY <1>0, <2>1 DEF SourceInv, ScriptOf
  <2> QED BY Zenon, <1>0, <2>2, GoingOutside
<1>4. CASE BuildTools
  <2>1. pc' = "gate" /\ source = "recorded"
    BY Zenon, <1>4 DEF BuildTools, Go, IInv, SourceInv
  <2>2. built'.tools \in {"recorded", "defective"}
    <3>1. built \in Outputs /\ "recorded" \in Value /\ "defective" \in Value
      BY Zenon, TypeParts, Values DEF IInv, TreesOK, Outputs, Source
    <3>2. \/ built' = [built EXCEPT !.tools = "recorded"]
          \/ built' = [built EXCEPT !.tools = "defective"]
      BY Zenon, <1>4, <2>1 DEF BuildTools
    <3> QED BY <3>1, <3>2 DEF Outputs
  <2>3. SourceInv' /\ ScriptOf(pc') = "tools"
    BY <1>0, <2>1, <2>2 DEF SourceInv, ScriptOf
  <2> QED BY Zenon, <1>0, <2>3, GoingOutside
<1> QED BY Zenon, <1>1, <1>2, <1>3, <1>4

\* A command of assemble-sdk.sh makes no claim of the sources or the validation.
LEMMA GoingAssembling ==
    ASSUME IInv, Next, Within, ScriptOf(pc') = "assemble", zip' \in {zip, NoTree} \/ Whole(zip'),
           AssemblyInv'
    PROVE  IInv'
<1>1. SourceInv' /\ ValidateInv'
  BY DEF SourceInv, ValidateInv, ScriptOf
<1>2. ZipInv'
  BY Zenon DEF IInv, ZipInv, Whole, Complete
<1> QED BY Zenon, <1>1, <1>2, Going

\* assemble-sdk.sh unpacks an archive and goes on.
LEMMA Unpacking ==
    ASSUME TypeOK, NEW part \in Names \cap Part, NEW next, CopyArchive(part, next), pc' # "idle"
    PROVE  /\ pc = part /\ pc' = next /\ Unpacked(part)'
           /\ UNCHANGED <<store, built, zip, disturbed>>
           /\ \A q \in Part \ {part} : sdk'[q] = sdk[q]
<1>1. /\ pc = part /\ pc' = next /\ sdk' = Put(sdk, part, store[part])
      /\ store[part] \notin {Absent, Junk} /\ UNCHANGED <<store, built, zip, disturbed>>
  BY Zenon DEF CopyArchive, Die, Go, cache, frame
<1>4. store[part] \in Builds
  BY <1>1, TypeParts DEF CacheOK, File, Builds
<1>2. sdk \in Tree /\ store[part] \in Value
  <2>1. store[part] \in File
    BY TypeParts DEF CacheOK
  <2> QED BY Zenon, <2>1, TypeParts, Values DEF TreesOK
<1>3. sdk'[part] = store[part] /\ \A q \in Part \ {part} : sdk'[q] = sdk[q]
  BY <1>1, <1>2, PutFacts
<1> QED BY Zenon, <1>1, <1>3, <1>4 DEF Unpacked

\* The commands of assemble-sdk.sh that fill the new tree.
LEMMA FillingCommands ==
    ASSUME IInv, Next, Within,
           \/ RemoveSdk \/ CopyArchive("google", "platform-tools")
           \/ CopyArchive("platform-tools", "install") \/ InstallBuilt
           \/ CopyArchive("ndk", "modes") \/ NormaliseModes
    PROVE  IInv'
<1> USE DEF AfterGoogle, AfterPlatformTools, AfterInstall, AfterNdk, Packing
<1>0. /\ TypeOK /\ AssemblyInv /\ pc' # "idle" /\ sdk \in Tree /\ built \in Outputs
      /\ "google" \in Names \cap Part /\ "platform-tools" \in Names \cap Part
      /\ "ndk" \in Names \cap Part /\ "host" \in Part /\ "tools" \in Part /\ "modes" \in Part
      /\ "known" \in Part /\ UNCHANGED disturbed
  BY Zenon, TypeParts DEF IInv, Within, frame, TreesOK, Outputs, Names, Producers, Part
<1>1. CASE RemoveSdk
  <2>1. pc' = "google" /\ sdk' = NoTree /\ UNCHANGED zip
    BY Zenon, <1>1 DEF RemoveSdk, Go
  <2>2. AssemblyInv' /\ ScriptOf(pc') = "assemble"
    BY <1>0, <2>1, NoTreeFacts DEF AssemblyInv, ScriptOf
  <2> QED BY Zenon, <2>1, <2>2, GoingAssembling
<1>2. CASE CopyArchive("google", "platform-tools")
  <2>1. /\ pc = "google" /\ pc' = "platform-tools" /\ Unpacked("google")' /\ UNCHANGED zip
        /\ \A q \in Part \ {"google"} : sdk'[q] = sdk[q]
    BY Zenon, <1>0, <1>2, Unpacking
  <2>2. AssemblyInv' /\ ScriptOf(pc') = "assemble"
    BY <1>0, <2>1 DEF AssemblyInv, ScriptOf
  <2> QED BY Zenon, <2>1, <2>2, GoingAssembling
<1>3. CASE CopyArchive("platform-tools", "install")
  <2>1. /\ pc = "platform-tools" /\ pc' = "install" /\ Unpacked("platform-tools")'
        /\ UNCHANGED <<store, zip>> /\ \A q \in Part \ {"platform-tools"} : sdk'[q] = sdk[q]
    BY Zenon, <1>0, <1>3, Unpacking
  <2>2. sdk'["known"] = Absent /\ Unpacked("google")'
    BY <1>0, <2>1 DEF AssemblyInv, Unpacked, Replaced
  <2>3. AssemblyInv' /\ ScriptOf(pc') = "assemble"
    BY <2>1, <2>2 DEF AssemblyInv, ScriptOf
  <2> QED BY Zenon, <2>1, <2>3, GoingAssembling
<1>4. CASE InstallBuilt
  <2>1. /\ pc = "install" /\ pc' = "ndk" /\ UNCHANGED <<store, zip, built>>
        /\ Absent \notin {built.host, built.tools}
        /\ sdk' = Put(Put(sdk, "host", built.host), "tools", built.tools)
    BY Zenon, <1>0, <1>4 DEF InstallBuilt, Die, Go, cache
  <2>2. /\ sdk'["host"] = built.host /\ sdk'["tools"] = built.tools
        /\ \A q \in Part \ {"host", "tools"} : sdk'[q] = sdk[q]
    BY <1>0, <2>1 DEF Put, Tree
  <2>3. Installed'
    BY Zenon, <2>1, <2>2 DEF Installed
  <2>4. sdk'["known"] = Absent /\ Unpacked("google")' /\ Unpacked("platform-tools")'
    BY <1>0, <2>1, <2>2 DEF AssemblyInv, Unpacked, Replaced
  <2>5. AssemblyInv' /\ ScriptOf(pc') = "assemble"
    BY <2>1, <2>3, <2>4 DEF AssemblyInv, ScriptOf
  <2> QED BY Zenon, <2>1, <2>5, GoingAssembling
<1>5. CASE CopyArchive("ndk", "modes")
  <2>1. /\ pc = "ndk" /\ pc' = "modes" /\ Unpacked("ndk")'
        /\ UNCHANGED <<store, zip, built>> /\ \A q \in Part \ {"ndk"} : sdk'[q] = sdk[q]
    BY Zenon, <1>0, <1>5, Unpacking
  <2>2. sdk'["known"] = Absent /\ Unpacked("google")' /\ Unpacked("platform-tools")' /\ Installed'
    BY <1>0, <2>1 DEF AssemblyInv, Unpacked, Replaced, Installed
  <2>3. AssemblyInv' /\ ScriptOf(pc') = "assemble"
    BY <2>1, <2>2 DEF AssemblyInv, ScriptOf
  <2> QED BY Zenon, <2>1, <2>3, GoingAssembling
<1>6. CASE NormaliseModes
  <2>1. /\ pc = "modes" /\ pc' = "rm_zip" /\ UNCHANGED <<store, zip, built>>
        /\ sdk' = Put(sdk, "modes", Pin)
    BY Zenon, <1>6 DEF NormaliseModes, Go, cache
  <2>2. sdk'["modes"] = Pin /\ \A q \in Part \ {"modes"} : sdk'[q] = sdk[q]
    BY <1>0, <2>1 DEF Put, Tree
  <2>3. /\ sdk'["known"] = Absent /\ Unpacked("google")' /\ Unpacked("platform-tools")'
        /\ Installed' /\ Unpacked("ndk")'
    BY <1>0, <2>1, <2>2 DEF AssemblyInv, Unpacked, Replaced, Installed
  <2>4. AssemblyInv' /\ ScriptOf(pc') = "assemble"
    BY <2>1, <2>2, <2>3 DEF AssemblyInv, ScriptOf
  <2> QED BY Zenon, <2>1, <2>4, GoingAssembling
<1> QED BY Zenon, <1>1, <1>2, <1>3, <1>4, <1>5, <1>6

\* The commands of assemble-sdk.sh that pack the finished tree.
LEMMA PackingCommands == ASSUME IInv, Next, Within, RemoveZip \/ PackZip PROVE IInv'
<1>1. /\ pc \in {"rm_zip", "zip"} /\ pc' \in {"zip", "sum"}
      /\ UNCHANGED <<store, built, sdk, disturbed>> /\ AssemblyInv
  BY Zenon DEF RemoveZip, PackZip, Go, cache, frame, IInv
<1>2. /\ sdk["known"] = Absent /\ Unpacked("google") /\ Unpacked("platform-tools") /\ Installed
      /\ Unpacked("ndk") /\ sdk["modes"] = Pin
  BY <1>1 DEF AssemblyInv, AfterGoogle, AfterPlatformTools, AfterInstall, AfterNdk, Packing
<1>3. AssemblyInv'
  BY Zenon, <1>1, <1>2 DEF AssemblyInv, Unpacked, Replaced, Installed
<1>4. ScriptOf(pc') = "assemble"
  BY <1>1 DEF ScriptOf
<1>5. CASE RemoveZip
  BY Zenon, <1>3, <1>4, <1>5, GoingAssembling DEF RemoveZip
<1>6. CASE PackZip
  <2>1. \A part \in Part \ {"known"} : sdk[part] # Absent
    BY <1>2, Values, BuildAssumption DEF Unpacked, Installed, Part, Builds
  <2>2. Junk \notin {sdk[part] : part \in {"google", "platform-tools", "ndk"}}
    BY <1>2 DEF Unpacked, Builds
  <2>4. Whole(sdk)
    BY Zenon, <1>2, <2>1, <2>2 DEF Whole, Complete
  <2>3. Whole(zip')
    BY Zenon, <1>6, <2>4 DEF PackZip, Whole, Complete
  <2> QED BY Zenon, <1>3, <1>4, <2>3, GoingAssembling
<1> QED BY Zenon, <1>5, <1>6

\* The commands of validate-sdk.sh.
LEMMA ValidatingCommands ==
    ASSUME IInv, Next, Within, ValidateInputs \/ Probe \/ CleanupProbe
    PROVE  IInv'
<1>0. /\ UNCHANGED <<zip, zipSum, before>> /\ pc' \in {"probe", "cleanup", "archive"}
      /\ TypeOK /\ ValidateInv /\ sdk \in Tree
  BY Zenon, TypeParts DEF ValidateInputs, Probe, CleanupProbe, Go, Die, Within, trees, frame, IInv, TreesOK
<1>1. SourceInv' /\ AssemblyInv'
  BY <1>0 DEF SourceInv, AssemblyInv, AfterGoogle, AfterPlatformTools, AfterInstall, AfterNdk, Packing
<1>2. ZipInv'
  BY Zenon, <1>0 DEF IInv, ZipInv, Whole, Complete
<1>3. ASSUME Accepted(before) PROVE Accepted(before)'
  BY Zenon, <1>0, <1>3 DEF Accepted, Complete
<1>4. CASE ValidateInputs
  <2>1. /\ pc = "inputs" /\ pc' = "probe" /\ UNCHANGED sdk
        /\ ArchiveAccepted /\ HostElfsAccepted /\ LayoutMatches /\ ToolsRun
    BY Zenon, <1>0, <1>4 DEF ValidateInputs, Die, Go, trees, Within
  <2>2. sdk = before
    BY Zenon, <1>0, <2>1 DEF ValidateInv
  <2>3. Accepted(sdk)
    BY Zenon, <2>1 DEF Accepted, ArchiveAccepted, HostElfsAccepted, LayoutMatches, ToolsRun
  <2>4. ValidateInv'
    BY <1>0, <1>3, <2>1, <2>2, <2>3 DEF ValidateInv
  <2> QED BY Zenon, <1>1, <1>2, <2>4, Going
<1>5. CASE Probe
  <2>1. pc = "probe" /\ pc' = "cleanup" /\ (sdk' = sdk \/ sdk' = Put(sdk, "known", Pin))
    BY Zenon, <1>5 DEF Probe, Go
  <2>2. sdk = before /\ Accepted(before)
    BY Zenon, <1>0, <2>1 DEF ValidateInv
  <2>3. \A part \in Part \ {"known"} : sdk'[part] = before[part]
    BY <1>0, <2>1, <2>2 DEF Put, Tree
  <2>4. ValidateInv'
    BY <1>0, <1>3, <2>1, <2>2, <2>3 DEF ValidateInv
  <2> QED BY Zenon, <1>1, <1>2, <2>4, Going
<1>6. CASE CleanupProbe
  <2>1. pc = "cleanup" /\ pc' = "archive" /\ sdk' = Restored
    BY Zenon, <1>6 DEF CleanupProbe, Go
  <2>2. Accepted(before) /\ Restored = before
    BY Zenon, <1>0, <2>1, RestoredTree DEF ValidateInv
  <2>3. ValidateInv'
    BY <1>0, <1>3, <2>1, <2>2 DEF ValidateInv
  <2> QED BY Zenon, <1>1, <1>2, <2>3, Going
<1> QED BY Zenon, <1>4, <1>5, <1>6

-----------------------------------------------------------------------------
\* Nothing has run yet.
LEMMA InitIInv == Init => IInv
<1> SUFFICES ASSUME Init PROVE IInv
  OBVIOUS
<1>1. pc = "idle" /\ result = "none" /\ at = 1 /\ zip = NoTree
  BY Zenon DEF Init
<1>2. ScriptInv /\ ZipInv /\ PipelineInv /\ ValidationLeavesTree /\ ValidatedArchive
  BY <1>1 DEF ScriptInv, ZipInv, PipelineInv, ValidationLeavesTree, ValidatedArchive, Validated
<1>3. SourceInv /\ AssemblyInv /\ ValidateInv
  BY <1>1 DEF SourceInv, AssemblyInv, ValidateInv, AfterGoogle, AfterPlatformTools, AfterInstall,
     AfterNdk, Packing
<1> QED BY Zenon, <1>2, <1>3, InitType DEF IInv

\* Every command finds what the ones before it have left.
LEMMA NextIInv == ASSUME IInv, Next PROVE IInv'
<1>1. TypeOK
  BY Zenon DEF IInv
<1>2. CASE Within
  <2>1. CASE Fetch \/ CleanHost \/ VerifySnapshot \/ CleanTools \/ BuildTools \/ RemoveReference
    BY Zenon, <1>2, <2>1, OtherCommands
  <2>2. CASE \/ RemoveSdk \/ CopyArchive("google", "platform-tools")
             \/ CopyArchive("platform-tools", "install") \/ InstallBuilt
             \/ CopyArchive("ndk", "modes") \/ NormaliseModes
    BY Zenon, <1>2, <2>2, FillingCommands
  <2>3. CASE RemoveZip \/ PackZip
    BY Zenon, <1>2, <2>3, PackingCommands
  <2>4. CASE ValidateInputs \/ Probe \/ CleanupProbe
    BY Zenon, <1>2, <2>4, ValidatingCommands
  <2> QED BY Zenon, <1>1, <1>2, <2>1, <2>2, <2>3, <2>4, Continued
<1> QED BY Zenon, <1>2, Control, Beginning, Editing, Disturbing, Ending, Leaving

\* A step that changes no variable.
LEMMA Stuttering == ASSUME IInv, UNCHANGED vars PROVE IInv'
<1>1. UNCHANGED <<store, sums, announced, source, built, sdk, reference, zip, zipSum, run, at,
                  result, before, given, disturbed, pc, events>>
  BY Zenon DEF vars, cache, trees, frame
<1>2. TypeOK'
  <2>1. TypeOK
    BY Zenon DEF IInv
  <2> QED BY <1>1, <2>1 DEF TypeOK
<1>3. AssemblyInv'
  BY Zenon, <1>1 DEF IInv, AssemblyInv, Unpacked, Replaced, Installed
<1>6. ZipInv' /\ ValidateInv'
  BY Zenon, <1>1 DEF IInv, ZipInv, Whole, ValidateInv, Accepted, Complete
<1>4. PipelineInv'
  BY Zenon, <1>1 DEF IInv, PipelineInv, Stocked, Replaced, Store!Good, NdkTested, PreflightPasses,
     VerifyCached, FromThisRun
<1>5. ScriptInv' /\ SourceInv' /\ ValidationLeavesTree' /\ ValidatedArchive'
  BY Zenon, <1>1 DEF IInv, ScriptInv, SourceInv, ValidationLeavesTree, ValidatedArchive, Validated,
     Complete
<1> QED BY Zenon, <1>2, <1>3, <1>4, <1>5, <1>6 DEF IInv

\* The scripts of resolute-local-build.sh, run together or alone, edited between
\* runs, failing or killed at any command, keep the invariant.
THEOREM Invariance == Spec => []IInv
<1>1. IInv /\ [Next]_vars => IInv'
  BY Zenon, NextIInv, Stuttering
<1> QED BY <1>1, InitIInv, PTL DEF Spec

\* The variables keep their types.
THEOREM TypeCorrect == Spec => []TypeOK
<1>1. IInv => TypeOK
  BY Zenon DEF IInv
<1> QED BY <1>1, Invariance, PTL

\* What validate-sdk.sh reports of an SDK holds of the tree and of the archive
\* with its checksum, whatever earlier runs left in dist/.
THEOREM ReportIsTrue == Spec => []ValidatedArchive
<1>1. IInv => ValidatedArchive
  BY Zenon DEF IInv
<1> QED BY <1>1, Invariance, PTL

\* Unless killed, validate-sdk.sh ends with the tree it was given.
THEOREM TreeIsLeft == Spec => []ValidationLeavesTree
<1>1. IInv => ValidationLeavesTree
  BY Zenon DEF IInv
<1> QED BY <1>1, Invariance, PTL

\* assemble-sdk.sh, interrupted at any command, leaves no archive that matches
\* its checksum file and is not a complete SDK.
THEOREM ArchiveIsWhole == Spec => []ChecksummedArchiveIsWhole
<1>1. IInv => ChecksummedArchiveIsWhole
  BY Zenon DEF IInv, ZipInv, Whole, ChecksummedArchiveIsWhole
<1> QED BY <1>1, Invariance, PTL

\* When resolute-local-build.sh succeeds, nothing in the SDK is a leftover.
THEOREM NothingIsLeftOver == Spec => []MadeByThisRun
<1>1. ASSUME IInv, Validated, Len(run) > 1
      PROVE  /\ sdk["google"] = Pin /\ sdk["host"] = Pin /\ sdk["tools"] = "recorded"
             /\ sdk["platform-tools"] \in Builds /\ sdk["ndk"] \in Compatible
             /\ ~disturbed => \A p \in Producers : sdk[p] = store[p] /\ VerifyCached(p)
  <2>1. /\ result = "ok" /\ at = Len(run) /\ run[at] = "validate"
        /\ run \in Runs /\ at \in 1..Len(run)
    BY Zenon, <1>1, TypeParts DEF Validated, IInv, ScriptInv, ControlOK
  <2>2. at > 5
    <3>1. run[at] \in {"reference", "validate"} <=> at > 5
      BY Zenon, <1>1, <2>1, Position
    <3> QED BY Zenon, <2>1, <3>1
  <2>3. Stocked /\ FromThisRun
    BY <1>1, <2>1, <2>2 DEF IInv, PipelineInv
  <2>4. "defective" \notin {sdk["host"], sdk["tools"]} /\ sdk["ndk"] \in Compatible
    BY Zenon, <1>1 DEF IInv, ValidatedArchive
  <2>5. sdk["google"] = Pin /\ sdk["host"] = Pin /\ sdk["tools"] = "recorded"
    BY Zenon, <2>3, <2>4 DEF FromThisRun
  <2>6. ASSUME ~disturbed, NEW p \in Producers PROVE sdk[p] = store[p] /\ VerifyCached(p)
    <3>1. sdk[p] = store[p] /\ store[p] \in Builds /\ sums[p] = store[p]
      BY Zenon, <2>3, <2>6, StockFacts DEF FromThisRun, Replaced
    <3> QED BY <3>1, BuildAssumption DEF VerifyCached, Builds
  <2>7. sdk["platform-tools"] \in Builds
    BY Zenon, <2>3 DEF FromThisRun, Producers
  <2> QED BY Zenon, <2>4, <2>5, <2>6, <2>7
<1>2. IInv => MadeByThisRun
  BY Zenon, <1>1 DEF MadeByThisRun
<1> QED BY <1>2, Invariance, PTL

\* build/ and dist/ are left alone between runs, by fetch-sources.sh and by
\* preflight-ndk.sh, interrupted or not.
LEMMA TreesFrame ==
    ASSUME TypeOK, Next, pc \in {"idle", "fetch", "preflight"}
    PROVE  UNCHANGED trees
<1>1. CASE Kill \/ Fail
  <2>1. Torn
    BY <1>1, Interrupted
  <2>2. UNCHANGED <<built, sdk, zip, zipSum, reference>>
    BY <2>1, TornBuilt, TornSdk, TornRest
  <2> QED BY Zenon, <2>2 DEF trees
<1>2. ASSUME ~Kill, ~Fail PROVE UNCHANGED built /\ UNCHANGED reference
  <2>1. ~CleanHost /\ ~BuildHost /\ ~CleanTools /\ ~BuildTools /\ ~GateTools
    BY DEF CleanHost, BuildHost, CleanTools, BuildTools, GateTools
  <2>2. ~RemoveReference /\ ~BuildReference
    BY DEF RemoveReference, BuildReference
  <2> QED BY Zenon, <1>2, <2>1, <2>2, TreesChange
<1>3. ASSUME ~Kill, ~Fail PROVE UNCHANGED sdk /\ UNCHANGED <<zip, zipSum>>
  <2>1. ~RemoveSdk /\ ~InstallBuilt /\ ~NormaliseModes /\ ~Probe /\ ~CleanupProbe
    BY DEF RemoveSdk, InstallBuilt, NormaliseModes, Probe, CleanupProbe
  <2>2. /\ ~CopyArchive("google", "platform-tools") /\ ~CopyArchive("platform-tools", "install")
        /\ ~CopyArchive("ndk", "modes")
    BY DEF CopyArchive
  <2>3. ~RemoveZip /\ ~PackZip /\ ~SumZip
    BY DEF RemoveZip, PackZip, SumZip
  <2> QED BY Zenon, <1>3, <2>1, <2>2, <2>3, TreesChange
<1> QED BY Zenon, <1>1, <1>2, <1>3 DEF trees

\* preflight-ndk.sh gates every change that a pipeline makes.
THEOREM PreflightIsFirst == Spec => PreflightGuardsTrees
<1>1. ASSUME IInv, Next, ~UNCHANGED trees, Len(run) > 1, ~disturbed
      PROVE  VerifyCached("ndk") /\ store["ndk"] \in Compatible
  <2>1. TypeOK /\ run \in Runs /\ at \in 1..Len(run) /\ pc \in Labels
    BY Zenon, <1>1, TypeParts DEF IInv, ControlOK
  <2>2. pc \notin {"idle", "fetch", "preflight"}
    BY Zenon, <1>1, <2>1, TreesFrame
  <2>3. result = "none" /\ run[at] = ScriptOf(pc)
    BY Zenon, <1>1, <2>2 DEF IInv, ScriptInv
  <2>4. ScriptOf(pc) \notin {"fetch", "preflight"}
    BY <2>1, <2>2 DEF ScriptOf, Labels
  <2>5. at # 1 /\ at # 2
    <3>1. /\ run[at] = "fetch" <=> at = 1
          /\ run[at] = "preflight" <=> at = 2
      BY Zenon, <1>1, <2>1, Position
    <3> QED BY Zenon, <2>3, <2>4, <3>1
  <2>6. at > 2
    BY <2>1, <2>5
  <2> QED BY Zenon, <1>1, <2>3, <2>6 DEF IInv, PipelineInv, NdkTested, PreflightPasses
<1>2. UNCHANGED vars => UNCHANGED trees
  BY Zenon DEF vars
<1>3. IInv /\ [Next]_vars => [Len(run) > 1 /\ ~disturbed =>
                                 VerifyCached("ndk") /\ store["ndk"] \in Compatible]_trees
  BY Zenon, <1>1, <1>2
<1> QED BY <1>3, Invariance, PTL DEF Spec, PreflightGuardsTrees

\* The scripts treat .cache as module VerifiedStore describes it, which is what
\* module FetchSources is shown to implement: fetch-sources.sh alone writes it,
\* and a run that is killed leaves it as a new invocation may find it.
THEOREM CacheIsTheStore == Spec => Store!Spec
<1>1. Init => Store!Init
  BY Zenon DEF Init
<1>2. ASSUME Next PROVE Store!Next \/ UNCHANGED <<store, sums, announced>>
  <2>1. CASE Begun
    BY Zenon, <2>1 DEF Begun, StartPipeline, StartScript, cache, Store!Next
  <2>2. CASE Fetched
    BY Zenon, <2>2 DEF Fetched, Store!Next
  <2>3. CASE Fetch
    <3>1. Asked \subseteq Names
      BY DEF Asked
    <3> QED BY Zenon, <2>3, <3>1 DEF Fetch, Store!Next
  <2>7. CASE OtherFetch
    <3>1. Producers \subseteq Names
      BY DEF Names
    <3> QED BY Zenon, <2>7, <3>1 DEF OtherFetch, Store!Next
  <2>4. CASE Edited \/ PreflightNdk \/ CleanHost \/ BuildHost \/ VerifySnapshot \/ CleanTools
             \/ BuildTools \/ GateTools
    BY Zenon, <2>4 DEF Edited, EditSource, RestoreSource, PreflightNdk, CleanHost, BuildHost,
       VerifySnapshot, CleanTools, BuildTools, GateTools, cache
  <2>5. CASE Assemble
    BY Zenon, <2>5 DEF Assemble, RemoveSdk, CopyArchive, InstallBuilt, NormaliseModes, RemoveZip,
       PackZip, SumZip, cache
  <2>6. CASE RemoveReference \/ BuildReference \/ Validate \/ Kill \/ Fail
    BY Zenon, <2>6 DEF RemoveReference, BuildReference, Validate, ValidateInputs, Probe,
       CleanupProbe, CompareArchive, Kill, Fail, cache
  <2> QED BY Zenon, <1>2, <2>1, <2>2, <2>3, <2>4, <2>5, <2>6, <2>7 DEF Next, Step, Begun, Edited
<1>3. UNCHANGED vars => UNCHANGED <<store, sums, announced>>
  BY Zenon DEF vars, cache
<1>4. [Next]_vars => [Store!Next]_(Store!vars)
  BY Zenon, <1>2, <1>3 DEF Store!vars
<1> QED BY <1>1, <1>4, PTL DEF Spec, Store!Spec
=============================================================================
