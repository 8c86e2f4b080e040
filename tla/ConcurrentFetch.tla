--------------------------- MODULE ConcurrentFetch ---------------------------
(***************************************************************************)
(* download_checked of scripts/common.sh run by several builds in one      *)
(* checkout.  The scripts take no lock, and all use the same two names for *)
(* an archive, its own and "${output}.part".  So the model has inodes: a   *)
(* build that has opened a file keeps it when another renames or deletes   *)
(* the name, and a file that curl opens a second time is emptied under the *)
(* build that is writing or reading it.  Module FetchSources takes the     *)
(* builds one after another, and this module says what depends on that.    *)
(*                                                                         *)
(* The builds all want the same bytes, so a file is the set of the chunks  *)
(* of the archive that are in place.                                       *)
(***************************************************************************)
EXTENDS Naturals, FiniteSets

CONSTANTS
    Builds,     \* the builds that share the checkout
    Chunks,     \* how many chunks the archive has
    MaxInodes,  \* bound: files created
    MaxStarts,  \* bound: downloads started
    MaxFaults   \* bound: failures, wrong chunks and kills

ASSUME ConcurrentAssumption ==
    /\ Chunks \in Nat \ {0} /\ MaxInodes \in Nat \ {0}
    /\ MaxStarts \in Nat /\ MaxFaults \in Nat

Inodes == 1..MaxInodes
Name   == {"out", "part"}
All    == 1..Chunks
Over   == {"idle", "done", "failed"}

VARIABLES
    dir,     \* the inode that each name stands for, 0 if there is none
    data,    \* the chunks in place in each inode
    used,    \* inodes created so far
    pc,      \* each build's next command, or how its last download ended
    fd,      \* the inode that it has open
    pos,     \* the chunk that it reads or writes next
    alone,   \* auxiliary: has the download been the only one since it started?
    hurt,    \* auxiliary: has the download suffered a failure?
    newest,  \* auxiliary: the build that has started last
    starts,
    faults

files == <<dir, data, used>>
vars  == <<files, pc, fd, pos, alone, hurt, newest, starts, faults>>
aux   == <<alone, hurt, newest, starts, faults>>

\* The file under a name is complete.
Whole(name) == dir[name] # 0 /\ data[dir[name]] = All

Init ==
    /\ \E there \in BOOLEAN : dir = [n \in Name |-> IF there /\ n = "out" THEN 1 ELSE 0]
    /\ \E old \in {{}, All} : data = [i \in Inodes |-> IF i = dir["out"] THEN old ELSE {}]
    /\ used = dir["out"]
    /\ pc = [b \in Builds |-> "idle"]
    /\ fd = [b \in Builds |-> 0]
    /\ pos = [b \in Builds |-> 1]
    /\ alone = [b \in Builds |-> TRUE]
    /\ hurt = [b \in Builds |-> FALSE]
    /\ newest = {}
    /\ starts = 0
    /\ faults = 0

Goto(b, from, to) == pc[b] = from /\ pc' = [pc EXCEPT ![b] = to]

\* The open files of a process that ends are closed.
Close(b) == fd' = [fd EXCEPT ![b] = 0] /\ pos' = [pos EXCEPT ![b] = 1]

Start(b) ==
    /\ starts < MaxStarts
    /\ pc[b] \in Over
    /\ pc' = [pc EXCEPT ![b] = "test"]
    /\ LET others == {c \in Builds \ {b} : pc[c] \notin Over}
       IN  alone' = [c \in Builds |-> IF c = b THEN others = {}
                                      ELSE IF c \in others THEN FALSE ELSE alone[c]]
    /\ hurt' = [hurt EXCEPT ![b] = FALSE]
    /\ newest' = {b}
    /\ starts' = starts + 1
    /\ UNCHANGED <<files, fd, pos, faults>>

\* [[ -f "$output" ]]
Test(b) ==
    /\ Goto(b, "test", IF dir["out"] = 0 THEN "rmpart" ELSE "sum")
    /\ UNCHANGED <<files, fd, pos, aux>>

\* sha256sum opens a file; the function ends if somebody has removed it.
Open(b, from, name, to) ==
    \/ /\ dir[name] # 0
       /\ Goto(b, from, to)
       /\ fd' = [fd EXCEPT ![b] = dir[name]]
       /\ pos' = [pos EXCEPT ![b] = 1]
       /\ UNCHANGED <<files, aux>>
    \/ /\ dir[name] = 0
       /\ Goto(b, from, "failed")
       /\ Close(b)
       /\ UNCHANGED <<files, aux>>

\* It reads the file chunk by chunk while others may write it.
Read(b, from, right, wrong) ==
    /\ pc[b] = from
    /\ \/ /\ pos[b] \in data[fd[b]]
          /\ pos[b] < Chunks
          /\ pos' = [pos EXCEPT ![b] = @ + 1]
          /\ UNCHANGED <<pc, fd>>
       \/ /\ pos[b] \notin data[fd[b]]
          /\ pc' = [pc EXCEPT ![b] = wrong]
          /\ Close(b)
       \/ /\ pos[b] \in data[fd[b]]
          /\ pos[b] = Chunks
          /\ pc' = [pc EXCEPT ![b] = right]
          /\ Close(b)
    /\ UNCHANGED <<files, aux>>

OpenCached(b) == Open(b, "sum", "out", "hash")

\* Mutant: a cached file is used as it is.
HashCachedTrusting(b) == Read(b, "hash", "done", "done")

HashCached(b) == Read(b, "hash", "done", "rmout")

Remove(b, from, name, to) ==
    /\ Goto(b, from, to)
    /\ dir' = [dir EXCEPT ![name] = 0]
    /\ UNCHANGED <<data, used, fd, pos, aux>>

RemoveOut(b) == Remove(b, "rmout", "out", "rmpart")

RemovePart(b) == Remove(b, "rmpart", "part", "open")

\* Mutant: curl does not empty the file it finds (--continue-at).
CurlOpenContinuing(b) ==
    /\ Goto(b, "open", "write")
    /\ \/ /\ dir["part"] = 0
          /\ used < MaxInodes
          /\ used' = used + 1
          /\ dir' = [dir EXCEPT !["part"] = used + 1]
          /\ fd' = [fd EXCEPT ![b] = used + 1]
       \/ /\ dir["part"] # 0
          /\ fd' = [fd EXCEPT ![b] = dir["part"]]
          /\ UNCHANGED <<used, dir>>
    /\ pos' = [pos EXCEPT ![b] = Chunks]
    /\ UNCHANGED <<data, aux>>

\* curl creates its output file, or empties the one that is there.
CurlOpen(b) ==
    /\ Goto(b, "open", "write")
    /\ \/ /\ dir["part"] = 0
          /\ used < MaxInodes
          /\ used' = used + 1
          /\ dir' = [dir EXCEPT !["part"] = used + 1]
          /\ fd' = [fd EXCEPT ![b] = used + 1]
          /\ UNCHANGED data
       \/ /\ dir["part"] # 0
          /\ data' = [data EXCEPT ![dir["part"]] = {}]
          /\ fd' = [fd EXCEPT ![b] = dir["part"]]
          /\ UNCHANGED <<used, dir>>
    /\ pos' = [pos EXCEPT ![b] = 1]
    /\ UNCHANGED aux

\* curl goes on to the next chunk, or ends with status 0.
Written(b) ==
    IF pos[b] = Chunks
    THEN pc' = [pc EXCEPT ![b] = "check"] /\ Close(b)
    ELSE pos' = [pos EXCEPT ![b] = @ + 1] /\ UNCHANGED <<pc, fd>>

CurlWrite(b) ==
    /\ pc[b] = "write"
    /\ data' = [data EXCEPT ![fd[b]] = @ \cup {pos[b]}]
    /\ Written(b)
    /\ UNCHANGED <<dir, used, aux>>

\* The server has sent other bytes, which curl cannot tell.
CurlWriteWrong(b) ==
    /\ faults < MaxFaults
    /\ faults' = faults + 1
    /\ pc[b] = "write"
    /\ data' = [data EXCEPT ![fd[b]] = @ \ {pos[b]}]
    /\ hurt' = [hurt EXCEPT ![b] = TRUE]
    /\ Written(b)
    /\ UNCHANGED <<dir, used, alone, newest, starts>>

OpenPart(b) == Open(b, "check", "part", "verify")

HashPart(b) == Read(b, "verify", "mv", "rmbad")

\* The digest is wrong: the temporary file is removed, and the function dies.
RemoveBad(b) == Remove(b, "rmbad", "part", "failed")

\* mv renames what is called .part now.
Install(b) ==
    \/ /\ dir["part"] # 0
       /\ Goto(b, "mv", "done")
       /\ dir' = [out |-> dir["part"], part |-> 0]
       /\ UNCHANGED <<data, used, fd, pos, aux>>
    \/ /\ dir["part"] = 0
       /\ Goto(b, "mv", "failed")
       /\ UNCHANGED <<files, fd, pos, aux>>

\* curl fails, or a signal ends the build.
Kill(b) ==
    /\ faults < MaxFaults
    /\ faults' = faults + 1
    /\ pc[b] \notin Over
    /\ pc' = [pc EXCEPT ![b] = "failed"]
    /\ hurt' = [hurt EXCEPT ![b] = TRUE]
    /\ Close(b)
    /\ UNCHANGED <<files, alone, newest, starts>>

Step(b) ==
    \/ Test(b) \/ OpenCached(b) \/ HashCached(b) \/ RemoveOut(b)
    \/ RemovePart(b) \/ CurlOpen(b) \/ CurlWrite(b)
    \/ OpenPart(b) \/ HashPart(b) \/ RemoveBad(b) \/ Install(b)

Next == \E b \in Builds : Start(b) \/ Step(b) \/ CurlWriteWrong(b) \/ Kill(b)

Spec == Init /\ [][Next]_vars

-----------------------------------------------------------------------------
TypeOK ==
    /\ dir \in [Name -> 0..used]
    /\ data \in [Inodes -> SUBSET All]
    /\ used \in 0..MaxInodes
    /\ pc \in [Builds -> Over \cup {"test", "sum", "hash", "rmout", "rmpart", "open",
                                    "write", "check", "verify", "rmbad", "mv"}]
    /\ fd \in [Builds -> 0..used]
    /\ pos \in [Builds -> All]
    /\ alone \in [Builds -> BOOLEAN]
    /\ hurt \in [Builds -> BOOLEAN]
    /\ newest \subseteq Builds
    /\ starts \in 0..MaxStarts
    /\ faults \in 0..MaxFaults

Resting == \A b \in Builds : pc[b] \in Over

\* common.sh:109-126.  A download that was alone from start to end succeeds
\* unless it suffers a failure, whatever concurrent downloads before it have
\* left under the two names, and when it succeeds the archive is complete.
AloneIsSafe ==
    \A b \in newest : alone[b] /\ pc[b] \in Over =>
        \/ pc[b] = "done" /\ Whole("out")
        \/ pc[b] = "failed" /\ hurt[b]

\* common.sh:118-126.  Builds that share the two names may make each other fail,
\* and one may rename the file that another is still writing.  But as long as
\* none is killed or gets wrong bytes, the file that is under the archive's name
\* when all have ended is complete: whoever had it open has filled it.
SettlesWhole ==
    Resting /\ faults = 0 /\ starts > 0 /\ dir["out"] # 0 => Whole("out")

\* fetch-sources.sh:67, "All requested component archives are present and
\* checksum verified.": a download ends with success only over a complete file.
DoneIsVerified ==
    [][\A b \in Builds : pc[b] # "done" /\ pc'[b] = "done" => Whole("out")']_vars
=============================================================================
