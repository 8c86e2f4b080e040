----------------------- MODULE ConcurrentFetchProofs -----------------------
(***************************************************************************)
(* What holds of download_checked for any number of builds that share a     *)
(* checkout, of chunks, downloads, files and failures.                      *)
(***************************************************************************)
EXTENDS ConcurrentFetch, TLAPS

(* A file is complete, or the build that emptied it last is still writing it   *)
(* and has the rest before it.                                                 *)
Filled(i) ==
    \/ data[i] = All
    \/ \E b \in Builds : /\ pc[b] = "write" /\ fd[b] = i
                         /\ \A k \in All : k < pos[b] => k \in data[i]

(* A file that was under the archive's name before the first download, and is  *)
(* not complete: nobody writes it, and somebody has yet to look at it, unless  *)
(* no download has started.                                                    *)
Unseen(i) ==
    /\ data[i] = {}
    /\ \A b \in Builds : pc[b] = "write" => fd[b] # i
    /\ \/ starts = 0
       \/ \E b \in Builds : \/ pc[b] \in {"test", "sum", "rmout"}
                            \/ pc[b] = "hash" /\ fd[b] = i

ShareInv ==
    /\ dir["out"] = dir["part"] => dir["out"] = 0
    /\ faults = 0 => \A i \in Inodes : /\ dir["part"] = i => Filled(i)
                                       /\ dir["out"] = i => Filled(i) \/ Unseen(i)

(* What a build has read or written so far. *)
Through(b, name) ==
    /\ dir[name] # 0 /\ fd[b] = dir[name]
    /\ \A k \in All : k < pos[b] => k \in data[dir[name]]

(* Where a download that has been alone is, and what it has achieved. *)
AloneAt(b) ==
    /\ pc[b] \in {"rmbad", "failed"} => hurt[b]
    /\ pc[b] = "sum" => dir["out"] # 0
    /\ pc[b] = "hash" => Through(b, "out")
    /\ pc[b] = "open" => dir["part"] = 0
    /\ pc[b] = "write" => /\ dir["part"] # 0 /\ fd[b] = dir["part"]
                          /\ hurt[b] \/ Through(b, "part")
    /\ pc[b] = "check" => dir["part"] # 0 /\ (hurt[b] \/ Whole("part"))
    /\ pc[b] = "verify" => Through(b, "part") /\ (hurt[b] \/ Whole("part"))
    /\ pc[b] = "mv" => Whole("part")
    /\ pc[b] = "done" => Whole("out")
    /\ pc[b] # "idle"

AloneInv ==
    \A b \in newest : alone[b] =>
        /\ \A c \in Builds : c # b => pc[c] \in Over
        /\ AloneAt(b)

IInv == TypeOK /\ ShareInv /\ AloneInv

Labels == Over \cup {"test", "sum", "hash", "rmout", "rmpart", "open", "write", "check", "verify",
                     "rmbad", "mv"}

-----------------------------------------------------------------------------
(* The names, files and builds of common.sh:109-126 keep their types. *)
LEMMA TypeNext ==
    ASSUME TypeOK, [Next]_vars
    PROVE  TypeOK'
  <1> USE ConcurrentAssumption DEF files, aux
  <1>0. /\ dir \in [Name -> 0..used] /\ data \in [Inodes -> SUBSET All] /\ used \in 0..MaxInodes
        /\ pc \in [Builds -> Labels] /\ fd \in [Builds -> 0..used] /\ pos \in [Builds -> All]
        /\ alone \in [Builds -> BOOLEAN] /\ hurt \in [Builds -> BOOLEAN] /\ newest \subseteq Builds
        /\ starts \in 0..MaxStarts /\ faults \in 0..MaxFaults
        /\ "out" \in Name /\ "part" \in Name /\ Name = {"out", "part"}
        /\ 0 \in 0..used /\ 1 \in All /\ used \in Nat
    BY DEF TypeOK, Labels, Name, All
  <1>a. ASSUME dir' \in [Name -> 0..used'], data' \in [Inodes -> SUBSET All], used' \in 0..MaxInodes,
               pc' \in [Builds -> Labels], fd' \in [Builds -> 0..used'], pos' \in [Builds -> All],
               alone' \in [Builds -> BOOLEAN], hurt' \in [Builds -> BOOLEAN], newest' \subseteq Builds,
               starts' \in 0..MaxStarts, faults' \in 0..MaxFaults
        PROVE  TypeOK'
    BY <1>a DEF TypeOK, Labels
  <1>b. ASSUME NEW b \in Builds, NEW to \in Labels, NEW from, Goto(b, from, to)
        PROVE  pc' \in [Builds -> Labels]
    BY <1>0, <1>b DEF Goto
  <1>c. ASSUME NEW b \in Builds, Close(b), used' = used
        PROVE  fd' \in [Builds -> 0..used'] /\ pos' \in [Builds -> All]
    BY <1>0, <1>c DEF Close
  <1>w. ASSUME NEW b \in Builds, Written(b)
        PROVE  pc' \in [Builds -> Labels] /\ fd' \in [Builds -> 0..used] /\ pos' \in [Builds -> All]
    <2>1. pc' \in [Builds -> Labels]
      BY <1>0, <1>w DEF Written, Labels
    <2>2. pos[b] # Chunks => pos[b] + 1 \in All
      BY <1>0 DEF All
    <2> QED BY <1>0, <1>w, <2>1, <2>2 DEF Written, Close
  <1>1. ASSUME NEW b \in Builds, Start(b)
        PROVE  TypeOK'
    <2>1. pc' \in [Builds -> Labels]
      BY <1>0, <1>1 DEF Start, Labels
    <2>2. alone' \in [Builds -> BOOLEAN] /\ hurt' \in [Builds -> BOOLEAN] /\ newest' \subseteq Builds
      BY Zenon, <1>0, <1>1 DEF Start
    <2>3. starts' \in 0..MaxStarts
      BY <1>0, <1>1 DEF Start
    <2> QED BY Zenon, <1>0, <1>1, <1>a, <2>1, <2>2, <2>3 DEF Start
  <1>2. ASSUME NEW b \in Builds, Test(b)
        PROVE  TypeOK'
    <2>1. pc' \in [Builds -> Labels]
      BY Zenon, <1>2, <1>b DEF Test, Labels
    <2> QED BY <1>0, <1>2, <1>a, <2>1 DEF Test
  <1>3. ASSUME NEW b \in Builds, NEW to \in Labels, NEW from, NEW name \in Name, Open(b, from, name, to)
        PROVE  TypeOK'
    <2>1. pc' \in [Builds -> Labels]
      BY <1>3, <1>b DEF Open, Labels, Over
    <2>2. fd' \in [Builds -> 0..used] /\ pos' \in [Builds -> All]
      BY <1>0, <1>3 DEF Open, Close
    <2> QED BY <1>0, <1>3, <1>a, <2>1, <2>2 DEF Open
  <1>4. ASSUME NEW b \in Builds, NEW right \in Labels, NEW wrong \in Labels, NEW from,
               Read(b, from, right, wrong)
        PROVE  TypeOK'
    <2>1. pc' \in [Builds -> Labels]
      BY <1>0, <1>4 DEF Read
    <2>2. fd' \in [Builds -> 0..used] /\ pos' \in [Builds -> All]
      <3>1. pos[b] < Chunks => pos[b] + 1 \in All
        BY <1>0 DEF All
      <3> QED BY <1>0, <1>4, <3>1 DEF Read, Close
    <2> QED BY <1>0, <1>4, <1>a, <2>1, <2>2 DEF Read
  <1>5. ASSUME NEW b \in Builds, NEW to \in Labels, NEW from, NEW name \in Name, Remove(b, from, name, to)
        PROVE  TypeOK'
    <2>1. pc' \in [Builds -> Labels]
      BY <1>5, <1>b DEF Remove
    <2>2. dir' \in [Name -> 0..used]
      BY <1>0, <1>5 DEF Remove
    <2> QED BY <1>0, <1>5, <1>a, <2>1, <2>2 DEF Remove
  <1>6. ASSUME NEW b \in Builds, CurlOpen(b)
        PROVE  TypeOK'
    <2>1. pc' \in [Builds -> Labels] /\ pos' \in [Builds -> All]
      BY Zenon, <1>0, <1>6, <1>b DEF CurlOpen, Labels
    <2>2. CASE dir["part"] = 0
      <3>1. /\ used' = used + 1 /\ used < MaxInodes /\ dir' = [dir EXCEPT !["part"] = used + 1]
            /\ fd' = [fd EXCEPT ![b] = used + 1] /\ UNCHANGED <<data, aux>>
        BY <1>6, <2>2 DEF CurlOpen
      <3>2. 0..used \subseteq 0..used' /\ used' \in 0..used' /\ used' \in 0..MaxInodes
        BY <1>0, <3>1
      <3>3. dir' \in [Name -> 0..used'] /\ fd' \in [Builds -> 0..used']
        BY <1>0, <3>1, <3>2
      <3> QED BY <1>0, <1>a, <2>1, <3>1, <3>2, <3>3
    <2>3. CASE dir["part"] # 0
      <3>1. /\ UNCHANGED <<used, dir, aux>> /\ fd' = [fd EXCEPT ![b] = dir["part"]]
            /\ data' = [data EXCEPT ![dir["part"]] = {}]
        BY <1>6, <2>3 DEF CurlOpen
      <3>2. fd' \in [Builds -> 0..used] /\ data' \in [Inodes -> SUBSET All]
        BY Zenon, <1>0, <3>1
      <3> QED BY <1>0, <1>a, <2>1, <3>1, <3>2
    <2> QED BY <2>2, <2>3
  <1>7. ASSUME NEW b \in Builds, CurlWrite(b)
        PROVE  TypeOK'
    <2>1. pc' \in [Builds -> Labels] /\ fd' \in [Builds -> 0..used] /\ pos' \in [Builds -> All]
      BY <1>7, <1>w DEF CurlWrite
    <2>3. data' \in [Inodes -> SUBSET All]
      <3>1. data' = [data EXCEPT ![fd[b]] = data[fd[b]] \cup {pos[b]}]
        BY <1>7 DEF CurlWrite
      <3>2. fd[b] \in Inodes => data[fd[b]] \cup {pos[b]} \in SUBSET All
        BY <1>0
      <3> QED BY Zenon, <1>0, <3>1, <3>2
    <2> QED BY <1>0, <1>7, <1>a, <2>1, <2>3 DEF CurlWrite
  <1>12. ASSUME NEW b \in Builds, CurlWriteWrong(b)
         PROVE  TypeOK'
    <2>1. pc' \in [Builds -> Labels] /\ fd' \in [Builds -> 0..used] /\ pos' \in [Builds -> All]
      BY <1>12, <1>w DEF CurlWriteWrong
    <2>2. data' \in [Inodes -> SUBSET All]
      <3>1. data' = [data EXCEPT ![fd[b]] = data[fd[b]] \ {pos[b]}]
        BY <1>12 DEF CurlWriteWrong
      <3>2. fd[b] \in Inodes => data[fd[b]] \ {pos[b]} \in SUBSET All
        BY <1>0
      <3> QED BY Zenon, <1>0, <3>1, <3>2
    <2>3. hurt' \in [Builds -> BOOLEAN] /\ faults' \in 0..MaxFaults
      BY <1>0, <1>12 DEF CurlWriteWrong
    <2> QED BY <1>0, <1>12, <1>a, <2>1, <2>2, <2>3 DEF CurlWriteWrong
  <1>8. ASSUME NEW b \in Builds, Install(b)
        PROVE  TypeOK'
    <2>1. pc' \in [Builds -> Labels]
      BY <1>8, <1>b DEF Install, Labels, Over
    <2>2. dir' \in [Name -> 0..used]
      BY <1>0, <1>8 DEF Install
    <2> QED BY <1>0, <1>8, <1>a, <2>1, <2>2 DEF Install
  <1>9. ASSUME NEW b \in Builds, Kill(b)
        PROVE  TypeOK'
    <2>1. pc' \in [Builds -> Labels] /\ hurt' \in [Builds -> BOOLEAN]
      BY <1>0, <1>9 DEF Kill, Labels, Over
    <2>2. faults' \in 0..MaxFaults
      BY <1>0, <1>9 DEF Kill
    <2>3. fd' \in [Builds -> 0..used'] /\ pos' \in [Builds -> All]
      BY <1>9, <1>c DEF Kill
    <2> QED BY <1>0, <1>9, <1>a, <2>1, <2>2, <2>3 DEF Kill
  <1>10. ASSUME NEW b \in Builds, Step(b)
         PROVE  TypeOK'
    <2>1. {"done", "rmout", "rmpart", "open", "verify", "mv", "rmbad", "hash", "failed"} \subseteq Labels
      BY DEF Labels, Over
    <2> QED
      BY <1>0, <1>10, <1>2, <1>3, <1>4, <1>5, <1>6, <1>7, <1>8, <2>1
      DEF Step, OpenCached, HashCached, RemoveOut, RemovePart, OpenPart, HashPart, RemoveBad
  <1>11. CASE UNCHANGED vars
    BY <1>0, <1>11, <1>a DEF vars
  <1> QED BY Zenon, <1>1, <1>9, <1>10, <1>11, <1>12 DEF Next

-----------------------------------------------------------------------------
(* The commands of common.sh:109-126 but curl's leave the files' contents, and   *)
(* who writes them, alone; so a file that is complete or being filled stays so.  *)
Quiet ==
    /\ data' = data
    /\ \A c \in Builds : pc[c] = "write" \/ pc'[c] = "write" =>
           pc'[c] = pc[c] /\ fd'[c] = fd[c] /\ pos'[c] = pos[c]

(* A quiet step of common.sh:109-126 keeps every file that is complete or being  *)
(* filled so, and nobody begins to write a file.                                 *)
LEMMA QuietKeeps ==
    ASSUME Quiet, NEW i \in Inodes
    PROVE  /\ Filled(i) => Filled(i)'
           /\ (\A b \in Builds : pc[b] = "write" => fd[b] # i) =>
                  (\A b \in Builds : pc'[b] = "write" => fd'[b] # i)
  BY DEF Quiet, Filled

(* common.sh:118-126.  However the commands of several builds interleave, a file *)
(* under one of the two names is complete, or being filled, or not yet looked at. *)
LEMMA ShareNext ==
    ASSUME TypeOK, ShareInv, [Next]_vars
    PROVE  ShareInv'
  <1> USE ConcurrentAssumption DEF files, aux
  <1>0. /\ dir \in [Name -> 0..used] /\ data \in [Inodes -> SUBSET All] /\ used \in 0..MaxInodes
        /\ pc \in [Builds -> Labels] /\ fd \in [Builds -> 0..used] /\ pos \in [Builds -> All]
        /\ starts \in Nat /\ faults \in Nat /\ used \in Nat
        /\ "out" \in Name /\ "part" \in Name /\ Name = {"out", "part"} /\ 0 \notin Inodes
    BY DEF TypeOK, Labels, Name, Inodes
  <1>1. ASSUME NEW b \in Builds, Start(b)
        PROVE  ShareInv'
    <2>1. /\ dir' = dir /\ data' = data /\ fd' = fd /\ pos' = pos /\ faults' = faults
          /\ pc[b] \in Over /\ pc' = [pc EXCEPT ![b] = "test"]
      BY <1>1 DEF Start
    <2>2. Quiet
      BY <1>0, <2>1 DEF Quiet, Over
    <2>3. pc'[b] = "test"
      BY <1>0, <2>1
    <2>4. ASSUME NEW i \in Inodes, Unseen(i)
          PROVE  Unseen(i)'
      BY <2>1, <2>2, <2>3, <2>4, QuietKeeps DEF Unseen
    <2> QED BY <2>1, <2>2, <2>4, QuietKeeps DEF ShareInv
  <1>2. ASSUME NEW b \in Builds, Test(b)
        PROVE  ShareInv'
    <2>1. /\ dir' = dir /\ data' = data /\ fd' = fd /\ pos' = pos /\ faults' = faults
          /\ starts' = starts
          /\ pc[b] = "test" /\ pc' = [pc EXCEPT ![b] = IF dir["out"] = 0 THEN "rmpart" ELSE "sum"]
      BY <1>2 DEF Test, Goto
    <2>2. Quiet
      BY <1>0, <2>1 DEF Quiet
    <2>3. ASSUME NEW i \in Inodes, Unseen(i), dir["out"] = i
          PROVE  Unseen(i)'
      <3>1. pc'[b] = "sum"
        BY <1>0, <2>1, <2>3
      <3> QED BY <2>1, <2>2, <2>3, <3>1, QuietKeeps DEF Unseen
    <2> QED BY <2>1, <2>2, <2>3, QuietKeeps DEF ShareInv
  <1>3. ASSUME NEW b \in Builds, OpenCached(b) \/ OpenPart(b)
        PROVE  ShareInv'
    <2>1. /\ dir' = dir /\ data' = data /\ faults' = faults /\ starts' = starts
          /\ \/ pc[b] = "sum" /\ (dir["out"] # 0 => pc'[b] = "hash" /\ fd'[b] = dir["out"])
             \/ pc[b] = "check"
          /\ pc[b] \in {"sum", "check"} /\ pc'[b] \in {"hash", "verify", "failed"}
          /\ \A c \in Builds : c # b => pc'[c] = pc[c] /\ fd'[c] = fd[c] /\ pos'[c] = pos[c]
      BY <1>0, <1>3 DEF OpenCached, OpenPart, Open, Goto, Close
    <2>2. Quiet
      BY Zenon, <2>1 DEF Quiet
    <2>3. ASSUME NEW i \in Inodes, Unseen(i), dir["out"] = i
          PROVE  Unseen(i)'
      <3>1. \/ starts' = 0
            \/ \E c \in Builds : \/ pc'[c] \in {"test", "sum", "rmout"}
                                 \/ pc'[c] = "hash" /\ fd'[c] = i
        BY <1>0, <2>1, <2>3 DEF Unseen
      <3> QED BY <2>1, <2>2, <2>3, <3>1, QuietKeeps DEF Unseen
    <2> QED BY <2>1, <2>2, <2>3, QuietKeeps DEF ShareInv
  <1>4. ASSUME NEW b \in Builds, HashCached(b) \/ HashPart(b)
        PROVE  ShareInv'
    <2>1. /\ dir' = dir /\ data' = data /\ faults' = faults /\ starts' = starts
          /\ pc[b] \in {"hash", "verify"} /\ pc'[b] # "write"
          /\ (pc[b] = "hash" /\ data[fd[b]] = {}) => pc'[b] = "rmout"
          /\ \A c \in Builds : c # b => pc'[c] = pc[c] /\ fd'[c] = fd[c] /\ pos'[c] = pos[c]
      BY <1>0, <1>4 DEF HashCached, HashPart, Read, Close
    <2>2. Quiet
      BY <2>1 DEF Quiet
    <2>3. ASSUME NEW i \in Inodes, Unseen(i)
          PROVE  Unseen(i)'
      <3>1. \/ starts' = 0
            \/ \E c \in Builds : \/ pc'[c] \in {"test", "sum", "rmout"}
                                 \/ pc'[c] = "hash" /\ fd'[c] = i
        BY <2>1, <2>3 DEF Unseen
      <3> QED BY <2>1, <2>2, <2>3, <3>1, QuietKeeps DEF Unseen
    <2> QED BY <2>1, <2>2, <2>3, QuietKeeps DEF ShareInv
  <1>5. ASSUME NEW b \in Builds, RemoveOut(b)
        PROVE  ShareInv'
    <2>1. /\ data' = data /\ fd' = fd /\ pos' = pos /\ faults' = faults
          /\ dir'["out"] = 0 /\ dir'["part"] = dir["part"]
          /\ pc[b] = "rmout" /\ pc' = [pc EXCEPT ![b] = "rmpart"]
      BY <1>0, <1>5 DEF RemoveOut, Remove, Goto
    <2>2. Quiet
      BY <1>0, <2>1 DEF Quiet
    <2> QED BY <1>0, <2>1, <2>2, QuietKeeps DEF ShareInv
  <1>6. ASSUME NEW b \in Builds, RemovePart(b) \/ RemoveBad(b)
        PROVE  ShareInv'
    <2>1. /\ data' = data /\ fd' = fd /\ pos' = pos /\ faults' = faults /\ starts' = starts
          /\ dir'["part"] = 0 /\ dir'["out"] = dir["out"]
          /\ pc[b] \in {"rmpart", "rmbad"} /\ pc'[b] \in {"open", "failed"}
          /\ \A c \in Builds : c # b => pc'[c] = pc[c]
      BY <1>0, <1>6 DEF RemovePart, RemoveBad, Remove, Goto
    <2>2. Quiet
      BY <2>1 DEF Quiet
    <2>3. ASSUME NEW i \in Inodes, Unseen(i)
          PROVE  Unseen(i)'
      <3>1. \/ starts' = 0
            \/ \E c \in Builds : \/ pc'[c] \in {"test", "sum", "rmout"}
                                 \/ pc'[c] = "hash" /\ fd'[c] = i
        BY <2>1, <2>3 DEF Unseen
      <3> QED BY <2>1, <2>2, <2>3, <3>1, QuietKeeps DEF Unseen
    <2> QED BY <1>0, <2>1, <2>2, <2>3, QuietKeeps DEF ShareInv
  <1>7. ASSUME NEW b \in Builds, CurlOpen(b)
        PROVE  ShareInv'
    <2>1. /\ pc[b] = "open" /\ pc'[b] = "write" /\ pos'[b] = 1 /\ faults' = faults /\ starts' = starts
          /\ \A c \in Builds : c # b => pc'[c] = pc[c] /\ fd'[c] = fd[c] /\ pos'[c] = pos[c]
          /\ fd'[b] = dir'["part"] /\ dir'["out"] = dir["out"] /\ dir'["part"] # 0
          /\ dir'["part"] # dir["out"]
      <3>1. used + 1 # dir["out"] /\ used + 1 # 0
        BY <1>0
      <3> QED BY <1>0, <1>7, <3>1 DEF CurlOpen, Goto, ShareInv
    <2>2. ASSUME NEW i \in Inodes, dir'["part"] = i
          PROVE  Filled(i)'
      <3>1. \A k \in All : ~ (k < 1)
        BY DEF All
      <3> QED BY <2>1, <2>2, <3>1 DEF Filled
    <2>3. ASSUME NEW i \in Inodes, dir["out"] = i, Filled(i) \/ Unseen(i)
          PROVE  Filled(i)' \/ Unseen(i)'
      <3>1. data'[i] = data[i]
        <4>1. data' = data \/ (dir["part"] # 0 /\ data' = [data EXCEPT ![dir["part"]] = {}])
          BY <1>7 DEF CurlOpen
        <4>2. dir["part"] # 0 => dir["part"] # i
          BY <2>3 DEF ShareInv
        <4> QED BY <1>0, <4>1, <4>2
      <3>2. Filled(i) => Filled(i)'
        BY <2>1, <3>1 DEF Filled
      <3>3. Unseen(i) => Unseen(i)'
        <4> SUFFICES ASSUME Unseen(i)
                     PROVE  Unseen(i)'
          OBVIOUS
        <4>1. \A c \in Builds : pc'[c] = "write" => fd'[c] # i
          BY <2>1, <2>3 DEF Unseen
        <4>2. \/ starts' = 0
              \/ \E c \in Builds : \/ pc'[c] \in {"test", "sum", "rmout"}
                                   \/ pc'[c] = "hash" /\ fd'[c] = i
          BY <2>1 DEF Unseen
        <4> QED BY <3>1, <4>1, <4>2 DEF Unseen
      <3> QED BY <2>3, <3>2, <3>3
    <2>4. dir'["out"] # dir'["part"]
      BY <2>1
    <2>5. ASSUME faults' = 0, NEW i \in Inodes
          PROVE  /\ dir'["part"] = i => Filled(i)'
                 /\ dir'["out"] = i => Filled(i)' \/ Unseen(i)'
      <3>0. faults = 0
        BY <2>1, <2>5
      <3>1. dir["out"] = i => Filled(i) \/ Unseen(i)
        BY <2>5, <3>0 DEF ShareInv
      <3> QED BY <2>1, <2>2, <2>3, <3>1
    <2> QED BY <2>4, <2>5 DEF ShareInv
  <1>8. ASSUME NEW b \in Builds, CurlWrite(b)
        PROVE  ShareInv'
    <2>1. /\ pc[b] = "write" /\ dir' = dir /\ faults' = faults /\ starts' = starts
          /\ data' = [data EXCEPT ![fd[b]] = data[fd[b]] \cup {pos[b]}]
          /\ pos[b] # Chunks => pc'[b] = "write" /\ fd'[b] = fd[b] /\ pos'[b] = pos[b] + 1
          /\ pos[b] = Chunks => pc'[b] = "check"
          /\ \A c \in Builds : c # b => pc'[c] = pc[c] /\ fd'[c] = fd[c] /\ pos'[c] = pos[c]
      BY <1>0, <1>8 DEF CurlWrite, Written, Close
    <2>2. ASSUME NEW i \in Inodes
          PROVE  data'[i] \subseteq All /\ data[i] \subseteq data'[i] /\ (fd[b] = i => pos[b] \in data'[i])
                 /\ (fd[b] # i => data'[i] = data[i])
      BY <1>0, <2>1
    <2>3. ASSUME NEW i \in Inodes, Filled(i)
          PROVE  Filled(i)'
      <3>1. CASE data[i] = All
        BY Zenon, <2>2, <3>1 DEF Filled
      <3>2. CASE data[i] # All
        <4> PICK c \in Builds : /\ pc[c] = "write" /\ fd[c] = i
                                /\ \A k \in All : k < pos[c] => k \in data[i]
          BY <2>3, <3>2 DEF Filled
        <4>1. CASE c # b
          <5>1. pc'[c] = "write" /\ fd'[c] = i /\ \A k \in All : k < pos'[c] => k \in data'[i]
            BY <2>1, <2>2, <4>1
          <5> QED BY <5>1 DEF Filled
        <4>2. CASE c = b /\ pos[b] # Chunks
          <5>1. \A k \in All : k < pos[b] + 1 => k < pos[b] \/ k = pos[b]
            BY <1>0 DEF All
          <5>2. \A k \in All : k < pos[b] + 1 => k \in data'[i]
            BY <2>2, <4>2, <5>1
          <5> QED BY <2>1, <4>2, <5>2 DEF Filled
        <4>3. CASE c = b /\ pos[b] = Chunks
          <5>1. \A k \in All : k < Chunks \/ k = Chunks
            BY DEF All
          <5>2. All \subseteq data'[i]
            <6> SUFFICES ASSUME NEW k \in All
                         PROVE  k \in data'[i]
              OBVIOUS
            <6>1. CASE k < Chunks
              BY <2>2, <4>3, <6>1
            <6>2. CASE k = Chunks
              BY <2>2, <4>3, <6>2
            <6> QED BY <5>1, <6>1, <6>2
          <5>3. data'[i] = All
            BY Zenon, <2>2, <5>2
          <5> QED BY <5>3 DEF Filled
        <4> QED BY <4>1, <4>2, <4>3
      <3> QED BY <3>1, <3>2
    <2>4. ASSUME NEW i \in Inodes, Unseen(i)
          PROVE  Unseen(i)'
      <3>1. data'[i] = {}
        BY <2>1, <2>2, <2>4 DEF Unseen
      <3>2. \A c \in Builds : pc'[c] = "write" => fd'[c] # i
        BY <2>1, <2>4 DEF Unseen
      <3>3. \/ starts' = 0
            \/ \E c \in Builds : \/ pc'[c] \in {"test", "sum", "rmout"}
                                 \/ pc'[c] = "hash" /\ fd'[c] = i
        BY <2>1, <2>4 DEF Unseen
      <3> QED BY <3>1, <3>2, <3>3 DEF Unseen
    <2> QED BY <2>1, <2>3, <2>4 DEF ShareInv
  <1>9. ASSUME NEW b \in Builds, Install(b)
        PROVE  ShareInv'
    <2>1. /\ data' = data /\ fd' = fd /\ pos' = pos /\ faults' = faults /\ starts' = starts
          /\ pc[b] = "mv" /\ pc'[b] \in {"done", "failed"}
          /\ \A c \in Builds : c # b => pc'[c] = pc[c]
          /\ \/ dir["part"] # 0 /\ dir'["out"] = dir["part"] /\ dir'["part"] = 0
             \/ dir' = dir
      BY <1>0, <1>9 DEF Install, Goto
    <2>2. Quiet
      BY <2>1 DEF Quiet
    <2>3. ASSUME NEW i \in Inodes, Unseen(i)
          PROVE  Unseen(i)'
      <3>1. \/ starts' = 0
            \/ \E c \in Builds : \/ pc'[c] \in {"test", "sum", "rmout"}
                                 \/ pc'[c] = "hash" /\ fd'[c] = i
        BY Zenon, <2>1, <2>3 DEF Unseen
      <3> QED BY <2>1, <2>2, <2>3, <3>1, QuietKeeps DEF Unseen
    <2>4. dir'["out"] = dir'["part"] => dir'["out"] = 0
      BY <2>1 DEF ShareInv
    <2>5. ASSUME faults' = 0, NEW i \in Inodes
          PROVE  /\ dir'["part"] = i => Filled(i)'
                 /\ dir'["out"] = i => Filled(i)' \/ Unseen(i)'
      <3>0. faults = 0
        BY <2>1, <2>5
      <3>1. /\ dir["part"] = i => Filled(i)
            /\ dir["out"] = i => Filled(i) \/ Unseen(i)
        BY <2>5, <3>0 DEF ShareInv
      <3>2. Filled(i) => Filled(i)'
        BY <2>2, QuietKeeps
      <3> QED BY <1>0, <2>1, <2>3, <3>1, <3>2
    <2> QED BY <2>4, <2>5 DEF ShareInv
  <1>10. ASSUME NEW b \in Builds, Kill(b) \/ CurlWriteWrong(b)
         PROVE  ShareInv'
    <2>1. dir' = dir /\ faults' # 0
      BY <1>0, <1>10 DEF Kill, CurlWriteWrong
    <2> QED BY <2>1 DEF ShareInv
  <1>11. CASE UNCHANGED vars
    <2>1. /\ dir' = dir /\ data' = data /\ pc' = pc /\ fd' = fd /\ pos' = pos
          /\ starts' = starts /\ faults' = faults
      BY <1>11 DEF vars
    <2> QED BY <2>1 DEF ShareInv, Filled, Unseen
  <1> QED
    BY <1>1, <1>2, <1>3, <1>4, <1>5, <1>6, <1>7, <1>8, <1>9, <1>10, <1>11 DEF Next, Step

-----------------------------------------------------------------------------
(* common.sh:109-126.  A download that nobody joins finds the two names as it    *)
(* left them from one command to the next.                                       *)
LEMMA AloneNext ==
    ASSUME TypeOK, AloneInv, [Next]_vars
    PROVE  AloneInv'
  <1> USE ConcurrentAssumption DEF files, aux
  <1>0. /\ dir \in [Name -> 0..used] /\ data \in [Inodes -> SUBSET All] /\ used \in 0..MaxInodes
        /\ pc \in [Builds -> Labels] /\ fd \in [Builds -> 0..used] /\ pos \in [Builds -> All]
        /\ alone \in [Builds -> BOOLEAN] /\ hurt \in [Builds -> BOOLEAN] /\ newest \subseteq Builds
        /\ "out" \in Name /\ "part" \in Name /\ Name = {"out", "part"}
    BY DEF TypeOK, Labels, Name
  <1>i. \A name \in Name : dir[name] # 0 => dir[name] \in Inodes
    BY <1>0 DEF Inodes
  <1>1. ASSUME NEW b \in Builds, Start(b)
        PROVE  AloneInv'
    <2>1. newest' = {b} /\ pc'[b] = "test"
      BY <1>0, <1>1 DEF Start
    <2>2. alone'[b] => \A c \in Builds : c # b => pc[c] \in Over
      BY Zenon, <1>1 DEF Start
    <2>3. \A c \in Builds : c # b => pc'[c] = pc[c]
      BY Zenon, <1>0, <1>1 DEF Start
    <2>4. AloneAt(b)'
      BY <2>1 DEF AloneAt
    <2> QED BY <2>1, <2>2, <2>3, <2>4 DEF AloneInv
  <1>a. ASSUME NEW b \in Builds, pc[b] \notin Over, newest' = newest, alone' = alone,
               \A c \in Builds : c # b => pc'[c] = pc[c],
               b \in newest /\ alone[b] /\ AloneAt(b) => AloneAt(b)'
        PROVE  AloneInv'
    <2> SUFFICES ASSUME NEW n \in newest, alone[n]
                 PROVE  (\A c \in Builds : c # n => pc'[c] \in Over) /\ AloneAt(n)'
      BY <1>a DEF AloneInv
    <2>1. n \in Builds /\ (\A c \in Builds : c # n => pc[c] \in Over) /\ AloneAt(n)
      BY <1>0 DEF AloneInv
    <2>2. n = b
      BY <1>a, <2>1
    <2> QED BY <1>a, <2>1, <2>2
  <1>2. ASSUME NEW b \in Builds, Step(b)
        PROVE  newest' = newest /\ alone' = alone /\ hurt' = hurt /\ pc[b] \notin Over
               /\ \A c \in Builds : c # b => pc'[c] = pc[c]
    <2>1. /\ newest' = newest /\ alone' = alone /\ hurt' = hurt
      BY Zenon, <1>2 DEF Step, Test, OpenCached, HashCached, RemoveOut, RemovePart, CurlOpen, CurlWrite,
                  Written, OpenPart, HashPart, RemoveBad, Install, Open, Read, Remove
    <2>2. pc[b] \notin Over
      BY Zenon, <1>2 DEF Step, Test, OpenCached, HashCached, RemoveOut, RemovePart, CurlOpen, CurlWrite,
                  Written, OpenPart, HashPart, RemoveBad, Install, Open, Read, Remove, Goto, Over
    <2>3. pc' = pc \/ \E l \in Labels : pc' = [pc EXCEPT ![b] = l]
      <3>1. {"rmpart", "sum", "hash", "failed", "done", "rmout", "open", "write", "check", "verify", "mv",
             "rmbad"} \subseteq Labels
        BY DEF Labels, Over
      <3> QED
        BY <1>2, <3>1 DEF Step, Test, OpenCached, HashCached, RemoveOut, RemovePart, CurlOpen, CurlWrite,
                    Written, OpenPart, HashPart, RemoveBad, Install, Open, Read, Remove, Goto
    <2> QED BY Zenon, <1>0, <2>1, <2>2, <2>3
  <1>3. ASSUME NEW b \in Builds, Step(b), AloneAt(b)
        PROVE  AloneAt(b)'
    <2>1. CASE Test(b)
      BY <1>0, <1>3, <2>1 DEF Test, Goto, AloneAt
    <2>2. CASE OpenCached(b)
      <3>1. pc[b] = "sum" /\ dir["out"] # 0 /\ pc'[b] = "hash" /\ dir' = dir /\ data' = data
            /\ fd'[b] = dir["out"] /\ pos'[b] = 1
        BY <1>0, <1>3, <2>2 DEF OpenCached, Open, Goto, AloneAt
      <3>2. \A k \in All : ~ (k < 1)
        BY DEF All
      <3> QED BY <3>1, <3>2 DEF AloneAt, Through
    <2>3. CASE HashCached(b)
      <3>1. pc[b] = "hash" /\ dir' = dir /\ data' = data /\ Through(b, "out")
        BY <1>3, <2>3 DEF HashCached, Read, AloneAt
      <3>2. CASE pos[b] \in data[fd[b]] /\ pos[b] < Chunks
        <4>1. pc'[b] = "hash" /\ fd'[b] = fd[b] /\ pos'[b] = pos[b] + 1
          BY <1>0, <2>3, <3>1, <3>2 DEF HashCached, Read
        <4>2. \A k \in All : k < pos[b] + 1 => k < pos[b] \/ k = pos[b]
          BY <1>0 DEF All
        <4>3. Through(b, "out")'
          BY <3>1, <3>2, <4>1, <4>2 DEF Through
        <4> QED BY <4>1, <4>3 DEF AloneAt
      <3>3. CASE pos[b] \notin data[fd[b]]
        <4>1. pc'[b] = "rmout"
          BY <1>0, <2>3, <3>1, <3>3 DEF HashCached, Read
        <4> QED BY <4>1 DEF AloneAt
      <3>4. CASE pos[b] \in data[fd[b]] /\ pos[b] = Chunks
        <4>1. pc'[b] = "done"
          BY <1>0, <2>3, <3>1, <3>4 DEF HashCached, Read
        <4>2. \A k \in All : k < Chunks \/ k = Chunks
          BY DEF All
        <4>3. data[dir["out"]] \subseteq All /\ dir["out"] # 0
          BY Zenon, <1>0, <1>i, <3>1 DEF Through
        <4>4. \A k \in All : k \in data[dir["out"]]
          BY Zenon, <3>1, <3>4, <4>2 DEF Through
        <4>5. Whole("out")'
          BY Zenon, <3>1, <4>3, <4>4 DEF Whole
        <4> QED BY Zenon, <4>1, <4>5 DEF AloneAt
      <3>5. pos[b] < Chunks \/ pos[b] = Chunks
        BY <1>0 DEF All
      <3> QED BY Zenon, <3>2, <3>3, <3>4, <3>5
    <2>4. CASE RemoveOut(b)
      <3>1. pc'[b] = "rmpart"
        BY <1>0, <2>4 DEF RemoveOut, Remove, Goto
      <3> QED BY <3>1 DEF AloneAt
    <2>5. CASE RemovePart(b)
      <3>1. pc'[b] = "open" /\ dir'["part"] = 0
        BY Zenon, <1>0, <2>5 DEF RemovePart, Remove, Goto
      <3> QED BY <3>1 DEF AloneAt
    <2>6. CASE CurlOpen(b)
      <3>1. /\ pc'[b] = "write" /\ pos'[b] = 1 /\ dir'["part"] = used + 1 /\ fd'[b] = used + 1
        BY <1>0, <1>3, <2>6 DEF CurlOpen, Goto, AloneAt
      <3>2. used + 1 # 0 /\ \A k \in All : ~ (k < 1)
        BY <1>0 DEF All
      <3>3. Through(b, "part")'
        BY Zenon, <3>1, <3>2 DEF Through
      <3> QED BY Zenon, <3>1, <3>2, <3>3 DEF AloneAt
    <2>7. CASE CurlWrite(b)
      <3>1. /\ pc[b] = "write" /\ dir' = dir /\ hurt' = hurt
            /\ dir["part"] # 0 /\ fd[b] = dir["part"] /\ (hurt[b] \/ Through(b, "part"))
            /\ data' = [data EXCEPT ![fd[b]] = data[fd[b]] \cup {pos[b]}]
        BY Zenon, <1>2, <1>3, <2>7 DEF CurlWrite, AloneAt
      <3>2. /\ dir["part"] \in Inodes
            /\ data'[dir["part"]] = data[dir["part"]] \cup {pos[b]}
            /\ data'[dir["part"]] \subseteq All
        BY <1>0, <1>i, <3>1
      <3>3. CASE pos[b] # Chunks
        <4>1. pc'[b] = "write" /\ fd'[b] = fd[b] /\ pos'[b] = pos[b] + 1
          BY Zenon, <1>0, <2>7, <3>3 DEF CurlWrite, Written
        <4>2. \A k \in All : k < pos[b] + 1 => k < pos[b] \/ k = pos[b]
          BY <1>0 DEF All
        <4>3. hurt'[b] \/ Through(b, "part")'
          BY Zenon, <3>1, <3>2, <4>1, <4>2 DEF Through
        <4> QED BY Zenon, <3>1, <4>1, <4>3 DEF AloneAt
      <3>4. CASE pos[b] = Chunks
        <4>1. pc'[b] = "check"
          BY Zenon, <1>0, <2>7, <3>4 DEF CurlWrite, Written
        <4>2. \A k \in All : k < Chunks \/ k = Chunks
          BY DEF All
        <4>3. hurt[b] \/ \A k \in All : k \in data'[dir["part"]]
          BY Zenon, <3>1, <3>2, <3>4, <4>2 DEF Through
        <4>4. hurt'[b] \/ Whole("part")'
          BY Zenon, <3>1, <3>2, <4>3 DEF Whole
        <4> QED BY Zenon, <3>1, <4>1, <4>4 DEF AloneAt
      <3> QED BY Zenon, <3>3, <3>4
    <2>8. CASE OpenPart(b)
      <3>1. /\ pc'[b] = "verify" /\ fd'[b] = dir["part"] /\ pos'[b] = 1 /\ dir["part"] # 0
            /\ dir' = dir /\ data' = data /\ hurt' = hurt /\ (hurt[b] \/ Whole("part"))
        BY Zenon, <1>0, <1>2, <1>3, <2>8 DEF OpenPart, Open, Goto, AloneAt, Whole
      <3>2. \A k \in All : ~ (k < 1)
        BY DEF All
      <3> QED BY Zenon, <3>1, <3>2 DEF AloneAt, Through, Whole
    <2>9. CASE HashPart(b)
      <3>1. /\ pc[b] = "verify" /\ dir' = dir /\ data' = data /\ hurt' = hurt
            /\ Through(b, "part") /\ (hurt[b] \/ Whole("part"))
        BY Zenon, <1>2, <1>3, <2>9 DEF HashPart, Read, AloneAt
      <3>2. CASE pos[b] \in data[fd[b]] /\ pos[b] < Chunks
        <4>1. pc'[b] = "verify" /\ fd'[b] = fd[b] /\ pos'[b] = pos[b] + 1
          BY SMTT(15), <1>0, <2>9, <3>1, <3>2 DEF HashPart, Read
        <4>2. \A k \in All : k < pos[b] + 1 => k < pos[b] \/ k = pos[b]
          BY <1>0 DEF All
        <4>3. Through(b, "part")'
          BY <3>1, <3>2, <4>1, <4>2 DEF Through
        <4> QED BY Zenon, <3>1, <4>1, <4>3 DEF AloneAt, Whole
      <3>3. CASE pos[b] \notin data[fd[b]]
        <4>1. pc'[b] = "rmbad"
          BY <1>0, <2>9, <3>1, <3>3 DEF HashPart, Read
        <4>2. hurt'[b]
          BY Zenon, <1>0, <3>1, <3>3 DEF Through, Whole
        <4> QED BY Zenon, <4>1, <4>2 DEF AloneAt
      <3>4. CASE pos[b] \in data[fd[b]] /\ pos[b] = Chunks
        <4>1. pc'[b] = "mv"
          BY <1>0, <2>9, <3>1, <3>4 DEF HashPart, Read
        <4>2. \A k \in All : k < Chunks \/ k = Chunks
          BY DEF All
        <4>3. data[dir["part"]] \subseteq All /\ dir["part"] # 0
          BY Zenon, <1>0, <1>i, <3>1 DEF Through
        <4>4. \A k \in All : k \in data[dir["part"]]
          BY Zenon, <3>1, <3>4, <4>2 DEF Through
        <4>5. Whole("part")'
          BY Zenon, <3>1, <4>3, <4>4 DEF Whole
        <4> QED BY Zenon, <4>1, <4>5 DEF AloneAt
      <3>5. pos[b] < Chunks \/ pos[b] = Chunks
        BY <1>0 DEF All
      <3> QED BY Zenon, <3>2, <3>3, <3>4, <3>5
    <2>10. CASE RemoveBad(b)
      <3>1. pc'[b] = "failed" /\ hurt'[b]
        BY Zenon, <1>0, <1>2, <1>3, <2>10 DEF RemoveBad, Remove, Goto, AloneAt
      <3> QED BY Zenon, <3>1 DEF AloneAt
    <2>11. CASE Install(b)
      <3>1. pc'[b] = "done" /\ dir'["out"] = dir["part"] /\ data' = data /\ Whole("part")
        BY <1>0, <1>3, <2>11 DEF Install, Goto, AloneAt, Whole
      <3> QED BY Zenon, <3>1 DEF AloneAt, Whole
    <2> QED BY Zenon, <1>3, <2>1, <2>2, <2>3, <2>4, <2>5, <2>6, <2>7, <2>8, <2>9, <2>10, <2>11 DEF Step
  <1>4. ASSUME NEW b \in Builds, Kill(b)
        PROVE  AloneInv'
    <2>1. /\ pc[b] \notin Over /\ newest' = newest /\ alone' = alone /\ pc'[b] = "failed" /\ hurt'[b]
          /\ \A c \in Builds : c # b => pc'[c] = pc[c]
      BY <1>0, <1>4 DEF Kill
    <2>2. AloneAt(b)'
      BY Zenon, <2>1 DEF AloneAt
    <2> QED BY <1>a, <2>1, <2>2
  <1>7. ASSUME NEW b \in Builds, CurlWriteWrong(b)
        PROVE  AloneInv'
    <2>1. /\ pc[b] = "write" /\ newest' = newest /\ alone' = alone /\ hurt'[b] /\ dir' = dir
          /\ \/ pc'[b] = "check"
             \/ pc'[b] = "write" /\ fd'[b] = fd[b]
          /\ \A c \in Builds : c # b => pc'[c] = pc[c]
      BY <1>0, <1>7 DEF CurlWriteWrong, Written
    <2>2. AloneAt(b) => AloneAt(b)'
      BY Zenon, <2>1 DEF AloneAt
    <2>3. pc[b] \notin Over
      BY <2>1 DEF Over
    <2> QED BY Zenon, <1>a, <2>1, <2>2, <2>3
  <1>5. CASE UNCHANGED vars
    <2>1. /\ dir' = dir /\ data' = data /\ pc' = pc /\ fd' = fd /\ pos' = pos
          /\ alone' = alone /\ hurt' = hurt /\ newest' = newest
      BY <1>5 DEF vars
    <2> QED BY <2>1 DEF AloneInv, AloneAt, Through, Whole
  <1>6. ASSUME NEW b \in Builds, Step(b)
        PROVE  AloneInv'
    BY <1>2, <1>3, <1>6, <1>a
  <1> QED BY Zenon, <1>1, <1>4, <1>5, <1>6, <1>7 DEF Next

-----------------------------------------------------------------------------
(* The initial states of common.sh:109-126: no download yet, and an archive from *)
(* before that is complete, or not, or not there.                                *)
LEMMA InitHolds == Init => IInv
  <1> SUFFICES ASSUME Init
               PROVE  IInv
    OBVIOUS
  <1> USE ConcurrentAssumption
  <1>1. /\ dir \in [Name -> 0..used] /\ used \in 0..MaxInodes /\ dir["out"] \in {0, 1} /\ dir["part"] = 0
    BY DEF Init, Name
  <1>2. data \in [Inodes -> SUBSET All] /\ \A i \in Inodes : data[i] = All \/ data[i] = {}
    BY DEF Init
  <1>3. TypeOK
    <2>1. 1 \in All
      BY DEF All
    <2> QED BY <1>1, <1>2, <2>1 DEF Init, TypeOK, Over
  <1>4. ShareInv
    <2>1. 0 \notin Inodes
      BY DEF Inodes
    <2>2. \A b \in Builds : pc[b] = "idle"
      BY DEF Init
    <2> QED BY <1>1, <1>2, <2>1, <2>2 DEF ShareInv, Filled, Unseen, Init
  <1>5. AloneInv
    BY DEF Init, AloneInv
  <1> QED BY <1>3, <1>4, <1>5 DEF IInv

(* The inductive invariant of download_checked (common.sh:109-126) in a checkout *)
(* that any number of builds share.                                              *)
THEOREM Invariance == Spec => []IInv
  <1>1. IInv /\ [Next]_vars => IInv'
    BY TypeNext, ShareNext, AloneNext DEF IInv
  <1> QED BY InitHolds, <1>1, PTL DEF Spec

(* common.sh:118-126.  As long as no build is killed or gets wrong bytes, the    *)
(* file under the archive's name is complete when all downloads have ended,      *)
(* however many builds share the checkout.                                       *)
THEOREM SharedSettles == Spec => []SettlesWhole
  <1>1. IInv => SettlesWhole
    <2> SUFFICES ASSUME IInv, Resting, faults = 0, starts > 0, dir["out"] # 0
                 PROVE  Whole("out")
      BY DEF SettlesWhole
    <2> USE ConcurrentAssumption
    <2>1. dir["out"] \in Inodes /\ starts # 0
      BY DEF IInv, TypeOK, Inodes, Name
    <2>2. \A b \in Builds : pc[b] \notin {"write", "test", "sum", "rmout", "hash"}
      BY DEF Resting, Over
    <2>3. Filled(dir["out"]) \/ Unseen(dir["out"])
      BY <2>1 DEF IInv, ShareInv
    <2> QED BY <2>1, <2>2, <2>3 DEF Filled, Unseen, Whole
  <1> QED BY Invariance, <1>1, PTL

(* common.sh:109-126.  A download that nobody joined succeeds over a complete    *)
(* file unless it suffered a failure, whatever earlier downloads left behind.    *)
THEOREM AloneSucceeds == Spec => []AloneIsSafe
  <1>1. IInv => AloneIsSafe
    BY DEF IInv, AloneIsSafe, AloneInv, AloneAt, Over
  <1> QED BY Invariance, <1>1, PTL
=============================================================================
