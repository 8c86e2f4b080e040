----------------------- MODULE ReleaseWorkflowProofs -----------------------
(***************************************************************************)
(* What holds of release.yml for any number of pushes, builds, failures and *)
(* runs that are run again.                                                 *)
(***************************************************************************)
EXTENDS ReleaseWorkflow, TLAPS

(* The concurrency group lets one run be under way and one wait, and a run     *)
(* that is not under way has at most its first step before it.                 *)
GroupInv ==
    /\ \A q, r \in active : q = r
    /\ \A q, r \in pending : q = r
    /\ pending # {} => active # {}
    /\ \A r \in Runs : status[r] = "running" <=> r \in active
    /\ \A r \in Runs : status[r] = "pending" <=> r \in pending
    /\ \A r \in Runs : status[r] = "none" <=> r > pushes
    /\ \A r \in Runs : r \notin active => pc[r] \in {"idle", "build", "download"}

(* A run that was not run again waits only while it is the newest, and so no   *)
(* newer run has built anything when it starts.                                *)
OrderInv ==
    /\ \A b \in DOMAIN made : made[b] <= pushes
    /\ \A r \in pending : ~again[r] => r = pushes
    /\ \A r \in active \cup pending : ~again[r] => \A b \in DOMAIN made : made[b] <= r

Own(r, b) == b \in DOMAIN made /\ made[b] = r

(* The artifact of a run and what it publishes are its own. *)
DistInv ==
    /\ \A r \in Runs : artifact[r] # 0 => Own(r, artifact[r])
    /\ \A r \in Runs : pc[r] = "verify" =>
           \A a \in Assets : dist[r][a] = Junk \/ Own(r, dist[r][a])
    /\ \A r \in Runs : pc[r] \in {"view", "create", "fill", "upload"} =>
           \A a \in Assets : dist[r][a] = dist[r]["zip"] /\ Own(r, dist[r][a])

(* What the run under way has uploaded is in the Release, and whoever changed  *)
(* the Release last has been under way.                                        *)
AssetInv ==
    /\ OnlyBuilds
    /\ \A r \in Runs : pc[r] = "create" => todo[r] = Assets
    /\ \A r \in Runs : pc[r] \in {"fill", "upload"} =>
           /\ release # "none"
           /\ \A a \in Assets \ todo[r] : assets[a] = dist[r][a] /\ last = r
    /\ release # "none" => last # 0
    /\ last # 0 => status[last] \in {"running", "failure", "success"} \/ again[last]
    /\ SuccessIsWhole

IInv == TypeOK /\ GroupInv /\ OrderInv /\ DistInv /\ AssetInv

-----------------------------------------------------------------------------
Steps == {"idle", "build", "download", "verify", "view", "create", "fill", "upload"}
Results == {"none", "pending", "running", "success", "failure", "cancelled"}
Files == 0..Len(made) \cup {Junk}

(* TypeOK, in these words. *)
Typed ==
    /\ pushes \in 0..MaxRuns /\ again \in [Runs -> BOOLEAN] /\ made \in Seq(Runs)
    /\ status \in [Runs -> Results] /\ pc \in [Runs -> Steps]
    /\ active \subseteq Runs /\ pending \subseteq Runs
    /\ artifact \in [Runs -> 0..Len(made)] /\ dist \in [Runs -> [Assets -> Files]]
    /\ todo \in [Runs -> SUBSET Assets] /\ last \in 0..MaxRuns
    /\ release \in {"none", "draft", "published"} /\ assets \in [Assets -> Files]
    /\ faults \in 0..MaxFaults

(* The runs and the group after a run has entered it or left it. *)
LEMMA GroupTypes ==
    ASSUME TypeOK, NEW r \in Runs
    PROVE  /\ \A step \in {"build", "download"} : Enter(r, step) =>
                  /\ status' \in [Runs -> Results] /\ pc' \in [Runs -> Steps]
                  /\ active' \subseteq Runs /\ pending' \subseteq Runs
           /\ \A result \in {"success", "failure"} : Finish(r, result) =>
                  /\ status' \in [Runs -> Results] /\ pc' \in [Runs -> Steps]
                  /\ active' \subseteq Runs /\ pending' \subseteq Runs /\ again' = again
                  /\ dist' \in [Runs -> [Assets -> Files]] /\ todo' \in [Runs -> SUBSET Assets]
  <1>1. None \in [Assets -> Files]
    <2>1. Len(made) \in Nat
      BY DEF TypeOK
    <2>2. 0 \in Files
      BY <2>1 DEF Files
    <2> QED BY <2>2 DEF None
  <1>2. /\ status \in [Runs -> Results] /\ pc \in [Runs -> Steps]
        /\ active \subseteq Runs /\ pending \subseteq Runs
        /\ dist \in [Runs -> [Assets -> Files]] /\ todo \in [Runs -> SUBSET Assets]
    BY DEF TypeOK, Results, Steps, Files
  <1>3. ASSUME NEW step \in {"build", "download"}, Enter(r, step)
        PROVE  /\ status' \in [Runs -> Results] /\ pc' \in [Runs -> Steps]
               /\ active' \subseteq Runs /\ pending' \subseteq Runs
    BY <1>2, <1>3 DEF Enter, Results, Steps
  <1>4. ASSUME NEW result \in {"success", "failure"}, Finish(r, result)
        PROVE  /\ status' \in [Runs -> Results] /\ pc' \in [Runs -> Steps]
               /\ active' \subseteq Runs /\ pending' \subseteq Runs /\ again' = again
               /\ dist' \in [Runs -> [Assets -> Files]] /\ todo' \in [Runs -> SUBSET Assets]
    <2>1. status' \in [Runs -> Results] /\ pc' \in [Runs -> Steps]
      BY <1>2, <1>4 DEF Finish, Results, Steps
    <2>2. active' \subseteq Runs /\ pending' \subseteq Runs /\ again' = again
      BY <1>2, <1>4 DEF Finish
    <2>3. dist' \in [Runs -> [Assets -> Files]] /\ todo' \in [Runs -> SUBSET Assets]
      BY <1>1, <1>2, <1>4 DEF Finish
    <2> QED BY <2>1, <2>2, <2>3
  <1> QED BY <1>3, <1>4

(* The workflow's state keeps its types; the files in dist/ and in the Release *)
(* are damaged or of builds that were made.                                    *)
LEMMA TypeNext ==
    ASSUME TypeOK, [Next]_vars
    PROVE  TypeOK'
  <1> USE WorkflowAssumption DEF group, local, github, Runs
  <1>t. Typed
    BY Zenon DEF TypeOK, Typed, Results, Steps, Files, Runs
  <1>n. Len(made) \in Nat /\ None \in [Assets -> Files]
    <2>1. made \in Seq(Runs)
      BY Zenon, <1>t DEF Typed
    <2>2. Len(made) \in Nat
      BY <2>1
    <2> QED BY <2>2 DEF Files, None
  <1>0. /\ pushes \in 0..MaxRuns /\ again \in [Runs -> BOOLEAN] /\ made \in Seq(Runs)
        /\ status \in [Runs -> Results] /\ pc \in [Runs -> Steps]
        /\ active \subseteq Runs /\ pending \subseteq Runs
        /\ artifact \in [Runs -> 0..Len(made)] /\ dist \in [Runs -> [Assets -> Files]]
        /\ todo \in [Runs -> SUBSET Assets] /\ last \in 0..MaxRuns
        /\ release \in {"none", "draft", "published"} /\ assets \in [Assets -> Files]
        /\ faults \in 0..MaxFaults /\ Len(made) \in Nat /\ None \in [Assets -> Files]
    BY Zenon, <1>t, <1>n DEF Typed
  <1>a. Typed' => TypeOK'
    BY Zenon DEF Typed, TypeOK, Results, Steps, Files
  <1>b. made' = made => Files' = Files /\ Len(made') = Len(made)
    BY DEF Files
  <1>c. Fault => faults' \in 0..MaxFaults
    BY <1>0 DEF Fault
  <1> HIDE DEF Runs
  <1>1. ASSUME Push
        PROVE  Typed'
    <2>1. pushes + 1 \in Runs /\ pushes' \in 0..MaxRuns
      BY <1>0, <1>1 DEF Push, Runs
    <2> QED BY <1>0, <1>1, <1>b, <2>1, GroupTypes DEF Typed, Push
  <1>2. ASSUME NEW r \in Runs, NEW step \in {"build", "download"}, Rerun(r, step)
        PROVE  Typed'
    <2>1. faults' \in 0..MaxFaults
      BY <1>0, <1>2, <1>c DEF Rerun
    <2> QED BY Zenon, <1>0, <1>2, <1>b, <2>1, GroupTypes DEF Typed, Rerun
  <1>3. ASSUME NEW r \in Runs, Build(r)
        PROVE  Typed'
    <2>1. /\ made' = Append(made, r) /\ artifact' = [artifact EXCEPT ![r] = Len(made) + 1]
          /\ pc' = [pc EXCEPT ![r] = "download"]
          /\ UNCHANGED <<pushes, group, dist, todo, github, faults>>
      BY <1>3 DEF Build
    <2>2. made' \in Seq(Runs) /\ Len(made') = Len(made) + 1
      BY <1>0, <2>1
    <2>3. Files \subseteq Files' /\ 0..Len(made) \subseteq 0..Len(made')
      BY <1>0, <2>2 DEF Files
    <2>4. artifact' \in [Runs -> 0..Len(made')]
      <3>1. Len(made) + 1 \in 0..Len(made')
        BY <1>0, <2>2
      <3> QED BY <1>0, <2>1, <2>3, <3>1
    <2>5. dist' \in [Runs -> [Assets -> Files']] /\ assets' \in [Assets -> Files']
      <3>1. [Assets -> Files] \subseteq [Assets -> Files']
        BY <2>3
      <3> QED BY Zenon, <1>0, <2>1, <3>1
    <2>6. pc' \in [Runs -> Steps]
      BY <1>0, <2>1 DEF Steps
    <2> QED BY <1>0, <2>1, <2>2, <2>4, <2>5, <2>6 DEF Typed
  <1>4. ASSUME NEW r \in Runs, Expire(r)
        PROVE  Typed'
    <2>1. /\ artifact' = [artifact EXCEPT ![r] = 0] /\ faults' \in 0..MaxFaults
          /\ UNCHANGED <<pushes, group, local, github, made>>
      BY <1>4, <1>c DEF Expire
    <2>2. artifact' \in [Runs -> 0..Len(made)]
      <3>1. 0 \in 0..Len(made)
        BY <1>0
      <3> QED BY <1>0, <2>1, <3>1
    <2> QED BY <1>0, <1>b, <2>1, <2>2 DEF Typed
  <1>5. ASSUME NEW r \in Runs, Download(r)
        PROVE  Typed'
    <2>1. /\ pc' = [pc EXCEPT ![r] = "verify"] /\ faults' \in 0..MaxFaults
          /\ UNCHANGED <<pushes, group, todo, artifact, github, made>>
      BY <1>0, <1>5, <1>c DEF Download
    <2>2. artifact[r] \in Files /\ Junk \in Files
      BY <1>0 DEF Files
    <2>3. \E f \in [Assets -> Files] : dist' = [dist EXCEPT ![r] = f]
      <3>1. [a \in Assets |-> artifact[r]] \in [Assets -> Files]
        BY <2>2
      <3>2. \A a \in Assets : [[b \in Assets |-> artifact[r]] EXCEPT ![a] = Junk] \in [Assets -> Files]
        BY <2>2
      <3> QED BY <1>5, <3>1, <3>2 DEF Download
    <2>4. dist' \in [Runs -> [Assets -> Files]] /\ pc' \in [Runs -> Steps]
      BY <1>0, <2>1, <2>3 DEF Steps
    <2> QED BY <1>0, <1>b, <2>1, <2>4 DEF Typed
  <1>6. ASSUME NEW r \in Runs, Verify(r)
        PROVE  Typed'
    <2>1. /\ pc' = [pc EXCEPT ![r] = "view"]
          /\ UNCHANGED <<pushes, group, artifact, dist, todo, github, made, faults>>
      BY <1>6 DEF Verify
    <2> QED BY <1>0, <1>b, <2>1 DEF Typed, Steps
  <1>7. ASSUME NEW r \in Runs, View(r)
        PROVE  Typed'
    <2>1. /\ \E q \in {"create", "upload"} : pc' = [pc EXCEPT ![r] = q]
          /\ faults' \in 0..MaxFaults /\ todo' = [todo EXCEPT ![r] = Assets]
          /\ UNCHANGED <<pushes, group, artifact, dist, github, made>>
      BY <1>0, <1>7, <1>c DEF View
    <2> QED BY <1>0, <1>b, <2>1 DEF Typed, Steps
  <1>8. ASSUME NEW r \in Runs, Create(r)
        PROVE  Typed'
    <2>1. /\ release' = "draft" /\ assets' = None /\ last' = r /\ pc' = [pc EXCEPT ![r] = "fill"]
          /\ UNCHANGED <<pushes, group, artifact, dist, todo, made, faults>>
      BY <1>8 DEF Create
    <2>2. last' \in 0..MaxRuns
      BY <2>1 DEF Runs
    <2> QED BY <1>0, <1>b, <2>1, <2>2 DEF Typed, Steps
  <1>9. ASSUME NEW r \in Runs, NEW a \in Assets, DeleteOld(r, a) \/ Put(r, a)
        PROVE  Typed'
    <2>1. /\ last' = r /\ \E f \in {0, dist[r][a]} : assets' = [assets EXCEPT ![a] = f]
          /\ todo' = todo \/ todo' = [todo EXCEPT ![r] = @ \ {a}]
          /\ UNCHANGED <<pushes, group, pc, dist, artifact, release, made, faults>>
      BY <1>9 DEF DeleteOld, Put
    <2>2. last' \in 0..MaxRuns
      BY <2>1 DEF Runs
    <2>3. assets' \in [Assets -> Files]
      <3>1. 0 \in Files /\ dist[r][a] \in Files
        BY <1>0 DEF Files
      <3> QED BY <1>0, <2>1, <3>1
    <2>4. todo' \in [Runs -> SUBSET Assets]
      <3>1. todo[r] \ {a} \in SUBSET Assets
        BY <1>0
      <3> QED BY Zenon, <1>0, <2>1, <3>1
    <2> QED BY Zenon, <1>0, <1>b, <2>1, <2>2, <2>3, <2>4 DEF Typed
  <1>10. ASSUME NEW r \in Runs, DownloadExpired(r) \/ VerifyFails(r) \/ CreateRefused(r)
         PROVE  Typed'
    BY <1>0, <1>10, <1>b, GroupTypes DEF Typed, DownloadExpired, VerifyFails, CreateRefused
  <1>11. ASSUME NEW r \in Runs, Published(r)
         PROVE  Typed'
    BY <1>0, <1>11, <1>b, GroupTypes DEF Typed, Published
  <1>12. ASSUME NEW r \in Runs, Fail(r)
         PROVE  Typed'
    <2>1. r \in 0..MaxRuns
      BY DEF Runs
    <2> QED BY Zenon, <1>0, <1>12, <1>b, <1>c, <2>1, GroupTypes DEF Typed, Fail
  <1>13. ASSUME UNCHANGED vars
         PROVE  Typed'
    BY <1>0, <1>13, <1>b DEF vars, Typed
  <1> QED
    BY <1>1, <1>2, <1>3, <1>4, <1>5, <1>6, <1>7, <1>8, <1>9, <1>10, <1>11, <1>12, <1>13, <1>a
    DEF Next, Step

-----------------------------------------------------------------------------
(* What the steps do to the group: a run enters it, the run under way leaves   *)
(* it or takes a step of its jobs, or nothing happens in it.                   *)
Entering(r, step) ==
    /\ Enter(r, step) /\ r \notin active /\ r \notin pending
    /\ UNCHANGED <<artifact, dist, todo, release, assets, last, made>>
    /\ \/ r = pushes + 1 /\ pushes' = pushes + 1 /\ again' = again
       \/ r <= pushes /\ pushes' = pushes /\ again' = [again EXCEPT ![r] = TRUE]

Leaving(r, result) ==
    r \in active /\ Finish(r, result) /\ UNCHANGED <<pushes, artifact, made>>

Working(r) ==
    /\ r \in active /\ UNCHANGED <<pushes, active, pending, status, again>>
    /\ \E q \in Steps : pc' = [pc EXCEPT ![r] = q]
    /\ made' = made \/ made' = Append(made, r)

(* A push and a run that is run again enter the group from outside of it. *)
LEMMA Enters ==
    ASSUME IInv, Push \/ \E r \in Runs, step \in {"build", "download"} : Rerun(r, step)
    PROVE  \E r \in Runs, step \in {"build", "download"} : Entering(r, step)
  <1> USE DEF group, local, github
  <1>0. TypeOK /\ GroupInv /\ pushes \in Nat
    BY WorkflowAssumption DEF IInv, TypeOK
  <1>1. ASSUME Push
        PROVE  \E r \in Runs, step \in {"build", "download"} : Entering(r, step)
    <2>1. pushes + 1 \in Runs /\ pushes + 1 > pushes
      BY <1>0, <1>1, WorkflowAssumption DEF Push, Runs, TypeOK
    <2>2. status[pushes + 1] = "none"
      BY <1>0, <2>1 DEF GroupInv
    <2>3. Entering(pushes + 1, "build")
      BY <1>0, <1>1, <2>1, <2>2 DEF Push, Entering, GroupInv
    <2> QED BY <2>1, <2>3
  <1>2. ASSUME NEW r \in Runs, NEW step \in {"build", "download"}, Rerun(r, step)
        PROVE  Entering(r, step)
    <2>1. status[r] \in {"failure", "success", "cancelled"}
      BY <1>2 DEF Rerun
    <2>2. r <= pushes
      BY <1>0, <2>1, WorkflowAssumption DEF GroupInv, Runs
    <2> QED BY <1>0, <1>2, <2>1, <2>2 DEF Rerun, Entering, GroupInv
  <1> QED BY <1>1, <1>2

(* Every step of the workflow has one of these shapes. *)
LEMMA Shapes ==
    ASSUME IInv, [Next]_vars
    PROVE  \/ \E r \in Runs, step \in {"build", "download"} : Entering(r, step)
           \/ \E r \in Runs, result \in {"success", "failure"} : Leaving(r, result)
           \/ \E r \in Runs : Working(r)
           \/ UNCHANGED <<pushes, active, pending, status, again, pc, made>>
  <1> USE DEF group, local, github
  <1>0. TypeOK
    BY DEF IInv
  <1>1. ASSUME NEW r \in Runs, DownloadExpired(r) \/ VerifyFails(r) \/ CreateRefused(r) \/ Fail(r)
        PROVE  Leaving(r, "failure")
    BY <1>1 DEF DownloadExpired, VerifyFails, CreateRefused, Fail, Leaving
  <1>2. ASSUME NEW r \in Runs, Published(r)
        PROVE  Leaving(r, "success")
    BY <1>2 DEF Published, Leaving
  <1>3. ASSUME NEW r \in Runs, Build(r)
        PROVE  Working(r)
    BY <1>3 DEF Build, Working, Steps
  <1>4. ASSUME NEW r \in Runs, Download(r) \/ Verify(r) \/ View(r) \/ Create(r)
        PROVE  Working(r)
    BY <1>4 DEF Download, Verify, View, Create, Working, Steps
  <1>5. ASSUME NEW r \in Runs, NEW a \in Assets, DeleteOld(r, a) \/ Put(r, a)
        PROVE  Working(r)
    <2>1. pc' = pc /\ pc[r] \in Steps /\ pc = [pc EXCEPT ![r] = pc[r]]
      BY <1>0, <1>5 DEF DeleteOld, Put, TypeOK, Steps
    <2> QED BY <1>5, <2>1 DEF DeleteOld, Put, Working
  <1>6. ASSUME NEW r \in Runs, Expire(r)
        PROVE  UNCHANGED <<pushes, active, pending, status, again, pc, made>>
    BY <1>6 DEF Expire
  <1>7. CASE UNCHANGED vars
    BY <1>7 DEF vars
  <1> QED BY Enters, <1>1, <1>2, <1>3, <1>4, <1>5, <1>6, <1>7 DEF Next, Step

(* release.yml:8-10: one run under way and one that waits, after a step. *)
LEMMA GroupNext ==
    ASSUME IInv, [Next]_vars, TypeOK'
    PROVE  GroupInv'
  <1>0. /\ GroupInv /\ pushes \in Nat /\ status \in [Runs -> Results] /\ pc \in [Runs -> Steps]
        /\ active \subseteq Runs /\ pending \subseteq Runs /\ \A r \in Runs : r \in Nat
    BY WorkflowAssumption DEF IInv, TypeOK, Results, Steps, Runs
  <1>1. ASSUME NEW r \in Runs, NEW step \in {"build", "download"}, Entering(r, step)
        PROVE  GroupInv'
    <2>1. \A q \in Runs : q > pushes' <=> q > pushes /\ q # r
      BY <1>0, <1>1 DEF Entering
    <2>2. \A q \in Runs : pc'[q] = IF q = r THEN step ELSE pc[q]
      BY <1>0, <1>1 DEF Entering, Enter
    <2>3. CASE active = {}
      <3>1. active' = {r} /\ pending' = {} /\ status' = [status EXCEPT ![r] = "running"]
        BY <1>0, <1>1, <2>3 DEF Entering, Enter, GroupInv
      <3>2. \A q \in Runs : status'[q] = IF q = r THEN "running" ELSE status[q]
        BY <1>0, <3>1
      <3> QED BY <1>0, <2>1, <2>2, <2>3, <3>1, <3>2 DEF GroupInv
    <2>4. CASE active # {}
      <3>1. active' = active /\ pending' = {r} /\ r \notin active
        BY <1>1, <2>4 DEF Entering, Enter
      <3>2. \A q \in Runs : status'[q] = IF q = r THEN "pending"
                                         ELSE IF q \in pending THEN "cancelled" ELSE status[q]
        BY <1>1, <2>4 DEF Entering, Enter
      <3>3. \A q \in Runs : status'[q] = "running" <=> q \in active
        BY <1>0, <3>1, <3>2 DEF GroupInv
      <3>4. \A q \in Runs : status'[q] = "pending" <=> q = r
        BY <1>0, <3>2 DEF GroupInv
      <3>5. \A q \in Runs : status'[q] = "none" <=> q > pushes'
        BY <1>0, <2>1, <3>2 DEF GroupInv
      <3>6. \A q \in Runs : q \notin active => pc'[q] \in {"idle", "build", "download"}
        BY <1>0, <2>2 DEF GroupInv
      <3> QED BY <1>0, <2>4, <3>1, <3>3, <3>4, <3>5, <3>6 DEF GroupInv
    <2> QED BY <2>3, <2>4
  <1>2. ASSUME NEW r \in Runs, NEW result \in {"success", "failure"}, Leaving(r, result)
        PROVE  GroupInv'
    <2>1. /\ active = {r} /\ active' = pending /\ pending' = {} /\ pushes' = pushes
          /\ \A q \in Runs : status'[q] = IF q = r THEN result
                                          ELSE IF q \in pending THEN "running" ELSE status[q]
          /\ \A q \in Runs : pc'[q] = IF q = r THEN "idle" ELSE pc[q]
      BY <1>0, <1>2 DEF Leaving, Finish, GroupInv
    <2>2. status[r] = "running" /\ r \notin pending
      BY <1>0, <2>1 DEF GroupInv
    <2>3. \A q \in Runs : status'[q] = "running" <=> q \in pending
      BY <1>0, <2>1, <2>2 DEF GroupInv
    <2>4. \A q \in Runs : status'[q] # "pending"
      BY <1>0, <2>1, <2>2 DEF GroupInv
    <2>5. \A q \in Runs : status'[q] = "none" <=> q > pushes
      BY <1>0, <2>1, <2>2 DEF GroupInv
    <2>6. \A q \in Runs : pc'[q] \in {"idle", "build", "download"}
      BY <1>0, <2>1 DEF GroupInv
    <2> QED BY <1>0, <2>1, <2>3, <2>4, <2>5, <2>6 DEF GroupInv
  <1>3. ASSUME NEW r \in Runs, Working(r)
        PROVE  GroupInv'
    <2>1. /\ r \in active /\ UNCHANGED <<pushes, active, pending, status>>
          /\ \A q \in Runs : q # r => pc'[q] = pc[q]
      BY <1>0, <1>3 DEF Working
    <2> QED BY <1>0, <2>1 DEF GroupInv
  <1>4. ASSUME UNCHANGED <<pushes, active, pending, status, again, pc, made>>
        PROVE  GroupInv'
    BY <1>0, <1>4 DEF GroupInv
  <1> QED BY <1>1, <1>2, <1>3, <1>4, Shapes

(* release.yml:9: newer runs have built nothing before an older one that was   *)
(* not run again, after a step.                                                *)
LEMMA OrderNext ==
    ASSUME IInv, [Next]_vars, TypeOK'
    PROVE  OrderInv'
  <1>0. /\ GroupInv /\ OrderInv /\ pushes \in Nat /\ again \in [Runs -> BOOLEAN] /\ made \in Seq(Runs)
        /\ active \subseteq Runs /\ pending \subseteq Runs /\ \A r \in Runs : r \in Nat
    BY WorkflowAssumption DEF IInv, TypeOK, Runs
  <1>a. \A r \in active \cup pending : r <= pushes
    BY <1>0 DEF GroupInv
  <1>b. \A b \in DOMAIN made : made[b] \in Nat /\ made[b] <= pushes
    BY <1>0 DEF OrderInv
  <1>1. ASSUME NEW r \in Runs, NEW step \in {"build", "download"}, Entering(r, step)
        PROVE  OrderInv'
    <2>1. /\ made' = made /\ pushes' \in Nat /\ pushes' >= pushes
          /\ active' \subseteq active \cup {r}
          /\ pending' = {r} \/ (pending' = pending /\ active = {})
          /\ \A q \in Runs : q # r => again'[q] = again[q]
          /\ ~again'[r] => r = pushes' /\ r = pushes + 1
      BY <1>0, <1>1 DEF Entering, Enter
    <2>2. pending' \subseteq {r}
      BY <1>0, <2>1 DEF GroupInv
    <2>3. \A b \in DOMAIN made : made[b] <= pushes' /\ (~again'[r] => made[b] <= r)
      BY <1>0, <1>b, <2>1
    <2>4. \A q \in pending' : ~again'[q] => q = pushes'
      BY <2>1, <2>2
    <2>5. \A q \in active' \cup pending' : ~again'[q] => \A b \in DOMAIN made : made[b] <= q
      <3> TAKE q \in active' \cup pending'
      <3>1. CASE q = r
        BY <2>3, <3>1
      <3>2. CASE q # r
        <4>1. q \in active /\ again'[q] = again[q]
          BY <1>0, <2>1, <2>2, <3>2
        <4> QED BY <1>0, <4>1 DEF OrderInv
      <3> QED BY <3>1, <3>2
    <2> QED BY <2>1, <2>3, <2>4, <2>5 DEF OrderInv
  <1>2. ASSUME NEW r \in Runs, NEW result \in {"success", "failure"}, Leaving(r, result)
        PROVE  OrderInv'
    <2>1. /\ active' \subseteq active \cup pending /\ pending' = {}
          /\ UNCHANGED <<made, pushes, again>>
      BY <1>2 DEF Leaving, Finish
    <2> QED BY <1>0, <2>1 DEF OrderInv
  <1>3. ASSUME NEW r \in Runs, Working(r)
        PROVE  OrderInv'
    <2>1. r \in active /\ UNCHANGED <<pushes, active, pending, again>> /\ r <= pushes
      BY <1>3, <1>a DEF Working
    <2>2. CASE made' = made
      BY <1>0, <2>1, <2>2 DEF OrderInv
    <2>3. CASE made' = Append(made, r)
      <3>1. \A b \in DOMAIN made' : made'[b] = r \/ (b \in DOMAIN made /\ made'[b] = made[b])
        BY <1>0, <2>3
      <3>2. \A q \in active \cup pending : ~again[q] => r <= q
        <4>1. \A q \in active : r <= q
          BY <1>0, <2>1 DEF GroupInv
        <4>2. \A q \in pending : ~again[q] => r <= q
          BY <1>0, <2>1 DEF OrderInv
        <4> QED BY <4>1, <4>2
      <3>3. \A b \in DOMAIN made' : made'[b] <= pushes
        BY <1>b, <2>1, <3>1
      <3>4. \A q \in active \cup pending : ~again[q] => \A b \in DOMAIN made' : made'[b] <= q
        BY <1>0, <3>1, <3>2 DEF OrderInv
      <3> QED BY <1>0, <2>1, <3>3, <3>4 DEF OrderInv
    <2> QED BY <1>3, <2>2, <2>3 DEF Working
  <1>4. ASSUME UNCHANGED <<pushes, active, pending, status, again, pc, made>>
        PROVE  OrderInv'
    BY <1>0, <1>4 DEF OrderInv
  <1> QED BY <1>1, <1>2, <1>3, <1>4, Shapes

-----------------------------------------------------------------------------
(* DistInv for one run. *)
Dist(r) ==
    /\ artifact[r] # 0 => Own(r, artifact[r])
    /\ pc[r] = "verify" => \A a \in Assets : dist[r][a] = Junk \/ Own(r, dist[r][a])
    /\ pc[r] \in {"view", "create", "fill", "upload"} =>
           \A a \in Assets : dist[r][a] = dist[r]["zip"] /\ Own(r, dist[r][a])

(* release.yml:20-71: what a run builds, downloads and verifies is its own. *)
LEMMA DistNext ==
    ASSUME IInv, [Next]_vars, TypeOK'
    PROVE  DistInv'
  <1> USE DEF group, local, github
  <1>0. /\ made \in Seq(Runs) /\ artifact \in [Runs -> 0..Len(made)] /\ pc \in [Runs -> Steps]
        /\ dist \in [Runs -> [Assets -> Files]] /\ \A q \in Runs : Dist(q)
    BY Zenon DEF IInv, TypeOK, DistInv, Dist, Steps, Files
  <1>a. (\A q \in Runs : Dist(q)') => DistInv'
    BY DEF DistInv, Dist
  <1>b. ASSUME UNCHANGED made, NEW r \in Runs, Dist(r)',
               \A q \in Runs \ {r} :
                   /\ artifact'[q] = artifact[q] /\ dist'[q] = dist[q]
                   /\ pc'[q] = pc[q]
        PROVE  DistInv'
    <2>1. \A q \in Runs \ {r} : Dist(q)'
      BY <1>0, <1>b DEF Dist, Own
    <2> QED BY Zenon, <1>a, <1>b, <2>1
  <1>1. ASSUME NEW r \in Runs, NEW step \in {"build", "download"}, Enter(r, step),
               UNCHANGED <<artifact, dist, made>>
        PROVE  DistInv'
    <2>1. pc' = [pc EXCEPT ![r] = step]
      BY <1>1 DEF Enter
    <2>2. pc'[r] = step /\ \A q \in Runs \ {r} : pc'[q] = pc[q]
      BY Zenon, <1>0, <2>1
    <2>3. Dist(r)'
      BY Zenon, <1>0, <1>1, <2>2 DEF Dist, Own
    <2> QED BY <1>b, <1>1, <2>2, <2>3
  <1>2. ASSUME NEW r \in Runs, NEW result \in {"success", "failure"}, Leaving(r, result)
        PROVE  DistInv'
    <2>1. /\ pc'[r] = "idle" /\ UNCHANGED <<artifact, made>>
          /\ \A q \in Runs \ {r} : pc'[q] = pc[q] /\ dist'[q] = dist[q]
      BY Zenon, <1>0, <1>2 DEF Leaving, Finish
    <2>2. Dist(r)'
      BY <1>0, <2>1 DEF Dist, Own
    <2> QED BY <1>b, <2>1, <2>2
  <1>3. ASSUME NEW r \in Runs, Build(r)
        PROVE  DistInv'
    <2>1. /\ made' = Append(made, r) /\ pc' = [pc EXCEPT ![r] = "download"]
          /\ artifact' = [artifact EXCEPT ![r] = Len(made) + 1] /\ dist' = dist
      BY <1>3 DEF Build
    <2>2. /\ Len(made) + 1 \in DOMAIN made' /\ made'[Len(made) + 1] = r
          /\ \A b \in DOMAIN made : b \in DOMAIN made' /\ made'[b] = made[b]
      BY <1>0, <2>1
    <2>3. /\ artifact'[r] = Len(made) + 1 /\ pc'[r] = "download"
          /\ \A q \in Runs \ {r} : artifact'[q] = artifact[q] /\ pc'[q] = pc[q]
      BY <1>0, <2>1
    <2>4. Dist(r)'
      BY Zenon, <2>2, <2>3 DEF Dist, Own
    <2>5. \A q \in Runs \ {r} : Dist(q)'
      BY <1>0, <2>1, <2>2, <2>3 DEF Dist, Own
    <2> QED BY <1>a, <2>4, <2>5
  <1>4. ASSUME NEW r \in Runs, Expire(r)
        PROVE  DistInv'
    <2>1. /\ artifact'[r] = 0 /\ \A q \in Runs \ {r} : artifact'[q] = artifact[q]
          /\ UNCHANGED <<pc, dist, made>>
      BY Zenon, <1>0, <1>4 DEF Expire
    <2>2. Dist(r)'
      BY <1>0, <2>1 DEF Dist, Own
    <2> QED BY <1>b, <2>1, <2>2
  <1>5. ASSUME NEW r \in Runs, Download(r)
        PROVE  DistInv'
    <2>1. /\ pc'[r] = "verify" /\ UNCHANGED <<artifact, made>> /\ artifact[r] # 0
          /\ \A q \in Runs \ {r} : pc'[q] = pc[q] /\ dist'[q] = dist[q]
      BY <1>0, <1>5 DEF Download
    <2>2. \A a \in Assets : dist'[r][a] \in {artifact[r], Junk}
      BY Zenon, <1>0, <1>5 DEF Download
    <2>3. Dist(r)'
      BY <1>0, <2>1, <2>2 DEF Dist, Own
    <2> QED BY <1>b, <2>1, <2>3
  <1>6. ASSUME NEW r \in Runs, Verify(r)
        PROVE  DistInv'
    <2>1. /\ pc[r] = "verify" /\ pc'[r] = "view" /\ UNCHANGED <<artifact, made, dist>>
          /\ \A q \in Runs \ {r} : pc'[q] = pc[q]
          /\ dist[r]["zip"] = dist[r]["sum"] /\ dist[r]["zip"] # Junk
      BY <1>0, <1>6 DEF Verify
    <2>2. \A a \in Assets : dist[r][a] = dist[r]["zip"] /\ Own(r, dist[r][a])
      BY Zenon, <1>0, <2>1 DEF Dist, Assets
    <2>3. Dist(r)'
      BY <1>0, <2>1, <2>2 DEF Dist, Own
    <2> QED BY <1>b, <2>1, <2>3
  <1>7. ASSUME NEW r \in Runs, View(r) \/ Create(r)
        PROVE  DistInv'
    <2>1. /\ pc[r] \in {"view", "create"} /\ pc'[r] \in {"create", "upload", "fill"}
          /\ UNCHANGED <<artifact, made, dist>> /\ \A q \in Runs \ {r} : pc'[q] = pc[q]
      BY Zenon, <1>0, <1>7 DEF View, Create
    <2>2. Dist(r)'
      BY Zenon, <1>0, <2>1 DEF Dist, Own
    <2> QED BY <1>b, <2>1, <2>2
  <1>8. ASSUME UNCHANGED <<pc, artifact, made, dist>>
        PROVE  DistInv'
    BY Zenon, <1>8 DEF IInv, DistInv, Own
  <1>9. ASSUME NEW r \in Runs, NEW a \in Assets, DeleteOld(r, a) \/ Put(r, a)
        PROVE  DistInv'
    BY <1>8, <1>9 DEF DeleteOld, Put
  <1>10. ASSUME NEW r \in Runs,
                DownloadExpired(r) \/ VerifyFails(r) \/ CreateRefused(r) \/ Fail(r) \/ Published(r)
         PROVE  DistInv'
    <2>1. \E result \in {"success", "failure"} : Leaving(r, result)
      BY <1>10 DEF DownloadExpired, VerifyFails, CreateRefused, Fail, Published, Leaving
    <2> QED BY Zenon, <1>2, <2>1
  <1>11. ASSUME Push
         PROVE  DistInv'
    <2>1. pushes + 1 \in Runs
      BY <1>11, WorkflowAssumption DEF Push, Runs, IInv, TypeOK
    <2> QED BY <1>1, <1>11, <2>1 DEF Push
  <1>12. ASSUME NEW r \in Runs, NEW step \in {"build", "download"}, Rerun(r, step)
         PROVE  DistInv'
    BY <1>1, <1>12 DEF Rerun
  <1>13. CASE UNCHANGED vars
    BY <1>8, <1>13 DEF vars
  <1> QED
    BY Zenon, <1>3, <1>4, <1>5, <1>6, <1>7, <1>9, <1>10, <1>11, <1>12, <1>13
    DEF Next, Step

-----------------------------------------------------------------------------
(* AssetInv, in two parts: of one run, and of the Release. *)
Uploaded(r) ==
    /\ pc[r] = "create" => todo[r] = Assets
    /\ pc[r] \in {"fill", "upload"} =>
           /\ release # "none"
           /\ \A a \in Assets \ todo[r] : assets[a] = dist[r][a] /\ last = r

LastRan ==
    /\ release # "none" => last # 0
    /\ last # 0 => status[last] \in {"running", "failure", "success"} \/ again[last]

(* A whole Release of a run stays so when nobody changes it. *)
LEMMA WholeKept ==
    ASSUME SuccessIsWhole, UNCHANGED <<release, assets, last>>, made \in Seq(Runs),
           made' = made \/ \E r \in Runs : made' = Append(made, r),
           last # 0 /\ status'[last] = "success" => status[last] = "success"
    PROVE  SuccessIsWhole'
  <1>1. \A b \in DOMAIN made : b \in DOMAIN made' /\ made'[b] = made[b]
    OBVIOUS
  <1> SUFFICES ASSUME last # 0, status'[last] = "success"
               PROVE  Whole' /\ Commit(assets["zip"])' = last
    BY DEF SuccessIsWhole
  <1>2. Whole /\ Commit(assets["zip"]) = last
    BY DEF SuccessIsWhole
  <1>3. assets["zip"] \in DOMAIN made /\ made[assets["zip"]] = last
    BY <1>2 DEF Commit
  <1> QED BY <1>1, <1>2, <1>3 DEF Whole, Commit

(* release.yml:72-89: what is in the Release after a step. *)
LEMMA AssetNext ==
    ASSUME IInv, [Next]_vars, TypeOK', GroupInv'
    PROVE  AssetInv'
  <1> USE DEF group, local, github
  <1>0. /\ made \in Seq(Runs) /\ pc \in [Runs -> Steps] /\ status \in [Runs -> Results]
        /\ again \in [Runs -> BOOLEAN] /\ todo \in [Runs -> SUBSET Assets]
        /\ dist \in [Runs -> [Assets -> Files]] /\ assets \in [Assets -> Files]
        /\ GroupInv /\ DistInv /\ OnlyBuilds /\ LastRan /\ SuccessIsWhole
        /\ active \subseteq Runs /\ pending \subseteq Runs
        /\ \A q \in Runs : Uploaded(q)
    BY Zenon DEF IInv, TypeOK, AssetInv, Uploaded, LastRan, Steps, Results, Files
  <1>a. OnlyBuilds' /\ LastRan' /\ SuccessIsWhole' /\ (\A q \in Runs : Uploaded(q)') => AssetInv'
    BY DEF AssetInv, Uploaded, LastRan
  <1>b. last # 0 => last \in Runs
    BY WorkflowAssumption DEF IInv, TypeOK, Runs
  <1>c. ASSUME NEW q \in Runs, pc'[q] \in {"idle", "build", "download", "verify", "view"}
        PROVE  Uploaded(q)'
    BY <1>c DEF Uploaded
  <1>d. \A r \in Runs : r # 0
    BY DEF Runs
  <1>e. Junk # 0 /\ \A b \in DOMAIN made : b # Junk /\ b # 0
    BY <1>0, WorkflowAssumption
  <1>f. ASSUME NEW r \in active, \A q \in Runs \ {r} : pc'[q] = pc[q], Uploaded(r)'
        PROVE  \A q \in Runs : Uploaded(q)'
    <2>1. \A q \in Runs \ {r} : pc[q] \in {"idle", "build", "download"}
      BY <1>0, <1>f DEF GroupInv
    <2> QED BY <1>c, <1>f, <2>1
  <1>1. ASSUME NEW r \in Runs, NEW step \in {"build", "download"}, Entering(r, step)
        PROVE  AssetInv'
    <2>1. /\ UNCHANGED <<dist, todo, release, assets, last, made>> /\ r \notin active /\ r \notin pending
          /\ \A q \in Runs : again[q] => again'[q]
          /\ ~again'[r] => r = pushes + 1
          /\ \A q \in Runs : pc'[q] = IF q = r THEN step ELSE pc[q]
      BY <1>0, <1>1 DEF Entering, Enter
    <2>2. \A q \in Runs \ {r} : status'[q] = status[q] \/ (q \in pending /\ status'[q] = "cancelled")
      BY <1>0, <1>1 DEF Entering, Enter
    <2>3. status'[r] \in {"running", "pending"}
      BY <1>0, <1>1 DEF Entering, Enter
    <2>4. last = r => again'[r]
      <3>1. r = pushes + 1 => status[r] = "none"
        BY <1>0, WorkflowAssumption DEF GroupInv, Runs, IInv, TypeOK
      <3> QED BY Zenon, <1>0, <1>d, <2>1, <3>1 DEF LastRan
    <2>5. LastRan'
      <3>1. CASE last = 0 \/ last = r
        BY Zenon, <1>0, <2>1, <2>4, <3>1 DEF LastRan
      <3>2. CASE last # 0 /\ last # r
        <4>1. last \in pending => again[last]
          BY <1>0, <1>b, <3>2 DEF GroupInv, LastRan
        <4> QED BY Zenon, <1>0, <1>b, <2>1, <2>2, <3>2, <4>1 DEF LastRan
      <3> QED BY <3>1, <3>2
    <2>6. SuccessIsWhole'
      BY Zenon, <1>0, <1>b, <2>1, <2>2, <2>3, WholeKept
    <2>7. \A q \in Runs : Uploaded(q)'
      BY <1>0, <2>1 DEF Uploaded
    <2>8. OnlyBuilds'
      BY <1>0, <2>1 DEF OnlyBuilds
    <2> QED BY <1>a, <2>5, <2>6, <2>7, <2>8
  <1>2. ASSUME NEW r \in Runs, NEW result \in {"success", "failure"}, Leaving(r, result)
        PROVE  /\ \A q \in Runs : Uploaded(q)'
               /\ status'[r] = result /\ again' = again /\ made' = made
               /\ \A q \in Runs \ {r} : status'[q] = status[q] \/ (q \in pending /\ status'[q] = "running")
    <2>1. /\ r \in active /\ pc'[r] = "idle" /\ \A q \in Runs \ {r} : pc'[q] = pc[q]
          /\ again' = again /\ made' = made /\ status'[r] = result
          /\ \A q \in Runs \ {r} : status'[q] = status[q] \/ (q \in pending /\ status'[q] = "running")
      BY <1>0, <1>2 DEF Leaving, Finish
    <2>2. Uploaded(r)'
      BY <1>c, <2>1
    <2> QED BY <1>f, <2>1, <2>2
  <1>3. ASSUME NEW r \in Runs, Leaving(r, "failure"), UNCHANGED <<release, assets, last>>
        PROVE  AssetInv'
    <2>1. OnlyBuilds'
      BY <1>0, <1>3 DEF OnlyBuilds
    <2>2. LastRan'
      BY <1>0, <1>2, <1>3, <1>b DEF LastRan
    <2>3. SuccessIsWhole'
      BY Zenon, <1>0, <1>2, <1>3, <1>b, WholeKept
    <2> QED BY <1>2, <1>3, <1>a, <2>1, <2>2, <2>3
  <1>4. ASSUME NEW r \in Runs, Published(r)
        PROVE  AssetInv'
    <2>1. /\ Leaving(r, "success") /\ UNCHANGED <<assets, last, made>> /\ todo[r] = {}
          /\ pc[r] \in {"fill", "upload"} /\ release' \in {release, "published"}
      BY Zenon, <1>4 DEF Published, Leaving
    <2>2. /\ release # "none" /\ last = r
          /\ \A a \in Assets : assets[a] = dist[r]["zip"] /\ Own(r, assets[a])
      BY <1>0, <2>1 DEF Uploaded, DistInv, Assets
    <2>3. SuccessIsWhole'
      BY Zenon, <1>d, <1>e, <2>1, <2>2 DEF SuccessIsWhole, Whole, Commit, Own, Assets
    <2>4. LastRan'
      BY <1>2, <1>d, <2>1, <2>2 DEF LastRan
    <2>5. OnlyBuilds'
      BY <1>0, <2>1 DEF OnlyBuilds
    <2> QED BY Zenon, <1>2, <1>a, <2>1, <2>3, <2>4, <2>5
  <1>5. ASSUME NEW r \in Runs, Fail(r)
        PROVE  AssetInv'
    <2>1. Leaving(r, "failure")
      BY <1>5 DEF Fail, Leaving
    <2>2. CASE UNCHANGED github
      BY <1>3, <2>1, <2>2
    <2>3. CASE release' = "none" /\ assets' = None /\ last' = r
      <3>1. status'[r] = "failure" /\ \A q \in Runs : Uploaded(q)'
        BY <1>2, <2>1
      <3>2. OnlyBuilds'
        BY Zenon, <1>e, <2>3 DEF OnlyBuilds, None
      <3> QED BY <1>a, <2>3, <3>1, <3>2 DEF LastRan, SuccessIsWhole
    <2> QED BY <1>5, <2>2, <2>3 DEF Fail
  <1>6. ASSUME NEW r \in active, UNCHANGED <<release, assets, last, status, again>>,
               made' = made \/ made' = Append(made, r),
               \A q \in Runs \ {r} : pc'[q] = pc[q], Uploaded(r)'
        PROVE  AssetInv'
    <2>1. SuccessIsWhole'
      BY Zenon, <1>0, <1>6, WholeKept
    <2>2. OnlyBuilds' /\ LastRan'
      BY Zenon, <1>0, <1>6 DEF OnlyBuilds, LastRan
    <2> QED BY <1>6, <1>a, <1>f, <2>1, <2>2
  <1>7. ASSUME NEW r \in Runs, Build(r) \/ Download(r) \/ Verify(r)
        PROVE  AssetInv'
    <2>1. /\ r \in active /\ UNCHANGED <<release, assets, last, status, again>>
          /\ made' = made \/ made' = Append(made, r)
          /\ pc'[r] \in {"download", "verify", "view"} /\ \A q \in Runs \ {r} : pc'[q] = pc[q]
      BY <1>0, <1>7 DEF Build, Download, Verify
    <2>2. Uploaded(r)'
      BY Zenon, <1>c, <2>1
    <2> QED BY Zenon, <1>6, <2>1, <2>2
  <1>8. ASSUME NEW r \in Runs, View(r)
        PROVE  AssetInv'
    <2>1. /\ r \in active /\ UNCHANGED <<release, assets, last, status, again>> /\ made' = made
          /\ pc'[r] = "create" \/ (pc'[r] = "upload" /\ release # "none")
          /\ todo'[r] = Assets /\ \A q \in Runs \ {r} : pc'[q] = pc[q]
      BY <1>0, <1>8 DEF View
    <2>2. Uploaded(r)'
      BY Zenon, <2>1 DEF Uploaded
    <2> QED BY Zenon, <1>6, <2>1, <2>2
  <1>9. ASSUME NEW r \in active, last' = r, release' # "none", UNCHANGED <<status, again>>,
               \A a \in Assets : assets'[a] # Junk,
               \A q \in Runs \ {r} : pc'[q] = pc[q], Uploaded(r)'
        PROVE  AssetInv'
    <2>1. status[r] = "running"
      BY Zenon, <1>0 DEF GroupInv
    <2>2. LastRan' /\ SuccessIsWhole'
      BY Zenon, <1>0, <1>9, <1>d, <2>1 DEF LastRan, SuccessIsWhole
    <2>3. OnlyBuilds'
      BY Zenon, <1>9 DEF OnlyBuilds
    <2> QED BY Zenon, <1>9, <1>a, <1>f, <2>2, <2>3
  <1>10. ASSUME NEW r \in Runs, Create(r)
         PROVE  AssetInv'
    <2>1. /\ r \in active /\ last' = r /\ release' = "draft" /\ UNCHANGED <<status, again, todo>>
          /\ assets' = None /\ pc[r] = "create" /\ pc'[r] = "fill"
          /\ \A q \in Runs \ {r} : pc'[q] = pc[q]
      BY <1>0, <1>10 DEF Create
    <2>2. todo'[r] = Assets
      BY Zenon, <1>0, <2>1 DEF Uploaded
    <2>3. Uploaded(r)'
      BY <2>1, <2>2 DEF Uploaded
    <2>4. \A a \in Assets : assets'[a] # Junk
      BY Zenon, <1>e, <2>1 DEF None
    <2> QED BY Zenon, <1>9, <2>1, <2>3, <2>4
  <1>11. ASSUME NEW r \in Runs, NEW a \in Assets, DeleteOld(r, a) \/ Put(r, a)
         PROVE  AssetInv'
    <2>1. /\ r \in active /\ last' = r /\ UNCHANGED <<release, status, again, pc, dist>>
          /\ pc[r] \in {"fill", "upload"}
      BY Zenon, <1>11 DEF DeleteOld, Put
    <2>2. release # "none" /\ (\A b \in Assets \ todo[r] : assets[b] = dist[r][b]) /\ Own(r, dist[r][a])
      BY Zenon, <1>0, <2>1 DEF Uploaded, DistInv
    <2>3. \/ a \in todo[r] /\ todo'[r] = todo[r] /\ assets' = [assets EXCEPT ![a] = 0]
          \/ todo'[r] = todo[r] \ {a} /\ assets' = [assets EXCEPT ![a] = dist[r][a]]
      BY Zenon, <1>0, <1>11 DEF DeleteOld, Put
    <2>4. Uploaded(r)'
      BY <1>0, <2>1, <2>2, <2>3 DEF Uploaded
    <2>5. \A b \in Assets : assets'[b] # Junk
      BY Zenon, <1>0, <1>e, <2>2, <2>3 DEF OnlyBuilds, Own
    <2> QED BY Zenon, <1>9, <2>1, <2>2, <2>4, <2>5
  <1>12. ASSUME UNCHANGED <<pc, todo, dist, release, assets, last, made, status, again>>
         PROVE  AssetInv'
    BY <1>12 DEF IInv, AssetInv, OnlyBuilds, SuccessIsWhole, Whole, Commit
  <1>13. ASSUME NEW r \in Runs, Expire(r)
         PROVE  AssetInv'
    BY <1>12, <1>13 DEF Expire
  <1>14. ASSUME NEW r \in Runs, DownloadExpired(r) \/ VerifyFails(r) \/ CreateRefused(r)
         PROVE  AssetInv'
    <2>1. Leaving(r, "failure") /\ UNCHANGED <<release, assets, last>>
      BY <1>14 DEF DownloadExpired, VerifyFails, CreateRefused, Leaving
    <2> QED BY Zenon, <1>3, <2>1
  <1>15. CASE UNCHANGED vars
    BY <1>12, <1>15 DEF vars
  <1>16. ASSUME Push \/ \E r \in Runs, step \in {"build", "download"} : Rerun(r, step)
         PROVE  AssetInv'
    <2>1. \E r \in Runs, step \in {"build", "download"} : Entering(r, step)
      BY <1>16, Enters
    <2> QED BY <1>1, <2>1
  <1> QED
    BY Zenon, <1>4, <1>5, <1>7, <1>8, <1>10, <1>11, <1>13, <1>14, <1>15, <1>16
    DEF Next, Step

-----------------------------------------------------------------------------
(* The invariant holds before the tag is pushed. *)
LEMMA InitIInv == Init => IInv
  <1> SUFFICES ASSUME Init
               PROVE  IInv
    OBVIOUS
  <1>1. Typed
    <2>1. /\ None \in [Assets -> Files] /\ 0 \in 0..Len(made) /\ 0 \in 0..MaxRuns /\ 0 \in 0..MaxFaults
          /\ <<>> \in Seq(Runs) /\ made = <<>>
      BY WorkflowAssumption DEF Init, None, Files
    <2> QED BY <2>1 DEF Init, Typed, Steps, Results
  <1>2. TypeOK
    BY <1>1 DEF Typed, TypeOK, Steps, Results, Files
  <1>3. GroupInv
    BY DEF Init, GroupInv, Runs
  <1>4. OrderInv
    BY DEF Init, OrderInv
  <1>5. DistInv
    BY DEF Init, DistInv
  <1>6. AssetInv
    BY WorkflowAssumption DEF Init, AssetInv, OnlyBuilds, SuccessIsWhole, None
  <1> QED BY <1>2, <1>3, <1>4, <1>5, <1>6 DEF IInv

(* However often the tag is pushed, jobs fail and runs are run again: one run  *)
(* is under way, it publishes what it built, and knows what it has uploaded.   *)
THEOREM Invariance == Spec => []IInv
  <1>1. IInv /\ [Next]_vars => IInv'
    <2> SUFFICES ASSUME IInv, [Next]_vars
                 PROVE  IInv'
      OBVIOUS
    <2>1. TypeOK'
      BY TypeNext DEF IInv
    <2>2. GroupInv' /\ OrderInv' /\ DistInv'
      BY <2>1, GroupNext, OrderNext, DistNext
    <2> QED BY <2>1, <2>2, AssetNext DEF IInv
  <1> QED BY InitIInv, <1>1, PTL DEF Spec

(* A successful publish job leaves both assets of its own run's build. *)
THEOREM SuccessLeavesWhole == Spec => []SuccessIsWhole
  <1>1. IInv => SuccessIsWhole
    BY DEF IInv, AssetInv
  <1> QED BY Invariance, <1>1, PTL

(* A public Release is torn only while a run replaces its assets or after one  *)
(* has failed in that.                                                         *)
THEOREM OnlyFailuresTear == Spec => []TornOnlyByFailure
  <1>1. IInv => TornOnlyByFailure
    BY DEF IInv, AssetInv, TornOnlyByFailure, SuccessIsWhole
  <1> QED BY Invariance, <1>1, PTL

(* What the publish job verified is what the Release gets. *)
THEOREM NothingDamaged == Spec => []OnlyBuilds
  <1>1. IInv => OnlyBuilds
    BY DEF IInv, AssetInv
  <1> QED BY Invariance, <1>1, PTL

(* A run that was not run again never replaces what a newer run has built. *)
THEOREM NewerStays == Spec => NoDowngrade
  <1>1. IInv => \A b \in Assets : \A r \in active : ~again[r] => Commit(assets[b]) <= r
    <2> SUFFICES ASSUME IInv, NEW b \in Assets, NEW r \in active, ~again[r]
                 PROVE  Commit(assets[b]) <= r
      OBVIOUS
    <2>1. r \in Nat
      BY WorkflowAssumption DEF IInv, TypeOK, Runs
    <2>2. CASE assets[b] \in DOMAIN made
      BY <2>2 DEF IInv, OrderInv, Commit
    <2>3. CASE assets[b] \notin DOMAIN made
      BY <2>1, <2>3 DEF Commit
    <2> QED BY <2>2, <2>3
  <1>2. IInv => [\A a, b \in Assets : \A r \in active :
                    assets'[a] # assets[a] /\ assets'[a] = dist[r][a] /\ ~again[r]
                        => Commit(assets[b]) <= r]_vars
    BY <1>1
  <1> QED BY Invariance, <1>2, PTL DEF NoDowngrade
=============================================================================
