--------------------------- MODULE ReleaseWorkflow ---------------------------
(***************************************************************************)
(* .github/workflows/release.yml for one version tag: the runs that pushes *)
(* of the tag start, the concurrency group that holds them apart, the      *)
(* build job with its artifact, and the publish job that verifies the      *)
(* artifact and creates the Release or replaces its two assets one by one. *)
(* A job may fail or be lost between any two steps, artifacts expire, and  *)
(* somebody may run a workflow run again.                                  *)
(*                                                                         *)
(* A build is a number, in the order in which the builds are made: two     *)
(* builds, even of one commit, need not give the same bytes.  The archive  *)
(* of a build and the checksum file that lists it are that number; 0 means *)
(* that there is no file and Junk is a file damaged on its way.            *)
(***************************************************************************)
EXTENDS Naturals, Sequences

CONSTANTS
    MaxRuns,    \* bound: pushes of the tag
    MaxFaults,  \* bound: failures, expiries and runs that are run again without need
    MaxBuilds,  \* bound: builds made
    Junk

ASSUME WorkflowAssumption ==
    /\ MaxRuns \in Nat \ {0}
    /\ MaxFaults \in Nat
    /\ MaxBuilds \in Nat
    /\ Junk \notin Nat

Runs   == 1..MaxRuns
Assets == {"zip", "sum"}

VARIABLES
    pushes,    \* how many runs there are; run r is that of the r-th push
    status,    \* of each run
    again,     \* has the run been run again?
    pc,        \* the next step of a run that is under way
    active,    \* the concurrency group: the runs under way
    pending,   \* the concurrency group: the run that waits
    artifact,  \* the build in each run's artifact, 0 if none
    dist,      \* dist/ of each run's publish job
    todo,      \* the assets that gh has yet to upload
    release,   \* is there a Release, and is it still a draft?
    assets,    \* the assets of the Release
    made,      \* auxiliary: the run that made each build
    last,      \* auxiliary: the run that last changed the Release, 0 if none
    faults

group   == <<active, pending, status, again>>
local   == <<pc, dist, todo>>
github  == <<release, assets, last>>
vars    == <<pushes, group, local, artifact, github, made, faults>>

None  == [a \in Assets |-> 0]
Fault == faults < MaxFaults /\ faults' = faults + 1

Init ==
    /\ pushes = 0
    /\ status = [r \in Runs |-> "none"]
    /\ again = [r \in Runs |-> FALSE]
    /\ pc = [r \in Runs |-> "idle"]
    /\ active = {}
    /\ pending = {}
    /\ artifact = [r \in Runs |-> 0]
    /\ dist = [r \in Runs |-> None]
    /\ release = "none"
    /\ assets = None
    /\ made = <<>>
    /\ last = 0
    /\ todo = [r \in Runs |-> {}]
    /\ faults = 0

-----------------------------------------------------------------------------
(* The concurrency group. *)

\* Mutant: the workflow has no concurrency group.
EnterAtOnce(r, step) ==
    /\ active' = active \cup {r}
    /\ pc' = [pc EXCEPT ![r] = step]
    /\ status' = [status EXCEPT ![r] = "running"]
    /\ UNCHANGED pending

\* Mutant: cancel-in-progress is true.
EnterCancelling(r, step) ==
    /\ active' = {r}
    /\ pc' = [q \in Runs |-> IF q = r THEN step ELSE "idle"]
    /\ status' = [q \in Runs |-> IF q = r THEN "running"
                                 ELSE IF q \in active THEN "cancelled" ELSE status[q]]
    /\ UNCHANGED pending

\* A run starts if none of its group is under way.  Otherwise it waits, in the
\* place of a run that has been waiting, which is cancelled.
Enter(r, step) ==
    /\ pc' = [pc EXCEPT ![r] = step]
    /\ \/ /\ active = {}
          /\ active' = {r}
          /\ status' = [status EXCEPT ![r] = "running"]
          /\ UNCHANGED pending
       \/ /\ active # {}
          /\ pending' = {r}
          /\ status' = [q \in Runs |-> IF q = r THEN "pending"
                                       ELSE IF q \in pending THEN "cancelled" ELSE status[q]]
          /\ UNCHANGED active

\* A run ends, its runner goes, and the run that waits starts.
Finish(r, result) ==
    /\ active' = (active \ {r}) \cup pending
    /\ pending' = {}
    /\ status' = [q \in Runs |-> IF q = r THEN result
                                 ELSE IF q \in pending THEN "running" ELSE status[q]]
    /\ pc' = [pc EXCEPT ![r] = "idle"]
    /\ dist' = [dist EXCEPT ![r] = None]
    /\ todo' = [todo EXCEPT ![r] = {}]
    /\ UNCHANGED again

Push ==
    /\ pushes < MaxRuns
    /\ pushes' = pushes + 1
    /\ Enter(pushes + 1, "build")
    /\ UNCHANGED <<again, artifact, dist, todo, github, made, faults>>

\* All jobs, or only the publish job of a run whose build job has succeeded, are
\* run again: after a failure, or without need.
Rerun(r, step) ==
    /\ \/ status[r] = "failure" /\ UNCHANGED faults
       \/ status[r] \in {"success", "cancelled"} /\ Fault
    /\ step = "download" => \E b \in DOMAIN made : made[b] = r
    /\ Enter(r, step)
    /\ again' = [again EXCEPT ![r] = TRUE]
    /\ UNCHANGED <<pushes, artifact, dist, todo, github, made>>

-----------------------------------------------------------------------------
(* The build job. *)

\* resolute-local-build.sh succeeds only with a validated archive beside its
\* checksum file, and the artifact holds both.
Build(r) ==
    /\ r \in active
    /\ pc[r] = "build"
    /\ Len(made) < MaxBuilds
    /\ made' = Append(made, r)
    /\ artifact' = [artifact EXCEPT ![r] = Len(made) + 1]
    /\ pc' = [pc EXCEPT ![r] = "download"]
    /\ UNCHANGED <<pushes, group, dist, todo, github, faults>>

\* retention-days: 1.
Expire(r) ==
    /\ artifact[r] # 0
    /\ Fault
    /\ artifact' = [artifact EXCEPT ![r] = 0]
    /\ UNCHANGED <<pushes, group, local, github, made>>

-----------------------------------------------------------------------------
(* The publish job. *)

Download(r) ==
    /\ r \in active
    /\ pc[r] = "download"
    /\ artifact[r] # 0
    /\ \/ /\ dist' = [dist EXCEPT ![r] = [a \in Assets |-> artifact[r]]]
          /\ UNCHANGED faults
       \/ /\ \E a \in Assets :
                 dist' = [dist EXCEPT ![r] = [[b \in Assets |-> artifact[r]] EXCEPT ![a] = Junk]]
          /\ Fault
    /\ pc' = [pc EXCEPT ![r] = "verify"]
    /\ UNCHANGED <<pushes, group, todo, artifact, github, made>>

DownloadExpired(r) ==
    /\ r \in active
    /\ pc[r] = "download"
    /\ artifact[r] = 0
    /\ Finish(r, "failure")
    /\ UNCHANGED <<pushes, artifact, github, made, faults>>

\* Mutant: the step that verifies the assets is not there.
VerifySkipped(r) ==
    /\ r \in active
    /\ pc[r] = "verify"
    /\ pc' = [pc EXCEPT ![r] = "view"]
    /\ UNCHANGED <<pushes, group, artifact, dist, todo, github, made, faults>>

Verify(r) ==
    /\ r \in active
    /\ pc[r] = "verify"
    /\ dist[r]["zip"] = dist[r]["sum"]
    /\ dist[r]["zip"] # Junk
    /\ pc' = [pc EXCEPT ![r] = "view"]
    /\ UNCHANGED <<pushes, group, artifact, dist, todo, github, made, faults>>

VerifyFails(r) ==
    /\ r \in active
    /\ pc[r] = "verify"
    /\ \/ dist[r]["zip"] # dist[r]["sum"]
       \/ dist[r]["zip"] = Junk
    /\ Finish(r, "failure")
    /\ UNCHANGED <<pushes, artifact, github, made, faults>>

\* gh release view finds a draft as well; when it cannot say, the answer is no.
View(r) ==
    /\ r \in active
    /\ pc[r] = "view"
    /\ \/ pc' = [pc EXCEPT ![r] = IF release = "none" THEN "create" ELSE "upload"]
          /\ UNCHANGED faults
       \/ /\ release # "none"
          /\ pc' = [pc EXCEPT ![r] = "create"]
          /\ Fault
    /\ todo' = [todo EXCEPT ![r] = Assets]
    /\ UNCHANGED <<pushes, group, artifact, dist, github, made>>

\* gh release create refuses a tag that has a published Release, and otherwise
\* fills a new draft before it publishes it.  A draft that gh release view has
\* failed to find is forgotten: nobody fills or publishes it once there is a newer.
Create(r) ==
    /\ r \in active
    /\ pc[r] = "create"
    /\ release # "published"
    /\ release' = "draft"
    /\ assets' = None
    /\ last' = r
    /\ pc' = [pc EXCEPT ![r] = "fill"]
    /\ UNCHANGED <<pushes, group, artifact, dist, todo, made, faults>>

CreateRefused(r) ==
    /\ r \in active
    /\ pc[r] = "create"
    /\ release = "published"
    /\ Finish(r, "failure")
    /\ UNCHANGED <<pushes, artifact, github, made, faults>>

\* Mutant: without --clobber, and an asset that exists is passed over.
DeleteOldKept(r, a) ==
    /\ r \in active
    /\ pc[r] = "upload"
    /\ a \in todo[r]
    /\ assets[a] # 0
    /\ todo' = [todo EXCEPT ![r] = @ \ {a}]
    /\ UNCHANGED <<pushes, group, pc, dist, artifact, github, made, faults>>

\* --clobber: an asset of this name is deleted before the upload.
DeleteOld(r, a) ==
    /\ r \in active
    /\ pc[r] = "upload"
    /\ a \in todo[r]
    /\ assets[a] # 0
    /\ assets' = [assets EXCEPT ![a] = 0]
    /\ last' = r
    /\ UNCHANGED <<pushes, group, local, artifact, release, made, faults>>

Put(r, a) ==
    /\ r \in active
    /\ pc[r] \in {"fill", "upload"}
    /\ a \in todo[r]
    /\ assets[a] = 0
    /\ assets' = [assets EXCEPT ![a] = dist[r][a]]
    /\ todo' = [todo EXCEPT ![r] = @ \ {a}]
    /\ last' = r
    /\ UNCHANGED <<pushes, group, pc, dist, artifact, release, made, faults>>

\* Mutant: the upload ends with the archive.
PublishedArchive(r) ==
    /\ r \in active
    /\ pc[r] \in {"fill", "upload"}
    /\ "zip" \notin todo[r]
    /\ release' = IF pc[r] = "fill" THEN "published" ELSE release
    /\ Finish(r, "success")
    /\ UNCHANGED <<pushes, artifact, assets, last, made, faults>>

\* Both assets are there; a draft that gh release create has filled becomes public.
Published(r) ==
    /\ r \in active
    /\ pc[r] \in {"fill", "upload"}
    /\ todo[r] = {}
    /\ release' = IF pc[r] = "fill" THEN "published" ELSE release
    /\ Finish(r, "success")
    /\ UNCHANGED <<pushes, artifact, assets, last, made, faults>>

\* A step fails or the runner is lost.  gh release create deletes its draft if it
\* still can; the assets of an upload stay as they are.
Fail(r) ==
    /\ r \in active
    /\ Fault
    /\ \/ UNCHANGED github
       \/ pc[r] = "fill" /\ release' = "none" /\ assets' = None /\ last' = r
    /\ Finish(r, "failure")
    /\ UNCHANGED <<pushes, artifact, made>>

-----------------------------------------------------------------------------
Step(r) ==
    \/ Build(r) \/ Download(r) \/ DownloadExpired(r) \/ Verify(r) \/ VerifyFails(r)
    \/ View(r) \/ Create(r) \/ CreateRefused(r) \/ Published(r)
    \/ \E a \in Assets : DeleteOld(r, a) \/ Put(r, a)

Next ==
    \/ Push
    \/ \E r \in Runs : \/ Step(r)
                       \/ Expire(r)
                       \/ Fail(r)
                       \/ \E step \in {"build", "download"} : Rerun(r, step)

Spec == Init /\ [][Next]_vars

\* A job takes its next step; somebody pushes the tag, and runs all jobs of a run
\* that has failed again, as long as it is possible.
FairSpec ==
    /\ Spec
    /\ WF_vars(Push)
    /\ \A r \in Runs : WF_vars(Step(r)) /\ SF_vars(Rerun(r, "build"))

-----------------------------------------------------------------------------
Commit(b) == IF b \in DOMAIN made THEN made[b] ELSE 0

TypeOK ==
    /\ pushes \in 0..MaxRuns
    /\ status \in [Runs -> {"none", "pending", "running", "success", "failure", "cancelled"}]
    /\ again \in [Runs -> BOOLEAN]
    /\ pc \in [Runs -> {"idle", "build", "download", "verify", "view", "create", "fill", "upload"}]
    /\ active \subseteq Runs
    /\ pending \subseteq Runs
    /\ made \in Seq(Runs)
    /\ artifact \in [Runs -> 0..Len(made)]
    /\ dist \in [Runs -> [Assets -> 0..Len(made) \cup {Junk}]]
    /\ todo \in [Runs -> SUBSET Assets]
    /\ last \in 0..MaxRuns
    /\ release \in {"none", "draft", "published"}
    /\ assets \in [Assets -> 0..Len(made) \cup {Junk}]
    /\ faults \in 0..MaxFaults

Whole == release # "none" /\ assets["zip"] = assets["sum"] /\ assets["zip"] # 0

\* release.yml:72-89.  If the run that last touched the Release has succeeded,
\* the Release has both assets, of one build, and that is the run's own.
SuccessIsWhole ==
    last # 0 /\ status[last] = "success" =>
        Whole /\ Commit(assets["zip"]) = last

\* release.yml:8-10 and 82.  A public Release with an asset missing, or with
\* the assets of two builds, is the work of a run that is replacing the assets
\* or has failed in that: no push interrupts a run halfway.
TornOnlyByFailure ==
    release = "published" /\ ~Whole =>
        status[last] \in {"running", "failure"} \/ again[last]

\* release.yml:67-71.  Nothing is in the Release, at any moment, but files of a
\* build that a build job has made and validated.
OnlyBuilds == \A a \in Assets : assets[a] # Junk

\* release.yml:9.  Of the runs that pushes have started, a later one is never
\* undone by an earlier one that was slower: unless a run was run again, what it
\* uploads is not older than anything in the Release.
NoDowngrade ==
    [][\A a, b \in Assets : \A r \in active :
          assets'[a] # assets[a] /\ assets'[a] = dist[r][a] /\ ~again[r]
              => Commit(assets[b]) <= r]_vars

\* Whatever has failed before, the Release ends up with two assets of one build.
Settles == <>[]Whole
=============================================================================
