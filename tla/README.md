# Verification of the AArch64 Android SDK build

TLA+ models of the program in this repository that turns pinned upstream
archives, two producers' GitHub Releases and the embedded Build-Tools sources
into `dist/android-sdk-linux.zip`: what its scripts do to the files they share,
command by command, with everything that can happen between two commands. TLC
checks the models on small instances; TLAPS proves the central results for
every value of their constants. `PROJECT.json` maps each definition to the
lines it models and lists the runs, the hazards and the theorems.

## 1. The system

The repository's own code is the integration layer: shell scripts with a few
Python programs. `build-tools/` holds vendored Android sources, of which the
classes that threads share are modelled and the rest is left aside.

| part | code | state it changes | operations |
|---|---|---|---|
| source fetching | `fetch-sources.sh`; `download_checked`, `download_latest_github_release_asset` in `common.sh` | `.cache/*`, `*.part`, `*.sha256`, `resolved-community-releases.txt` | use or delete a cached file, download, verify, rename, resolve a Release, record the tags |
| checksum readers | `verify_cached_release_archive` and the Python reader in `common.sh` | none (two readers of one file) | read a `.sha256` file |
| entry | `resolute-local-build.sh` | none | runs the scripts in order; `--preflight-only`; `REFERENCE_DIR` |
| preflight | `preflight-ndk.sh`, `tests/ndk_entrypoints_test.py` | a temporary directory | verify the cached NDK and run its entry points |
| builds | `build-cmake.sh`, `build-build-tools.sh` | `build/`, `sources/` | clean, compile, install, check the ELF files |
| source snapshot | `verify-source-snapshot.py` | none | compare the embedded sources with the recorded digests |
| assembly | `assemble-sdk.sh`, `copy_google_package` | `dist/sdk`, the ZIP, its checksum | clean, copy packages, install, normalise, pack, sum |
| reference | `assemble-reference-sdk.sh` | `build/reference-sdk` | clean, copy packages |
| validation | `validate-sdk.sh`, `compare-reference-layout.py`, `compare-extracted-tree.py`, `check-zip-metadata.py`, `check-aarch64-elf.sh`, `elf_validation.py`, `check-aarch64-host-archives.sh` | the probe: `.knownPackages` in `dist/sdk` | compare, run the tools, probe, clean up, compare with the archive |
| release workflow | `.github/workflows/release.yml` | a GitHub Release | build, publish two assets |
| libutils | `RefBase.cpp`, `Threads.cpp` under `build-tools/` | reference counts, the state of a `Thread` | count, promote, delete; start, stop and join a thread |
| aapt | `WorkQueue.cpp` under `build-tools/` | the queue, its threads and its units | schedule, cancel, finish, take and run a unit |
| host setup | `resolute-install-deps.sh`, `select_arm64_runtime` | the host system | install packages, register binfmt |

The scripts communicate only through files, and trust what they find there to
different degrees. What makes this hard to get right and hard to test:

* every script may be killed, or fail, between any two commands, and the next
  invocation starts over what is left: temporary files, an archive without its
  checksum file, an emptied record, a torn tree, an old archive beside a new
  tree, `.knownPackages` in the SDK;
* producers publish Releases and replace assets, one at a time, while the fetch
  is between its three requests (metadata, checksum file, archive);
* a user may run any script alone, in any order, over stale outputs, and may
  edit the embedded sources between runs;
* some checks read a command's output through a pipe under `pipefail`, where a
  reader that stops early can turn a match into a failure;
* the same `.sha256` file is read by two programs.

One build is sequential, so the concurrency is between a script and the
producers, between a script and what ended it, between builds that share a
checkout without a lock, between the runs of the release workflow, and, in the
packaged tools, between threads.

## 2. Modules

| module | models |
|---|---|
| `FetchSources` | `fetch-sources.sh` with the two download functions, and the producers |
| `VerifiedStore` | what the fetch promises: the abstract specification of `.cache` |
| `ConcurrentFetch` | `download_checked` run by several builds in one checkout |
| `SdkBuild` | the pipeline over `.cache` (as a `VerifiedStore`), `build/` and `dist/` |
| `ReleaseChecksum` | the two readers of a `.sha256` file |
| `ElfValidation` | `is_valid_elf_machine` of `elf_validation.py` |
| `ReleaseWorkflow` | `release.yml`, with GitHub's queue, artifacts and Releases |
| `RefBase` | the two reference counts of libutils, one step per atomic instruction |
| `ThreadObject` | `android::Thread` of libutils |
| `WorkQueue` | the work queue of aapt, whose threads are such objects |
| the modules `...Proofs` | theorems and proofs; `ReaderProofs` has those of `ReleaseChecksum` and `ElfValidation` |
| the modules `MC...` | instances for TLC |

`FetchSources` implements `VerifiedStore` (property `ImplementsStore`, theorem
`Refinement`), and `SdkBuild` uses `VerifiedStore` for its fetch stage: this is
how the two compose; that it changes `.cache` only as `VerifiedStore` does is
theorem `CacheIsTheStore`. `ConcurrentFetch` says what the assumption of
`FetchSources`, one build at a time, protects. `WorkQueue` relies on what
`ThreadObject` shows of `join()`, and `ThreadObject` on what `RefBase` shows of
strong references.

Definitions whose comment begins with "Mutant:" are plausible wrong versions of
the definition that follows them, used by no specification. Putting one in
place of that definition breaks the property `PROJECT.json` lists for it, which
shows that the property depends on that line of the code.

### FetchSources

Each variable is a file (or one file per archive) or a shell variable; the
comment at its declaration names it. `pc` is the next command. One action is
one command that changes a file or can fail:

| action | code |
|---|---|
| `UseCached`, `DropStale` | `common.sh:109-116`, the cached file is used or deleted |
| `RemovePart`, `Curl`, `CurlFails` | `118-120` |
| `VerifyPart`, `InstallArchive` | `121-126` |
| `CleanTemporaries`, `FetchMetadata(Fails)`, `ParseMetadata` | `142-203` |
| `FetchChecksum(Fails)`, `AcceptChecksum`, `RejectChecksum`, `UnreadableChecksum` | `204-232` |
| `InstallChecksum` | `235-236` |
| `Start`, `TruncateResolved`, `WriteResolved` | `fetch-sources.sh:7-14`, `60-67` |
| `Kill` | a signal between two commands |
| `Publish`, `Replace`, `DeleteAsset`, `UploadAsset`, `Replaced` | GitHub (external), as the scripts use it |

A file is its content, and a content stands for its digest; `Junk` is anything
torn or foreign. GitHub may or may not report an asset's digest, as the code
allows for. `curl` exits 0 with the file or, counted as a failure, with
something else.

### SdkBuild

A tree is a function from its packages to their contents. `Torn` says what a
command that fails or is killed leaves of what it was writing, and that a
deletion leaves any of the parts. `StartScript` runs one script alone.
`OtherFetch` is `fetch-sources.sh` in another shell while this run is past its
own fetch: it may replace a producer's archive between the preflight, which
tests the NDK, and the assembly, which unpacks it. The auxiliary `disturbed`
records that it did, and `before` the tree that the validator was given.
Compilers, `sdkmanager` and the tests of
the NDK are outcomes: a build gives the tools of the current sources or
defective ones, an NDK is `Compatible` or not. The gates of the two build
scripts may miss a defective tool (the pipes of `build-cmake.sh:60` and
`build-build-tools.sh:61-68`); the validator reads the same facts without a
pipe. `Anchors` is what `compare-reference-layout.py` compares of an NDK with
the cached archive: a few files, so two builds may agree on all of them.

### ReleaseChecksum

The Python reader is the operators `Matches`, `Listed` and `Accepts`. The shell
loop is a state machine with one action per way through its body. The
differences kept are those the two programs treat differently or that decide a
verdict: number of words, case of the digest, one or two stars, a carriage
return, a last line without a newline.

### ConcurrentFetch

Names and inodes: a build that has opened a file keeps it when another renames
or deletes the name, and `curl` empties the file it finds under the name. The
builds want the same bytes, so a file is the set of its chunks that are in
place; a server may send others (`CurlWriteWrong`), which `curl` cannot tell. One
action is one system call that matters: a test, an open, a read or a
write of a chunk, a removal, the rename.

### ElfValidation

One action per structure read: the header with its checks, a program header,
the section table with the count that may stand in section zero, a section
header. What the file holds is chosen when it is read. The sizes 64, 56 and 64
are constants and scaled down, so that a file of a few bytes has every relation
between its size, a table and an extent. Python's integers do not wrap, and
neither do the model's. The specification is named `ElfSpec`, which lets one
module of proofs extend this module and `ReleaseChecksum`.

### ReleaseWorkflow

A run is in the concurrency group (one active, one pending, a newer push
replaces the pending one), its jobs take their steps, and the Release has two
assets, replaced one after the other. A run may be run again, whole or from the
publish job; an artifact may expire or arrive damaged; any step may fail. GitHub
and `gh` are external and modelled as `release.yml` uses them.

### RefBase, ThreadObject, WorkQueue

In `RefBase` the actors are the `sp<>` and `wp<>` instances of one object. A
call is a sequence of steps, one per atomic instruction or callback, and steps
of different instances interleave. The client keeps the rules of `RefBase.h`: an
instance is not copied and dropped at the same time, and the constructing thread
does not share the object before its first strong reference.

In `ThreadObject` what a function does under `mLock` is one step, and what
`_threadLoop` does without it is a step per access. Clients call `run()`,
`requestExit()`, `requestExitAndWait()` and `join()`, and share and drop their
references. The test of `exitPending()` before the first `threadLoop()` and the
call are two steps. The auxiliary `asked` remembers, independently of
`mExitPending`, that the running thread was asked to exit, and `late` counts the
calls of `threadLoop()` since.

In `WorkQueue` each locked region is a step. A unit is a number; its `run()`
returns true or false. Conditions may wake without cause. Creating a thread may
fail. A backlog of 0 means, as in the code, that no call waits for room.

## 3. Properties and runs

| run | specification and bounds | properties |
|---|---|---|
| `fetch_sources` | `FairSpec`; one pinned archive, one producer, one reference archive, two Releases, 2 failures or producer activities; 243,000 states | `AllVerified`, `ResolvedIsLatest`, `InstallsOnlyVerified`, `ChecksumFollowsArchive`, `ImplementsStore`, `Recovers` |
| `concurrent_fetch` | two builds, an archive of two chunks, 5 downloads, 2 failures or wrong chunks; 330,000 states | `SettlesWhole`, `AloneIsSafe` |
| `done_is_verified` | two builds, two downloads, no failure | `DoneIsVerified`, violated |
| `sdk_build` | `FairSpec`; two NDK builds of which one is compatible, 2 interventions; 632,000 states, a minute and a half | `ValidatedArchive`, `MadeByThisRun`, `ChecksummedArchiveIsWhole`, `ValidationLeavesTree`, `PreflightGuardsTrees`, `Recovers` |
| `release_checksum` | all files of up to two lines | `ReadersAgree`, `SameVerdict` |
| `one_entry` | the same files | `OneEntryIsEnough`, violated |
| `elf_validation` | structures of 2 bytes, files of up to 8, tables of up to 3 rows; 31,000 states | `AcceptedIsSound`, `RowsInside` |
| `release_workflow` | `FairSpec`; 3 pushes, 5 builds, 2 failures; 54,000 states | `SuccessIsWhole`, `TornOnlyByFailure`, `OnlyBuilds`, `NoDowngrade`, `Settles` |
| `refbase` | `FairSpec`; 4 instances, both lifetimes; 145,000 states | `CountsAreExact`, `SafeAccess`, `ChecksHold`, `NoLeak`, `DeadStaysDead`, `DeadIsDeleted` |
| `thread_object` | `FairSpec`; 3 clients, 2 calls of `run()` that create a thread; 44,000 states | `OneThread`, `SelfIsAlive`, `SelfIsKnown`, `AtMostOneMore`, `ExitWaitEnds` |
| `work_queue` | `FairSpec`; 2 clients, 6 units, 2 threads, backlog 1; 22,000 states | `BacklogIsBounded`, `OneOwner`, `CanceledIsEmpty`, `EndOfFinish`, `CallsReturn`, `UnitsEnd` |
| `finish_completes` | the same queue | `FinishCompletes`, violated |

Deadlock is checked in `fetch_sources` and `sdk_build`, which can always be run
again. Elsewhere the program may stop: a function returns, a client has nothing
more to do, or a bound is used up.

What they show:

* **Success means verified** (`AllVerified`, `ResolvedIsLatest`). When the
  fetch reports success, every archive asked for has its digest, every
  producer's archive passes `verify_cached_release_archive`, and the recorded
  tags were the latest at some moment of that run.
* **Nothing unverified is visible** (`InstallsOnlyVerified`,
  `ChecksumFollowsArchive`), at any moment.
* **Sharing a checkout** (`SettlesWhole`, `AloneIsSafe`). Builds that fetch at
  the same time can make each other fail, and one can rename the file that
  another is still writing. As long as none is killed or gets wrong bytes the
  archive is complete once all have ended, because whoever has it open fills it.
  A later download that is alone repairs everything else.
* **The SDK is what it is said to be** (`ValidatedArchive`, `MadeByThisRun`).
  A validation that succeeds, alone or in the pipeline, does so on a whole tree
  that equals the archive and has no defective tool. In the pipeline the SDK is
  made of this run's inputs, and `PreflightGuardsTrees`: no tree is touched
  before the NDK has passed its tests. If another fetch replaces the NDK after
  that, the SDK that is reported still has one that passes them, because
  `validate-sdk.sh:387` runs them again on the assembled tree.
* **What is left behind is harmless** (`ChecksummedArchiveIsWhole`,
  `ValidationLeavesTree`, `Recovers` in both modules).
* **Two readers, one digest** (`ReadersAgree`, `SameVerdict`).
* **An accepted ELF file is inside its bounds** (`AcceptedIsSound`,
  `RowsInside`).
* **A Release is one build** (`SuccessIsWhole`, `TornOnlyByFailure`,
  `OnlyBuilds`, `NoDowngrade`, `Settles`), apart from the time in which the two
  assets are replaced, and after a failure in that time.
* **References are counted right** (`CountsAreExact` and the others of
  `refbase`), also while the first increment is between its two instructions,
  and while a promotion races the last decrement.
* **A thread object has one thread** and outlives it (`OneThread`,
  `SelfIsAlive`, `SelfIsKnown`); exit requests are obeyed and waiters get out
  (`AtMostOneMore`, `ExitWaitEnds`). `AtMostOneMore` depends on the order in
  `run()`, which tests `mRunning` before it resets `mExitPending`.
* **The work queue loses and doubles nothing** (`OneOwner`, `CanceledIsEmpty`,
  `EndOfFinish`, `UnitsEnd`), is bounded (`BacklogIsBounded`) and lets its
  callers go (`CallsReturn`).

Three runs record a disagreement of the code with what it says of itself.

* `one_entry`. `verify_cached_release_archive` dies with "must contain exactly
  one SHA-256 entry" (`common.sh:79`) on a file that holds exactly one entry
  whose line has no newline, because `read` returns false there
  (`common.sh:70`). The fetch's reader accepts such a file, so the fetch
  succeeds and the preflight (NDK) or the validator (Platform-Tools) fails.
  Files written by `sha256sum` end with a newline and are not affected.
* `done_is_verified`. `fetch-sources.sh:67` reports "present and checksum
  verified", but with two builds in one checkout the file that `mv` renames
  need not be the one that was verified. `AloneIsSafe` says that one build at a
  time is not affected.
* `finish_completes`. `WorkQueue.h:84` says that `finish()` "waits for all work
  to complete". A unit that returns false after `finish()` has begun ends its
  thread without cancelling the queue; when all threads have ended so, `finish()`
  returns with units left. The one unit class of aapt always returns true, so
  aapt itself is not affected.

Exceptions that the properties state, and that are worth knowing:

* `NoLeak`: an object with the normal lifetime that never had a strong
  reference is not deleted with its last weak one; the code logs this.
* `ExitWaitEnds`: who waits in `requestExitAndWait()` while another client
  calls `run()` again waits for the new thread, which nobody asked to exit.
* `CallsReturn`, `UnitsEnd`: the state `Deserted` described under
  `finish_completes`, in which a client in `schedule()` may wait for ever.
* `SuccessIsWhole` counts a draft as a Release: a `gh release create` that was
  killed leaves a draft, and a later run that finds it fills it and does not
  publish it.

Why the bounds suffice. An archive's handling does not depend on the other
archives but for its place in the plan, so one archive of each kind, with the
early end before the reference archive, has every order of kinds; two builds
distinguish old from new and two Releases allow one to appear during a run. Two
failures are enough for one in a run and another in the run that repairs it. In
`SdkBuild` two interventions allow, for example, a lone script over the result
of an edit. Two lines of a checksum file give a duplicate and an entry before or
after a foreign line. Three pushes give an active, a pending and a replacing
run. Four instances of `RefBase` give a holder, two racing promotions and a
decrement. Three clients of a thread are one that starts, one that waits and one
that starts again. Six units are more than two threads and the backlog hold
together with two waiting clients. For the safety properties the proofs remove
these bounds.

Fairness.

* `FetchSources`: a running script takes its next command, a failed one is run
  again, and a producer that began to replace its assets completes that;
  failures are bounded, so they stop.
* `SdkBuild`: a running script takes its next command; the full pipeline is
  started again, and the sources are restored, if that is possible again and
  again (strong fairness, because lone scripts and `--preflight-only` runs may
  come between). `Recovers` assumes that the NDK does not remain an
  incompatible one: no rerun helps while the latest NDK Release fails the
  entry-point tests.
* `ReleaseWorkflow`: a job takes its next step, the tag is pushed, and a failed
  run is run again as long as that is possible (strong fairness, because a run
  under way is in its way).
* `RefBase`, `ThreadObject`, `WorkQueue`: a call or a thread that can take its
  next step does, `threadLoop()` and the units return, and a waiter that was
  woken gets the lock. Nobody has to start a call or to drop a reference.

The first three are the user's, GitHub's and the operating system's part: no
script schedules another. The last is what a thread scheduler gives.

## 4. Proofs

Every safety property that a passing run checks is proved for every value of
the constants, from the named assumptions of the module alone; the one
exception, half of `AcceptedIsSound`, is described below. Each proof is of the
same shape: an inductive invariant, one lemma per part of it with a step per
action, and the properties from it. None of the properties is inductive by
itself.

| module | invariant | what it adds to the properties |
|---|---|---|
| `FetchSourcesProofs` | `FetchInv` | the position is in the part of the plan asked for (`PlanInv`); the archives before it are as they were left (`PrefixInv`); nothing is under the final name between deletion and rename, and a file about to be renamed has the wanted content (`PartInv`); the Release in hand was the latest at some moment of this run (`ReleaseInv`); the expected digest is the one in the checksum file in hand and does not contradict GitHub's (`ExpectedInv`) |
| `SdkBuildProofs` | `IInv` | the command under way belongs to the script that runs, and success comes only after the last (`ScriptInv`); the Build-Tools sources are the recorded ones while they are compiled (`SourceInv`); the parts of `dist/sdk` that each command of the assembly builds on are in place (`AssemblyInv`); whatever archive is in `dist/` is a complete SDK (`ZipInv`); the tree under validation has passed every check so far, and is as it was once the probe is cleaned up (`ValidateInv`); what the scripts of a pipeline that have ended established still holds (`PipelineInv`) |
| `ReaderProofs` | `LoopInv` | counter and digest of the loop against the entries seen: none, exactly one and its digest, or at least two |
| `ReaderProofs` | `TableInv` | the table being walked lies in the file, with rows at least as long as what is read of them; a row just accepted lies in the file, unless it is empty, and has passed the test of its alignment |
| `ConcurrentFetchProofs` | `ShareInv`, `AloneInv` | a file under one of the names is complete, or the build that emptied it last is still filling it (`Filled`), or it is older than the first download and somebody has yet to look at it (`Unseen`); what a download that is alone has achieved at each command (`AloneAt`) |
| `ReleaseWorkflowProofs` | `GroupInv`, `OrderInv`, `DistInv`, `AssetInv` | one active and one pending run; a run that was not run again has no newer build before it; what a job publishes is its own; what it has uploaded is in the Release |
| `RefBaseProofs` | `IInv` | the counts against the sets of holders, with `INITIAL_STRONG_VALUE` on top until the one call that subtracts it; which instance keeps the object for each step of each call; who deletes it |
| `ThreadObjectProofs` | `NameInv`, `HoldInv`, `LateInv` | `mThread` names the one live thread; `mHoldSelf` until the thread has its own reference; `mExitPending` stays true from the request (`asked`) until the thread has left |
| `WorkQueueProofs` | `CountInv`, `CloseInv`, `OwnerInv` | `mIdleThreads` counts the resting threads, ended ones included; while a thread can still be started there are no more units than idle threads; a thread leaves by itself only an empty closed queue; each unit is in one place |

In `SdkBuild` the properties rest on each other along the pipeline. A validation
can only succeed on a tree equal to the archive (`ReportIsTrue`) because its
last comparison comes after the cleanup of the probe, and `ValidateInv` carries
the verdicts of the earlier checks over the probe. That the SDK is made of this
run's inputs (`NothingIsLeftOver`) needs `PipelineInv`: each script deletes
what it is about to make, so nothing that an earlier run left can reach the
archive. `ArchiveIsWhole` needs that `PackZip` is reached only with all parts
in place. `PreflightIsFirst` is an action property: the pipeline changes
`build/` or `dist/` only after the preflight has passed. What `PipelineInv` says
of the cache holds until another fetch touches it; what it says of the trees
does not depend on that (lemma `Disturbing`).

`Refinement` in `FetchSourcesProofs` shows that `FetchSources` implements
`VerifiedStore`: initial states map to initial states, and every step to a step
or a stutter. `CacheIsTheStore` in `SdkBuildProofs` shows that the cache of
`SdkBuild` is a `VerifiedStore` too. `RefBaseProofs` assumes fewer instances
than `MAX_COUNT` (`HandlesAssumption`): with more the code itself takes the
counts for corrupt. It counts sets by the library's theorems on cardinality,
collected in its `Counting` section.

`NoShortRow` and `AcceptedExtents` hold for any sizes of the file, the tables and
the structures, so also for the 64, 56 and 64 of the code. `AcceptedExtents`
states `AcceptedIsSound`, that the bytes of what was accepted are in the file and
its alignment is 0 or a power of two. The first half needs no assumption. The
second takes the arithmetic of the test, that `a & (a - 1)` is 0 only for 0 and
powers of two, as its hypothesis `PowersFound`: powers and bits are defined by
recursion, which the provers cannot reason about. TLC evaluates `PowersFound` for
the fields of the instance.

Only model-checked: the liveness properties (`Recovers` twice, `Settles`,
`DeadIsDeleted`, `ExitWaitEnds`, `CallsReturn`, `UnitsEnd`), which are outside
the prover's reach, and `PowersFound`.

## 5. Abstractions, and what is not modelled

* A digest identifies a content: no collisions.
* In `SdkBuild` the checks of single files are predicates on packages. The
  rules behind them (SONAME closure, layout exceptions, host archive inventory,
  the digest of the source tree) are not modelled.
* `VerifyCached`, in `FetchSources` and `SdkBuild`, takes the shell's and
  Python's readers of a checksum file for one. That is right for what `sha256sum`
  writes (`SameVerdict`). On an entry without a newline they differ (run
  `one_entry`), so on such a file `AllVerified` is about the fetch's reader.
* The pipe of `mapfile` (`common.sh:158`) loses the reader's status. The reader
  prints all its lines at its end, so the number of lines says the same, and the
  model has one outcome for both.
* `gh release create` beside a draft that `gh release view` failed to find leaves
  two drafts on GitHub. `ReleaseWorkflow` follows the newer, which is the one
  that is filled and published.
* `zip` writes its archive under a temporary name and renames it, so `PackZip`
  is one step; `sha256sum`'s redirection is not, and may leave an empty file.
* The optional argument of `preflight-ndk.sh` is diagnostic and left out, and
  so is `validate-sdk.sh`'s optional directory.
* Outputs of a build of which some are missing count as absent, because
  `assemble-sdk.sh` fails at the first missing file.
* `ConcurrentFetch` has the builds want the same bytes. Builds that want
  different Releases of a producer under one name are not modelled.
* The atomics of `RefBase` are sequentially consistent. The code uses
  `memory_order_relaxed` but for decrements and fences, and the model says
  nothing of what that allows.
* Debugging code of libutils (`DEBUG_REFS`, reference ids), thread priorities
  and names are left out.

### Not modelled

* Host setup and runtime selection: state of the host system.
* Templates: static files.
* The vendored sources under `build-tools/`, 99 in 100 lines of the repository:
  protobuf, BoringSSL, googletest, libpng, the parsers and writers of aapt and
  aapt2 and others. They are third-party code that this repository compiles as it is,
  and most of it are sequential parsers, tables and generated code without the
  shared state that a model checker explores. Of these sources the models have
  the classes whose correctness depends on interleavings. A share of the whole
  that would be large in lines is not within reach of faithful models.

## 6. Plan

1. `LayoutCompare`: the rules of `compare-reference-layout.py` over small trees
   against a reference definition, and the injectivity of its renaming.
2. `NdkSonames`: registration and closure of host SONAMEs in `validate-sdk.sh`.
3. `HostArchives`: the inventory of host archives against the manifest.
4. `SourceSnapshot`: the encoding of a tree in `verify-source-snapshot.py`, and
   that two trees with one encoding are the same tree.
