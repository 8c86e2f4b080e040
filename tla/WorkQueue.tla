----------------------------- MODULE WorkQueue -----------------------------
(***************************************************************************)
(* The work queue of aapt (build-tools/src/base/tools/aapt/WorkQueue.cpp),  *)
(* with which preProcessImages crunches images in parallel: clients post    *)
(* units, cancel and finish; work threads take the units and run them.      *)
(* What is done while mLock is held is one step.  A thread of the pool is a *)
(* Thread of libutils: join() waits until threadLoop() has returned false   *)
(* (ThreadObject.tla).                                                      *)
(***************************************************************************)
EXTENDS Naturals, Sequences, FiniteSets

CONSTANTS
    Clients,            \* threads that use the queue
    MaxUnits,           \* bound: work units that they post
    mMaxThreads,
    Backlog             \* the parameter backlog of schedule(), 0 for no limit

(* The queue has a thread to start. *)
ASSUME QueueAssumption ==
    /\ mMaxThreads \in Nat \ {0} /\ Backlog \in Nat
    /\ MaxUnits \in Nat

Threads == 1..mMaxThreads
Units == 1..MaxUnits
None == 0               \* no unit

VARIABLES
    mCanceled, mFinished, mIdleThreads, mWorkUnits,
    started,            \* mWorkThreads.size(); until finish() clears the list,
                        \* the threads are 1..started
    pc, cur,            \* per thread: where it is, and its unit
    call, arg,          \* per client: the call that waits, and its unit
    posted,             \* units that clients have made and passed to schedule()
    alive,              \* units that are not deleted
    queue               \* ~WorkQueue() has not begun

flags == <<mCanceled, mFinished>>
threads == <<started, pc, cur>>
clients == <<call, arg, posted>>
vars == <<mCanceled, mFinished, mIdleThreads, mWorkUnits, started, pc, cur,
          call, arg, posted, alive, queue>>

(* A thread has no unit, waits for one, runs one, has run one and got its     *)
(* answer, has left threadLoop(), or has left it because its unit told it to  *)
(* when the queue was already finished.                                       *)
Labels == {"none", "loop", "wait", "run", "true", "false", "gone", "quit"}
Busy == {t \in Threads : pc[t] \in {"run", "true", "false"}}
Over == {"none", "gone", "quit"}

Calls == {"idle", "schedule", "woken", "cancel", "join", "destroy"}

Limit == mMaxThreads * Backlog

Full == Backlog # 0 /\ Len(mWorkUnits) >= Limit

UnitsIn(q) == {q[i] : i \in DOMAIN q}

Init ==
    /\ mCanceled = FALSE /\ mFinished = FALSE /\ mIdleThreads = 0
    /\ mWorkUnits = <<>> /\ started = 0
    /\ pc = [t \in Threads |-> "none"] /\ cur = [t \in Threads |-> None]
    /\ call = [c \in Clients |-> "idle"] /\ arg = [c \in Clients |-> None]
    /\ posted = 0 /\ alive = Units /\ queue = TRUE

(* The broadcasts: waiting threads look again, waiting clients look again. *)
WorkChanged(p) == [t \in Threads |-> IF p[t] = "wait" THEN "loop" ELSE p[t]]
WorkDequeued(k) == [c \in Clients |-> IF k[c] = "schedule" THEN "woken" ELSE k[c]]

Idle(c) == queue /\ call[c] = "idle"

-----------------------------------------------------------------------------
(* schedule() takes the unit. *)
Enqueue(u) ==
    /\ mWorkUnits' = Append(mWorkUnits, u)
    /\ UNCHANGED <<flags, cur, alive, queue>>

(* schedule() returns without the unit, which the caller deletes. *)
Refuse(u) ==
    /\ alive' = alive \ {u}
    /\ UNCHANGED <<flags, mIdleThreads, mWorkUnits, threads, queue>>

Post(c, u) == Idle(c) /\ u = posted + 1 /\ posted' = u

scheduleRefused(c, u) ==
    /\ Post(c, u)
    /\ mFinished \/ mCanceled
    /\ Refuse(u)
    /\ UNCHANGED <<call, arg>>

WantsThread == started < mMaxThreads /\ mIdleThreads < Len(mWorkUnits) + 1

scheduleStarts(c, u) ==
    /\ Post(c, u)
    /\ ~mFinished /\ ~mCanceled /\ WantsThread
    /\ started' = started + 1
    /\ mIdleThreads' = mIdleThreads + 1
    /\ pc' = [WorkChanged(pc) EXCEPT ![started'] = "loop"]
    /\ Enqueue(u)
    /\ UNCHANGED <<call, arg>>

(* Thread::run cannot create the thread. *)
scheduleFails(c, u) ==
    /\ Post(c, u)
    /\ ~mFinished /\ ~mCanceled /\ WantsThread
    /\ Refuse(u)
    /\ UNCHANGED <<call, arg>>

(* Mutant: the queue is measured against one unit more. *)
throttleLate(c, u) ==
    IF Backlog # 0 /\ Len(mWorkUnits) > Limit
    THEN /\ call' = [call EXCEPT ![c] = "schedule"]
         /\ arg' = [arg EXCEPT ![c] = u]
         /\ UNCHANGED <<flags, mIdleThreads, mWorkUnits, threads, alive, queue>>
    ELSE /\ call' = [call EXCEPT ![c] = "idle"]
         /\ arg' = [arg EXCEPT ![c] = None]
         /\ pc' = WorkChanged(pc)
         /\ Enqueue(u)
         /\ UNCHANGED <<mIdleThreads, started>>

(* Mutant: a unit is added and the waiting threads are not told. *)
throttleSilent(c, u) ==
    IF Full
    THEN /\ call' = [call EXCEPT ![c] = "schedule"]
         /\ arg' = [arg EXCEPT ![c] = u]
         /\ UNCHANGED <<flags, mIdleThreads, mWorkUnits, threads, alive, queue>>
    ELSE /\ call' = [call EXCEPT ![c] = "idle"]
         /\ arg' = [arg EXCEPT ![c] = None]
         /\ Enqueue(u)
         /\ UNCHANGED <<mIdleThreads, started, pc>>

(* The head of the loop around mWorkDequeuedCondition.wait. *)
throttle(c, u) ==
    IF Full
    THEN /\ call' = [call EXCEPT ![c] = "schedule"]
         /\ arg' = [arg EXCEPT ![c] = u]
         /\ UNCHANGED <<flags, mIdleThreads, mWorkUnits, threads, alive, queue>>
    ELSE /\ call' = [call EXCEPT ![c] = "idle"]
         /\ arg' = [arg EXCEPT ![c] = None]
         /\ pc' = WorkChanged(pc)
         /\ Enqueue(u)
         /\ UNCHANGED <<mIdleThreads, started>>

schedule(c, u) ==
    /\ Post(c, u)
    /\ ~mFinished /\ ~mCanceled /\ ~WantsThread
    /\ throttle(c, u)

(* Mutant: a woken client does not look whether the queue was closed. *)
scheduleAgainBlindly(c) ==
    /\ call[c] = "woken"
    /\ throttle(c, arg[c])
    /\ UNCHANGED posted

(* After the wait. *)
scheduleAgain(c) ==
    /\ call[c] = "woken"
    /\ IF mFinished \/ mCanceled
       THEN /\ Refuse(arg[c])
            /\ call' = [call EXCEPT ![c] = "idle"]
            /\ arg' = [arg EXCEPT ![c] = None]
       ELSE throttle(c, arg[c])
    /\ UNCHANGED posted

(* Mutant: cancelLocked tells the threads and forgets the clients. *)
cancelLockedSilent(p, k) ==
    IF mFinished \/ mCanceled
    THEN pc' = p /\ call' = k /\ UNCHANGED <<mCanceled, mWorkUnits, alive>>
    ELSE /\ mCanceled' = TRUE
         /\ mWorkUnits' = <<>>
         /\ alive' = alive \ UnitsIn(mWorkUnits)
         /\ pc' = WorkChanged(p)
         /\ call' = k

(* Mutant: the pending units are deleted and stay in the queue. *)
cancelLockedKeeping(p, k) ==
    IF mFinished \/ mCanceled
    THEN pc' = p /\ call' = k /\ UNCHANGED <<mCanceled, mWorkUnits, alive>>
    ELSE /\ mCanceled' = TRUE
         /\ alive' = alive \ UnitsIn(mWorkUnits)
         /\ pc' = WorkChanged(p)
         /\ call' = WorkDequeued(k)
         /\ UNCHANGED mWorkUnits

(* cancelLocked, where the caller moves its thread to p and its client to k. *)
cancelLocked(p, k) ==
    IF mFinished \/ mCanceled
    THEN pc' = p /\ call' = k /\ UNCHANGED <<mCanceled, mWorkUnits, alive>>
    ELSE /\ mCanceled' = TRUE
         /\ mWorkUnits' = <<>>
         /\ alive' = alive \ UnitsIn(mWorkUnits)
         /\ pc' = WorkChanged(p)
         /\ call' = WorkDequeued(k)

cancel(c) ==
    /\ Idle(c)
    /\ cancelLocked(pc, call)
    /\ UNCHANGED <<mFinished, mIdleThreads, started, cur, arg, posted, queue>>

(* The locked part of finish(). *)
beginFinish(c, k) ==
    /\ mFinished' = TRUE
    /\ pc' = WorkChanged(pc)
    /\ call' = [call EXCEPT ![c] = k]
    /\ UNCHANGED <<mCanceled, mIdleThreads, mWorkUnits, started, cur, arg,
                   posted, alive, queue>>

finish(c) == Idle(c) /\ ~mFinished /\ beginFinish(c, "join")

(* The joins of all work threads, which are then forgotten, and the end of    *)
(* finish() or ~WorkQueue().                                                  *)
join(c) ==
    /\ call[c] \in {"join", "destroy"}
    /\ \A t \in Threads : pc[t] \in Over
    /\ call' = [call EXCEPT ![c] = "idle"]
    /\ started' = 0
    /\ UNCHANGED <<flags, mIdleThreads, mWorkUnits, pc, cur, arg, posted, alive,
                   queue>>

(* ~WorkQueue(), when nobody else uses the queue: cancel(), and finish() if    *)
(* that returned OK.                                                          *)
Unused == \A c \in Clients : Idle(c)

destroy(c) ==
    /\ Unused
    /\ queue' = FALSE
    /\ cancelLocked(pc, IF mFinished THEN call ELSE [call EXCEPT ![c] = "cancel"])
    /\ UNCHANGED <<mFinished, mIdleThreads, started, cur, arg, posted>>

destroyFinish(c) == call[c] = "cancel" /\ beginFinish(c, "destroy")

-----------------------------------------------------------------------------
(* threadLoop(): what a thread finds when it has the lock. *)
takeUnit(t) ==
    /\ pc[t] = "loop"
    /\ ~mCanceled /\ mWorkUnits # <<>>
    /\ cur' = [cur EXCEPT ![t] = Head(mWorkUnits)]
    /\ mWorkUnits' = Tail(mWorkUnits)
    /\ mIdleThreads' = mIdleThreads - 1
    /\ pc' = [pc EXCEPT ![t] = "run"]
    /\ call' = WorkDequeued(call)
    /\ UNCHANGED <<flags, started, arg, posted, alive, queue>>

(* Mutant: a finished queue ends its threads at once. *)
leaveLoopEarly(t) ==
    /\ pc[t] = "loop"
    /\ \/ (mCanceled \/ mFinished) /\ pc' = [pc EXCEPT ![t] = "gone"]
       \/ /\ ~mCanceled /\ mWorkUnits = <<>> /\ ~mFinished
          /\ pc' = [pc EXCEPT ![t] = "wait"]
    /\ UNCHANGED <<flags, mIdleThreads, mWorkUnits, started, cur, clients, alive, queue>>

leaveLoop(t) ==
    /\ pc[t] = "loop"
    /\ \/ /\ mCanceled \/ (mWorkUnits = <<>> /\ mFinished)
          /\ pc' = [pc EXCEPT ![t] = "gone"]
       \/ /\ ~mCanceled /\ mWorkUnits = <<>> /\ ~mFinished
          /\ pc' = [pc EXCEPT ![t] = "wait"]
    /\ UNCHANGED <<flags, mIdleThreads, mWorkUnits, started, cur, clients, alive,
                   queue>>

(* Condition variables may wake a waiter for no reason. *)
spuriousWakeup(t) ==
    /\ pc[t] = "wait"
    /\ pc' = [pc EXCEPT ![t] = "loop"]
    /\ UNCHANGED <<flags, mIdleThreads, mWorkUnits, started, cur, clients, alive,
                   queue>>

spuriousReturn(c) ==
    /\ call[c] = "schedule"
    /\ call' = [call EXCEPT ![c] = "woken"]
    /\ UNCHANGED <<flags, mIdleThreads, mWorkUnits, threads, arg, posted, alive,
                   queue>>

(* The unit runs without the lock, returns true or false, and is deleted. *)
runUnit(t) ==
    /\ pc[t] = "run"
    /\ \E answer \in {"true", "false"} : pc' = [pc EXCEPT ![t] = answer]
    /\ alive' = alive \ {cur[t]}
    /\ cur' = [cur EXCEPT ![t] = None]
    /\ UNCHANGED <<flags, mIdleThreads, mWorkUnits, started, clients, queue>>

(* The second locked scope of threadLoop(). *)
endUnit(t) ==
    /\ mIdleThreads' = mIdleThreads + 1
    /\ \/ /\ pc[t] = "true"
          /\ pc' = [pc EXCEPT ![t] = "loop"]
          /\ UNCHANGED <<mCanceled, mWorkUnits, alive, call>>
       \/ /\ pc[t] = "false"
          /\ cancelLocked([pc EXCEPT ![t] = IF mFinished THEN "quit" ELSE "gone"], call)
    /\ UNCHANGED <<mFinished, started, cur, arg, posted, queue>>

-----------------------------------------------------------------------------
Client(c) ==
    \/ \E u \in Units : \/ scheduleRefused(c, u) \/ scheduleStarts(c, u)
                        \/ scheduleFails(c, u) \/ schedule(c, u)
    \/ cancel(c) \/ finish(c) \/ destroy(c)

Return(c) == scheduleAgain(c) \/ join(c) \/ destroyFinish(c)

Work(t) == takeUnit(t) \/ leaveLoop(t) \/ runUnit(t) \/ endUnit(t)

Next ==
    \/ \E c \in Clients : Client(c) \/ Return(c) \/ spuriousReturn(c)
    \/ \E t \in Threads : Work(t) \/ spuriousWakeup(t)

Spec == Init /\ [][Next]_vars

(* Threads get the lock and run, units return, and calls that can go on do.   *)
FairSpec ==
    /\ Spec
    /\ \A t \in Threads : WF_vars(Work(t))
    /\ \A c \in Clients : WF_vars(Return(c))

-----------------------------------------------------------------------------
(* The types; the count of idle threads never wraps below zero. *)
TypeOK ==
    /\ mCanceled \in BOOLEAN /\ mFinished \in BOOLEAN
    /\ mIdleThreads \in Nat /\ mWorkUnits \in Seq(Units)
    /\ started \in 0..mMaxThreads
    /\ pc \in [Threads -> Labels] /\ cur \in [Threads -> Units \cup {None}]
    /\ call \in [Clients -> Calls] /\ arg \in [Clients -> Units \cup {None}]
    /\ posted \in 0..MaxUnits /\ alive \subseteq Units /\ queue \in BOOLEAN

(* WorkQueue.h:63, flow control: however many clients post at once, and       *)
(* although a call that starts a thread does not look at the limit, no more    *)
(* than backlog units per thread are pending, if there is a backlog.           *)
BacklogIsBounded == Backlog # 0 => Len(mWorkUnits) <= Limit

(* Every unit has one owner: what is queued, run or still in a call of         *)
(* schedule() is not deleted, and is nowhere else.                             *)
OneOwner ==
    /\ \A i, j \in DOMAIN mWorkUnits : mWorkUnits[i] = mWorkUnits[j] => i = j
    /\ \A t, v \in Threads : cur[t] = cur[v] /\ cur[t] # None => t = v
    /\ \A c, d \in Clients : arg[c] = arg[d] /\ arg[c] # None => c = d
    /\ UnitsIn(mWorkUnits) \subseteq alive
    /\ \A t \in Threads : cur[t] # None => cur[t] \in alive \ UnitsIn(mWorkUnits)
    /\ \A c \in Clients : arg[c] # None =>
           arg[c] \in alive \ UnitsIn(mWorkUnits) /\ \A t \in Threads : cur[t] # arg[c]

(* WorkQueue.h:75: a cancelled queue is empty and stays so, also when clients  *)
(* that waited in schedule() go on.                                            *)
CanceledIsEmpty == mCanceled => mWorkUnits = <<>>

(* Every thread has left a finished queue because its last unit returned      *)
(* false.                                                                     *)
Deserted == mFinished /\ \A t \in Threads : pc[t] \in {"none", "quit"}

(* When finish() or ~WorkQueue() has returned, no thread uses the queue, and   *)
(* what is left undone is left because every thread's last unit returned       *)
(* false after the call.                                                       *)
EndOfFinish ==
    mFinished /\ (\A c \in Clients : call[c] \notin {"join", "destroy"}) =>
        /\ \A t \in Threads : pc[t] \in Over
        /\ mWorkUnits # <<>> => Deserted

(* A client that waits in schedule() gets out of it, and a finish() ends,      *)
(* unless the last thread has left a finished queue on a unit's false.         *)
CallsReturn ==
    \A c \in Clients :
        /\ call[c] \in {"join", "destroy"} ~> call[c] = "idle"
        /\ call[c] \in {"schedule", "woken"} ~>
               call[c] = "idle" \/ Deserted

(* Every unit that the queue has taken is run or discarded, in the end, with   *)
(* the same exception.                                                         *)
UnitsEnd ==
    \A u \in Units :
        u \in UnitsIn(mWorkUnits) ~>
            u \notin alive \/ Deserted

(* WorkQueue.h:84, "waits for all work to complete". *)
FinishCompletes ==
    mFinished /\ (\A c \in Clients : call[c] # "join") => mWorkUnits = <<>>
=============================================================================
