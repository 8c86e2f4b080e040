---------------------------- MODULE ThreadObject ----------------------------
(***************************************************************************)
(* One object of class Thread of libutils                                   *)
(* (build-tools/src/core/libutils/Threads.cpp): the clients that start it,  *)
(* ask it to exit and wait for it, and the threads that run() creates.      *)
(* What a function does while it holds mLock is one step; what _threadLoop  *)
(* does without the lock (mHoldSelf, mStatus, the strong references) is a    *)
(* step for each access.  The object lives while somebody has a strong      *)
(* reference, which is what RefBase.tla shows of the counts.                *)
(***************************************************************************)
EXTENDS Naturals, FiniteSets

CONSTANTS
    Clients,            \* threads of the program that use the object
    MaxRuns             \* bound: threads run() creates

(* There is a client, and it can call run(). *)
ASSUME ThreadAssumption == Clients # {} /\ MaxRuns \in Nat \ {0}

Threads == 1..MaxRuns

NoThread == 0           \* thread_id_t(-1)

VARIABLES
    mRunning, mExitPending, mThread,  \* guarded by mLock
    mStatus,            \* "OK", "UNKNOWN_ERROR" or what readyToRun returned
    mHoldSelf,          \* the object holds a strong reference to itself
    object,             \* it is not yet destroyed
    held,               \* per client: it holds an sp<Thread>
    call,               \* per client: what it waits for, and whether it was woken
    created,            \* threads created so far
    pc, strong, result, \* per thread: where it is, its sp, what threadLoop said
    asked,              \* the thread that runs has been asked to exit
    late                \* threadLoop() calls it has begun since

flags == <<mRunning, mExitPending, mThread>>
clients == <<held, call>>
threads == <<created, pc, strong, result>>
exits == <<asked, late>>
vars == <<mRunning, mExitPending, mThread, mStatus, mHoldSelf, object, held,
          call, created, pc, strong, result, asked, late>>

Labels == {"none", "start", "unhold", "ready", "check", "enter", "loop", "end",
           "clear", "promote", "leave", "done"}

(* Where a thread of the object is between its creation and its last use of it *)
Active == {"start", "unhold", "ready", "check", "enter", "loop", "end", "clear"}

Waits == {"idle", "exit", "exit_woken", "join", "join_woken"}

Referenced == mHoldSelf \/ (\E c \in Clients : held[c])
                        \/ (\E t \in Threads : strong[t])

(* The last strong reference takes the object with it. *)
Release == object' = (object /\ Referenced')

Init ==
    /\ mRunning = FALSE /\ mExitPending = FALSE /\ mThread = NoThread
    /\ mStatus = "OK" /\ mHoldSelf = FALSE /\ object = TRUE
    /\ \E c \in Clients : held = [d \in Clients |-> d = c]
    /\ call = [c \in Clients |-> "idle"]
    /\ created = 0
    /\ pc = [t \in Threads |-> "none"]
    /\ strong = [t \in Threads |-> FALSE]
    /\ result = [t \in Threads |-> FALSE]
    /\ asked = FALSE /\ late = 0

-----------------------------------------------------------------------------
(* Clients: a call needs a reference, which is kept until it returns. *)
Calls(c) == held[c] /\ call[c] = "idle"

Share(c, d) ==
    /\ Calls(c) /\ ~held[d]
    /\ held' = [held EXCEPT ![d] = TRUE]
    /\ UNCHANGED <<flags, mStatus, mHoldSelf, object, call, threads, exits>>

Drop(c) ==
    /\ Calls(c)
    /\ held' = [held EXCEPT ![c] = FALSE]
    /\ UNCHANGED <<flags, mStatus, mHoldSelf, call, threads, exits>>
    /\ Release

(* Mutant: run() does not test mRunning. *)
runCreatesAgain(c) ==
    /\ Calls(c)
    /\ created < MaxRuns
    /\ created' = created + 1
    /\ mStatus' = "OK" /\ mExitPending' = FALSE
    /\ mHoldSelf' = TRUE /\ mRunning' = TRUE /\ mThread' = created'
    /\ pc' = [pc EXCEPT ![created'] = "start"]
    /\ asked' = FALSE /\ late' = 0
    /\ UNCHANGED <<object, clients, strong, result>>

(* Mutant: run() does not hold the object for its thread. *)
runCreatesUnheld(c) ==
    /\ Calls(c) /\ ~mRunning
    /\ created < MaxRuns
    /\ created' = created + 1
    /\ mStatus' = "OK" /\ mExitPending' = FALSE
    /\ mHoldSelf' = FALSE /\ mRunning' = TRUE /\ mThread' = created'
    /\ pc' = [pc EXCEPT ![created'] = "start"]
    /\ asked' = FALSE /\ late' = 0
    /\ UNCHANGED <<object, clients, strong, result>>

(* Mutant: run() forgets the id of its thread. *)
runCreatesUnnamed(c) ==
    /\ Calls(c) /\ ~mRunning
    /\ created < MaxRuns
    /\ created' = created + 1
    /\ mStatus' = "OK" /\ mExitPending' = FALSE
    /\ mHoldSelf' = TRUE /\ mRunning' = TRUE /\ mThread' = NoThread
    /\ pc' = [pc EXCEPT ![created'] = "start"]
    /\ asked' = FALSE /\ late' = 0
    /\ UNCHANGED <<object, clients, strong, result>>

(* run() when no thread runs: the thread is created, or it cannot be. *)
runCreates(c) ==
    /\ Calls(c) /\ ~mRunning
    /\ created < MaxRuns
    /\ created' = created + 1
    /\ mStatus' = "OK" /\ mExitPending' = FALSE
    /\ mHoldSelf' = TRUE /\ mRunning' = TRUE /\ mThread' = created'
    /\ pc' = [pc EXCEPT ![created'] = "start"]
    /\ asked' = FALSE /\ late' = 0
    /\ UNCHANGED <<object, clients, strong, result>>

(* Mutant: run() resets mExitPending before it tests mRunning. *)
runFailsForgetting(c) ==
    /\ Calls(c)
    /\ mExitPending' = FALSE
    /\ mStatus' = IF mRunning THEN mStatus ELSE "UNKNOWN_ERROR"
    /\ mThread' = IF mRunning THEN mThread ELSE NoThread
    /\ UNCHANGED <<mRunning, mHoldSelf, object, clients, threads, exits>>

runFails(c) ==
    /\ Calls(c) /\ ~mRunning
    /\ mStatus' = "UNKNOWN_ERROR" /\ mExitPending' = FALSE
    /\ mThread' = NoThread
    /\ UNCHANGED <<mRunning, mHoldSelf, object, clients, threads, exits>>

(* Only a thread that runs is asked: run() clears what was said before it. *)
Ask == asked' = (IF mRunning THEN TRUE ELSE asked) /\ UNCHANGED late

requestExit(c) ==
    /\ Calls(c) /\ Ask
    /\ mExitPending' = TRUE
    /\ UNCHANGED <<mRunning, mThread, mStatus, mHoldSelf, object, clients,
                   threads>>

(* The test of the loop around mThreadExitedCondition.wait, with the lock held: *)
(* the client waits, or returns mStatus.                                       *)
testRunning(c, kind, waiting, returning) ==
    /\ call' = [call EXCEPT ![c] = IF mRunning THEN kind ELSE "idle"]
    /\ mExitPending' = IF mRunning THEN waiting ELSE returning
    /\ UNCHANGED <<mRunning, mThread, mStatus, mHoldSelf, object, held, threads>>

requestExitAndWait(c) == Calls(c) /\ Ask /\ testRunning(c, "exit", TRUE, FALSE)

join(c) ==
    /\ Calls(c) /\ testRunning(c, "join", mExitPending, mExitPending)
    /\ UNCHANGED exits

(* A woken waiter has the lock again. *)
exitAgain(c) ==
    /\ call[c] = "exit_woken" /\ testRunning(c, "exit", mExitPending, FALSE)
    /\ UNCHANGED exits

joinAgain(c) ==
    /\ call[c] = "join_woken" /\ testRunning(c, "join", mExitPending, mExitPending)
    /\ UNCHANGED exits

Woken(k) == IF k = "exit" THEN "exit_woken" ELSE IF k = "join" THEN "join_woken" ELSE k

(* A condition variable may wake a waiter for no reason. *)
spuriousWakeup(c) ==
    /\ call[c] \in {"exit", "join"}
    /\ call' = [call EXCEPT ![c] = Woken(call[c])]
    /\ UNCHANGED <<flags, mStatus, mHoldSelf, object, held, threads, exits>>

-----------------------------------------------------------------------------
(* _threadLoop. *)
Goto(t, from, to) == pc[t] = from /\ pc' = [pc EXCEPT ![t] = to]

takeSelf(t) ==
    /\ Goto(t, "start", "unhold")
    /\ strong' = [strong EXCEPT ![t] = mHoldSelf]
    /\ UNCHANGED <<flags, mStatus, mHoldSelf, object, clients, created, result,
                   exits>>

clearHoldSelf(t) ==
    /\ Goto(t, "unhold", "ready")
    /\ mHoldSelf' = FALSE
    /\ UNCHANGED <<flags, mStatus, clients, created, strong, result, exits>>
    /\ Release

readyToRun(t) ==
    /\ \/ Goto(t, "ready", "check") /\ mStatus' = "OK" /\ UNCHANGED result
       \/ /\ Goto(t, "ready", "end") /\ mStatus' = "FAILED"
          /\ result' = [result EXCEPT ![t] = FALSE]
    /\ UNCHANGED <<flags, mHoldSelf, object, clients, created, strong, exits>>

(* The test before the first call, which comes after it: an exit may be  *)
(* requested between the two.                                            *)
firstLoop(t) ==
    /\ \/ ~mExitPending /\ Goto(t, "check", "enter") /\ UNCHANGED result
       \/ /\ mExitPending /\ Goto(t, "check", "end")
          /\ result' = [result EXCEPT ![t] = TRUE]
    /\ UNCHANGED <<flags, mStatus, mHoldSelf, object, clients, created, strong,
                   exits>>

(* threadLoop() is called; late counts the calls after an exit request. *)
threadLoop(t) ==
    /\ Goto(t, "enter", "loop")
    /\ late' = IF asked THEN late + 1 ELSE late
    /\ UNCHANGED <<flags, mStatus, mHoldSelf, object, clients, created, strong,
                   result, asked>>

threadLoopReturns(t) ==
    /\ Goto(t, "loop", "end")
    /\ \E r \in BOOLEAN : result' = [result EXCEPT ![t] = r]
    /\ UNCHANGED <<flags, mStatus, mHoldSelf, object, clients, created, strong,
                   exits>>

(* threadLoop() may itself ask for the exit. *)
requestOwnExit(t) ==
    /\ pc[t] = "loop" /\ ~mExitPending /\ Ask
    /\ mExitPending' = TRUE
    /\ UNCHANGED <<mRunning, mThread, mStatus, mHoldSelf, object, clients,
                   threads>>

(* Mutant: nobody is told that the thread has left. *)
endOfBodySilent(t) ==
    /\ IF ~result[t] \/ mExitPending
       THEN /\ Goto(t, "end", "leave")
            /\ mExitPending' = TRUE /\ mRunning' = FALSE /\ mThread' = NoThread
       ELSE Goto(t, "end", "clear") /\ UNCHANGED flags
    /\ UNCHANGED <<mStatus, mHoldSelf, object, clients, created, strong, result,
                   exits>>

(* The locked scope at the end of the loop's body. *)
endOfBody(t) ==
    /\ IF ~result[t] \/ mExitPending
       THEN /\ Goto(t, "end", "leave")
            /\ mExitPending' = TRUE /\ mRunning' = FALSE /\ mThread' = NoThread
            /\ call' = [c \in Clients |-> Woken(call[c])]
       ELSE Goto(t, "end", "clear") /\ UNCHANGED <<flags, call>>
    /\ UNCHANGED <<mStatus, mHoldSelf, object, held, created, strong, result, exits>>

(* The thread lets go of the object, for good or to take it up again. *)
letGo(t) ==
    /\ Goto(t, "clear", "promote") \/ Goto(t, "leave", "done")
    /\ strong' = [strong EXCEPT ![t] = FALSE]
    /\ UNCHANGED <<flags, mStatus, mHoldSelf, clients, created, result, exits>>
    /\ Release

promote(t) ==
    /\ \/ object /\ Goto(t, "promote", "enter") /\ strong' = [strong EXCEPT ![t] = TRUE]
       \/ ~object /\ Goto(t, "promote", "done") /\ UNCHANGED strong
    /\ UNCHANGED <<flags, mStatus, mHoldSelf, object, clients, created, result, exits>>

-----------------------------------------------------------------------------
Client(c) ==
    \/ \E d \in Clients : Share(c, d)
    \/ Drop(c) \/ runCreates(c) \/ runFails(c) \/ requestExit(c)
    \/ requestExitAndWait(c) \/ join(c) \/ spuriousWakeup(c)

Again(c) == exitAgain(c) \/ joinAgain(c)

Step(t) ==
    \/ takeSelf(t) \/ clearHoldSelf(t) \/ readyToRun(t) \/ firstLoop(t)
    \/ threadLoop(t) \/ threadLoopReturns(t) \/ endOfBody(t) \/ letGo(t) \/ promote(t)

Next ==
    \/ \E c \in Clients : Client(c) \/ Again(c)
    \/ \E t \in Threads : Step(t) \/ requestOwnExit(t)

Spec == Init /\ [][Next]_vars

(* Threads run, threadLoop() returns, and a woken waiter gets the lock. *)
FairSpec ==
    /\ Spec
    /\ \A t \in Threads : WF_vars(Step(t))
    /\ \A c \in Clients : WF_vars(Again(c))

-----------------------------------------------------------------------------
(* The types; mThread never names a thread that run() has not created. *)
TypeOK ==
    /\ mRunning \in BOOLEAN /\ mExitPending \in BOOLEAN
    /\ mThread \in 0..created /\ created \in 0..MaxRuns
    /\ mStatus \in {"OK", "FAILED", "UNKNOWN_ERROR"}
    /\ mHoldSelf \in BOOLEAN /\ object \in BOOLEAN
    /\ held \in [Clients -> BOOLEAN] /\ call \in [Clients -> Waits]
    /\ pc \in [Threads -> Labels] /\ strong \in [Threads -> BOOLEAN]
    /\ result \in [Threads -> BOOLEAN] /\ asked \in BOOLEAN /\ late \in Nat

(* However run() is called again and again, at most one thread of the object  *)
(* is inside it, and mRunning says so: it is false only when the last thread  *)
(* has left its loop, so a client that finds it false may start another.      *)
OneThread ==
    /\ \A t, u \in Threads : pc[t] \in Active /\ pc[u] \in Active => t = u
    /\ (\E t \in Threads : pc[t] \in Active) => mRunning

(* A thread uses the object only while it exists, from its first instruction  *)
(* on, although the client that called run() may have dropped its reference.  *)
SelfIsAlive == \A t \in Threads : pc[t] \in Active => object

(* Code that a subclass runs in the object's thread finds its own id in        *)
(* mThread, so requestExitAndWait() and join() return WOULD_BLOCK to it        *)
(* instead of waiting for themselves.                                          *)
SelfIsKnown == \A t \in Threads : pc[t] \in {"ready", "loop"} => mThread = t

(* Once its thread has been asked to exit, threadLoop() is called at most once  *)
(* more: nobody's run(), wait or return takes the request back before it is     *)
(* seen.                                                                        *)
AtMostOneMore == late <= 1

(* A client that waits in requestExitAndWait() or join() while an exit is       *)
(* requested gets out of it, whoever else asks, waits or returns, unless        *)
(* another client starts the object again meanwhile: it then finds mRunning     *)
(* true, and no exit request for the new thread.                                *)
ExitWaitEnds ==
    \A c \in Clients, n \in Threads :
        call[c] # "idle" /\ mExitPending /\ created = n
            ~> call[c] = "idle" \/ created > n
=============================================================================
