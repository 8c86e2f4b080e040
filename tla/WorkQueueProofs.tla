-------------------------- MODULE WorkQueueProofs --------------------------
(***************************************************************************)
(* What holds of aapt's WorkQueue for any number of clients, threads and    *)
(* units and every backlog.                                                 *)
(***************************************************************************)
EXTENDS WorkQueue, TLAPS

(* Threads that mIdleThreads counts: those that a unit has ended included. *)
Resting == {t \in Threads : pc[t] \in {"loop", "wait", "gone", "quit"}}

Waiting(c) == call[c] \in {"schedule", "woken"}

(* The counts.  While a thread can still be started there are no more units    *)
(* than idle threads, so nobody waits and the limit is far.                    *)
CountInv ==
    /\ mIdleThreads = Cardinality(Resting)
    /\ ~mFinished => \A t \in Threads : pc[t] = "none" <=> t > started
    /\ ~mFinished /\ started < mMaxThreads => Len(mWorkUnits) <= mIdleThreads
    /\ ~mFinished => \A c \in Clients : Waiting(c) => started = mMaxThreads
    /\ BacklogIsBounded

(* A thread is gone only when there is nothing more to do, and a client joins  *)
(* the threads of a queue that it has finished.                                *)
CloseInv ==
    /\ CanceledIsEmpty
    /\ \A c \in Clients : call[c] \in {"join", "destroy"} => mFinished
    /\ \A t \in Threads : pc[t] = "gone" => mWorkUnits = <<>> /\ (mCanceled \/ mFinished)
    /\ EndOfFinish

(* Who has a unit, that no other has it, and which units are new. *)
OwnerInv ==
    /\ \A t \in Threads : cur[t] # None <=> pc[t] = "run"
    /\ \A c \in Clients : arg[c] # None <=> Waiting(c)
    /\ \A i, j \in DOMAIN mWorkUnits : mWorkUnits[i] = mWorkUnits[j] => i = j
    /\ \A u \in UnitsIn(mWorkUnits) : u <= posted /\ u \in alive
    /\ \A t \in Threads : cur[t] # None =>
           /\ cur[t] <= posted /\ cur[t] \in alive /\ cur[t] \notin UnitsIn(mWorkUnits)
           /\ \A v \in Threads : cur[v] = cur[t] => v = t
    /\ \A c \in Clients : arg[c] # None =>
           /\ arg[c] <= posted /\ arg[c] \in alive /\ arg[c] \notin UnitsIn(mWorkUnits)
           /\ \A t \in Threads : cur[t] # arg[c]
           /\ \A d \in Clients : arg[d] = arg[c] => d = c
    /\ \A u \in Units : u > posted => u \in alive

-----------------------------------------------------------------------------
(* The units posted before a step were posted before what comes after it. *)
LEMMA LeqTrans ==
    ASSUME NEW a \in Nat, NEW b \in Nat, NEW c \in Nat, a <= b, c >= b
    PROVE  a <= c
  OBVIOUS

(* mWorkUnits.removeAt(0), in threadLoop(). *)
LEMMA TailFacts ==
    ASSUME NEW S, NEW s \in Seq(S), s # <<>>
    PROVE  /\ Tail(s) \in Seq(S) /\ Len(Tail(s)) = Len(s) - 1
           /\ Head(s) \in S /\ Head(s) = s[1] /\ Len(s) > 0
           /\ \A i \in DOMAIN Tail(s) : i + 1 \in DOMAIN s /\ Tail(s)[i] = s[i + 1]
           /\ UnitsIn(Tail(s)) \subseteq UnitsIn(s) /\ Head(s) \in UnitsIn(s)
  <1>1. /\ Tail(s) \in Seq(S) /\ Len(Tail(s)) = Len(s) - 1
        /\ Head(s) \in S /\ Head(s) = s[1] /\ Len(s) > 0
        /\ \A i \in DOMAIN Tail(s) : i + 1 \in DOMAIN s /\ Tail(s)[i] = s[i + 1]
        /\ 1 \in DOMAIN s
    OBVIOUS
  <1> QED BY <1>1 DEF UnitsIn

(* How long the queue is then. *)
LEMMA TailLen ==
    ASSUME NEW S, NEW s \in Seq(S), s # <<>>
    PROVE  Len(Tail(s)) = Len(s) - 1
  BY TailFacts

(* mWorkUnits.add(workUnit), in schedule(). *)
LEMMA AppendFacts ==
    ASSUME NEW S, NEW s \in Seq(S), NEW u \in S
    PROVE  /\ Append(s, u) \in Seq(S) /\ Len(Append(s, u)) = Len(s) + 1
           /\ DOMAIN Append(s, u) = DOMAIN s \cup {Len(s) + 1}
           /\ \A i \in DOMAIN s : Append(s, u)[i] = s[i]
           /\ Append(s, u)[Len(s) + 1] = u
           /\ UnitsIn(Append(s, u)) = UnitsIn(s) \cup {u}
  <1>1. /\ Append(s, u) \in Seq(S) /\ Len(Append(s, u)) = Len(s) + 1
        /\ DOMAIN Append(s, u) = DOMAIN s \cup {Len(s) + 1}
        /\ \A i \in DOMAIN s : Append(s, u)[i] = s[i]
        /\ Append(s, u)[Len(s) + 1] = u
    OBVIOUS
  <1> QED BY <1>1 DEF UnitsIn

(* How long the queue is then. *)
LEMMA AppendLen ==
    ASSUME NEW S, NEW s \in Seq(S), NEW u \in S
    PROVE  Len(Append(s, u)) = Len(s) + 1
  BY AppendFacts

-----------------------------------------------------------------------------
IInv == TypeOK /\ CountInv /\ CloseInv /\ OwnerInv

(* CloseInv after a step in which nobody begins or ends to join the threads,   *)
(* no thread leaves on a "gone", and units are only added to an open queue.    *)
LEMMA CloseKept ==
    ASSUME CloseInv, TypeOK, UNCHANGED <<mCanceled, mFinished>>,
           \A c \in Clients : call'[c] \in {"join", "destroy"} <=> call[c] \in {"join", "destroy"},
           \/ ~mFinished /\ \A t \in Threads : pc'[t] = "gone" => pc[t] = "gone"
           \/ (\E c \in Clients : call[c] \in {"join", "destroy"})
                /\ \A t \in Threads : pc'[t] = "gone" => pc[t] = "gone"
           \/ UNCHANGED pc,
           \/ UNCHANGED mWorkUnits
           \/ ~mCanceled /\ ~mFinished
           \/ ~mCanceled /\ \A t \in Threads : pc'[t] # "gone"
    PROVE  CloseInv'
  <1>1. CanceledIsEmpty'
    BY DEF CloseInv, CanceledIsEmpty
  <1>2. \A c \in Clients : call'[c] \in {"join", "destroy"} => mFinished'
    BY DEF CloseInv
  <1>3. \A t \in Threads : pc'[t] = "gone" => mWorkUnits' = <<>> /\ (mCanceled' \/ mFinished')
    BY DEF CloseInv
  <1>4. EndOfFinish'
    <2> SUFFICES ASSUME mFinished, \A c \in Clients : call'[c] \notin {"join", "destroy"}
                 PROVE  /\ \A t \in Threads : pc'[t] \in Over
                        /\ mWorkUnits' # <<>> => \A t \in Threads : pc'[t] \in {"none", "quit"}
      BY DEF EndOfFinish, Deserted
    <2>1. \A c \in Clients : call[c] \notin {"join", "destroy"}
      OBVIOUS
    <2>2. pc' = pc
      BY <2>1
    <2>3. \A t \in Threads : pc[t] \in Over
      BY <2>1 DEF CloseInv, EndOfFinish
    <2>4. mWorkUnits # <<>> => \A t \in Threads : pc[t] \in {"none", "quit"}
      BY <2>1 DEF CloseInv, EndOfFinish, Deserted
    <2>5. (\A t \in Threads : pc[t] # "gone") => \A t \in Threads : pc[t] \in {"none", "quit"}
      BY <2>3 DEF Over
    <2> QED BY <2>2, <2>3, <2>4, <2>5
  <1> QED BY <1>1, <1>2, <1>3, <1>4 DEF CloseInv

(* WorkQueue.cpp:74-138: what is true of a closed queue after a step. *)
LEMMA CloseNext ==
    ASSUME IInv, [Next]_vars, TypeOK'
    PROVE  CloseInv'
  <1> USE DEF flags, threads, clients
  <1>0. TypeOK /\ CloseInv
    BY DEF IInv
  <1>1. ASSUME NEW c \in Clients, NEW u \in Units, scheduleRefused(c, u) \/ scheduleFails(c, u)
        PROVE  CloseInv'
    <2>1. UNCHANGED <<mCanceled, mFinished, mWorkUnits, pc, call>>
      BY <1>1 DEF scheduleRefused, scheduleFails, Refuse
    <2> QED BY <1>0, <2>1, CloseKept
  <1>2. ASSUME NEW c \in Clients, NEW u \in Units, scheduleStarts(c, u)
        PROVE  CloseInv'
    <2>1. /\ ~mFinished /\ ~mCanceled /\ UNCHANGED <<mCanceled, mFinished, call>>
          /\ pc' = [WorkChanged(pc) EXCEPT ![started'] = "loop"]
      BY <1>2 DEF scheduleStarts, Enqueue
    <2>2. \A t \in Threads : pc'[t] = "gone" => pc[t] = "gone"
      BY <1>0, <2>1 DEF WorkChanged, TypeOK
    <2> QED BY <1>0, <2>1, <2>2, CloseKept
  <1>3. ASSUME NEW c \in Clients, NEW u \in Units, throttle(c, u), ~mFinished, ~mCanceled,
               call[c] \in {"idle", "woken"}
        PROVE  CloseInv'
    <2>1. /\ UNCHANGED <<mCanceled, mFinished>>
          /\ \E k \in {"schedule", "idle"} : call' = [call EXCEPT ![c] = k]
          /\ pc' = pc \/ pc' = WorkChanged(pc)
      BY <1>3 DEF throttle, Enqueue
    <2>2. \A t \in Threads : pc'[t] = "gone" => pc[t] = "gone"
      BY <1>0, <2>1 DEF WorkChanged, TypeOK
    <2>3. \A d \in Clients : call'[d] \in {"join", "destroy"} <=> call[d] \in {"join", "destroy"}
      BY <1>0, <1>3, <2>1 DEF TypeOK
    <2> QED BY <1>0, <1>3, <2>1, <2>2, <2>3, CloseKept
  <1>4. ASSUME NEW c \in Clients, NEW u \in Units, schedule(c, u)
        PROVE  CloseInv'
    BY <1>3, <1>4 DEF schedule, Post, Idle
  <1>5. ASSUME NEW c \in Clients, scheduleAgain(c)
        PROVE  CloseInv'
    <2>1. CASE mFinished \/ mCanceled
      <3>1. /\ UNCHANGED <<mCanceled, mFinished, mWorkUnits, pc>>
            /\ call[c] = "woken" /\ call' = [call EXCEPT ![c] = "idle"]
        BY <1>5, <2>1 DEF scheduleAgain, Refuse
      <3>2. \A d \in Clients : call'[d] \in {"join", "destroy"} <=> call[d] \in {"join", "destroy"}
        BY <1>0, <3>1 DEF TypeOK
      <3> QED BY <1>0, <3>1, <3>2, CloseKept
    <2>2. CASE ~(mFinished \/ mCanceled)
      <3>1. throttle(c, arg[c]) /\ arg[c] \in Units /\ call[c] = "woken"
        <4>1. throttle(c, arg[c]) /\ Waiting(c) /\ call[c] = "woken"
          BY Zenon, <1>5, <2>2 DEF scheduleAgain, Waiting
        <4>2. arg[c] # None
          BY Zenon, <4>1 DEF IInv, OwnerInv
        <4>3. arg[c] \in Units
          BY Zenon, <1>0, <4>2 DEF TypeOK
        <4> QED BY <4>1, <4>3
      <3> QED BY <1>3, <2>2, <3>1
    <2> QED BY <2>1, <2>2
  <1>6. ASSUME NEW p \in [Threads -> Labels], NEW k \in [Clients -> Calls], cancelLocked(p, k),
               mFinished' = mFinished,
               \A c \in Clients : k[c] \in {"join", "destroy"} <=> call[c] \in {"join", "destroy"},
               \/ p = pc
               \/ /\ mFinished => \E c \in Clients : call[c] \in {"join", "destroy"}
                  /\ mFinished => \A t \in Threads : p[t] = "gone" => pc[t] = "gone"
        PROVE  CloseInv'
    <2>1. CASE mFinished
      <3>1. pc' = p /\ call' = k /\ UNCHANGED <<mCanceled, mWorkUnits>>
        BY <1>6, <2>1 DEF cancelLocked
      <3> QED BY <1>0, <1>6, <2>1, <3>1, CloseKept
    <2>2. CASE ~mFinished
      <3>1. mCanceled' /\ mWorkUnits' = <<>>
        BY <1>0, <1>6, <2>2 DEF cancelLocked, CloseInv, CanceledIsEmpty, TypeOK
      <3>2. \A c \in Clients : call'[c] \notin {"join", "destroy"}
        BY <1>0, <1>6, <2>2 DEF cancelLocked, CloseInv, WorkDequeued
      <3> QED BY <1>6, <2>2, <3>1, <3>2 DEF CloseInv, CanceledIsEmpty, EndOfFinish
    <2> QED BY <2>1, <2>2
  <1>7. ASSUME NEW c \in Clients, cancel(c) \/ destroy(c)
        PROVE  CloseInv'
    <2>1. pc \in [Threads -> Labels] /\ call \in [Clients -> Calls] /\ mFinished' = mFinished
      BY <1>0, <1>7 DEF cancel, destroy, TypeOK
    <2>2. CASE cancelLocked(pc, call)
      BY <1>6, <2>1, <2>2
    <2>3. CASE destroy(c) /\ ~mFinished
      <3> DEFINE k == [call EXCEPT ![c] = "cancel"]
      <3>1. call[c] = "idle" /\ cancelLocked(pc, k)
        BY <2>3 DEF destroy, Unused, Idle
      <3>2. /\ k \in [Clients -> Calls]
            /\ \A d \in Clients : k[d] \in {"join", "destroy"} <=> call[d] \in {"join", "destroy"}
        BY <2>1, <3>1 DEF Calls
      <3> HIDE DEF k
      <3> QED BY <1>6, <2>1, <3>1, <3>2
    <2> QED BY Zenon, <1>7, <2>2, <2>3 DEF cancel, destroy
  <1>8. ASSUME NEW c \in Clients, finish(c) \/ destroyFinish(c)
        PROVE  CloseInv'
    <2>1. /\ mFinished' /\ UNCHANGED <<mCanceled, mWorkUnits>> /\ pc' = WorkChanged(pc)
          /\ call' = [call EXCEPT ![c] = "join"] \/ call' = [call EXCEPT ![c] = "destroy"]
      BY <1>8 DEF finish, destroyFinish, beginFinish
    <2>2. call'[c] \in {"join", "destroy"}
      BY <1>0, <2>1 DEF TypeOK
    <2>3. \A t \in Threads : pc'[t] = "gone" => pc[t] = "gone"
      BY <1>0, <2>1 DEF WorkChanged, TypeOK
    <2> QED BY <1>0, <2>1, <2>2, <2>3 DEF CloseInv, CanceledIsEmpty, EndOfFinish
  <1>9. ASSUME NEW c \in Clients, join(c)
        PROVE  CloseInv'
    <2>1. /\ UNCHANGED <<mCanceled, mFinished, mWorkUnits, pc>> /\ \A t \in Threads : pc[t] \in Over
          /\ call' = [call EXCEPT ![c] = "idle"]
      BY <1>9 DEF join
    <2>2. \A d \in Clients : call'[d] \in {"join", "destroy"} => call[d] \in {"join", "destroy"}
      BY <1>0, <2>1 DEF TypeOK
    <2>3. mWorkUnits # <<>> => \A t \in Threads : pc[t] \in {"none", "quit"}
      BY <1>0, <2>1 DEF CloseInv, Over
    <2> QED BY <1>0, <2>1, <2>2, <2>3 DEF CloseInv, CanceledIsEmpty, EndOfFinish, Deserted
  <1>10. ASSUME NEW c \in Clients, spuriousReturn(c)
         PROVE  CloseInv'
    <2>1. /\ UNCHANGED <<mCanceled, mFinished, mWorkUnits, pc>>
          /\ call[c] = "schedule" /\ call' = [call EXCEPT ![c] = "woken"]
      BY <1>10 DEF spuriousReturn
    <2>2. \A d \in Clients : call'[d] \in {"join", "destroy"} <=> call[d] \in {"join", "destroy"}
      BY <1>0, <2>1 DEF TypeOK
    <2> QED BY <1>0, <2>1, <2>2, CloseKept
  <1>11. ASSUME NEW t \in Threads, pc[t] \notin Over
         PROVE  mFinished => \E c \in Clients : call[c] \in {"join", "destroy"}
    BY <1>0, <1>11 DEF CloseInv, EndOfFinish
  <1>12. ASSUME NEW t \in Threads, takeUnit(t)
         PROVE  CloseInv'
    <2>1. /\ UNCHANGED <<mCanceled, mFinished>> /\ call' = WorkDequeued(call)
          /\ ~mCanceled /\ mWorkUnits # <<>> /\ pc[t] = "loop" /\ pc' = [pc EXCEPT ![t] = "run"]
      BY <1>12 DEF takeUnit
    <2>2. \A v \in Threads : pc'[v] # "gone" /\ pc[v] # "gone"
      BY <1>0, <2>1 DEF CloseInv, TypeOK
    <2>3. \A d \in Clients : call'[d] \in {"join", "destroy"} <=> call[d] \in {"join", "destroy"}
      BY <1>0, <2>1 DEF TypeOK, WorkDequeued
    <2>4. mFinished => \E c \in Clients : call[c] \in {"join", "destroy"}
      BY <1>11, <2>1 DEF Over
    <2> QED BY <1>0, <2>1, <2>2, <2>3, <2>4, CloseKept
  <1>13. ASSUME NEW t \in Threads, leaveLoop(t)
         PROVE  CloseInv'
    <2>1. /\ UNCHANGED <<mCanceled, mFinished, mWorkUnits, call>> /\ pc[t] = "loop"
          /\ \/ /\ mCanceled \/ (mWorkUnits = <<>> /\ mFinished)
                /\ pc' = [pc EXCEPT ![t] = "gone"]
             \/ pc' = [pc EXCEPT ![t] = "wait"]
      BY <1>13 DEF leaveLoop
    <2>2. \A v \in Threads : pc'[v] = "gone" => mWorkUnits = <<>> /\ (mCanceled \/ mFinished)
      BY <1>0, <2>1 DEF CloseInv, CanceledIsEmpty, TypeOK
    <2>3. mFinished => \E c \in Clients : call[c] \in {"join", "destroy"}
      BY <1>11, <2>1 DEF Over
    <2> QED BY <1>0, <2>1, <2>2, <2>3 DEF CloseInv, CanceledIsEmpty, EndOfFinish
  <1>14. ASSUME NEW t \in Threads, spuriousWakeup(t) \/ runUnit(t)
         PROVE  CloseInv'
    <2>1. /\ UNCHANGED <<mCanceled, mFinished, mWorkUnits, call>> /\ pc[t] \in {"wait", "run"}
          /\ \E q \in {"loop", "true", "false"} : pc' = [pc EXCEPT ![t] = q]
      BY <1>14 DEF spuriousWakeup, runUnit
    <2>2. \A v \in Threads : pc'[v] = "gone" => pc[v] = "gone"
      BY <1>0, <2>1 DEF TypeOK
    <2>3. mFinished => \E c \in Clients : call[c] \in {"join", "destroy"}
      BY <1>11, <2>1 DEF Over
    <2> QED BY <1>0, <2>1, <2>2, <2>3, CloseKept
  <1>15. ASSUME NEW t \in Threads, endUnit(t)
         PROVE  CloseInv'
    <2> DEFINE p(q) == [pc EXCEPT ![t] = q]
    <2>1. pc[t] \in {"true", "false"} /\ mFinished' = mFinished
      BY <1>15 DEF endUnit
    <2>2. mFinished => \E c \in Clients : call[c] \in {"join", "destroy"}
      BY <1>11, <2>1 DEF Over
    <2>3. CASE pc[t] = "true"
      <3>1. pc' = p("loop") /\ UNCHANGED <<mCanceled, mFinished, mWorkUnits, call>>
        BY <1>15, <2>3 DEF endUnit
      <3>2. \A v \in Threads : pc'[v] = "gone" => pc[v] = "gone"
        BY <1>0, <3>1 DEF TypeOK
      <3> QED BY <1>0, <2>2, <3>1, <3>2, CloseKept
    <2>4. CASE pc[t] = "false"
      <3> DEFINE r == p(IF mFinished THEN "quit" ELSE "gone")
      <3>1. cancelLocked(r, call) /\ call \in [Clients -> Calls]
        BY <1>0, <1>15, <2>4 DEF endUnit, TypeOK
      <3>2. /\ r \in [Threads -> Labels]
            /\ mFinished => \A v \in Threads : r[v] = "gone" => pc[v] = "gone"
        BY <1>0 DEF TypeOK, Labels
      <3> HIDE DEF r
      <3> QED BY <1>6, <2>1, <2>2, <3>1, <3>2
    <2> QED BY <2>1, <2>3, <2>4
  <1>16. CASE UNCHANGED vars
    BY <1>0, <1>16 DEF vars, CloseInv, CanceledIsEmpty, EndOfFinish, Deserted
  <1> QED
    BY <1>1, <1>2, <1>4, <1>5, <1>7, <1>8, <1>9, <1>10, <1>12, <1>13, <1>14, <1>15, <1>16
    DEF Next, Client, Return, Work

(* 0 is no unit, and no place of the queue holds it. *)
LEMMA QueuedUnits ==
    ASSUME TypeOK
    PROVE  \A u \in UnitsIn(mWorkUnits) : u \in Units /\ u # None
  <1>1. \A i \in DOMAIN mWorkUnits : mWorkUnits[i] \in Units
    BY DEF TypeOK
  <1>2. None \notin Units
    BY DEF Units, None
  <1> QED BY <1>1, <1>2 DEF UnitsIn

(* OwnerInv after a step in which units only leave the queue, the threads and  *)
(* the calls, and nothing is deleted that one of them still has.               *)
LEMMA OwnerKept ==
    ASSUME OwnerInv, TypeOK, TypeOK', posted' >= posted,
           \A i, j \in DOMAIN mWorkUnits' : mWorkUnits'[i] = mWorkUnits'[j] => i = j,
           UnitsIn(mWorkUnits') \subseteq UnitsIn(mWorkUnits),
           \A t \in Threads : cur'[t] \in {cur[t], None},
           \A c \in Clients : arg'[c] \in {arg[c], None},
           \A t \in Threads : cur'[t] # None <=> pc'[t] = "run",
           \A c \in Clients : arg'[c] # None <=> Waiting(c)',
           \A u \in alive \ alive' :
               /\ u <= posted' /\ u \notin UnitsIn(mWorkUnits')
               /\ \A t \in Threads : cur'[t] # u
               /\ \A c \in Clients : arg'[c] # u
    PROVE  OwnerInv'
  <1>0. posted \in Nat /\ posted' \in Nat /\ \A u \in Units : u \in Nat
    BY QueueAssumption DEF TypeOK, Units
  <1>1. \A u \in UnitsIn(mWorkUnits') : u <= posted' /\ u \in alive'
    <2> TAKE u \in UnitsIn(mWorkUnits')
    <2>1. u \in UnitsIn(mWorkUnits) /\ u <= posted /\ u \in alive /\ u \in Units
      BY DEF OwnerInv, TypeOK
    <2> QED BY <1>0, <2>1
  <1>2. \A t \in Threads : cur'[t] # None =>
           /\ cur'[t] <= posted' /\ cur'[t] \in alive' /\ cur'[t] \notin UnitsIn(mWorkUnits')
           /\ \A v \in Threads : cur'[v] = cur'[t] => v = t
    <2> SUFFICES ASSUME NEW t \in Threads, cur'[t] # None
                 PROVE  /\ cur'[t] <= posted' /\ cur'[t] \in alive'
                        /\ cur'[t] \notin UnitsIn(mWorkUnits')
                        /\ \A v \in Threads : cur'[v] = cur'[t] => v = t
      OBVIOUS
    <2>1. cur'[t] = cur[t] /\ cur[t] \in Units
      BY DEF TypeOK
    <2>2. /\ cur[t] <= posted /\ cur[t] \in alive /\ cur[t] \notin UnitsIn(mWorkUnits)
          /\ \A v \in Threads : cur[v] = cur[t] => v = t
      BY <2>1 DEF OwnerInv
    <2> QED BY <1>0, <2>1, <2>2
  <1>3. \A c \in Clients : arg'[c] # None =>
           /\ arg'[c] <= posted' /\ arg'[c] \in alive' /\ arg'[c] \notin UnitsIn(mWorkUnits')
           /\ \A t \in Threads : cur'[t] # arg'[c]
           /\ \A d \in Clients : arg'[d] = arg'[c] => d = c
    <2> SUFFICES ASSUME NEW c \in Clients, arg'[c] # None
                 PROVE  /\ arg'[c] <= posted' /\ arg'[c] \in alive'
                        /\ arg'[c] \notin UnitsIn(mWorkUnits')
                        /\ \A t \in Threads : cur'[t] # arg'[c]
                        /\ \A d \in Clients : arg'[d] = arg'[c] => d = c
      OBVIOUS
    <2>1. arg'[c] = arg[c] /\ arg[c] \in Units
      BY DEF TypeOK
    <2>2. /\ arg[c] <= posted /\ arg[c] \in alive /\ arg[c] \notin UnitsIn(mWorkUnits)
          /\ \A t \in Threads : cur[t] # arg[c]
          /\ \A d \in Clients : arg[d] = arg[c] => d = c
      BY Zenon, <2>1 DEF OwnerInv
    <2> QED BY <1>0, <2>1, <2>2
  <1>4. \A u \in Units : u > posted' => u \in alive'
    <2> TAKE u \in Units
    <2> QED BY <1>0 DEF OwnerInv
  <1> QED BY Zenon, <1>1, <1>2, <1>3, <1>4 DEF OwnerInv

(* OwnerInv after a unit that nobody else has is added to the queue. *)
LEMMA OwnerAdds ==
    ASSUME OwnerInv, TypeOK, TypeOK', NEW u \in Units, posted' >= posted,
           u \in alive, u <= posted', u \notin UnitsIn(mWorkUnits),
           \A t \in Threads : cur[t] # u,
           \A c \in Clients : arg'[c] \in {arg[c], None} /\ arg'[c] # u,
           \A c \in Clients : arg'[c] # None <=> Waiting(c)',
           \A t \in Threads : pc'[t] = "run" <=> pc[t] = "run",
           mWorkUnits' = Append(mWorkUnits, u), UNCHANGED <<cur, alive>>
    PROVE  OwnerInv'
  <1>0. posted \in Nat /\ posted' \in Nat /\ u \in Nat /\ \A v \in Units : v \in Nat
    BY QueueAssumption DEF TypeOK, Units
  <1>b. \A v \in Units : v <= posted => v <= posted'
    BY Zenon, <1>0, LeqTrans
  <1>a. mWorkUnits \in Seq(Units)
    BY DEF TypeOK
  <1>1. /\ DOMAIN mWorkUnits' = DOMAIN mWorkUnits \cup {Len(mWorkUnits) + 1}
        /\ \A i \in DOMAIN mWorkUnits : mWorkUnits'[i] = mWorkUnits[i]
        /\ mWorkUnits'[Len(mWorkUnits) + 1] = u
        /\ UnitsIn(mWorkUnits') = UnitsIn(mWorkUnits) \cup {u}
    BY <1>a, AppendFacts
  <1>2. \A i \in DOMAIN mWorkUnits : mWorkUnits[i] # u
    BY DEF UnitsIn
  <1>3. \A i, j \in DOMAIN mWorkUnits' : mWorkUnits'[i] = mWorkUnits'[j] => i = j
    BY <1>1, <1>2 DEF OwnerInv
  <1>4. \A v \in UnitsIn(mWorkUnits') : v <= posted' /\ v \in alive'
    <2> TAKE v \in UnitsIn(mWorkUnits')
    <2>1. CASE v = u
      BY <2>1
    <2>2. CASE v \in UnitsIn(mWorkUnits)
      <3>1. v <= posted /\ v \in alive /\ v \in Units
        BY <2>2 DEF OwnerInv, TypeOK
      <3> QED BY <1>0, <3>1
    <2> QED BY <1>1, <2>1, <2>2
  <1>5. \A t \in Threads : cur'[t] # None =>
           /\ cur'[t] <= posted' /\ cur'[t] \in alive' /\ cur'[t] \notin UnitsIn(mWorkUnits')
           /\ \A v \in Threads : cur'[v] = cur'[t] => v = t
    <2> SUFFICES ASSUME NEW t \in Threads, cur[t] # None
                 PROVE  /\ cur[t] <= posted' /\ cur[t] \in alive
                        /\ cur[t] \notin UnitsIn(mWorkUnits')
                        /\ \A v \in Threads : cur[v] = cur[t] => v = t
      OBVIOUS
    <2>1. /\ cur[t] <= posted /\ cur[t] \in alive /\ cur[t] \notin UnitsIn(mWorkUnits)
          /\ \A v \in Threads : cur[v] = cur[t] => v = t
          /\ cur[t] \in Units
      BY DEF OwnerInv, TypeOK
    <2>2. cur[t] <= posted'
      BY <1>b, <2>1
    <2>3. cur[t] \notin UnitsIn(mWorkUnits')
      BY Zenon, <1>1, <2>1
    <2> QED BY <2>1, <2>2, <2>3
  <1>6. \A c \in Clients : arg'[c] # None =>
           /\ arg'[c] <= posted' /\ arg'[c] \in alive' /\ arg'[c] \notin UnitsIn(mWorkUnits')
           /\ \A t \in Threads : cur'[t] # arg'[c]
           /\ \A d \in Clients : arg'[d] = arg'[c] => d = c
    <2> SUFFICES ASSUME NEW c \in Clients, arg'[c] # None
                 PROVE  /\ arg'[c] <= posted' /\ arg'[c] \in alive'
                        /\ arg'[c] \notin UnitsIn(mWorkUnits')
                        /\ \A t \in Threads : cur'[t] # arg'[c]
                        /\ \A d \in Clients : arg'[d] = arg'[c] => d = c
      OBVIOUS
    <2>1. arg'[c] = arg[c] /\ arg[c] \in Units /\ arg[c] # u
      BY Zenon DEF TypeOK
    <2>2. /\ arg[c] <= posted /\ arg[c] \in alive /\ arg[c] \notin UnitsIn(mWorkUnits)
          /\ \A t \in Threads : cur[t] # arg[c]
          /\ \A d \in Clients : arg[d] = arg[c] => d = c
      BY Zenon, <2>1 DEF OwnerInv
    <2>3. arg[c] <= posted'
      BY <1>b, <2>1, <2>2
    <2>4. arg[c] \notin UnitsIn(mWorkUnits')
      BY <1>1, <2>1, <2>2
    <2>5. \A d \in Clients : arg'[d] = arg[c] => arg[d] = arg[c]
      BY <2>1
    <2> QED BY <2>1, <2>2, <2>3, <2>4, <2>5
  <1>7. \A v \in Units : v > posted' => v \in alive'
    <2> TAKE v \in Units
    <2> QED BY <1>0 DEF OwnerInv
  <1>8. \A t \in Threads : cur'[t] # None <=> pc'[t] = "run"
    BY DEF OwnerInv
  <1> QED BY <1>3, <1>4, <1>5, <1>6, <1>7, <1>8 DEF OwnerInv

(* The unit that a client makes next is nowhere yet, and is not deleted. *)
LEMMA NewUnit ==
    ASSUME OwnerInv, TypeOK, NEW u \in Units, u > posted
    PROVE  /\ u \in alive /\ u \notin UnitsIn(mWorkUnits) /\ u # None
           /\ \A t \in Threads : cur[t] # u
           /\ \A c \in Clients : arg[c] # u
  <1>1. posted \in Nat /\ u \in Nat /\ u # None
    BY QueueAssumption DEF TypeOK, Units, None
  <1>2. \A v \in UnitsIn(mWorkUnits) : v <= posted
    BY DEF OwnerInv
  <1>3. \A t \in Threads : cur[t] # None => cur[t] <= posted
    BY DEF OwnerInv
  <1>4. \A c \in Clients : arg[c] # None => arg[c] <= posted
    BY DEF OwnerInv
  <1>5. u \in alive
    BY DEF OwnerInv
  <1>6. ~(u <= posted)
    BY <1>1
  <1> QED BY <1>1, <1>2, <1>3, <1>4, <1>5, <1>6

(* WorkQueue.cpp:125-130: the unit at the head of the queue is the thread's. *)
LEMMA OwnerTakes ==
    ASSUME OwnerInv, TypeOK, TypeOK', NEW t \in Threads, takeUnit(t)
    PROVE  OwnerInv'
  <1> DEFINE h == Head(mWorkUnits)
  <1>0. /\ mWorkUnits # <<>> /\ mWorkUnits' = Tail(mWorkUnits) /\ mWorkUnits \in Seq(Units)
        /\ cur' = [cur EXCEPT ![t] = h] /\ pc' = [pc EXCEPT ![t] = "run"] /\ pc[t] = "loop"
        /\ call' = WorkDequeued(call) /\ UNCHANGED <<arg, posted, alive>>
    BY Zenon DEF takeUnit, TypeOK
  <1>1. /\ h \in Units /\ h \in UnitsIn(mWorkUnits) /\ h = mWorkUnits[1]
        /\ \A i \in DOMAIN mWorkUnits' : i + 1 \in DOMAIN mWorkUnits
                                         /\ mWorkUnits'[i] = mWorkUnits[i + 1] /\ i \in Nat /\ i > 0
        /\ UnitsIn(mWorkUnits') \subseteq UnitsIn(mWorkUnits) /\ 1 \in DOMAIN mWorkUnits
    <2>1. \A i \in DOMAIN Tail(mWorkUnits) : i \in Nat /\ i > 0
      BY <1>0, TailFacts
    <2>2. 1 \in DOMAIN mWorkUnits
      BY <1>0
    <2> QED BY <1>0, <2>1, <2>2, TailFacts
  <1> HIDE DEF h
  <1>2. \A i, j \in DOMAIN mWorkUnits' : mWorkUnits'[i] = mWorkUnits'[j] => i = j
    <2> TAKE i, j \in DOMAIN mWorkUnits'
    <2> HAVE mWorkUnits'[i] = mWorkUnits'[j]
    <2>1. i + 1 = j + 1
      BY <1>1 DEF OwnerInv
    <2> QED BY <1>1, <2>1
  <1>3. h \notin UnitsIn(mWorkUnits')
    <2>1. \A i \in DOMAIN mWorkUnits' : mWorkUnits'[i] # h
      <3> TAKE i \in DOMAIN mWorkUnits'
      <3>1. i + 1 # 1
        BY <1>1
      <3> QED BY <1>1, <3>1 DEF OwnerInv
    <2> QED BY <2>1 DEF UnitsIn
  <1>4. h <= posted /\ h \in alive /\ h # None
    BY <1>1 DEF OwnerInv, Units, None
  <1>a. /\ \A v \in Threads : cur[v] # None => cur[v] \notin UnitsIn(mWorkUnits)
        /\ \A c \in Clients : arg[c] # None => arg[c] \notin UnitsIn(mWorkUnits)
    BY Zenon DEF OwnerInv
  <1>5. \A v \in Threads : cur[v] # h
    BY Zenon, <1>1, <1>4, <1>a
  <1>6. \A c \in Clients : arg[c] # h
    BY Zenon, <1>1, <1>4, <1>a
  <1>7. cur'[t] = h /\ \A v \in Threads \ {t} : cur'[v] = cur[v]
    BY Zenon, <1>0 DEF TypeOK
  <1>8. \A v \in Threads : cur'[v] # None <=> pc'[v] = "run"
    BY Zenon, <1>0, <1>4, <1>7 DEF OwnerInv, TypeOK
  <1>9. \A c \in Clients : arg'[c] # None <=> Waiting(c)'
    BY <1>0 DEF OwnerInv, TypeOK, Waiting, WorkDequeued
  <1>10. \A v \in Threads : cur'[v] # None =>
           /\ cur'[v] <= posted' /\ cur'[v] \in alive' /\ cur'[v] \notin UnitsIn(mWorkUnits')
           /\ \A w \in Threads : cur'[w] = cur'[v] => w = v
    BY <1>0, <1>1, <1>3, <1>4, <1>5, <1>7 DEF OwnerInv
  <1>11. \A c \in Clients : arg'[c] # None =>
           /\ arg'[c] <= posted' /\ arg'[c] \in alive' /\ arg'[c] \notin UnitsIn(mWorkUnits')
           /\ \A v \in Threads : cur'[v] # arg'[c]
           /\ \A d \in Clients : arg'[d] = arg'[c] => d = c
    BY <1>0, <1>1, <1>6, <1>7 DEF OwnerInv
  <1>12. \A u \in UnitsIn(mWorkUnits') : u <= posted' /\ u \in alive'
    BY <1>0, <1>1 DEF OwnerInv
  <1>13. \A u \in Units : u > posted' => u \in alive'
    BY <1>0 DEF OwnerInv
  <1> QED BY Zenon, <1>2, <1>8, <1>9, <1>10, <1>11, <1>12, <1>13 DEF OwnerInv

(* WorkQueue.cpp:32-156: the owners after a step. *)
LEMMA OwnerNext ==
    ASSUME IInv, [Next]_vars, TypeOK'
    PROVE  OwnerInv'
  <1> USE DEF flags, threads, clients
  <1>0. TypeOK /\ OwnerInv /\ posted \in Nat
    BY QueueAssumption DEF IInv, TypeOK
  <1>a. /\ \A i, j \in DOMAIN mWorkUnits : mWorkUnits[i] = mWorkUnits[j] => i = j
        /\ \A t \in Threads : cur[t] # None <=> pc[t] = "run"
        /\ \A c \in Clients : arg[c] # None <=> Waiting(c)
    BY <1>0 DEF OwnerInv
  <1>b. ASSUME NEW c \in Clients, NEW u \in Units, Post(c, u)
        PROVE  posted' = posted + 1 /\ u = posted' /\ u > posted /\ posted' >= posted
    BY <1>0, <1>b DEF Post
  <1>1. ASSUME NEW c \in Clients, NEW u \in Units, scheduleRefused(c, u) \/ scheduleFails(c, u)
        PROVE  OwnerInv'
    <2>1. alive' = alive \ {u} /\ UNCHANGED <<mWorkUnits, pc, cur, call, arg>> /\ Post(c, u)
      BY <1>1 DEF scheduleRefused, scheduleFails, Refuse
    <2>2. u > posted /\ u <= posted' /\ posted' >= posted
      BY <1>0, <1>b, <2>1
    <2>3. /\ u \notin UnitsIn(mWorkUnits) /\ \A t \in Threads : cur[t] # u
          /\ \A d \in Clients : arg[d] # u
      BY <1>0, <2>2, NewUnit
    <2>4. \A d \in Clients : Waiting(d)' <=> Waiting(d)
      BY <2>1 DEF Waiting
    <2>5. alive \ alive' \subseteq {u}
      BY <2>1
    <2> QED BY <1>0, <1>a, <2>1, <2>2, <2>3, <2>4, <2>5, OwnerKept
  <1>2. ASSUME NEW c \in Clients, NEW u \in Units, scheduleStarts(c, u)
        PROVE  OwnerInv'
    <2>1. /\ mWorkUnits' = Append(mWorkUnits, u) /\ UNCHANGED <<cur, call, arg, alive>> /\ Post(c, u)
          /\ pc' = [WorkChanged(pc) EXCEPT ![started'] = "loop"]
          /\ ~mFinished /\ started' = started + 1 /\ started < mMaxThreads
      BY <1>2 DEF scheduleStarts, Enqueue, WantsThread
    <2>2. u > posted /\ u <= posted' /\ posted' >= posted
      BY <1>0, <1>b, <2>1
    <2>3. started' \in Threads /\ pc[started'] = "none"
      BY <1>0, <2>1, QueueAssumption DEF IInv, CountInv, TypeOK, Threads
    <2>4. \A t \in Threads : pc'[t] = "run" <=> pc[t] = "run"
      BY <1>0, <2>1, <2>3 DEF WorkChanged, TypeOK
    <2>5. \A d \in Clients : Waiting(d)' <=> Waiting(d)
      BY <2>1 DEF Waiting
    <2>6. /\ u \in alive /\ u \notin UnitsIn(mWorkUnits) /\ \A t \in Threads : cur[t] # u
          /\ \A d \in Clients : arg[d] # u
      BY Zenon, <1>0, <2>2, NewUnit
    <2> QED BY <1>0, <1>a, <2>1, <2>2, <2>4, <2>5, <2>6, OwnerAdds
  <1>3. ASSUME NEW c \in Clients, NEW u \in Units, throttle(c, u), ~Full,
               posted' >= posted, u \in alive, u <= posted', u \notin UnitsIn(mWorkUnits),
               \A t \in Threads : cur[t] # u,
               \A d \in Clients \ {c} : arg[d] # u
        PROVE  OwnerInv'
    <2>1. /\ mWorkUnits' = Append(mWorkUnits, u) /\ UNCHANGED <<cur, alive>>
          /\ call' = [call EXCEPT ![c] = "idle"] /\ arg' = [arg EXCEPT ![c] = None]
          /\ pc' = WorkChanged(pc)
      BY <1>3 DEF throttle, Enqueue
    <2>2. u # None
      BY DEF Units, None
    <2>3. \A d \in Clients : arg'[d] \in {arg[d], None} /\ arg'[d] # u
      BY Zenon, <1>0, <1>3, <2>1, <2>2 DEF TypeOK
    <2>4. \A d \in Clients : arg'[d] # None <=> Waiting(d)'
      BY Zenon, <1>0, <1>a, <2>1 DEF TypeOK, Waiting
    <2>5. \A t \in Threads : pc'[t] = "run" <=> pc[t] = "run"
      BY <1>0, <2>1 DEF WorkChanged, TypeOK
    <2> QED BY Zenon, <1>0, <1>3, <2>1, <2>3, <2>4, <2>5, OwnerAdds
  <1>4. ASSUME NEW c \in Clients, NEW u \in Units, schedule(c, u)
        PROVE  OwnerInv'
    <2>1. throttle(c, u) /\ Post(c, u)
      BY <1>4 DEF schedule
    <2>2. u > posted /\ u <= posted' /\ posted' >= posted /\ posted' = u
      BY <1>0, <1>b, <2>1
    <2>3. /\ u \in alive /\ u \notin UnitsIn(mWorkUnits) /\ u # None
          /\ \A t \in Threads : cur[t] # u
          /\ \A d \in Clients : arg[d] # u
      BY <1>0, <2>2, NewUnit
    <2>4. CASE ~Full
      BY <1>3, <2>1, <2>2, <2>3, <2>4
    <2>5. CASE Full
      <3>1. /\ UNCHANGED <<mWorkUnits, pc, cur, alive>>
            /\ call' = [call EXCEPT ![c] = "schedule"] /\ arg' = [arg EXCEPT ![c] = u]
        BY <2>1, <2>5 DEF throttle
      <3>2. arg'[c] = u /\ \A d \in Clients \ {c} : arg'[d] = arg[d]
        BY <1>0, <3>1 DEF TypeOK
      <3>3. \A d \in Clients : arg'[d] # None <=> Waiting(d)'
        BY <1>0, <1>a, <2>3, <3>1 DEF TypeOK, Waiting
      <3>4. \A v \in Units : v <= posted => v <= posted'
        BY <1>0, <2>2, QueueAssumption DEF Units
      <3>5. \A v \in UnitsIn(mWorkUnits) : v <= posted' /\ v \in alive
        BY <1>0, <3>4 DEF OwnerInv, TypeOK
      <3>6. \A t \in Threads : cur[t] # None =>
               /\ cur[t] <= posted' /\ cur[t] \in alive /\ cur[t] \notin UnitsIn(mWorkUnits)
               /\ \A v \in Threads : cur[v] = cur[t] => v = t
        BY <1>0, <3>4 DEF OwnerInv, TypeOK
      <3>7. \A d \in Clients \ {c} : arg[d] # None =>
               /\ arg[d] <= posted' /\ arg[d] \in alive /\ arg[d] \notin UnitsIn(mWorkUnits)
               /\ \A t \in Threads : cur[t] # arg[d]
               /\ \A e \in Clients : arg[e] = arg[d] => e = d
        BY Zenon, <1>0, <3>4 DEF OwnerInv, TypeOK
      <3>8. \A d \in Clients : arg'[d] # None =>
               /\ arg'[d] <= posted' /\ arg'[d] \in alive /\ arg'[d] \notin UnitsIn(mWorkUnits)
               /\ \A t \in Threads : cur[t] # arg'[d]
               /\ \A e \in Clients : arg'[e] = arg'[d] => e = d
        BY Zenon, <2>2, <2>3, <3>2, <3>7
      <3>9. \A v \in Units : v > posted' => v \in alive
        BY <1>0, <2>2, QueueAssumption DEF OwnerInv, Units
      <3> QED BY ZenonT(30), <1>a, <3>1, <3>3, <3>5, <3>6, <3>8, <3>9 DEF OwnerInv
    <2> QED BY Zenon, <2>4, <2>5
  <1>5. ASSUME NEW c \in Clients, scheduleAgain(c)
        PROVE  OwnerInv'
    <2> DEFINE u == arg[c]
    <2>1. /\ u \in Units /\ u # None /\ posted' = posted /\ posted' >= posted /\ call[c] = "woken"
          /\ u <= posted' /\ u \in alive /\ u \notin UnitsIn(mWorkUnits)
          /\ \A t \in Threads : cur[t] # u
          /\ \A d \in Clients : arg[d] = u => d = c
      <3>1. call[c] = "woken" /\ posted' = posted
        BY <1>5 DEF scheduleAgain
      <3>2. arg[c] # None
        BY Zenon, <1>0, <3>1 DEF OwnerInv, Waiting
      <3>3. arg[c] \in Units /\ posted \in Nat
        BY <1>0, <3>2, QueueAssumption DEF TypeOK
      <3>4. /\ arg[c] <= posted /\ arg[c] \in alive /\ arg[c] \notin UnitsIn(mWorkUnits)
            /\ \A t \in Threads : cur[t] # arg[c]
            /\ \A d \in Clients : arg[d] = arg[c] => d = c
        BY Zenon, <1>0, <3>2 DEF OwnerInv
      <3>5. posted >= posted
        BY <3>3
      <3> QED BY Zenon, <3>1, <3>2, <3>3, <3>4, <3>5
    <2>2. CASE mFinished \/ mCanceled
      <3>1. /\ alive' = alive \ {u} /\ UNCHANGED <<mWorkUnits, pc, cur>>
            /\ call' = [call EXCEPT ![c] = "idle"] /\ arg' = [arg EXCEPT ![c] = None]
        BY <1>5, <2>2 DEF scheduleAgain, Refuse
      <3>2. \A d \in Clients : /\ arg'[d] # None <=> Waiting(d)'
                               /\ arg'[d] \in {arg[d], None} /\ arg'[d] # u
        BY Zenon, <1>0, <1>a, <2>1, <3>1 DEF TypeOK, Waiting
      <3>3. alive \ alive' \subseteq {u}
        BY <3>1
      <3> HIDE DEF u
      <3> QED BY Zenon, <1>0, <1>a, <2>1, <3>1, <3>2, <3>3, OwnerKept
    <2>3. CASE ~(mFinished \/ mCanceled)
      <3>1. throttle(c, u)
        BY <1>5, <2>3 DEF scheduleAgain
      <3>2. CASE ~Full
        <4> HIDE DEF u
        <4>1. \A d \in Clients \ {c} : arg[d] # u
          BY Zenon, <2>1
        <4> QED BY Zenon, <1>3, <2>1, <3>1, <3>2, <4>1
      <3>3. CASE Full
        <4>1. /\ UNCHANGED <<mWorkUnits, pc, cur, alive>>
              /\ call' = [call EXCEPT ![c] = "schedule"] /\ arg' = [arg EXCEPT ![c] = u]
          BY <3>1, <3>3 DEF throttle
        <4>2. \A d \in Clients : arg'[d] = arg[d] /\ (Waiting(d)' <=> Waiting(d))
          BY Zenon, <1>0, <2>1, <4>1 DEF TypeOK, Waiting
        <4> QED BY <1>0, <1>a, <2>1, <4>1, <4>2, OwnerKept
      <3> QED BY Zenon, <3>2, <3>3
    <2> QED BY <2>2, <2>3
  <1>6. ASSUME NEW p \in [Threads -> Labels], NEW k \in [Clients -> Calls], cancelLocked(p, k),
               UNCHANGED <<cur, arg, posted>>,
               \A t \in Threads : p[t] = "run" <=> pc[t] = "run",
               \A c \in Clients : k[c] \in {"schedule", "woken"} <=> Waiting(c)
        PROVE  OwnerInv'
    <2>1. /\ pc' = p \/ pc' = WorkChanged(p)
          /\ call' = k \/ call' = WorkDequeued(k)
          /\ UNCHANGED <<mWorkUnits, alive>> \/ (mWorkUnits' = <<>> /\ alive' = alive \ UnitsIn(mWorkUnits))
      BY <1>6 DEF cancelLocked
    <2>2. \A t \in Threads : cur'[t] # None <=> pc'[t] = "run"
      BY Zenon, <1>6, <1>a, <2>1 DEF WorkChanged
    <2>3. \A c \in Clients : arg'[c] # None <=> Waiting(c)'
      <3>1. \A c \in Clients : call'[c] \in {"schedule", "woken"} <=> k[c] \in {"schedule", "woken"}
        BY Zenon, <2>1 DEF WorkDequeued
      <3> QED BY <1>6, <1>a, <3>1 DEF Waiting
    <2>4. CASE UNCHANGED <<mWorkUnits, alive>>
      BY <1>0, <1>6, <1>a, <2>2, <2>3, <2>4, OwnerKept
    <2>5. CASE mWorkUnits' = <<>> /\ alive' = alive \ UnitsIn(mWorkUnits)
      <3>1. UnitsIn(mWorkUnits') = {} /\ DOMAIN mWorkUnits' = {}
        BY <2>5 DEF UnitsIn
      <3>2. \A u \in UnitsIn(mWorkUnits) :
               /\ u <= posted /\ \A t \in Threads : cur[t] # u
               /\ \A c \in Clients : arg[c] # u
        <4>1. \A u \in UnitsIn(mWorkUnits) : u \in Units /\ u # None
          BY <1>0, QueuedUnits
        <4> QED BY Zenon, <1>0, <4>1 DEF OwnerInv
      <3>3. \A u \in alive \ alive' : u \in UnitsIn(mWorkUnits)
        BY Zenon, <2>5
      <3> QED BY <1>0, <1>6, <2>2, <2>3, <3>1, <3>2, <3>3, OwnerKept
    <2> QED BY <2>1, <2>4, <2>5
  <1>7. ASSUME NEW c \in Clients, cancel(c) \/ destroy(c)
        PROVE  OwnerInv'
    <2>1. pc \in [Threads -> Labels] /\ call \in [Clients -> Calls] /\ UNCHANGED <<cur, arg, posted>>
      BY <1>0, <1>7 DEF cancel, destroy, TypeOK
    <2>2. CASE cancelLocked(pc, call)
      BY <1>6, <2>1, <2>2 DEF Waiting
    <2>3. CASE destroy(c) /\ ~mFinished
      <3> DEFINE k == [call EXCEPT ![c] = "cancel"]
      <3>1. call[c] = "idle" /\ cancelLocked(pc, k)
        BY <2>3 DEF destroy, Unused, Idle
      <3>2. /\ k \in [Clients -> Calls]
            /\ \A d \in Clients : k[d] \in {"schedule", "woken"} <=> Waiting(d)
        BY Zenon, <2>1, <3>1 DEF Calls, Waiting
      <3> HIDE DEF k
      <3> QED BY <1>6, <2>1, <3>1, <3>2
    <2> QED BY Zenon, <1>7, <2>2, <2>3 DEF cancel, destroy
  <1>8. ASSUME NEW c \in Clients, finish(c) \/ destroyFinish(c) \/ join(c) \/ spuriousReturn(c)
        PROVE  OwnerInv'
    <2>1. /\ UNCHANGED <<mWorkUnits, cur, arg, posted, alive>> /\ posted' >= posted
          /\ pc' = pc \/ pc' = WorkChanged(pc)
          /\ \/ /\ call[c] \notin {"schedule", "woken"}
                /\ \E q \in {"join", "destroy", "idle"} : call' = [call EXCEPT ![c] = q]
             \/ call[c] = "schedule" /\ call' = [call EXCEPT ![c] = "woken"]
      BY <1>0, <1>8 DEF finish, destroyFinish, beginFinish, join, spuriousReturn, Idle
    <2>2. \A t \in Threads : pc'[t] = "run" <=> pc[t] = "run"
      BY Zenon, <1>0, <2>1 DEF WorkChanged, TypeOK
    <2>3. \A d \in Clients : Waiting(d)' <=> Waiting(d)
      BY <1>0, <2>1 DEF TypeOK, Waiting
    <2> QED BY Zenon, <1>0, <1>a, <2>1, <2>2, <2>3, OwnerKept
  <1>9. ASSUME NEW t \in Threads, takeUnit(t)
        PROVE  OwnerInv'
    BY Zenon, <1>0, <1>9, OwnerTakes
  <1>10. ASSUME NEW t \in Threads, leaveLoop(t) \/ spuriousWakeup(t)
         PROVE  OwnerInv'
    <2>1. /\ UNCHANGED <<mWorkUnits, cur, call, arg, posted, alive>> /\ posted' >= posted
          /\ pc[t] # "run" /\ \E q \in {"gone", "wait", "loop"} : pc' = [pc EXCEPT ![t] = q]
      BY <1>0, <1>10 DEF leaveLoop, spuriousWakeup
    <2>2. \A v \in Threads : pc'[v] = "run" <=> pc[v] = "run"
      BY <1>0, <2>1 DEF TypeOK
    <2>3. \A d \in Clients : Waiting(d)' <=> Waiting(d)
      BY Zenon, <2>1 DEF Waiting
    <2> QED BY Zenon, <1>0, <1>a, <2>1, <2>2, <2>3, OwnerKept
  <1>11. ASSUME NEW t \in Threads, runUnit(t)
         PROVE  OwnerInv'
    <2> DEFINE u == cur[t]
    <2>0. posted' = posted /\ posted' >= posted
      BY <1>0, <1>11 DEF runUnit
    <2>1. /\ UNCHANGED <<mWorkUnits, call, arg>>
          /\ pc[t] = "run" /\ \E q \in {"true", "false"} : pc' = [pc EXCEPT ![t] = q]
          /\ alive' = alive \ {u} /\ cur' = [cur EXCEPT ![t] = None]
      BY Zenon, <1>11 DEF runUnit
    <2>2. \A v \in Threads : pc'[v] = "run" <=> pc[v] = "run" /\ v # t
      BY <1>0, <2>1 DEF TypeOK
    <2>3. \A d \in Clients : Waiting(d)' <=> Waiting(d)
      BY Zenon, <2>1 DEF Waiting
    <2>4. cur'[t] = None /\ \A v \in Threads \ {t} : cur'[v] = cur[v]
      BY Zenon, <1>0, <2>1 DEF TypeOK
    <2>5. /\ u # None /\ u <= posted' /\ u \notin UnitsIn(mWorkUnits)
          /\ \A v \in Threads : cur[v] = u => v = t
      BY Zenon, <1>0, <1>a, <2>0, <2>1 DEF OwnerInv
    <2>6. \A d \in Clients : arg[d] # u
      BY Zenon, <1>0, <2>5 DEF OwnerInv
    <2>7. \A v \in Threads : cur'[v] # None <=> pc'[v] = "run"
      BY <1>a, <2>2, <2>4
    <2>8. alive \ alive' \subseteq {u}
      BY Zenon, <2>1
    <2>9. \A v \in Threads : cur'[v] \in {cur[v], None} /\ cur'[v] # u
      BY <2>4, <2>5
    <2> HIDE DEF u
    <2> QED BY Zenon, <1>0, <1>a, <2>0, <2>1, <2>3, <2>5, <2>6, <2>7, <2>8, <2>9, OwnerKept
  <1>12. ASSUME NEW t \in Threads, endUnit(t)
         PROVE  OwnerInv'
    <2>1. UNCHANGED <<cur, arg, posted>> /\ posted' >= posted /\ pc[t] \in {"true", "false"}
      BY <1>0, <1>12 DEF endUnit
    <2>2. CASE pc[t] = "true"
      <3>1. pc' = [pc EXCEPT ![t] = "loop"] /\ UNCHANGED <<mWorkUnits, call, alive>>
        BY Zenon, <1>12, <2>2 DEF endUnit
      <3>2. \A v \in Threads : pc'[v] = "run" <=> pc[v] = "run"
        BY <1>0, <2>2, <3>1 DEF TypeOK
      <3>3. \A d \in Clients : Waiting(d)' <=> Waiting(d)
        BY <3>1 DEF Waiting
      <3> QED BY Zenon, <1>0, <1>a, <2>1, <3>1, <3>2, <3>3, OwnerKept
    <2>3. CASE pc[t] = "false"
      <3> DEFINE r == [pc EXCEPT ![t] = IF mFinished THEN "quit" ELSE "gone"]
      <3>1. cancelLocked(r, call) /\ call \in [Clients -> Calls]
        BY Zenon, <1>0, <1>12, <2>3 DEF endUnit, TypeOK
      <3>2. r \in [Threads -> Labels] /\ \A v \in Threads : r[v] = "run" <=> pc[v] = "run"
        BY Zenon, <1>0, <2>3 DEF TypeOK, Labels
      <3>3. \A d \in Clients : call[d] \in {"schedule", "woken"} <=> Waiting(d)
        BY DEF Waiting
      <3> HIDE DEF r
      <3> QED BY Zenon, <1>6, <2>1, <3>1, <3>2, <3>3
    <2> QED BY <2>1, <2>2, <2>3
  <1>13. CASE UNCHANGED vars
    BY <1>0, <1>13 DEF vars, OwnerInv, Waiting
  <1> QED
    BY Zenon, <1>1, <1>2, <1>4, <1>5, <1>7, <1>8, <1>9, <1>10, <1>11, <1>12, <1>13
    DEF Next, Client, Return, Work

-----------------------------------------------------------------------------
(* What the counts of threads rest on; CountingHolds, below, takes it from the *)
(* library.                                                                    *)
Counting ==
    /\ IsFiniteSet({}) /\ Cardinality({}) = 0
    /\ \A n \in Nat : IsFiniteSet(1..n) /\ Cardinality(1..n) = n
    /\ \A S : IsFiniteSet(S) =>
           /\ Cardinality(S) \in Nat
           /\ \A T \in SUBSET S : IsFiniteSet(T) /\ Cardinality(T) <= Cardinality(S)
           /\ \A x \in S : Cardinality(S \ {x}) = Cardinality(S) - 1
           /\ \A x : x \notin S => Cardinality(S \cup {x}) = Cardinality(S) + 1

(* The threads that mIdleThreads counts are finitely many, and no more than    *)
(* were started.                                                               *)
LEMMA RestingFinite ==
    ASSUME Counting, TypeOK
    PROVE  /\ IsFiniteSet(Threads) /\ IsFiniteSet(Resting)
           /\ Cardinality(Resting) \in Nat
           /\ (\A t \in Threads : pc[t] = "none" <=> t > started) => Cardinality(Resting) <= started
  <1>1. IsFiniteSet(Threads) /\ Resting \subseteq Threads
    BY QueueAssumption DEF Counting, Threads, Resting
  <1>2. IsFiniteSet(Resting) /\ Cardinality(Resting) \in Nat
    BY Zenon, <1>1 DEF Counting
  <1>3. ASSUME \A t \in Threads : pc[t] = "none" <=> t > started
        PROVE  Cardinality(Resting) <= started
    <2>1. Resting \subseteq 1..started
      BY <1>3, QueueAssumption DEF Resting, Threads, TypeOK
    <2>2. IsFiniteSet(1..started) /\ Cardinality(1..started) = started
      <3>1. started \in Nat
        BY QueueAssumption DEF TypeOK
      <3> QED BY Zenon, <3>1 DEF Counting
    <2>3. Cardinality(Resting) <= Cardinality(1..started)
      BY Zenon, <2>1, <2>2 DEF Counting
    <2> QED BY <2>2, <2>3
  <1> QED BY Zenon, <1>1, <1>2, <1>3

(* The types after a step of schedule(), cancel(), finish(), threadLoop() or   *)
(* ~WorkQueue(); in particular mIdleThreads is at least 1 when a thread takes  *)
(* a unit.                                                                     *)
LEMMA TypeNext ==
    ASSUME Counting, IInv, [Next]_vars
    PROVE  TypeOK'
  <1> USE QueueAssumption DEF IInv, TypeOK, flags, threads, clients, None, Units
  <1>1. ASSUME NEW c \in Clients, NEW u \in Units, scheduleRefused(c, u) \/ scheduleFails(c, u)
        PROVE  TypeOK'
    <2>1. /\ posted' = u /\ alive' = alive \ {u}
          /\ UNCHANGED <<mCanceled, mFinished, mIdleThreads, mWorkUnits, started, pc, cur, call,
                         arg, queue>>
      BY Zenon, <1>1 DEF scheduleRefused, scheduleFails, Refuse, Post
    <2> QED BY <2>1
  <1>2. ASSUME NEW c \in Clients, NEW u \in Units, scheduleStarts(c, u)
        PROVE  TypeOK'
    <2>1. Append(mWorkUnits, u) \in Seq(Units)
      BY Zenon, AppendFacts
    <2> QED BY <1>2, <2>1 DEF scheduleStarts, Enqueue, Post, WantsThread, WorkChanged, Threads, Labels
  <1>3. ASSUME NEW c \in Clients, NEW u \in Units, throttle(c, u), posted' \in 0..MaxUnits
        PROVE  TypeOK'
    <2>1. Append(mWorkUnits, u) \in Seq(Units)
      BY AppendFacts
    <2>2. /\ mWorkUnits' \in {mWorkUnits, Append(mWorkUnits, u)} /\ pc' \in {pc, WorkChanged(pc)}
          /\ call' \in {[call EXCEPT ![c] = "schedule"], [call EXCEPT ![c] = "idle"]}
          /\ arg' \in {[arg EXCEPT ![c] = u], [arg EXCEPT ![c] = None]}
          /\ UNCHANGED <<mCanceled, mFinished, mIdleThreads, started, cur, alive, queue>>
      BY <1>3 DEF throttle, Enqueue
    <2>3. mWorkUnits' \in Seq(Units)
      BY Zenon, <2>1, <2>2
    <2>4. pc' \in [Threads -> Labels]
      <3>1. WorkChanged(pc) \in [Threads -> Labels]
        BY Zenon DEF WorkChanged, Labels
      <3> QED BY Zenon, <2>2, <3>1
    <2>5. call' \in [Clients -> Calls] /\ arg' \in [Clients -> Units \cup {None}]
      BY Zenon, <2>2 DEF Calls
    <2> QED BY Zenon, <1>3, <2>2, <2>3, <2>4, <2>5
  <1>4. ASSUME NEW c \in Clients, NEW u \in Units, schedule(c, u)
        PROVE  TypeOK'
    BY <1>4, <1>3 DEF schedule, Post
  <1>5. ASSUME NEW c \in Clients, scheduleAgain(c)
        PROVE  TypeOK'
    <2>1. arg[c] \in Units
      BY <1>5 DEF scheduleAgain, OwnerInv, Waiting
    <2>2. CASE mFinished \/ mCanceled
      BY Zenon, <1>5, <2>2 DEF scheduleAgain, Refuse, Calls
    <2> QED BY Zenon, <1>5, <2>1, <2>2, <1>3 DEF scheduleAgain
  <1>6. ASSUME NEW p \in [Threads -> Labels], NEW k \in [Clients -> Calls], cancelLocked(p, k)
        PROVE  /\ mCanceled' \in BOOLEAN /\ mWorkUnits' \in Seq(Units) /\ alive' \subseteq Units
               /\ pc' \in [Threads -> Labels] /\ call' \in [Clients -> Calls]
    <2>1. WorkChanged(p) \in [Threads -> Labels] /\ WorkDequeued(k) \in [Clients -> Calls]
      BY DEF WorkChanged, WorkDequeued, Labels, Calls
    <2>2. <<>> \in Seq(Units)
      OBVIOUS
    <2>3. alive \ UnitsIn(mWorkUnits) \subseteq Units
      BY Zenon
    <2>4. CASE mFinished \/ mCanceled
      BY Zenon, <1>6, <2>4 DEF cancelLocked
    <2>5. CASE ~(mFinished \/ mCanceled)
      BY Zenon, <1>6, <2>1, <2>2, <2>3, <2>5 DEF cancelLocked
    <2> QED BY Zenon, <2>4, <2>5
  <1>7. ASSUME NEW c \in Clients, cancel(c) \/ destroy(c)
        PROVE  TypeOK'
    <2>1. [call EXCEPT ![c] = "cancel"] \in [Clients -> Calls]
      BY Zenon DEF Calls
    <2>2. CASE cancel(c)
      BY <2>2, <1>6 DEF cancel
    <2>3. CASE destroy(c)
      BY Zenon, <2>3, <2>1, <1>6 DEF destroy
    <2> QED BY Zenon, <1>7, <2>2, <2>3
  <1>8. ASSUME NEW c \in Clients, finish(c) \/ destroyFinish(c)
        PROVE  TypeOK'
    BY ZenonT(30), <1>8 DEF finish, destroyFinish, beginFinish, WorkChanged, Labels, Calls
  <1>9. ASSUME NEW c \in Clients, join(c) \/ spuriousReturn(c)
        PROVE  TypeOK'
    <2>1. CASE join(c)
      BY <2>1 DEF join, Calls
    <2>2. CASE spuriousReturn(c)
      BY <2>2 DEF spuriousReturn, Calls
    <2> QED BY <1>9, <2>1, <2>2
  <1>10. ASSUME NEW t \in Threads, takeUnit(t)
         PROVE  TypeOK'
    <2>1. Tail(mWorkUnits) \in Seq(Units) /\ Head(mWorkUnits) \in Units
      BY <1>10, TailFacts DEF takeUnit
    <2>2. t \in Resting
      BY Zenon, <1>10 DEF takeUnit, Resting
    <2>3. mIdleThreads - 1 \in Nat
      <3>1. IsFiniteSet(Resting)
        BY RestingFinite
      <3>2. Cardinality(Resting \ {t}) = Cardinality(Resting) - 1
        BY Zenon, <2>2, <3>1 DEF Counting
      <3>a. Resting \ {t} \in SUBSET Resting
        OBVIOUS
      <3>3. Cardinality(Resting \ {t}) \in Nat
        BY Zenon, <3>1, <3>a DEF Counting
      <3> QED BY Zenon, <3>2, <3>3 DEF CountInv
    <2> QED BY Zenon, <1>10, <2>1, <2>3 DEF takeUnit, WorkDequeued, Labels, Calls
  <1>11. ASSUME NEW t \in Threads, leaveLoop(t) \/ spuriousWakeup(t)
         PROVE  TypeOK'
    BY Zenon, <1>11 DEF leaveLoop, spuriousWakeup, Labels
  <1>12. ASSUME NEW t \in Threads, runUnit(t)
         PROVE  TypeOK'
    BY Zenon, <1>12 DEF runUnit, Labels
  <1>13. ASSUME NEW t \in Threads, endUnit(t)
         PROVE  TypeOK'
    <2>1. \A q \in Labels : [pc EXCEPT ![t] = q] \in [Threads -> Labels]
      BY Zenon
    <2>2. CASE pc[t] = "true"
      <3>1. /\ mIdleThreads' = mIdleThreads + 1 /\ pc' = [pc EXCEPT ![t] = "loop"]
            /\ UNCHANGED <<mCanceled, mFinished, mWorkUnits, started, cur, call, arg, posted, alive,
                           queue>>
        BY Zenon, <1>13, <2>2 DEF endUnit
      <3> QED BY <3>1 DEF Labels
    <2>3. CASE pc[t] = "false"
      <3> DEFINE q == IF mFinished THEN "quit" ELSE "gone"
      <3>1. /\ mIdleThreads' = mIdleThreads + 1 /\ cancelLocked([pc EXCEPT ![t] = q], call)
            /\ UNCHANGED <<mFinished, started, cur, arg, posted, queue>>
        BY Zenon, <1>13, <2>3 DEF endUnit
      <3>2. [pc EXCEPT ![t] = q] \in [Threads -> Labels]
        BY Zenon, <2>1 DEF Labels
      <3> DEFINE p == [pc EXCEPT ![t] = q]
      <3> HIDE DEF p
      <3>3. /\ mCanceled' \in BOOLEAN /\ mWorkUnits' \in Seq(Units) /\ alive' \subseteq Units
            /\ pc' \in [Threads -> Labels] /\ call' \in [Clients -> Calls]
        <4>1. cancelLocked(p, call) /\ p \in [Threads -> Labels] /\ call \in [Clients -> Calls]
          BY Zenon, <3>1, <3>2 DEF p
        <4> QED BY Zenon, <4>1, <1>6
      <3> QED BY <3>1, <3>3
    <2> QED BY <1>13, <2>2, <2>3 DEF endUnit
  <1>14. CASE UNCHANGED vars
    BY <1>14 DEF vars
  <1> QED
    BY Zenon, <1>1, <1>2, <1>4, <1>5, <1>7, <1>8, <1>9, <1>10, <1>11, <1>12, <1>13, <1>14
    DEF Next, Client, Return, Work

(* A thread begins or ends to rest: run() in schedule(), takeUnit, endUnit. *)
LEMMA RestingMoves ==
    ASSUME Counting, TypeOK, NEW t \in Threads
    PROVE  /\ t \in Resting => Cardinality(Resting \ {t}) = Cardinality(Resting) - 1
           /\ t \notin Resting => Cardinality(Resting \cup {t}) = Cardinality(Resting) + 1
  <1>1. IsFiniteSet(Resting)
    BY Zenon, RestingFinite
  <1> QED BY Zenon, <1>1 DEF Counting

(* Nothing that CountInv says changes when threads are only woken or leave,    *)
(* clients come or go without waiting, and units are at most removed.          *)
LEMMA CountKept ==
    ASSUME IInv, TypeOK', mIdleThreads' = mIdleThreads, Resting' = Resting,
           mFinished => mFinished',
           ~mFinished' => /\ started' = started
                          /\ \A t \in Threads : pc'[t] = "none" <=> pc[t] = "none"
                          /\ \A c \in Clients : Waiting(c)' => Waiting(c),
           Len(mWorkUnits') <= Len(mWorkUnits)
    PROVE  CountInv'
  BY QueueAssumption DEF IInv, CountInv, TypeOK, BacklogIsBounded, Limit, Threads

(* WorkQueue.cpp:45-62: the counts after a step. *)
LEMMA CountNext ==
    ASSUME Counting, IInv, [Next]_vars, TypeOK'
    PROVE  CountInv'
  <1> USE QueueAssumption DEF flags, threads, clients
  <1>0. TypeOK /\ CountInv /\ TypeOK' /\ Cardinality(Resting) \in Nat
    BY Zenon, RestingFinite DEF IInv
  <1>t. /\ pc \in [Threads -> Labels] /\ call \in [Clients -> Calls]
        /\ mWorkUnits \in Seq(Units) /\ Len(mWorkUnits) \in Nat /\ Len(mWorkUnits') \in Nat
        /\ mIdleThreads \in Nat /\ started \in Nat /\ started <= mMaxThreads /\ Limit \in Nat
    BY <1>0 DEF TypeOK, Limit
  <1>a. Resting \subseteq Threads /\ Resting' \subseteq Threads
    BY DEF Resting
  <1>1. ASSUME NEW c \in Clients, NEW u \in Units, scheduleRefused(c, u) \/ scheduleFails(c, u)
        PROVE  CountInv'
    <2>1. UNCHANGED <<mFinished, mIdleThreads, mWorkUnits, started, pc, call>>
      BY <1>1 DEF scheduleRefused, scheduleFails, Refuse
    <2>2. Resting' = Resting /\ \A d \in Clients : Waiting(d)' <=> Waiting(d)
      BY <2>1 DEF Resting, Waiting
    <2>3. Len(mWorkUnits') <= Len(mWorkUnits)
      BY <1>t, <2>1
    <2> QED BY Zenon, <1>0, <2>1, <2>2, <2>3, CountKept
  <1>2. ASSUME NEW c \in Clients, NEW u \in Units, scheduleStarts(c, u)
        PROVE  CountInv'
    <2> DEFINE n == started + 1
    <2>1. /\ ~mFinished /\ ~mFinished' /\ started < mMaxThreads
          /\ started' = n /\ mIdleThreads' = mIdleThreads + 1
          /\ pc' = [WorkChanged(pc) EXCEPT ![n] = "loop"]
          /\ mWorkUnits' = Append(mWorkUnits, u) /\ call' = call
      BY Zenon, <1>2 DEF scheduleStarts, Enqueue, WantsThread
    <2>2. n \in Threads /\ pc[n] = "none"
      BY <1>0, <1>t, <2>1 DEF Threads, CountInv
    <2>a. /\ pc'[n] = "loop"
          /\ \A t \in Threads \ {n} : pc'[t] = IF pc[t] = "wait" THEN "loop" ELSE pc[t]
      BY Zenon, <1>t, <2>1, <2>2 DEF WorkChanged
    <2>3. \A t \in Threads : pc'[t] = "none" <=> t > n
      BY <1>0, <1>t, <2>1, <2>2, <2>a DEF CountInv, Threads
    <2>b. n \notin Resting /\ \A t \in Threads : t \in Resting' <=> t \in Resting \/ t = n
      BY <2>2, <2>a DEF Resting
    <2>4. n \notin Resting /\ Resting' = Resting \cup {n}
      BY <1>a, <2>2, <2>b, Zenon
    <2>5. mIdleThreads' = Cardinality(Resting')
      BY Zenon, <1>0, <2>1, <2>2, <2>4, RestingMoves DEF CountInv
    <2>6. Len(mWorkUnits') = Len(mWorkUnits) + 1 /\ Len(mWorkUnits) <= mIdleThreads
      BY Zenon, <1>0, <1>t, <2>1, AppendLen DEF CountInv
    <2>7. mIdleThreads <= started
      BY Zenon, <1>0, <2>1, RestingFinite DEF CountInv
    <2>8. \A d \in Clients : ~Waiting(d)'
      BY <1>0, <1>t, <2>1 DEF CountInv, Waiting
    <2>9. Backlog # 0 => mMaxThreads <= Limit
      BY DEF Limit
    <2>10. /\ Len(mWorkUnits') <= mIdleThreads'
           /\ Backlog # 0 => Len(mWorkUnits') <= Limit
      BY <1>t, <2>1, <2>6, <2>7, <2>9
    <2> QED BY Zenon, <2>1, <2>3, <2>5, <2>8, <2>10 DEF CountInv, BacklogIsBounded
  <1>3. ASSUME NEW c \in Clients, NEW u \in Units, throttle(c, u), ~mFinished,
               started < mMaxThreads => Len(mWorkUnits) + 1 <= mIdleThreads
        PROVE  CountInv'
    <2>1. UNCHANGED <<mFinished, mIdleThreads, started>>
      BY Zenon, <1>3 DEF throttle, Enqueue
    <2>2. pc' = pc \/ pc' = WorkChanged(pc)
      BY Zenon, <1>3 DEF throttle
    <2>3. \A t \in Threads : (pc'[t] = "none" <=> pc[t] = "none") /\ (t \in Resting' <=> t \in Resting)
      BY Zenon, <1>t, <2>2 DEF WorkChanged, Resting
    <2>4. Resting' = Resting
      BY <2>3 DEF Resting
    <2>5. mIdleThreads <= started
      BY Zenon, <1>0, <1>3, RestingFinite DEF CountInv
    <2>6. Backlog # 0 => mMaxThreads <= Limit
      BY DEF Limit
    <2>7. CASE Full
      <3>1. mWorkUnits' = mWorkUnits /\ started = mMaxThreads
        BY <1>t, <1>3, <2>5, <2>6, <2>7 DEF throttle, Full
      <3> QED BY Zenon, <1>0, <1>3, <2>1, <2>3, <2>4, <3>1 DEF CountInv, BacklogIsBounded
    <2>8. CASE ~Full
      <3>1. mWorkUnits' = Append(mWorkUnits, u) /\ call' = [call EXCEPT ![c] = "idle"]
        BY <1>3, <2>8 DEF throttle, Enqueue
      <3>2. Len(mWorkUnits') = Len(mWorkUnits) + 1 /\ Len(mWorkUnits) \in Nat
        BY <1>t, <3>1, AppendLen
      <3>3. \A d \in Clients : Waiting(d)' => Waiting(d)
        BY <1>t, <3>1 DEF Waiting
      <3> QED BY <1>0, <1>t, <1>3, <2>1, <2>3, <2>4, <2>8, <3>2, <3>3 DEF CountInv, BacklogIsBounded, Full
    <2> QED BY Zenon, <2>7, <2>8
  <1>4. ASSUME NEW c \in Clients, NEW u \in Units, schedule(c, u)
        PROVE  CountInv'
    BY <1>t, <1>3, <1>4 DEF schedule, WantsThread
  <1>5. ASSUME NEW c \in Clients, scheduleAgain(c)
        PROVE  CountInv'
    <2>1. CASE mFinished \/ mCanceled
      <3>1. /\ UNCHANGED <<mFinished, mIdleThreads, mWorkUnits, started, pc>>
            /\ call' = [call EXCEPT ![c] = "idle"]
        BY <1>5, <2>1 DEF scheduleAgain, Refuse
      <3>2. Resting' = Resting /\ \A d \in Clients : Waiting(d)' => Waiting(d)
        BY <1>t, <3>1 DEF Resting, Waiting
      <3>3. Len(mWorkUnits') <= Len(mWorkUnits)
        BY <1>t, <3>1
      <3> QED BY Zenon, <1>0, <3>1, <3>2, <3>3, CountKept
    <2>2. CASE ~(mFinished \/ mCanceled)
      <3>1. throttle(c, arg[c]) /\ arg[c] \in Units /\ Waiting(c)
        <4>1. throttle(c, arg[c]) /\ Waiting(c)
          BY Zenon, <1>5, <2>2 DEF scheduleAgain, Waiting
        <4>2. arg[c] # None
          BY Zenon, <4>1 DEF IInv, OwnerInv
        <4>3. arg[c] \in Units
          BY Zenon, <1>0, <4>2 DEF TypeOK
        <4> QED BY <4>1, <4>3
      <3>2. started = mMaxThreads
        BY <1>0, <2>2, <3>1 DEF CountInv
      <3>3. ~(started < mMaxThreads)
        BY <1>t, <3>2
      <3> QED BY Zenon, <1>3, <2>2, <3>1, <3>3
    <2> QED BY <2>1, <2>2
  <1>6. ASSUME NEW p \in [Threads -> Labels], NEW k \in [Clients -> Calls], cancelLocked(p, k),
               \A c \in Clients : k[c] = call[c] \/ k[c] = "cancel"
        PROVE  /\ \A t \in Threads : /\ pc'[t] = "none" <=> p[t] = "none"
                                     /\ pc'[t] \in {"loop", "wait", "gone", "quit"}
                                            <=> p[t] \in {"loop", "wait", "gone", "quit"}
               /\ \A c \in Clients : Waiting(c)' => Waiting(c)
               /\ Len(mWorkUnits') <= Len(mWorkUnits)
    <2>1. CASE mFinished \/ mCanceled
      <3>1. pc' = p /\ call' = k /\ mWorkUnits' = mWorkUnits
        BY <1>6, <2>1 DEF cancelLocked
      <3>2. Len(mWorkUnits) <= Len(mWorkUnits)
        BY <1>t
      <3> QED BY Zenon, <1>6, <3>1, <3>2 DEF Waiting
    <2>2. CASE ~(mFinished \/ mCanceled)
      <3>1. pc' = WorkChanged(p) /\ call' = WorkDequeued(k) /\ mWorkUnits' = <<>>
        BY <1>6, <2>2 DEF cancelLocked
      <3>2. Len(<<>>) <= Len(mWorkUnits)
        BY <1>t
      <3>3. \A t \in Threads : pc'[t] = IF p[t] = "wait" THEN "loop" ELSE p[t]
        BY <3>1 DEF WorkChanged
      <3>4. \A c \in Clients : call'[c] = IF k[c] = "schedule" THEN "woken" ELSE k[c]
        BY <3>1 DEF WorkDequeued
      <3>5. \A c \in Clients : Waiting(c)' => Waiting(c)
        BY Zenon, <1>6, <3>4 DEF Waiting
      <3> QED BY Zenon, <3>1, <3>2, <3>3, <3>5
    <2> QED BY <2>1, <2>2
  <1>7. ASSUME NEW c \in Clients, cancel(c) \/ destroy(c)
        PROVE  CountInv'
    <2>1. PICK k \in [Clients -> Calls] : /\ cancelLocked(pc, k)
                                          /\ \A d \in Clients : k[d] = call[d] \/ k[d] = "cancel"
      <3>1. CASE cancel(c)
        BY <1>t, <3>1 DEF cancel
      <3>2. CASE destroy(c) /\ mFinished
        BY <1>t, <3>2 DEF destroy
      <3>3. CASE destroy(c) /\ ~mFinished
        <4> DEFINE k == [call EXCEPT ![c] = "cancel"]
        <4>1. k \in [Clients -> Calls] /\ \A d \in Clients : k[d] = call[d] \/ k[d] = "cancel"
          BY <1>t DEF Calls
        <4>2. cancelLocked(pc, k)
          BY <3>3 DEF destroy
        <4> HIDE DEF k
        <4> QED BY <4>1, <4>2
      <3> QED BY <1>7, <3>1, <3>2, <3>3
    <2>2. pc \in [Threads -> Labels]
      BY <1>t
    <2>3. UNCHANGED <<mFinished, mIdleThreads, started>>
      BY <1>7 DEF cancel, destroy
    <2>4. /\ \A t \in Threads : pc'[t] = "none" <=> pc[t] = "none"
          /\ \A t \in Threads : pc'[t] \in {"loop", "wait", "gone", "quit"}
                                  <=> pc[t] \in {"loop", "wait", "gone", "quit"}
          /\ \A d \in Clients : Waiting(d)' => Waiting(d)
          /\ Len(mWorkUnits') <= Len(mWorkUnits)
      BY Zenon, <1>6, <2>1, <2>2
    <2>5. Resting' = Resting
      BY Zenon, <2>4 DEF Resting
    <2> QED BY Zenon, <1>0, <2>3, <2>4, <2>5, CountKept
  <1>8. ASSUME NEW c \in Clients, finish(c) \/ destroyFinish(c)
        PROVE  CountInv'
    <2>1. /\ mFinished' /\ UNCHANGED <<mIdleThreads, mWorkUnits>>
          /\ pc' = WorkChanged(pc)
      BY <1>8 DEF finish, destroyFinish, beginFinish
    <2>2. \A t \in Threads : t \in Resting' <=> t \in Resting
      BY Zenon, <1>t, <2>1 DEF Resting, WorkChanged
    <2>3. Resting' = Resting /\ Len(mWorkUnits') <= Len(mWorkUnits)
      BY <1>t, <2>1, <2>2 DEF Resting
    <2> QED BY Zenon, <1>0, <2>1, <2>3, CountKept
  <1>9. ASSUME NEW c \in Clients, join(c)
        PROVE  CountInv'
    <2>1. UNCHANGED <<mFinished, mIdleThreads, mWorkUnits, pc>>
      BY <1>9 DEF join
    <2>2. mFinished
      BY <1>9 DEF join, IInv, CloseInv
    <2>3. Resting' = Resting /\ Len(mWorkUnits') <= Len(mWorkUnits)
      BY <1>t, <2>1 DEF Resting
    <2> QED BY Zenon, <1>0, <2>1, <2>2, <2>3, CountKept
  <1>10. ASSUME NEW c \in Clients, spuriousReturn(c)
         PROVE  CountInv'
    <2>1. /\ UNCHANGED <<mFinished, mIdleThreads, mWorkUnits, started, pc>>
          /\ call[c] = "schedule" /\ call' = [call EXCEPT ![c] = "woken"]
      BY <1>10 DEF spuriousReturn
    <2>2. Resting' = Resting /\ Len(mWorkUnits') <= Len(mWorkUnits)
      BY <1>t, <2>1 DEF Resting
    <2>3. \A d \in Clients : Waiting(d)' => Waiting(d)
      BY Zenon, <1>t, <2>1 DEF Waiting
    <2> QED BY <1>0, <2>1, <2>2, <2>3, CountKept
  <1>11. ASSUME NEW t \in Threads, takeUnit(t)
         PROVE  CountInv'
    <2>1. /\ pc[t] = "loop" /\ mWorkUnits # <<>> /\ mWorkUnits' = Tail(mWorkUnits)
          /\ mIdleThreads' = mIdleThreads - 1 /\ pc' = [pc EXCEPT ![t] = "run"]
          /\ call' = WorkDequeued(call) /\ UNCHANGED <<mFinished, started>>
      BY Zenon, <1>11 DEF takeUnit
    <2>2. t \in Resting /\ Resting' = Resting \ {t}
      BY Zenon, <1>t, <2>1 DEF Resting
    <2>3. mIdleThreads' = Cardinality(Resting')
      BY Zenon, <1>0, <2>1, <2>2, RestingMoves DEF CountInv
    <2>4. Len(mWorkUnits') = Len(mWorkUnits) - 1 /\ Len(mWorkUnits) \in Nat
      BY Zenon, <1>t, <2>1, TailLen
    <2>5. \A d \in Clients : Waiting(d)' <=> Waiting(d)
      BY <1>t, <2>1 DEF Waiting, WorkDequeued
    <2>6. \A v \in Threads : pc'[v] = "none" <=> pc[v] = "none"
      BY Zenon, <1>t, <2>1
    <2> QED BY <1>0, <1>t, <2>1, <2>3, <2>4, <2>5, <2>6 DEF CountInv, BacklogIsBounded
  <1>12. ASSUME NEW t \in Threads, leaveLoop(t) \/ spuriousWakeup(t) \/ runUnit(t)
         PROVE  CountInv'
    <2>1. /\ UNCHANGED <<mFinished, mIdleThreads, mWorkUnits, started, call>>
          /\ \E q \in Labels : /\ pc' = [pc EXCEPT ![t] = q]
                               /\ pc[t] # "none" /\ q # "none"
                               /\ q \in {"loop", "wait", "gone", "quit"}
                                      <=> pc[t] \in {"loop", "wait", "gone", "quit"}
      BY Zenon, <1>12 DEF leaveLoop, spuriousWakeup, runUnit, Labels
    <2>2. \A v \in Threads : (pc'[v] = "none" <=> pc[v] = "none") /\ (v \in Resting' <=> v \in Resting)
      BY Zenon, <1>t, <2>1 DEF Resting
    <2>3. Resting' = Resting /\ Len(mWorkUnits') <= Len(mWorkUnits)
      BY <1>t, <2>1, <2>2 DEF Resting
    <2>4. \A d \in Clients : Waiting(d)' <=> Waiting(d)
      BY Zenon, <2>1 DEF Waiting
    <2> QED BY Zenon, <1>0, <2>1, <2>2, <2>3, <2>4, CountKept
  <1>13. ASSUME NEW t \in Threads, endUnit(t)
         PROVE  CountInv'
    <2> DEFINE q == IF pc[t] = "true" THEN "loop" ELSE IF mFinished THEN "quit" ELSE "gone"
               p == [pc EXCEPT ![t] = q]
    <2>1. /\ pc[t] \in {"true", "false"} /\ mIdleThreads' = mIdleThreads + 1
          /\ UNCHANGED <<mFinished, started>>
      BY <1>13 DEF endUnit
    <2>2. p \in [Threads -> Labels] /\ call \in [Clients -> Calls]
      BY Zenon, <1>t DEF Labels
    <2>3. /\ \A v \in Threads : /\ pc'[v] = "none" <=> p[v] = "none"
                                /\ pc'[v] \in {"loop", "wait", "gone", "quit"}
                                       <=> p[v] \in {"loop", "wait", "gone", "quit"}
          /\ \A c \in Clients : Waiting(c)' => Waiting(c)
          /\ Len(mWorkUnits') <= Len(mWorkUnits)
      <3>1. CASE pc[t] = "true"
        <4>1. pc' = p /\ UNCHANGED <<mWorkUnits, call>>
          BY <1>13, <3>1 DEF endUnit
        <4>2. Len(mWorkUnits) <= Len(mWorkUnits)
          BY <1>t
        <4> HIDE DEF p
        <4> QED BY Zenon, <4>1, <4>2 DEF Waiting
      <3>2. CASE pc[t] = "false"
        <4>1. cancelLocked(p, call)
          BY Zenon, <1>13, <3>2 DEF endUnit
        <4> HIDE DEF p
        <4> QED BY Zenon, <4>1, <2>2, <1>6
      <3> QED BY <2>1, <3>1, <3>2
    <2>a. p[t] = q /\ \A v \in Threads \ {t} : p[v] = pc[v]
      BY Zenon, <1>t
    <2>4. \A v \in Threads : pc'[v] = "none" <=> pc[v] = "none"
      BY Zenon, <2>1, <2>3, <2>a
    <2>b. t \notin Resting /\ \A v \in Threads : v \in Resting' <=> v \in Resting \/ v = t
      BY <2>1, <2>3, <2>a DEF Resting
    <2>5. t \notin Resting /\ Resting' = Resting \cup {t}
      BY <1>a, <2>b, Zenon
    <2>6. mIdleThreads' = Cardinality(Resting')
      BY Zenon, <1>0, <2>1, <2>5, RestingMoves DEF CountInv
    <2>8. /\ ~mFinished /\ started < mMaxThreads => Len(mWorkUnits') <= mIdleThreads'
          /\ Backlog # 0 => Len(mWorkUnits') <= Limit
      BY <1>0, <1>t, <2>1, <2>3 DEF CountInv, BacklogIsBounded
    <2> QED BY Zenon, <1>0, <2>1, <2>3, <2>4, <2>6, <2>8 DEF CountInv, BacklogIsBounded
  <1>14. CASE UNCHANGED vars
    BY <1>0, <1>14 DEF vars, CountInv, BacklogIsBounded, Resting, Waiting
  <1> QED
    BY Zenon, <1>1, <1>2, <1>4, <1>5, <1>7, <1>8, <1>9, <1>10, <1>11, <1>12, <1>13, <1>14
    DEF Next, Client, Return, Work

-----------------------------------------------------------------------------
(* The invariant holds of a new queue. *)
LEMMA InitIInv == Counting /\ Init => IInv
  <1> SUFFICES ASSUME Counting, Init
               PROVE  IInv
    OBVIOUS
  <1> USE QueueAssumption
  <1>1. TypeOK
    <2>1. <<>> \in Seq(Units) /\ 0 \in Nat /\ 0 \in 0..mMaxThreads /\ 0 \in 0..MaxUnits
      OBVIOUS
    <2>2. /\ [t \in Threads |-> "none"] \in [Threads -> Labels]
          /\ [t \in Threads |-> None] \in [Threads -> Units \cup {None}]
          /\ [c \in Clients |-> "idle"] \in [Clients -> Calls]
          /\ [c \in Clients |-> None] \in [Clients -> Units \cup {None}]
      BY DEF Labels, Calls
    <2> QED BY Zenon, <2>1, <2>2 DEF Init, TypeOK
  <1>2. Resting = {}
    BY DEF Init, Resting
  <1>3. Limit \in Nat /\ Len(mWorkUnits) = 0 /\ UnitsIn(mWorkUnits) = {}
    BY DEF Init, Limit, UnitsIn
  <1>4. CountInv
    BY <1>2, <1>3 DEF Counting, Init, CountInv, BacklogIsBounded, Waiting, Threads
  <1>5. CloseInv
    BY Zenon DEF Init, CloseInv, CanceledIsEmpty, EndOfFinish
  <1>6. OwnerInv
    BY <1>3 DEF Init, OwnerInv, Waiting
  <1> QED BY <1>1, <1>4, <1>5, <1>6 DEF IInv

-----------------------------------------------------------------------------
INSTANCE FiniteSetTheorems

(* The facts about cardinalities that threadLoop's bookkeeping of idle and     *)
(* started threads rests on are theorems of the library.                       *)
LEMMA CountingHolds == Counting
  <1>1. \A n \in Nat : IsFiniteSet(1..n) /\ Cardinality(1..n) = n
    BY FS_Interval
  <1>2. ASSUME NEW S, IsFiniteSet(S)
        PROVE  /\ Cardinality(S) \in Nat
               /\ \A T \in SUBSET S : IsFiniteSet(T) /\ Cardinality(T) <= Cardinality(S)
               /\ \A x \in S : Cardinality(S \ {x}) = Cardinality(S) - 1
               /\ \A x : x \notin S => Cardinality(S \cup {x}) = Cardinality(S) + 1
    BY Zenon, <1>2, FS_CardinalityType, FS_Subset, FS_RemoveElement, FS_AddElement
  <1> QED BY Zenon, <1>1, <1>2, FS_EmptySet DEF Counting

(* However clients post, cancel, finish and destroy, threads run units and     *)
(* condition variables wake: the counts, the closing and the owners are right. *)
THEOREM Invariance == Spec => []IInv
  <1>1. IInv /\ [Next]_vars => IInv'
    BY Zenon, CountingHolds, TypeNext, CountNext, CloseNext, OwnerNext DEF IInv
  <1>2. Init => IInv
    BY CountingHolds, InitIInv
  <1> QED BY <1>1, <1>2, PTL DEF Spec

(* Schedule's flow control, for every backlog and number of threads: calls     *)
(* that start a thread skip the wait, and still the limit is never passed.     *)
THEOREM BacklogHolds == Spec => []BacklogIsBounded
  <1>1. IInv => BacklogIsBounded
    BY Zenon DEF IInv, CountInv
  <1> QED BY Invariance, <1>1, PTL

(* cancelLocked() empties the queue and nothing fills it again. *)
THEOREM CanceledStaysEmpty == Spec => []CanceledIsEmpty
  <1>1. IInv => CanceledIsEmpty
    BY Zenon DEF IInv, CloseInv
  <1> QED BY Invariance, <1>1, PTL

(* finish() and ~WorkQueue() leave no thread in the queue, and leave units     *)
(* only when every thread was told to stop after the call.                     *)
THEOREM FinishLeavesNoThread == Spec => []EndOfFinish
  <1>1. IInv => EndOfFinish
    BY DEF IInv, CloseInv
  <1> QED BY Invariance, <1>1, PTL

(* A unit is deleted once, and never while the queue, a thread or a call of    *)
(* schedule() has it.                                                          *)
THEOREM UnitsHaveOneOwner == Spec => []OneOwner
  <1>1. IInv => OneOwner
    BY Zenon DEF IInv, OwnerInv, OneOwner
  <1> QED BY Invariance, <1>1, PTL
=============================================================================
