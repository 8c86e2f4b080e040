------------------------- MODULE ThreadObjectProofs -------------------------
(***************************************************************************)
(* What holds of a Thread of libutils for any number of clients and of      *)
(* restarts.                                                                *)
(***************************************************************************)
EXTENDS ThreadObject, TLAPS

(* A thread that has not left its loop; between the iterations it has only a  *)
(* weak reference.                                                            *)
Live == Active \cup {"promote"}

(* mThread names the one thread that is live, which makes it the only one. *)
NameInv == \A t \in Threads : pc[t] \in Live => mRunning /\ mThread = t

(* The object exists while it is referenced, and until its thread has its own  *)
(* reference the object holds itself.                                          *)
HoldInv ==
    /\ object <=> Referenced
    /\ \A t \in Threads : pc[t] \in {"start", "unhold"} => mHoldSelf
    /\ \A t \in Threads : pc[t] \in Active \ {"start"} => strong[t]

(* While the thread runs an exit request is not taken back; a thread that has  *)
(* yet to begin threadLoop() has begun none too late.                          *)
LateInv ==
    /\ late <= 1
    /\ mRunning /\ asked => mExitPending
    /\ late > 0 => asked
    /\ \A t \in Threads : pc[t] \in Live \ {"loop", "end"} => late = 0

IInv == TypeOK /\ NameInv /\ HoldInv /\ LateInv

-----------------------------------------------------------------------------
(* The fields of Threads.cpp:667-830 keep their types. *)
LEMMA TypeNext ==
    ASSUME TypeOK, [Next]_vars
    PROVE  TypeOK'
  <1> USE ThreadAssumption DEF TypeOK, flags, clients, threads, exits, Ask, Threads, Labels, Waits, Goto, NoThread
  <1>1. ASSUME NEW c \in Clients, NEW d \in Clients, Share(c, d)
        PROVE  TypeOK'
    BY <1>1 DEF Share
  <1>2. ASSUME NEW c \in Clients, Drop(c)
        PROVE  TypeOK'
    BY <1>2 DEF Drop, Release, Referenced
  <1>3. ASSUME NEW c \in Clients, runCreates(c)
        PROVE  TypeOK'
    <2> DEFINE n == created + 1
    <2>1. /\ created' = n /\ n \in 0..MaxRuns /\ mThread' = n /\ n \in 0..n
          /\ pc' = [pc EXCEPT ![n] = "start"]
      BY <1>3 DEF runCreates
    <2>2. /\ mRunning' = TRUE /\ mExitPending' = FALSE /\ mStatus' = "OK" /\ mHoldSelf' = TRUE
          /\ asked' = FALSE /\ late' = 0 /\ UNCHANGED <<object, held, call, strong, result>>
      BY <1>3 DEF runCreates
    <2> HIDE DEF n
    <2> QED BY Zenon, <2>1, <2>2
  <1>4. ASSUME NEW c \in Clients, runFails(c) \/ requestExit(c)
        PROVE  TypeOK'
    <2>1. /\ UNCHANGED <<mRunning, mHoldSelf, object, held, call, created, pc, strong, result, late>>
          /\ mThread' \in {0, mThread} /\ mExitPending' \in BOOLEAN
          /\ mStatus' \in {"UNKNOWN_ERROR", mStatus}
          /\ asked' \in {asked, TRUE}
      BY Zenon, <1>4 DEF runFails, requestExit
    <2>2. 0 \in 0..created
      OBVIOUS
    <2> QED BY Zenon, <2>1, <2>2
  <1>5. ASSUME NEW c \in Clients, NEW kind \in {"exit", "join"}, NEW w \in BOOLEAN, NEW r \in BOOLEAN,
               testRunning(c, kind, w, r), UNCHANGED exits \/ Ask
        PROVE  TypeOK'
    BY Zenon, <1>5 DEF testRunning
  <1>6. ASSUME NEW c \in Clients,
               requestExitAndWait(c) \/ join(c) \/ exitAgain(c) \/ joinAgain(c)
        PROVE  TypeOK'
    BY Zenon, <1>5, <1>6 DEF requestExitAndWait, join, exitAgain, joinAgain
  <1>7. ASSUME NEW c \in Clients, spuriousWakeup(c)
        PROVE  TypeOK'
    BY <1>7 DEF spuriousWakeup, Woken
  <1>8. ASSUME NEW t \in Threads, takeSelf(t) \/ readyToRun(t) \/ firstLoop(t) \/ threadLoopReturns(t)
        PROVE  TypeOK'
    BY ZenonT(60), <1>8 DEF takeSelf, readyToRun, firstLoop, threadLoopReturns
  <1>9. ASSUME NEW t \in Threads, clearHoldSelf(t) \/ letGo(t)
        PROVE  TypeOK'
    BY Zenon, <1>9 DEF clearHoldSelf, letGo, Release, Referenced
  <1>10. ASSUME NEW t \in Threads, threadLoop(t) \/ promote(t) \/ requestOwnExit(t)
         PROVE  TypeOK'
    <2>1. CASE threadLoop(t)
      BY <2>1 DEF threadLoop
    <2>2. CASE promote(t)
      <3>1. /\ UNCHANGED <<mRunning, mExitPending, mThread, mStatus, mHoldSelf, object, held, call,
                           created, result, asked, late>>
            /\ \E q \in {"enter", "done"} : pc' = [pc EXCEPT ![t] = q]
            /\ strong' = strong \/ strong' = [strong EXCEPT ![t] = TRUE]
        BY <2>2 DEF promote
      <3>2. pc' \in [Threads -> Labels]
        BY <3>1
      <3>3. strong' \in [Threads -> BOOLEAN]
        BY Zenon, <3>1
      <3> QED BY <3>1, <3>2, <3>3
    <2>3. CASE requestOwnExit(t)
      BY Zenon, <2>3 DEF requestOwnExit
    <2> QED BY <1>10, <2>1, <2>2, <2>3
  <1>11. ASSUME NEW t \in Threads, endOfBody(t)
         PROVE  TypeOK'
    <2>1. /\ UNCHANGED <<mStatus, mHoldSelf, object, held, created, strong, result, asked, late>>
          /\ mThread' \in {0, mThread} /\ mExitPending' \in BOOLEAN /\ mRunning' \in BOOLEAN
          /\ \E q \in {"leave", "clear"} : pc' = [pc EXCEPT ![t] = q]
          /\ call' = call \/ call' = [c \in Clients |-> Woken(call[c])]
      BY Zenon, <1>11 DEF endOfBody
    <2>2. 0 \in 0..created
      OBVIOUS
    <2>3. call' \in [Clients -> Waits]
      BY <2>1 DEF Woken
    <2> QED BY <2>1, <2>2, <2>3
  <1>12. CASE UNCHANGED vars
    BY <1>12 DEF vars
  <1> QED
    BY <1>1, <1>2, <1>3, <1>4, <1>6, <1>7, <1>8, <1>9, <1>10, <1>11, <1>12
    DEF Next, Client, Again, Step

(* A request is kept while the thread runs, and mExitPending is set with it. *)
HeedsRequests ==
    /\ mRunning /\ mExitPending => mExitPending'
    /\ asked => asked'
    /\ asked' => asked \/ mExitPending'

(* What a step does to the threads: run() adds one to an object that has none, *)
(* and a step of _threadLoop moves its thread on.                              *)
LEMMA Moves ==
    ASSUME IInv, [Next]_vars
    PROVE  \/ \E c \in Clients : runCreates(c)
           \/ /\ pc' = pc /\ UNCHANGED <<strong, late, mHoldSelf>>
              /\ mRunning' = mRunning /\ (mRunning => mThread' = mThread)
              /\ HeedsRequests
           \/ \E t \in Threads : Step(t)
  <1> USE DEF flags, clients, threads, exits, Ask, HeedsRequests
  <1>0. asked \in BOOLEAN /\ mRunning \in BOOLEAN
    BY DEF IInv, TypeOK
  <1>1. ASSUME NEW c \in Clients, NEW d \in Clients, Share(c, d)
        PROVE  /\ pc' = pc /\ UNCHANGED <<strong, late, mHoldSelf>>
               /\ mRunning' = mRunning /\ (mRunning => mThread' = mThread)
               /\ HeedsRequests
    BY <1>1 DEF Share
  <1>2. ASSUME NEW c \in Clients, Drop(c) \/ runFails(c) \/ requestExit(c) \/ spuriousWakeup(c)
        PROVE  /\ pc' = pc /\ UNCHANGED <<strong, late, mHoldSelf>>
               /\ mRunning' = mRunning /\ (mRunning => mThread' = mThread)
               /\ HeedsRequests
    <2>1. CASE Drop(c) \/ spuriousWakeup(c)
      <3>1. UNCHANGED <<pc, strong, late, mHoldSelf, mRunning, mThread, mExitPending, asked>>
        BY <2>1 DEF Drop, spuriousWakeup
      <3> QED BY <3>1
    <2>2. CASE runFails(c)
      BY Zenon, <2>2 DEF runFails
    <2>3. CASE requestExit(c)
      BY <1>0, <2>3 DEF requestExit
    <2> QED BY Zenon, <1>2, <2>1, <2>2, <2>3
  <1>3. ASSUME NEW c \in Clients,
               requestExitAndWait(c) \/ join(c) \/ exitAgain(c) \/ joinAgain(c)
        PROVE  /\ pc' = pc /\ UNCHANGED <<strong, late, mHoldSelf>>
               /\ mRunning' = mRunning /\ (mRunning => mThread' = mThread)
               /\ HeedsRequests
    <2>1. CASE requestExitAndWait(c)
      BY <1>0, <2>1 DEF requestExitAndWait, testRunning
    <2>2. CASE join(c) \/ exitAgain(c) \/ joinAgain(c)
      <3>1. /\ UNCHANGED <<pc, strong, late, mHoldSelf, mRunning, mThread, asked>>
            /\ mRunning => mExitPending' = mExitPending
        BY Zenon, <2>2 DEF join, exitAgain, joinAgain, testRunning
      <3> QED BY <3>1
    <2> QED BY Zenon, <1>3, <2>1, <2>2
  <1>4. ASSUME NEW t \in Threads, requestOwnExit(t)
        PROVE  /\ pc' = pc /\ UNCHANGED <<strong, late, mHoldSelf>>
               /\ mRunning' = mRunning /\ (mRunning => mThread' = mThread)
               /\ HeedsRequests
    BY <1>4 DEF requestOwnExit
  <1>5. CASE UNCHANGED vars
    BY <1>5 DEF vars
  <1> QED BY <1>1, <1>2, <1>3, <1>4, <1>5 DEF Next, Client, Again

(* run() starts a thread only where none is live. *)
LEMMA Starts ==
    ASSUME IInv, TypeOK', NEW c \in Clients, runCreates(c)
    PROVE  /\ \A t \in Threads : pc'[t] \in Live => t = mThread' /\ pc'[t] = "start"
           /\ mRunning' /\ mHoldSelf' /\ asked' = FALSE /\ late' = 0 /\ object' = object /\ object
  <1>1. /\ ~mRunning /\ mRunning' /\ mHoldSelf' /\ asked' = FALSE /\ late' = 0
        /\ object' = object /\ held[c]
        /\ mThread' = created + 1 /\ pc' = [pc EXCEPT ![created + 1] = "start"]
    BY DEF runCreates, Calls
  <1>2. object
    BY <1>1 DEF IInv, HoldInv, Referenced
  <1>3. \A t \in Threads : pc[t] \notin Live
    BY <1>1 DEF IInv, NameInv
  <1>4. \A t \in Threads : pc'[t] = IF t = created + 1 THEN "start" ELSE pc[t]
    <2>1. pc \in [Threads -> Labels]
      BY Zenon DEF IInv, TypeOK
    <2> QED BY <1>1, <2>1
  <1> QED BY <1>1, <1>2, <1>3, <1>4

(* A step of _threadLoop: where its thread comes from and goes to. *)
LEMMA ThreadMoves ==
    ASSUME IInv, NEW t \in Threads, Step(t)
    PROVE  /\ \E q \in Labels : pc' = [pc EXCEPT ![t] = q]
           /\ pc'[t] \in Live => pc[t] \in Live /\ UNCHANGED <<mRunning, mThread>>
           /\ \A u \in Threads \ {t} : pc'[u] = pc[u] /\ strong'[u] = strong[u]
           /\ pc[t] \notin Live => UNCHANGED <<mRunning, mThread, mExitPending, mHoldSelf, asked, late>>
           /\ pc'[t] \in {"start", "unhold"} => mHoldSelf' = mHoldSelf /\ pc[t] = "start"
           /\ pc'[t] \in Active \ {"start"} => strong'[t]
           /\ held' = held
           /\ \/ Release /\ (Referenced' => object)
              \/ /\ object' = object /\ mHoldSelf' = mHoldSelf
                 /\ strong' = strong \/ (strong'[t] /\ object)
  <1> USE DEF flags, clients, threads, exits, Goto, Live, Active, Labels
  <1>0. /\ pc \in [Threads -> Labels] /\ strong \in [Threads -> BOOLEAN]
        /\ (pc[t] \in {"start", "unhold"} => mHoldSelf)
        /\ (pc[t] \in Active \ {"start"} => strong[t])
        /\ object <=> Referenced
    BY DEF IInv, TypeOK, HoldInv
  <1>1. CASE takeSelf(t)
    <2>1. pc[t] = "start" /\ mHoldSelf /\ object
      BY <1>0, <1>1 DEF takeSelf, Referenced
    <2> QED BY <1>0, <1>1, <2>1 DEF takeSelf
  <1>2. CASE clearHoldSelf(t)
    <2>1. Referenced' => Referenced
      BY <1>2 DEF clearHoldSelf, Referenced
    <2> QED BY Zenon, <1>0, <1>2, <2>1 DEF clearHoldSelf
  <1>3. CASE readyToRun(t)
    BY <1>0, <1>3 DEF readyToRun
  <1>4. CASE firstLoop(t)
    BY <1>0, <1>4 DEF firstLoop
  <1>5. CASE threadLoopReturns(t)
    BY <1>0, <1>5 DEF threadLoopReturns
  <1>6. CASE endOfBody(t)
    BY <1>0, <1>6 DEF endOfBody
  <1>7. CASE letGo(t)
    <2>1. \A u \in Threads : strong'[u] => strong[u]
      BY <1>0, <1>7 DEF letGo
    <2>2. Referenced' => Referenced
      BY <1>7, <2>1 DEF letGo, Referenced
    <2> QED BY <1>0, <1>7, <2>2 DEF letGo
  <1>8. CASE promote(t)
    BY <1>0, <1>8 DEF promote
  <1>9. CASE threadLoop(t)
    BY <1>0, <1>9 DEF threadLoop
  <1> QED BY <1>1, <1>2, <1>3, <1>4, <1>5, <1>6, <1>7, <1>8, <1>9 DEF Step

(* Threads.cpp:681-692 and 758-763: mThread and mRunning after a step. *)
LEMMA NameNext ==
    ASSUME IInv, [Next]_vars, TypeOK'
    PROVE  NameInv'
  <1>0. NameInv
    BY DEF IInv
  <1>1. ASSUME NEW c \in Clients, runCreates(c)
        PROVE  NameInv'
    BY Zenon, <1>1, Starts DEF NameInv
  <1>2. ASSUME pc' = pc, mRunning' = mRunning, mRunning => mThread' = mThread
        PROVE  NameInv'
    BY <1>0, <1>2 DEF NameInv
  <1>3. ASSUME NEW t \in Threads, Step(t)
        PROVE  NameInv'
    <2>1. CASE pc[t] \in Live
      <3>1. \A u \in Threads : pc'[u] \in Live => u = t
        BY <1>0, <1>3, <2>1, ThreadMoves DEF NameInv
      <3> QED BY <1>0, <1>3, <2>1, <3>1, ThreadMoves DEF NameInv
    <2>2. CASE pc[t] \notin Live
      <3>1. UNCHANGED <<mRunning, mThread>> /\ \A u \in Threads : pc'[u] \in Live => pc[u] \in Live
        BY <1>3, <2>2, ThreadMoves
      <3> QED BY <1>0, <3>1 DEF NameInv
    <2> QED BY Zenon, <2>1, <2>2
  <1> QED BY <1>1, <1>2, <1>3, Moves

(* A client keeps its reference through its calls, so run() finds the object   *)
(* alive; Share and Drop are the only steps that touch held.                   *)
LEMMA ClientHolds ==
    ASSUME IInv, [Next]_vars, UNCHANGED <<pc, strong, mHoldSelf>>
    PROVE  \/ Release /\ (Referenced' => object)
           \/ object' = object /\ held' = held
           \/ object' = object /\ object /\ Referenced'
  <1> USE DEF flags, clients, threads, exits
  <1>0. object <=> Referenced
    BY DEF IInv, HoldInv
  <1>1. ASSUME NEW c \in Clients, NEW d \in Clients, Share(c, d)
        PROVE  object' = object /\ object /\ Referenced'
    <2>1. object' = object /\ held[c] /\ held' = [held EXCEPT ![d] = TRUE]
      BY <1>1 DEF Share, Calls
    <2>2. object /\ held'[d]
      BY <1>0, <2>1 DEF Referenced, IInv, TypeOK
    <2> QED BY <2>1, <2>2 DEF Referenced
  <1>2. ASSUME NEW c \in Clients, Drop(c)
        PROVE  Release /\ (Referenced' => object)
    <2>1. Release /\ held' = [held EXCEPT ![c] = FALSE]
      BY <1>2 DEF Drop
    <2>2. \A d \in Clients : held'[d] => held[d]
      BY <2>1 DEF IInv, TypeOK
    <2>3. Referenced' => Referenced
      BY <2>2 DEF Referenced
    <2> QED BY <1>0, <2>1, <2>3
  <1>3. ASSUME NEW c \in Clients, runCreates(c) \/ runFails(c) \/ requestExit(c) \/ spuriousWakeup(c)
        PROVE  object' = object /\ held' = held
    BY <1>3 DEF runCreates, runFails, requestExit, spuriousWakeup
  <1>4. ASSUME NEW c \in Clients,
               requestExitAndWait(c) \/ join(c) \/ exitAgain(c) \/ joinAgain(c)
        PROVE  object' = object /\ held' = held
    BY Zenon, <1>4 DEF requestExitAndWait, join, exitAgain, joinAgain, testRunning
  <1>5. ASSUME NEW t \in Threads, requestOwnExit(t)
        PROVE  object' = object /\ held' = held
    BY <1>5 DEF requestOwnExit
  <1>6. ASSUME NEW t \in Threads, Step(t)
        PROVE  (Release /\ (Referenced' => object)) \/ (object' = object /\ held' = held)
    BY <1>6, ThreadMoves
  <1>7. CASE UNCHANGED vars
    BY <1>7 DEF vars
  <1> QED BY <1>1, <1>2, <1>3, <1>4, <1>5, <1>6, <1>7 DEF Next, Client, Again

(* Threads.cpp:685, 720-722 and 773-775: who references the object after a     *)
(* step.                                                                       *)
LEMMA HoldNext ==
    ASSUME IInv, [Next]_vars, TypeOK'
    PROVE  HoldInv'
  <1>0. /\ HoldInv /\ NameInv /\ (object <=> Referenced)
        /\ object \in BOOLEAN /\ object' \in BOOLEAN
    BY DEF IInv, HoldInv, TypeOK
  <1>a. Release /\ (Referenced' => object) => (object' <=> Referenced')
    BY Zenon DEF Release
  <1>1. ASSUME NEW c \in Clients, runCreates(c)
        PROVE  HoldInv'
    <2>1. object' /\ mHoldSelf' /\ \A t \in Threads : pc'[t] \in Live => pc'[t] = "start"
      BY Zenon, <1>1, Starts
    <2> QED BY <2>1 DEF HoldInv, Referenced, Live
  <1>2. ASSUME UNCHANGED <<pc, strong, mHoldSelf>>
        PROVE  HoldInv'
    <2>1. CASE Release /\ (Referenced' => object)
      BY <1>0, <1>2, <1>a, <2>1 DEF HoldInv
    <2>2. CASE object' = object /\ held' = held
      BY <1>0, <1>2, <2>2 DEF HoldInv, Referenced
    <2>3. CASE object' = object /\ object /\ Referenced'
      BY <1>0, <1>2, <2>3 DEF HoldInv
    <2> QED BY <1>2, <2>1, <2>2, <2>3, ClientHolds
  <1>3. ASSUME NEW t \in Threads, Step(t)
        PROVE  HoldInv'
    <2>1. \A u \in Threads : pc'[u] \in {"start", "unhold"} => mHoldSelf'
      <3> SUFFICES ASSUME NEW u \in Threads, pc'[u] \in {"start", "unhold"}
                   PROVE  mHoldSelf'
        OBVIOUS
      <3>1. CASE u = t
        BY <1>0, <1>3, <3>1, ThreadMoves DEF HoldInv
      <3>2. CASE u # t
        <4>1. pc[u] \in {"start", "unhold"} /\ mHoldSelf /\ mThread = u
          BY <1>0, <1>3, <3>2, ThreadMoves DEF HoldInv, NameInv, Live, Active
        <4>2. pc[t] \notin Live
          BY <1>0, <3>2, <4>1 DEF NameInv
        <4> QED BY Zenon, <1>3, <4>1, <4>2, ThreadMoves
      <3> QED BY <3>1, <3>2
    <2>2. \A u \in Threads : pc'[u] \in Active \ {"start"} => strong'[u]
      BY <1>0, <1>3, ThreadMoves DEF HoldInv
    <2>3. object' <=> Referenced'
      <3>1. CASE Release /\ (Referenced' => object)
        BY <1>a, <3>1
      <3>2. CASE object' = object /\ mHoldSelf' = mHoldSelf /\ strong' = strong
        BY <1>0, <1>3, <3>2, ThreadMoves DEF Referenced
      <3>3. CASE object' = object /\ strong'[t] /\ object
        BY <3>3 DEF Referenced
      <3> QED BY <1>3, <3>1, <3>2, <3>3, ThreadMoves
    <2> QED BY <2>1, <2>2, <2>3 DEF HoldInv
  <1> QED BY <1>1, <1>2, <1>3, Moves

(* Threads.cpp:681, 738-768 and 781-809: exit requests after a step. *)
LEMMA LateNext ==
    ASSUME IInv, [Next]_vars, TypeOK'
    PROVE  LateInv'
  <1>0. LateInv /\ NameInv /\ late \in Nat /\ asked \in BOOLEAN /\ pc \in [Threads -> Labels]
    BY DEF IInv, TypeOK
  <1>1. ASSUME NEW c \in Clients, runCreates(c)
        PROVE  LateInv'
    <2>1. asked' = FALSE /\ late' = 0
      BY Zenon, <1>1, Starts
    <2> QED BY <2>1 DEF LateInv
  <1>2. ASSUME pc' = pc, UNCHANGED late, mRunning' = mRunning, HeedsRequests
        PROVE  LateInv'
    BY <1>0, <1>2 DEF LateInv, HeedsRequests
  <1>3. ASSUME NEW t \in Threads, Step(t)
        PROVE  LateInv'
    <2> USE DEF flags, clients, threads, exits, Goto
    <2>1. CASE pc[t] \notin Live
      <3>1. /\ UNCHANGED <<mRunning, mExitPending, asked, late>>
            /\ \A u \in Threads : pc'[u] \in Live => pc'[u] = pc[u]
        BY <1>3, <2>1, ThreadMoves
      <3> QED BY <1>0, <3>1 DEF LateInv
    <2>2. CASE pc[t] \in Live
      <3>1. mRunning /\ \A u \in Threads : pc'[u] \in Live => u = t
        BY <1>0, <1>3, <2>2, ThreadMoves DEF NameInv
      <3>2. CASE takeSelf(t) \/ clearHoldSelf(t) \/ readyToRun(t) \/ threadLoopReturns(t) \/ letGo(t)
        <4>1. /\ UNCHANGED <<mRunning, mExitPending, asked, late>>
              /\ pc'[t] \in {"end", "done", "leave"} \/ pc[t] \in Live \ {"loop", "end"}
          BY <1>0, <3>2, <2>2
          DEF takeSelf, clearHoldSelf, readyToRun, threadLoopReturns, letGo, Live, Active
        <4> QED BY <1>0, <3>1, <4>1 DEF LateInv, Live, Active
      <3>3. CASE firstLoop(t) \/ promote(t)
        <4>1. /\ UNCHANGED <<mRunning, mExitPending, asked, late>>
              /\ pc'[t] \in {"enter", "end", "done"} /\ pc[t] \in Live \ {"loop", "end"}
          BY <1>0, <3>3 DEF firstLoop, promote, Live, Active
        <4> QED BY <1>0, <3>1, <4>1 DEF LateInv
      <3>4. CASE endOfBody(t)
        <4>1. CASE mExitPending \/ ~result[t]
          <5>1. pc'[t] = "leave" /\ ~mRunning' /\ UNCHANGED <<asked, late>>
            BY <1>0, <3>4, <4>1 DEF endOfBody
          <5> QED BY <1>0, <3>1, <5>1 DEF LateInv, Live, Active
        <4>2. CASE ~mExitPending /\ result[t]
          <5>1. UNCHANGED <<mRunning, mExitPending, asked, late>> /\ late = 0
            BY <1>0, <3>1, <3>4, <4>2 DEF endOfBody, LateInv
          <5> QED BY <1>0, <5>1 DEF LateInv
        <4> QED BY <4>1, <4>2
      <3>5. CASE threadLoop(t)
        <4>1. late = 0 /\ pc'[t] = "loop" /\ UNCHANGED <<mRunning, mExitPending, asked>>
          BY <1>0, <3>5 DEF threadLoop, LateInv, Live, Active
        <4>2. late' = 0 \/ (late' = 1 /\ asked)
          BY <3>5, <4>1 DEF threadLoop
        <4> QED BY <1>0, <3>1, <4>1, <4>2 DEF LateInv
      <3> QED BY <1>3, <3>2, <3>3, <3>4, <3>5 DEF Step
    <2> QED BY <2>1, <2>2
  <1> QED BY <1>1, <1>2, <1>3, Moves

-----------------------------------------------------------------------------
(* The invariant holds of a new object, which one client holds. *)
LEMMA InitIInv == Init => IInv
  <1> SUFFICES ASSUME Init
               PROVE  IInv
    OBVIOUS
  <1>0. PICK c \in Clients : held = [d \in Clients |-> d = c]
    BY DEF Init
  <1>1. TypeOK
    <2>1. /\ created = 0 /\ mThread = 0 /\ asked = FALSE /\ late = 0 /\ mRunning = FALSE /\ mExitPending = FALSE
          /\ mStatus = "OK" /\ mHoldSelf = FALSE /\ object = TRUE
      BY DEF Init, NoThread
    <2>2. /\ held \in [Clients -> BOOLEAN] /\ call \in [Clients -> Waits]
          /\ strong \in [Threads -> BOOLEAN] /\ result \in [Threads -> BOOLEAN]
          /\ pc \in [Threads -> Labels]
      BY <1>0 DEF Init, Waits, Labels
    <2>3. 0 \in 0..0 /\ 0 \in 0..MaxRuns /\ 0 \in Nat
      BY ThreadAssumption
    <2> QED BY Zenon, <2>1, <2>2, <2>3 DEF TypeOK
  <1>2. Referenced /\ object
    BY Zenon, <1>0 DEF Init, Referenced
  <1>3. \A t \in Threads : pc[t] \notin Live
    BY DEF Init, Live, Active
  <1>4. late = 0 /\ ~asked /\ ~mRunning
    BY DEF Init
  <1> QED BY <1>1, <1>2, <1>3, <1>4 DEF IInv, NameInv, HoldInv, LateInv, Live, Active

(* However clients start, stop, wait, share and drop, and threads run: mThread *)
(* names the one live thread, which has or is promised a reference.            *)
THEOREM Invariance == Spec => []IInv
  <1>1. IInv /\ [Next]_vars => IInv'
    <2>1. IInv => TypeOK
      BY DEF IInv
    <2> QED BY <2>1, TypeNext, NameNext, HoldNext, LateNext DEF IInv
  <1> QED BY InitIInv, <1>1, PTL DEF Spec

(* run() never gives the object a second thread, for any number of callers. *)
THEOREM NeverTwoThreads == Spec => []OneThread
  <1>1. IInv => OneThread
    BY DEF IInv, NameInv, OneThread, Live
  <1> QED BY Invariance, <1>1, PTL

(* _threadLoop never uses a destroyed object. *)
THEOREM ThreadKeepsObject == Spec => []SelfIsAlive
  <1>1. IInv => SelfIsAlive
    <2> SUFFICES ASSUME IInv, NEW t \in Threads, pc[t] \in Active
                 PROVE  object
      BY DEF SelfIsAlive
    <2>1. mHoldSelf \/ strong[t]
      BY DEF IInv, HoldInv
    <2> QED BY <2>1 DEF IInv, HoldInv, Referenced
  <1> QED BY Invariance, <1>1, PTL

(* requestExitAndWait() and join() recognise the object's own thread. *)
THEOREM ThreadKnowsItself == Spec => []SelfIsKnown
  <1>1. IInv => SelfIsKnown
    BY DEF IInv, NameInv, SelfIsKnown, Live, Active
  <1> QED BY Invariance, <1>1, PTL

(* After requestExit() threadLoop() is called at most once more, whoever calls *)
(* run() again, waits for the exit and clears the request.                     *)
THEOREM ExitIsHeeded == Spec => []AtMostOneMore
  <1>1. IInv => AtMostOneMore
    BY DEF IInv, LateInv, AtMostOneMore
  <1> QED BY Invariance, <1>1, PTL
=============================================================================
