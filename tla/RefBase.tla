------------------------------ MODULE RefBase ------------------------------
(***************************************************************************)
(* The reference counts of one RefBase object of libutils                   *)
(* (build-tools/src/core/libutils/binder/RefBase.cpp), which is linked into *)
(* every tool of the Build-Tools package.  The actors are the sp<> and wp<> *)
(* instances that refer to the object: RefBase.h allows concurrent use of   *)
(* different instances, and a call made for one instance is a sequence of   *)
(* steps, one per atomic instruction or callback, which interleave with the *)
(* steps of the others.                                                     *)
(*                                                                          *)
(* The client keeps the rules of RefBase.h.  An instance is copied or       *)
(* promoted only while it is held, and held until that call returns         *)
(* (src names it).  Until the constructing thread has made its first        *)
(* strong reference, or has given the plain pointer up, no other thread     *)
(* uses the object (raw).                                                   *)
(***************************************************************************)
EXTENDS Integers, FiniteSets

CONSTANTS Handles                 \* the sp<> and wp<> instances

(* A count the code can tell from a corrupt one (BAD_STRONG, BAD_WEAK). *)
MAX_COUNT == 1048575

INITIAL_STRONG_VALUE == 268435456

(* The instances are finitely many, and fewer than the counts can hold. *)
ASSUME HandlesAssumption ==
    IsFiniteSet(Handles) /\ Cardinality(Handles) \in Nat
                         /\ Cardinality(Handles) < MAX_COUNT

VARIABLES
    mStrong, mWeak,     \* the two atomic counts
    extended,           \* OBJECT_LIFETIME_WEAK was set in the constructor
    object, refs,       \* the object and its weakref_impl are not yet deleted
    raw,                \* only the constructing thread knows the object
    pc, src, cur        \* per instance: next step, copied instance, curCount

counts == <<mStrong, mWeak>>
memory == <<object, refs, extended>>
vars == <<mStrong, mWeak, extended, object, refs, raw, pc, src, cur>>

(* Calls that increment, and the steps each still has to make. *)
Incrementing == {"is_add", "is_sub", "rs_add", "fs_add", "fs_sub", "first"}

Promoting == {"as_load", "as_cas", "as_cas2", "as_ask", "as_add", "as_extra",
              "as_sub"}

Decrementing == {"last", "delete", "dw", "dw_load", "dw_delete"}

Labels == {"null", "strong", "weak", "aw_load", "aw_cas"}
            \cup Incrementing \cup Promoting \cup Decrementing

(* Instances whose increment of mWeak, of mStrong, has not been undone. *)
WeakHolders ==
    {h \in Handles : pc[h] \notin {"null", "aw_load", "aw_cas", "dw_load",
                                   "dw_delete"}}

StrongHolders ==
    {h \in Handles : pc[h] \in {"strong", "is_sub", "fs_sub", "first",
                                "as_extra", "as_sub"}}

BAD_STRONG(c) ==
    c \notin 1..MAX_COUNT /\ c - INITIAL_STRONG_VALUE \notin 0..MAX_COUNT

BAD_WEAK(c) == c \notin 1..MAX_COUNT

(* The types; neither count of the object ever falls below zero. *)
TypeOK ==
    /\ mStrong \in Nat /\ mWeak \in Nat
    /\ extended \in BOOLEAN /\ object \in BOOLEAN /\ refs \in BOOLEAN
    /\ raw \in BOOLEAN
    /\ pc \in [Handles -> Labels]
    /\ src \in [Handles -> Handles]
    /\ cur \in [Handles -> Int]

-----------------------------------------------------------------------------
(* The constructor: the counts of a new weakref_impl, and the lifetime.  *)
Init ==
    /\ mStrong = INITIAL_STRONG_VALUE /\ mWeak = 0
    /\ extended \in BOOLEAN
    /\ object = TRUE /\ refs = TRUE /\ raw = TRUE
    /\ pc = [h \in Handles |-> "null"]
    /\ src = [h \in Handles |-> h]
    /\ cur = [h \in Handles |-> 0]

Goto(h, label) == pc' = [pc EXCEPT ![h] = label]

(* The call made for h returns: h is empty, strong or weak. *)
Return(h, result) ==
    /\ Goto(h, result)
    /\ src' = [src EXCEPT ![h] = h]
    /\ cur' = [cur EXCEPT ![h] = 0]

(* The call made for h goes on at a later step. *)
Continue(h, label) == Goto(h, label) /\ UNCHANGED <<src, cur>>

Quiet == \A h \in Handles : pc[h] \in {"null", "strong", "weak"}

Copied(g) == \E h \in Handles \ {g} : src[h] = g

(* The constructing thread works alone; later, g is what is copied. *)
FromRaw(h, g) == raw /\ Quiet /\ g = h

FromHeld(g, kinds) == ~raw /\ pc[g] \in kinds

(* incWeak, the first step of every call that acquires a reference. *)
incWeak(h, g, next) ==
    /\ pc[h] = "null"
    /\ mWeak' = mWeak + 1
    /\ Goto(h, next)
    /\ src' = [src EXCEPT ![h] = g]
    /\ UNCHANGED <<mStrong, memory, raw, cur>>

-----------------------------------------------------------------------------
(* sp<> from a pointer or from another sp<>. *)
incStrong(h, g) ==
    /\ FromRaw(h, g) \/ FromHeld(g, {"strong"})
    /\ incWeak(h, g, "is_add")

incStrongAdd(h) ==
    /\ pc[h] = "is_add"
    /\ mStrong' = mStrong + 1
    /\ raw' = FALSE
    /\ IF mStrong # INITIAL_STRONG_VALUE
       THEN Return(h, "strong")
       ELSE Continue(h, "is_sub")
    /\ UNCHANGED <<mWeak, memory>>

(* The first reference takes INITIAL_STRONG_VALUE out of the count, here and *)
(* in forceIncStrong.                                                        *)
subtractInitial(h) ==
    /\ pc[h] \in {"is_sub", "fs_sub"}
    /\ mStrong' = mStrong - INITIAL_STRONG_VALUE
    /\ Continue(h, "first")
    /\ UNCHANGED <<mWeak, memory, raw>>

onFirstRef(h) ==
    /\ pc[h] = "first"
    /\ Return(h, "strong")
    /\ UNCHANGED <<counts, memory, raw>>

(* Mutant: sp<>::fromExisting where only a weak reference is known. *)
incStrongRequireWeak(h, g) ==
    /\ FromHeld(g, {"strong", "weak"})
    /\ incWeak(h, g, "rs_add")

incStrongRequireStrong(h, g) ==
    /\ FromHeld(g, {"strong"})
    /\ incWeak(h, g, "rs_add")

incStrongRequireStrongAdd(h) ==
    /\ pc[h] = "rs_add"
    /\ mStrong' = mStrong + 1
    /\ Return(h, "strong")
    /\ UNCHANGED <<mWeak, memory, raw>>

(* Only objects with an extended lifetime may be revived this way. *)
forceIncStrong(h, g) ==
    /\ extended
    /\ FromHeld(g, {"strong", "weak"})
    /\ incWeak(h, g, "fs_add")

forceIncStrongAdd(h) ==
    /\ pc[h] = "fs_add"
    /\ mStrong' = mStrong + 1
    /\ \/ mStrong = INITIAL_STRONG_VALUE /\ Continue(h, "fs_sub")
       \/ mStrong = 0 /\ Continue(h, "first")
       \/ mStrong \notin {0, INITIAL_STRONG_VALUE} /\ Return(h, "strong")
    /\ UNCHANGED <<mWeak, memory, raw>>

-----------------------------------------------------------------------------
(* wp<> from a pointer, an sp<> or a wp<>: createWeak and                    *)
(* incWeakRequireWeak are the one instruction of incWeak.                    *)
createWeak(h, g) ==
    /\ FromRaw(h, g) \/ FromHeld(g, {"strong", "weak"})
    /\ incWeak(h, h, "weak")

(* The constructing thread keeps weak references only, and drops the pointer. *)
relinquish ==
    /\ raw /\ Quiet
    /\ \E h \in Handles : pc[h] = "weak"
    /\ raw' = FALSE
    /\ UNCHANGED <<counts, memory, pc, src, cur>>

attemptIncWeak(h, g) ==
    /\ FromHeld(g, {"strong", "weak"})
    /\ pc[h] = "null"
    /\ Goto(h, "aw_load")
    /\ src' = [src EXCEPT ![h] = g]
    /\ UNCHANGED <<counts, memory, raw, cur>>

(* The loop of attemptIncWeak with the value c just read. *)
weakLoop(h, c) ==
    IF c > 0
    THEN /\ Goto(h, "aw_cas")
         /\ cur' = [cur EXCEPT ![h] = c]
         /\ UNCHANGED src
    ELSE Return(h, "null")

attemptIncWeakLoad(h) ==
    /\ pc[h] = "aw_load"
    /\ weakLoop(h, mWeak)
    /\ UNCHANGED <<counts, memory, raw>>

(* compare_exchange_weak succeeds only on an equal value, and may fail on one. *)
attemptIncWeakCas(h) ==
    /\ pc[h] = "aw_cas"
    /\ \/ /\ mWeak = cur[h]
          /\ mWeak' = mWeak + 1
          /\ Return(h, "weak")
       \/ weakLoop(h, mWeak) /\ UNCHANGED mWeak
    /\ UNCHANGED <<mStrong, memory, raw>>

-----------------------------------------------------------------------------
(* wp<>::promote. *)
attemptIncStrong(h, g) ==
    /\ FromHeld(g, {"strong", "weak"})
    /\ incWeak(h, g, "as_load")

(* Mutant: a count of zero is taken for the easy case. *)
strongLoopFromZero(h, c) ==
    /\ cur' = [cur EXCEPT ![h] = c]
    /\ UNCHANGED src
    /\ \/ c >= 0 /\ c # INITIAL_STRONG_VALUE /\ Goto(h, "as_cas")
       \/ ~extended /\ c = INITIAL_STRONG_VALUE /\ Goto(h, "as_cas2")
       \/ extended /\ c = INITIAL_STRONG_VALUE /\ Goto(h, "as_ask")

(* Where a count c that was just read leads: the easy case, the case of an   *)
(* object that never had a strong reference, the extended lifetime, or       *)
(* failure.                                                                  *)
strongLoop(h, c) ==
    /\ cur' = [cur EXCEPT ![h] = c]
    /\ UNCHANGED src
    /\ \/ c > 0 /\ c # INITIAL_STRONG_VALUE /\ Goto(h, "as_cas")
       \/ ~extended /\ c <= 0 /\ Goto(h, "dw")
       \/ ~extended /\ c = INITIAL_STRONG_VALUE /\ Goto(h, "as_cas2")
       \/ extended /\ (c <= 0 \/ c = INITIAL_STRONG_VALUE) /\ Goto(h, "as_ask")

attemptIncStrongLoad(h) ==
    /\ pc[h] = "as_load"
    /\ strongLoop(h, mStrong)
    /\ UNCHANGED <<counts, memory, raw>>

attemptIncStrongCas(h) ==
    /\ pc[h] = "as_cas"
    /\ \/ /\ mStrong = cur[h]
          /\ mStrong' = mStrong + 1
          /\ Return(h, "strong")
       \/ strongLoop(h, mStrong) /\ UNCHANGED mStrong
    /\ UNCHANGED <<mWeak, memory, raw>>

(* Mutant: every promotion that entered this loop subtracts the initial value. *)
attemptIncStrongFirstAll(h) ==
    /\ pc[h] = "as_cas2"
    /\ \/ /\ mStrong = cur[h]
          /\ mStrong' = mStrong + 1
          /\ Continue(h, "as_sub")
       \/ /\ cur' = [cur EXCEPT ![h] = mStrong]
          /\ Goto(h, IF mStrong > 0 THEN "as_cas2" ELSE "dw")
          /\ UNCHANGED <<mStrong, src>>
    /\ UNCHANGED <<mWeak, memory, raw>>

(* The loop for an object that had no strong reference when it was entered. *)
attemptIncStrongFirst(h) ==
    /\ pc[h] = "as_cas2"
    /\ \/ /\ mStrong = cur[h]
          /\ mStrong' = mStrong + 1
          /\ IF cur[h] = INITIAL_STRONG_VALUE
             THEN Continue(h, "as_sub")
             ELSE Return(h, "strong")
       \/ /\ cur' = [cur EXCEPT ![h] = mStrong]
          /\ Goto(h, IF mStrong > 0 THEN "as_cas2" ELSE "dw")
          /\ UNCHANGED <<mStrong, src>>
    /\ UNCHANGED <<mWeak, memory, raw>>

(* The class decides whether the object is revived. *)
onIncStrongAttempted(h) ==
    /\ pc[h] = "as_ask"
    /\ \E label \in {"as_add", "dw"} : Continue(h, label)
    /\ UNCHANGED <<counts, memory, raw>>

attemptIncStrongRevive(h) ==
    /\ pc[h] = "as_add"
    /\ mStrong' = mStrong + 1
    /\ \/ mStrong = INITIAL_STRONG_VALUE /\ Continue(h, "as_sub")
       \/ mStrong = 0 /\ Return(h, "strong")
       \/ mStrong \notin {0, INITIAL_STRONG_VALUE} /\ Continue(h, "as_extra")
    /\ UNCHANGED <<mWeak, memory, raw>>

(* onLastStrongRef gives back what onIncStrongAttempted took needlessly. *)
attemptIncStrongExtra(h) ==
    /\ pc[h] = "as_extra"
    /\ Return(h, "strong")
    /\ UNCHANGED <<counts, memory, raw>>

attemptIncStrongSubtract(h) ==
    /\ pc[h] = "as_sub"
    /\ mStrong' = mStrong - INITIAL_STRONG_VALUE
    /\ Return(h, "strong")
    /\ UNCHANGED <<mWeak, memory, raw>>

-----------------------------------------------------------------------------
decStrong(h) ==
    /\ pc[h] = "strong" /\ ~Copied(h)
    /\ mStrong' = mStrong - 1
    /\ Continue(h, IF mStrong = 1 THEN "last" ELSE "dw")
    /\ UNCHANGED <<mWeak, memory, raw>>

(* Mutant: the lifetime flag is not tested before delete this. *)
onLastStrongRefAlways(h) ==
    /\ pc[h] = "last"
    /\ Continue(h, "delete")
    /\ UNCHANGED <<counts, memory, raw>>

(* Mutant: the object is never deleted here. *)
onLastStrongRefNever(h) ==
    /\ pc[h] = "last"
    /\ Continue(h, "dw")
    /\ UNCHANGED <<counts, memory, raw>>

onLastStrongRef(h) ==
    /\ pc[h] = "last"
    /\ Continue(h, IF extended THEN "dw" ELSE "delete")
    /\ UNCHANGED <<counts, memory, raw>>

(* delete this: with the normal lifetime the destructor leaves refs alone. *)
deleteThis(h) ==
    /\ pc[h] = "delete"
    /\ object' = FALSE
    /\ Continue(h, "dw")
    /\ UNCHANGED <<counts, refs, extended, raw>>

(* A wp<> is dropped, or decStrong or a failed promotion ends.  Dropping the  *)
(* last weak reference of an extended object deletes it, so the constructing  *)
(* thread does not do that while it uses the plain pointer.                   *)
decWeak(h) ==
    /\ \/ pc[h] = "dw"
       \/ pc[h] = "weak" /\ ~Copied(h) /\ (raw => Quiet /\ ~extended)
    /\ mWeak' = mWeak - 1
    /\ IF mWeak # 1
       THEN Return(h, "null")
       ELSE Continue(h, IF extended THEN "dw_delete" ELSE "dw_load")
    /\ UNCHANGED <<mStrong, memory, raw>>

(* delete impl, unless no strong reference was ever made. *)
deleteRefs(h) ==
    /\ pc[h] = "dw_load"
    /\ refs' = (mStrong = INITIAL_STRONG_VALUE /\ refs)
    /\ Return(h, "null")
    /\ UNCHANGED <<counts, object, extended, raw>>

(* Mutant: the destructor leaves refs alone in both lifetimes. *)
deleteBaseOnly(h) ==
    /\ pc[h] = "dw_delete"
    /\ object' = FALSE
    /\ Return(h, "null")
    /\ UNCHANGED <<counts, refs, extended, raw>>

(* onLastWeakRef and delete mBase, whose destructor deletes refs. *)
deleteBase(h) ==
    /\ pc[h] = "dw_delete"
    /\ object' = FALSE
    /\ refs' = (mWeak # 0 /\ refs)
    /\ Return(h, "null")
    /\ UNCHANGED <<counts, extended, raw>>

-----------------------------------------------------------------------------
(* The calls a client starts, and the steps of calls that are under way. *)
Call(h) ==
    \/ \E g \in Handles :
          \/ incStrong(h, g) \/ incStrongRequireStrong(h, g)
          \/ forceIncStrong(h, g) \/ createWeak(h, g)
          \/ attemptIncWeak(h, g) \/ attemptIncStrong(h, g)
    \/ decStrong(h)

Step(h) ==
    \/ incStrongAdd(h) \/ subtractInitial(h) \/ onFirstRef(h)
    \/ incStrongRequireStrongAdd(h) \/ forceIncStrongAdd(h)
    \/ attemptIncWeakLoad(h) \/ attemptIncWeakCas(h)
    \/ attemptIncStrongLoad(h) \/ attemptIncStrongCas(h)
    \/ attemptIncStrongFirst(h) \/ onIncStrongAttempted(h)
    \/ attemptIncStrongRevive(h) \/ attemptIncStrongExtra(h)
    \/ attemptIncStrongSubtract(h)
    \/ onLastStrongRef(h) \/ deleteThis(h) \/ decWeak(h)
    \/ deleteRefs(h) \/ deleteBase(h)

Next == relinquish \/ \E h \in Handles : Call(h) \/ Step(h)

Spec == Init /\ [][Next]_vars

(* A call that is under way goes on; nobody has to start or to drop one. *)
UnderWay(h) == pc[h] \notin {"strong", "weak"} /\ Step(h)

FairSpec == Spec /\ \A h \in Handles : WF_vars(UnderWay(h))

-----------------------------------------------------------------------------
(* Both counts are exact, whatever calls are under way: mWeak counts the     *)
(* instances that hold a reference of either kind and the calls that hold    *)
(* one for a while, mStrong the strong ones, with INITIAL_STRONG_VALUE on    *)
(* top exactly until the one call that found it has subtracted it.           *)
CountsAreExact ==
    LET subtracting == {h \in Handles : pc[h] \in {"is_sub", "fs_sub", "as_sub"}}
    IN  /\ mWeak = Cardinality(WeakHolders)
        /\ \/ /\ mStrong = Cardinality(StrongHolders)
              /\ subtracting = {}
           \/ /\ mStrong = INITIAL_STRONG_VALUE + Cardinality(StrongHolders)
              /\ IF StrongHolders = {} THEN TRUE
                 ELSE Cardinality(subtracting) = 1

(* Nothing is used after it was deleted: no step of a call, and no instance   *)
(* a client holds, meets a deleted weakref_impl; no callback, destructor or   *)
(* strong reference meets a deleted object, and with the extended lifetime    *)
(* no weak reference does either.                                             *)
SafeAccess ==
    /\ raw => object /\ refs
    /\ \A h \in Handles :
          /\ pc[h] # "null" => refs
          /\ \/ h \in StrongHolders
             \/ pc[h] \in {"last", "delete", "dw_delete", "as_ask", "rs_add"}
             \/ pc[h] # "null" /\ extended
             => object

(* No assertion and no fatal check of RefBase.cpp fires: increments meet the  *)
(* count they require, the subtraction finds the value it takes out, no       *)
(* decrement meets a corrupt count and the destructor finds no strong         *)
(* reference.                                                                 *)
ChecksHold ==
    \A h \in Handles :
        /\ pc[h] = "is_add" => mStrong > 0
        /\ pc[h] = "rs_add" => mStrong > 0 /\ mStrong # INITIAL_STRONG_VALUE
        /\ pc[h] \in {"is_sub", "fs_sub", "as_sub"}
              => mStrong > INITIAL_STRONG_VALUE
        /\ pc[h] = "strong" => ~BAD_STRONG(mStrong)
        /\ pc[h] \in {"strong", "weak", "dw"} => ~BAD_WEAK(mWeak)
        /\ pc[h] = "delete" => mStrong = 0

(* When the last instance is gone and no call is under way, the object and    *)
(* its weakref_impl have both been deleted; the one exception, which decWeak  *)
(* logs as a possible leak, is an object with the normal lifetime that never  *)
(* had a strong reference.                                                    *)
NoLeak ==
    (~raw /\ \A h \in Handles : pc[h] = "null")
        => \/ ~object /\ ~refs
           \/ ~extended /\ mStrong = INITIAL_STRONG_VALUE /\ object /\ refs

(* With the normal lifetime an object whose strong count has fallen to zero   *)
(* is never revived, neither by a promotion under way nor by a later one.     *)
DeadStaysDead == [][~extended /\ mStrong = 0 => mStrong' = 0]_vars

(* And it is then deleted, without waiting for any weak reference to go.      *)
DeadIsDeleted == (~extended /\ mStrong = 0) ~> ~object
=============================================================================
