--------------------------- MODULE RefBaseProofs ---------------------------
(***************************************************************************)
(* Proofs that the reference counts of RefBase.tla are safe for every       *)
(* number of sp<> and wp<> instances.  The inductive invariant says what    *)
(* every step of every call relies on: which instance keeps the object      *)
(* alive for it.                                                            *)
(***************************************************************************)
EXTENDS RefBase, TLAPS

(* The labels that hold a weak count, a strong count, and those that are     *)
(* about to take INITIAL_STRONG_VALUE out.                                   *)
WLabels == Labels \ {"null", "aw_load", "aw_cas", "dw_load", "dw_delete"}

SLabels == {"strong", "is_sub", "fs_sub", "first", "as_extra", "as_sub"}

Sub == {"is_sub", "fs_sub", "as_sub"}

(* Calls that rely on the instance they copy, by what they need of it. *)
OfAny == {"aw_load", "aw_cas", "fs_add", "as_load", "as_cas", "as_cas2",
          "as_ask", "as_add"}

Plain ==
    /\ mStrong = Cardinality(StrongHolders) /\ ~raw
    /\ \A h \in Handles : pc[h] \notin Sub

Armed ==
    /\ mStrong = INITIAL_STRONG_VALUE + Cardinality(StrongHolders)
    /\ raw => StrongHolders = {}
    /\ StrongHolders = {} \/ \E h \in Handles : pc[h] \in Sub
    /\ \A g, h \in Handles : pc[g] \in Sub /\ pc[h] \in Sub => g = h

Counted == mWeak = Cardinality(WeakHolders) /\ (Plain \/ Armed)

Sources ==
    \A h \in Handles :
        /\ pc[h] = "is_add" => raw \/ pc[src[h]] = "strong"
        /\ pc[h] = "rs_add" => pc[src[h]] = "strong"
        /\ pc[h] \in OfAny => pc[src[h]] \in {"strong", "weak"}

Alone ==
    raw => \A h \in Handles :
              /\ pc[h] \in {"null", "weak", "is_add", "dw_load"}
              /\ pc[h] = "is_add" => \A g \in Handles \ {h} :
                                        pc[g] \in {"null", "weak"}

LastWeak ==
    \A h \in Handles : pc[h] \in {"dw_load", "dw_delete"}
        => \A g \in Handles \ {h} : pc[g] = "null"

LastStrong ==
    ~extended => \A h \in Handles : pc[h] \in {"last", "delete"}
        => /\ mStrong = 0 /\ object
           /\ \A g \in Handles \ {h} : pc[g] \notin {"last", "delete"}

Lifetimes ==
    \A h \in Handles :
        /\ pc[h] \in {"as_ask", "as_add", "as_extra", "fs_add", "fs_sub",
                      "dw_delete"} => extended
        /\ pc[h] \in {"as_cas2", "delete", "dw_load"} => ~extended

CurCount ==
    \A h \in Handles :
        /\ pc[h] = "as_cas" => cur[h] > 0 /\ cur[h] # INITIAL_STRONG_VALUE
        /\ pc[h] = "as_cas2" => cur[h] > 0

Alive ==
    /\ raw => object /\ refs
    /\ \A h \in Handles : pc[h] # "null" => refs /\ (extended => object)
    /\ ~extended /\ ~object => mStrong = 0
    /\ ~extended /\ ~refs => mStrong = 0

Reclaimed ==
    /\ ~extended /\ mStrong = 0 /\ object
          => \E h \in Handles : pc[h] \in {"last", "delete"}
    /\ ~raw /\ (\A h \in Handles : pc[h] = "null")
          => IF extended THEN ~object /\ ~refs
             ELSE mStrong = INITIAL_STRONG_VALUE \/ ~refs

IInv ==
    /\ TypeOK /\ Counted /\ Sources /\ Alone /\ LastWeak /\ LastStrong
    /\ Lifetimes /\ CurCount /\ Alive /\ Reclaimed

-----------------------------------------------------------------------------
(* What the proofs use of the two constants of RefBase.cpp. *)
LEMMA Bounds ==
    /\ MAX_COUNT \in Nat /\ INITIAL_STRONG_VALUE \in Nat
    /\ 0 < MAX_COUNT /\ MAX_COUNT < INITIAL_STRONG_VALUE
  BY SMT DEF MAX_COUNT, INITIAL_STRONG_VALUE

(* What the proofs use of cardinalities; CountingHolds, below, takes it from  *)
(* the library.                                                               *)
Counting ==
    /\ Cardinality({}) = 0
    /\ \A x : Cardinality({x}) = 1
    /\ \A S : IsFiniteSet(S) =>
           /\ Cardinality(S) \in Nat
           /\ Cardinality(S) = 0 => S = {}
           /\ Cardinality(S) = 1 => \E x : S = {x}
           /\ \A T \in SUBSET S : IsFiniteSet(T) /\ Cardinality(T) <= Cardinality(S)
           /\ \A x : /\ Cardinality(S \cup {x})
                           = IF x \in S THEN Cardinality(S) ELSE Cardinality(S) + 1
                    /\ Cardinality(S \ {x})
                           = IF x \in S THEN Cardinality(S) - 1 ELSE Cardinality(S)

(* The holders are finitely many, so their cardinalities are numbers, and     *)
(* far below INITIAL_STRONG_VALUE.                                            *)
LEMMA Finite ==
    ASSUME Counting
    PROVE  /\ IsFiniteSet(WeakHolders) /\ IsFiniteSet(StrongHolders)
           /\ Cardinality(WeakHolders) \in 0..(MAX_COUNT - 1)
           /\ Cardinality(StrongHolders) \in 0..(MAX_COUNT - 1)
           /\ Cardinality(WeakHolders) = 0 <=> WeakHolders = {}
           /\ Cardinality(StrongHolders) = 0 <=> StrongHolders = {}
<1>1. WeakHolders \subseteq Handles /\ StrongHolders \subseteq Handles
  BY DEF WeakHolders, StrongHolders
<1>2. /\ IsFiniteSet(WeakHolders) /\ IsFiniteSet(StrongHolders)
      /\ Cardinality(WeakHolders) <= Cardinality(Handles)
      /\ Cardinality(StrongHolders) <= Cardinality(Handles)
  BY Zenon, <1>1, HandlesAssumption DEF Counting
<1>3. /\ Cardinality(WeakHolders) \in Nat /\ Cardinality(StrongHolders) \in Nat
      /\ Cardinality(WeakHolders) = 0 <=> WeakHolders = {}
      /\ Cardinality(StrongHolders) = 0 <=> StrongHolders = {}
  BY Zenon, <1>2 DEF Counting
<1> QED
  BY <1>2, <1>3, HandlesAssumption, Bounds

(* No instance but h moves. *)
Only(h) ==
    \A k \in Handles \ {h} : pc'[k] = pc[k] /\ src'[k] = src[k] /\ cur'[k] = cur[k]

(* A step of one instance changes the two cardinalities by what its old and   *)
(* its new label hold.                                                        *)
LEMMA Moves ==
    ASSUME Counting, TypeOK, TypeOK', NEW h \in Handles, Only(h)
    PROVE  /\ Cardinality(WeakHolders)' = Cardinality(WeakHolders)
                 + (IF pc'[h] \in WLabels THEN 1 ELSE 0)
                 - (IF pc[h] \in WLabels THEN 1 ELSE 0)
           /\ Cardinality(StrongHolders)' = Cardinality(StrongHolders)
                 + (IF pc'[h] \in SLabels THEN 1 ELSE 0)
                 - (IF pc[h] \in SLabels THEN 1 ELSE 0)
<1>1. /\ WeakHolders' = IF pc'[h] \in WLabels THEN WeakHolders \cup {h}
                        ELSE WeakHolders \ {h}
      /\ h \in WeakHolders <=> pc[h] \in WLabels
  BY DEF TypeOK, WeakHolders, WLabels, Only
<1>2. /\ StrongHolders' = IF pc'[h] \in SLabels THEN StrongHolders \cup {h}
                          ELSE StrongHolders \ {h}
      /\ h \in StrongHolders <=> pc[h] \in SLabels
  BY DEF TypeOK, StrongHolders, SLabels, Only
<1>3. /\ Cardinality(WeakHolders \cup {h})
            = IF h \in WeakHolders THEN Cardinality(WeakHolders)
              ELSE Cardinality(WeakHolders) + 1
      /\ Cardinality(WeakHolders \ {h})
            = IF h \in WeakHolders THEN Cardinality(WeakHolders) - 1
              ELSE Cardinality(WeakHolders)
  <2>1. IsFiniteSet(WeakHolders)
    BY Finite
  <2> QED
    BY Zenon, <2>1 DEF Counting
<1>4. /\ Cardinality(StrongHolders \cup {h})
            = IF h \in StrongHolders THEN Cardinality(StrongHolders)
              ELSE Cardinality(StrongHolders) + 1
      /\ Cardinality(StrongHolders \ {h})
            = IF h \in StrongHolders THEN Cardinality(StrongHolders) - 1
              ELSE Cardinality(StrongHolders)
  <2>1. IsFiniteSet(StrongHolders)
    BY Finite
  <2> QED
    BY Zenon, <2>1 DEF Counting
<1>5. Cardinality(WeakHolders) \in Int /\ Cardinality(StrongHolders) \in Int
  BY Finite
<1> QED
  BY <1>1, <1>2, <1>3, <1>4, <1>5

(* While an instance holds a reference the weak count is positive. *)
LEMMA HeldWeak ==
    ASSUME Counting, TypeOK, Counted, NEW h \in Handles, pc[h] \in WLabels
    PROVE  mWeak > 0
<1>1. WeakHolders # {}
  BY DEF WeakHolders, WLabels
<1> QED
  BY <1>1, Finite DEF Counted

(* A call under way keeps its source while that is neither dropped nor         *)
(* changed.                                                                   *)
LEMMA SourcesKept ==
    ASSUME Counting, TypeOK, TypeOK', Sources, NEW h \in Handles, Only(h),
           raw' = raw \/ \A k \in Handles \ {h} : pc[k] # "is_add",
           pc[h] \in {"strong", "weak"} => ~Copied(h),
           pc'[h] = "is_add" => raw' \/ (src'[h] # h /\ pc[src'[h]] = "strong"),
           pc'[h] = "rs_add" => src'[h] # h /\ pc[src'[h]] = "strong",
           pc'[h] \in OfAny => src'[h] # h /\ pc[src'[h]] \in {"strong", "weak"}
    PROVE  Sources'
<1> SUFFICES ASSUME NEW k \in Handles
             PROVE  /\ pc'[k] = "is_add" => raw' \/ pc'[src'[k]] = "strong"
                    /\ pc'[k] = "rs_add" => pc'[src'[k]] = "strong"
                    /\ pc'[k] \in OfAny => pc'[src'[k]] \in {"strong", "weak"}
  BY DEF Sources
<1>1. CASE k = h
  BY <1>1 DEF TypeOK, Only
<1>2. CASE k # h
  <2>1. pc'[k] = pc[k] /\ src'[k] = src[k] /\ src[k] \in Handles
    BY <1>2 DEF Only, TypeOK
  <2>2. CASE src[k] = h
    BY <1>2, <2>1, <2>2 DEF Copied, Sources, OfAny
  <2>3. CASE src[k] # h
    BY <2>1, <2>3 DEF Only, Sources, TypeOK
  <2> QED
    BY <2>2, <2>3
<1> QED
  BY <1>1, <1>2

(* Steps that only read a count, call back or start attemptIncWeak. *)
LEMMA ReadInv ==
    ASSUME Counting, IInv, NEW h \in Handles, NEW g \in Handles,
           \/ onFirstRef(h) \/ attemptIncWeak(h, g) \/ attemptIncWeakLoad(h)
           \/ attemptIncStrongLoad(h) \/ onIncStrongAttempted(h)
           \/ attemptIncStrongExtra(h) \/ onLastStrongRef(h)
    PROVE  IInv'
<1> USE DEF IInv, onFirstRef, attemptIncWeak, attemptIncWeakLoad,
        attemptIncStrongLoad, onIncStrongAttempted, attemptIncStrongExtra,
        onLastStrongRef, weakLoop, strongLoop, FromHeld, Return, Continue,
        Goto, counts, memory
<1>1. TypeOK' /\ Only(h)
  <2>1. pc' \in [Handles -> Labels]
    BY DEF TypeOK, Labels, Incrementing, Promoting, Decrementing
  <2>2. src' \in [Handles -> Handles] /\ cur' \in [Handles -> Int]
    BY DEF TypeOK
  <2>3. Only(h)
    BY DEF TypeOK, Only
  <2> QED
    BY Zenon, <2>1, <2>2, <2>3 DEF TypeOK
<1>2. Counted'
  <2>1. /\ pc'[h] \in WLabels <=> pc[h] \in WLabels
        /\ pc'[h] \in SLabels <=> pc[h] \in SLabels
    BY DEF TypeOK, WLabels, SLabels, Labels, Incrementing, Promoting,
           Decrementing
  <2>2. WeakHolders' = WeakHolders
    BY Zenon, <1>1, <2>1 DEF TypeOK, WeakHolders, WLabels, Only
  <2>3. StrongHolders' = StrongHolders /\ UNCHANGED <<mStrong, mWeak, raw>>
    BY Zenon, <1>1, <2>1 DEF TypeOK, StrongHolders, SLabels, Only
  <2> QED
    BY <1>1, <2>2, <2>3 DEF Counted, Plain, Armed, Sub, TypeOK, Only
<1>3. Sources'
  <2>1. pc'[h] \in OfAny => src'[h] # h /\ pc[src'[h]] \in {"strong", "weak"}
    BY DEF Sources, OfAny, TypeOK
  <2>2. /\ pc'[h] \notin {"is_add", "rs_add"} /\ raw' = raw
        /\ pc[h] \notin {"strong", "weak"}
    BY DEF TypeOK
  <2> QED
    BY Zenon, <1>1, <2>1, <2>2, SourcesKept
<1>4. Alone' /\ LastWeak'
  BY DEF Alone, LastWeak, TypeOK
<1>5. LastStrong'
  BY DEF LastStrong, TypeOK
<1>6. Lifetimes'
  BY DEF Lifetimes, TypeOK
<1>7. CurCount'
  BY Bounds DEF CurCount, TypeOK
<1>8. Alive'
  BY DEF Alive, TypeOK
<1>9. Reclaimed'
  <2>1. pc[h] = "aw_load" => mWeak > 0
    BY Zenon, HeldWeak DEF Sources, OfAny, TypeOK, WLabels, Labels
  <2> QED
    BY <2>1 DEF Reclaimed, TypeOK
<1> QED
  BY Zenon, <1>1, <1>2, <1>3, <1>4, <1>5, <1>6, <1>7, <1>8, <1>9

(* The first step of a call that acquires a reference. *)
LEMMA StartInv ==
    ASSUME Counting, IInv, NEW h \in Handles, NEW g \in Handles,
           \/ incStrong(h, g) \/ incStrongRequireStrong(h, g)
           \/ forceIncStrong(h, g) \/ createWeak(h, g)
           \/ attemptIncStrong(h, g)
    PROVE  IInv'
<1> USE DEF IInv, incStrong, incStrongRequireStrong, forceIncStrong,
        createWeak, attemptIncStrong, incWeak, FromRaw, FromHeld, Quiet, Goto,
        memory
<1>1. TypeOK' /\ Only(h)
  <2>1. pc' \in [Handles -> Labels]
    BY DEF TypeOK, Labels, Incrementing, Promoting, Decrementing
  <2>2. src' \in [Handles -> Handles] /\ Only(h)
    BY DEF TypeOK, Only
  <2> QED
    BY <2>1, <2>2 DEF TypeOK
<1>2. Counted'
  <2>1. /\ pc'[h] \in WLabels /\ pc[h] \notin WLabels
        /\ pc'[h] \notin SLabels /\ pc[h] \notin SLabels
    BY DEF TypeOK, WLabels, SLabels, Labels, Incrementing, Promoting,
           Decrementing
  <2>2. /\ Cardinality(WeakHolders)' = Cardinality(WeakHolders) + 1
        /\ Cardinality(StrongHolders)' = Cardinality(StrongHolders)
    BY <1>1, <2>1, Moves, Finite
  <2>3. StrongHolders' = StrongHolders
    BY Zenon, <1>1, <2>1 DEF TypeOK, StrongHolders, SLabels, Only
  <2> QED
    BY <1>1, <2>2, <2>3 DEF Counted, Plain, Armed, Sub, TypeOK, Only
<1>3. Sources'
  <2>1. /\ pc'[h] = "is_add" => raw' \/ (src'[h] # h /\ pc[src'[h]] = "strong")
        /\ pc'[h] = "rs_add" => src'[h] # h /\ pc[src'[h]] = "strong"
        /\ pc'[h] \in OfAny => src'[h] # h /\ pc[src'[h]] \in {"strong", "weak"}
    BY DEF OfAny, TypeOK
  <2>2. raw' = raw /\ pc[h] \notin {"strong", "weak"}
    OBVIOUS
  <2> QED
    BY Zenon, <1>1, <2>1, <2>2, SourcesKept
<1>4. Alone' /\ LastWeak'
  BY DEF Alone, LastWeak, TypeOK
<1>5. LastStrong'
  BY DEF LastStrong, TypeOK
<1>6. Lifetimes' /\ CurCount'
  BY DEF Lifetimes, CurCount, TypeOK
<1>7. Alive'
  BY DEF Alive, TypeOK
<1>8. Reclaimed'
  BY DEF Reclaimed, TypeOK
<1> QED
  BY Zenon, <1>1, <1>2, <1>3, <1>4, <1>5, <1>6, <1>7, <1>8

(* The last read-modify-write of a weak acquisition. *)
LEMMA WeakCasInv ==
    ASSUME Counting, IInv, NEW h \in Handles, attemptIncWeakCas(h)
    PROVE  IInv'
<1> USE DEF IInv, attemptIncWeakCas, weakLoop, Return, Goto, memory
<1>0. mWeak > 0
  BY HeldWeak DEF Sources, OfAny, TypeOK, WLabels, Labels
<1>1. TypeOK' /\ Only(h)
  <2>1. pc' \in [Handles -> Labels]
    BY DEF TypeOK, Labels
  <2>2. src' \in [Handles -> Handles] /\ cur' \in [Handles -> Int] /\ Only(h)
    BY DEF TypeOK, Only
  <2> QED
    BY <2>1, <2>2 DEF TypeOK
<1>2. Counted'
  <2>1. /\ pc[h] \notin WLabels /\ pc'[h] \notin SLabels /\ pc[h] \notin SLabels
        /\ mWeak' = mWeak + (IF pc'[h] \in WLabels THEN 1 ELSE 0)
    BY <1>0 DEF TypeOK, WLabels, SLabels, Labels, Incrementing, Promoting,
           Decrementing
  <2>2. /\ Cardinality(WeakHolders)' = Cardinality(WeakHolders)
              + (IF pc'[h] \in WLabels THEN 1 ELSE 0)
        /\ Cardinality(StrongHolders)' = Cardinality(StrongHolders)
    BY <1>1, <2>1, Moves, Finite
  <2>3. StrongHolders' = StrongHolders
    BY <1>1, <2>1 DEF TypeOK, StrongHolders, SLabels, Only
  <2>4. mStrong' = mStrong /\ raw' = raw
    OBVIOUS
  <2>5. pc'[h] \notin Sub /\ pc[h] \notin Sub
    BY DEF Sub, TypeOK
  <2> QED
    BY <1>1, <2>1, <2>2, <2>3, <2>4, <2>5 DEF Counted, Plain, Armed, Only
<1>3. Sources'
  <2>1. pc'[h] \in OfAny => src'[h] # h /\ pc[src'[h]] \in {"strong", "weak"}
    BY DEF Sources, OfAny, TypeOK
  <2>2. /\ pc'[h] \notin {"is_add", "rs_add"} /\ raw' = raw
        /\ pc[h] \notin {"strong", "weak"}
    BY DEF TypeOK
  <2> QED
    BY <1>1, <2>1, <2>2, SourcesKept
<1>4. Alone' /\ LastWeak'
  BY DEF Alone, LastWeak, TypeOK, Sources, OfAny
<1>5. LastStrong'
  BY DEF LastStrong, TypeOK
<1>6. Lifetimes' /\ CurCount'
  BY DEF Lifetimes, CurCount, TypeOK
<1>7. Alive'
  BY DEF Alive, TypeOK
<1>8. Reclaimed'
  BY <1>0 DEF Reclaimed, TypeOK
<1> QED
  BY Zenon, <1>1, <1>2, <1>3, <1>4, <1>5, <1>6, <1>7, <1>8

-----------------------------------------------------------------------------
(* While an instance has a strong count, the count is positive, it is not the *)
(* untouched initial value, the object exists and the constructing thread is  *)
(* no longer alone.                                                           *)
LEMMA HeldStrong ==
    ASSUME Counting, IInv, NEW h \in Handles, pc[h] \in SLabels
    PROVE  mStrong > 0 /\ mStrong # INITIAL_STRONG_VALUE /\ object /\ ~raw
<1>1. StrongHolders # {}
  BY DEF StrongHolders, SLabels
<1>2. mStrong > 0 /\ mStrong # INITIAL_STRONG_VALUE
  BY <1>1, Finite, Bounds DEF IInv, Counted, Plain, Armed
<1>3. ~raw
  BY DEF IInv, Alone, SLabels
<1>4. object
  BY <1>2 DEF IInv, Alive, SLabels
<1> QED
  BY <1>2, <1>3, <1>4

(* One more strong reference.  The call that finds the untouched initial       *)
(* value, and only that one, goes on to subtract it.                           *)
LEMMA AddCounted ==
    ASSUME Counting, TypeOK, TypeOK', Counted, NEW h \in Handles, Only(h),
           pc[h] \in WLabels, pc[h] \notin SLabels, pc'[h] \in SLabels,
           mWeak' = mWeak, mStrong' = mStrong + 1, raw' = FALSE,
           pc'[h] \in Sub <=> mStrong = INITIAL_STRONG_VALUE
    PROVE  Counted'
<1>1. pc'[h] \in WLabels /\ pc[h] \notin Sub
  BY DEF WLabels, SLabels, Sub, Labels, Incrementing, Promoting, Decrementing
<1>2. /\ Cardinality(WeakHolders)' = Cardinality(WeakHolders)
      /\ Cardinality(StrongHolders)' = Cardinality(StrongHolders) + 1
  BY <1>1, Moves, Finite
<1>3. CASE Plain
  BY <1>1, <1>2, <1>3, Finite, Bounds DEF Counted, Plain, Only
<1>4. CASE Armed
  <2>1. CASE mStrong = INITIAL_STRONG_VALUE
    <3>1. StrongHolders = {}
      BY <1>4, <2>1, Finite, Bounds DEF Armed
    <3>2. \A k \in Handles : pc[k] \notin Sub
      BY <3>1 DEF StrongHolders, Sub
    <3>3. pc'[h] \in Sub /\ \A k \in Handles \ {h} : pc'[k] \notin Sub
      BY <2>1, <3>2 DEF Only
    <3>4. mStrong' = INITIAL_STRONG_VALUE + Cardinality(StrongHolders)'
      BY <1>2, <1>4, Finite, Bounds DEF Armed
    <3>5. Armed'
      BY <3>3, <3>4 DEF Armed
    <3> QED
      BY Zenon, <1>2, <3>5 DEF Counted
  <2>2. CASE mStrong # INITIAL_STRONG_VALUE
    <3>1. PICK k \in Handles : pc[k] \in Sub
      BY <1>4, <2>2, Finite, Bounds DEF Armed
    <3>2. k # h /\ pc'[k] \in Sub /\ pc'[h] \notin Sub
      BY <1>1, <2>2, <3>1 DEF Only
    <3>3. \A g, j \in Handles : pc'[g] \in Sub /\ pc'[j] \in Sub => g = j
      BY <1>4, <3>2 DEF Armed, Only
    <3>4. mStrong' = INITIAL_STRONG_VALUE + Cardinality(StrongHolders)'
      BY <1>2, <1>4, Finite, Bounds DEF Armed
    <3>5. Armed'
      BY <3>2, <3>3, <3>4 DEF Armed
    <3> QED
      BY <1>2, <3>5 DEF Counted
  <2> QED
    BY <2>1, <2>2
<1> QED
  BY <1>3, <1>4 DEF Counted

(* The step that adds to mStrong in every call that acquires a strong         *)
(* reference.                                                                 *)
LEMMA AddInv ==
    ASSUME Counting, IInv, TypeOK', NEW h \in Handles, Only(h),
           pc[h] \in {"is_add", "rs_add", "fs_add", "as_cas", "as_cas2", "as_add"},
           pc'[h] \in SLabels, pc'[h] \in {"as_extra", "fs_sub"} => extended,
           pc'[h] \in Sub <=> mStrong = INITIAL_STRONG_VALUE,
           ~extended => mStrong > 0,
           mStrong' = mStrong + 1, raw' = FALSE,
           UNCHANGED <<mWeak, object, refs, extended>>
    PROVE  IInv'
<1> USE DEF IInv
<1>1. Counted'
  BY Zenon, AddCounted DEF WLabels, SLabels, Labels, Incrementing, Promoting
<1>2. Sources'
  <2>1. raw' = raw \/ \A k \in Handles \ {h} : pc[k] # "is_add"
    BY DEF Alone, TypeOK
  <2>2. /\ pc'[h] \notin {"is_add", "rs_add"} /\ pc'[h] \notin OfAny
        /\ pc[h] \notin {"strong", "weak"}
    BY DEF SLabels, OfAny
  <2> QED
    BY <2>1, <2>2, SourcesKept
<1>3. Alone'
  BY DEF Alone
<1>4. LastWeak'
  BY DEF LastWeak, SLabels, Only
<1>5. LastStrong'
  BY DEF LastStrong, SLabels, Only
<1>6. Lifetimes' /\ CurCount'
  BY DEF Lifetimes, CurCount, SLabels, Only
<1>7. Alive'
  BY DEF Alive, SLabels, Only
<1>8. Reclaimed'
  BY DEF Reclaimed, SLabels, TypeOK
<1> QED
  BY <1>1, <1>2, <1>3, <1>4, <1>5, <1>6, <1>7, <1>8

(* A compare_exchange_weak on mStrong that fails: the call retries, asks or    *)
(* gives up.                                                                  *)
LEMMA RetryInv ==
    ASSUME Counting, IInv, TypeOK', NEW h \in Handles, Only(h),
           pc[h] \in {"as_cas", "as_cas2"},
           pc'[h] \in {"as_cas", "as_cas2", "as_ask", "dw"}, src'[h] = src[h],
           pc'[h] = "as_cas" => cur'[h] > 0 /\ cur'[h] # INITIAL_STRONG_VALUE,
           pc'[h] = "as_cas2" => cur'[h] > 0 /\ ~extended,
           pc'[h] = "as_ask" => extended,
           UNCHANGED <<mStrong, mWeak, raw, object, refs, extended>>
    PROVE  IInv'
<1> USE DEF IInv
<1>1. Counted'
  <2>1. /\ pc[h] \in WLabels /\ pc'[h] \in WLabels
        /\ pc[h] \notin SLabels /\ pc'[h] \notin SLabels
    BY Zenon DEF WLabels, SLabels, Labels, Incrementing, Promoting, Decrementing
  <2>2. /\ Cardinality(WeakHolders)' = Cardinality(WeakHolders)
        /\ Cardinality(StrongHolders)' = Cardinality(StrongHolders)
    BY <2>1, Moves, Finite
  <2>3. StrongHolders' = StrongHolders
    BY <2>1 DEF StrongHolders, SLabels, Only
  <2>4. pc[h] \notin Sub /\ pc'[h] \notin Sub
    BY Zenon DEF Sub
  <2> QED
    BY Zenon, <2>2, <2>3, <2>4 DEF Counted, Plain, Armed, Only
<1>2. Sources'
  <2>1. pc'[h] \in OfAny => src'[h] # h /\ pc[src'[h]] \in {"strong", "weak"}
    BY Zenon DEF Sources, OfAny, TypeOK
  <2> QED
    BY <2>1, SourcesKept
<1>3. Alone' /\ LastWeak'
  BY Zenon DEF Alone, LastWeak, Only
<1>4. LastStrong'
  BY DEF LastStrong, Only
<1>5. Lifetimes' /\ CurCount'
  BY Zenon DEF Lifetimes, CurCount, Only
<1>6. Alive'
  BY DEF Alive, Only
<1>7. Reclaimed'
  BY Zenon DEF Reclaimed, Only
<1> QED
  BY Zenon, <1>1, <1>2, <1>3, <1>4, <1>5, <1>6, <1>7

-----------------------------------------------------------------------------
(* The calls that acquire a strong reference, step by step. *)
LEMMA AddStepInv ==
    ASSUME Counting, IInv, NEW h \in Handles,
           \/ incStrongAdd(h) \/ incStrongRequireStrongAdd(h)
           \/ forceIncStrongAdd(h) \/ attemptIncStrongCas(h)
           \/ attemptIncStrongFirst(h) \/ attemptIncStrongRevive(h)
    PROVE  IInv'
<1> USE DEF IInv, Return, Continue, Goto, memory
<1>1. TypeOK' /\ Only(h)
  <2> USE DEF incStrongAdd, incStrongRequireStrongAdd, forceIncStrongAdd,
          attemptIncStrongCas, attemptIncStrongFirst, attemptIncStrongRevive,
          strongLoop
  <2>1. pc' \in [Handles -> Labels]
    BY DEF TypeOK, Labels, Incrementing, Promoting, Decrementing
  <2>2. src' \in [Handles -> Handles] /\ cur' \in [Handles -> Int]
    BY DEF TypeOK
  <2>3. mStrong' \in Nat /\ mWeak' \in Nat
    BY DEF TypeOK
  <2>4. Only(h)
    BY DEF TypeOK, Only
  <2> QED
    BY Zenon, <2>1, <2>2, <2>3, <2>4 DEF TypeOK
<1>2. CASE incStrongAdd(h)
  <2>1. raw => mStrong = INITIAL_STRONG_VALUE
    BY Finite, Bounds DEF Counted, Plain, Armed
  <2>2. mStrong > 0
    BY <1>2, <2>1, HeldStrong, Bounds DEF incStrongAdd, Sources, SLabels, TypeOK
  <2>3. /\ pc[h] = "is_add" /\ mStrong' = mStrong + 1 /\ raw' = FALSE
        /\ UNCHANGED <<mWeak, object, refs, extended>>
        /\ pc'[h] = IF mStrong = INITIAL_STRONG_VALUE THEN "is_sub" ELSE "strong"
    BY <1>2 DEF incStrongAdd, TypeOK
  <2> QED
    BY Zenon, <1>1, <2>2, <2>3, AddInv DEF SLabels, Sub
<1>3. CASE incStrongRequireStrongAdd(h)
  <2>1. mStrong > 0 /\ mStrong # INITIAL_STRONG_VALUE /\ ~raw
    BY Zenon, <1>3, HeldStrong
       DEF incStrongRequireStrongAdd, Sources, SLabels, TypeOK
  <2>2. /\ pc[h] = "rs_add" /\ mStrong' = mStrong + 1 /\ raw' = raw
        /\ UNCHANGED <<mWeak, object, refs, extended>> /\ pc'[h] = "strong"
    BY <1>3 DEF incStrongRequireStrongAdd, TypeOK
  <2> QED
    BY Zenon, <1>1, <2>1, <2>2, AddInv DEF SLabels, Sub, TypeOK
<1>4. CASE forceIncStrongAdd(h)
  <2>1. /\ pc[h] = "fs_add" /\ mStrong' = mStrong + 1 /\ raw' = raw
        /\ UNCHANGED <<mWeak, object, refs, extended>>
        /\ \/ mStrong = INITIAL_STRONG_VALUE /\ pc'[h] = "fs_sub"
           \/ mStrong # INITIAL_STRONG_VALUE /\ pc'[h] \in {"first", "strong"}
    BY <1>4, Bounds DEF forceIncStrongAdd, TypeOK
  <2>2. extended /\ ~raw
    BY Zenon, <2>1 DEF Lifetimes, Alone
  <2> QED
    BY Zenon, <1>1, <2>1, <2>2, AddInv DEF SLabels, Sub, TypeOK
<1>5. CASE attemptIncStrongCas(h)
  <2>1. pc[h] = "as_cas" /\ UNCHANGED <<mWeak, object, refs, extended, raw>>
    BY <1>5 DEF attemptIncStrongCas
  <2>2. ~raw
    BY <2>1 DEF Alone
  <2>3. CASE mStrong = cur[h] /\ mStrong' = mStrong + 1 /\ Return(h, "strong")
    <3>1. pc'[h] = "strong" /\ mStrong > 0 /\ mStrong # INITIAL_STRONG_VALUE
      BY Zenon, <2>1, <2>3 DEF CurCount, TypeOK
    <3> QED
      BY Zenon, <1>1, <2>1, <2>2, <2>3, <3>1, AddInv DEF SLabels, Sub, TypeOK
  <2>4. CASE strongLoop(h, mStrong) /\ UNCHANGED mStrong
    <3>1. /\ pc'[h] \in {"as_cas", "as_cas2", "as_ask", "dw"}
          /\ src'[h] = src[h]
          /\ pc'[h] = "as_cas" => cur'[h] > 0 /\ cur'[h] # INITIAL_STRONG_VALUE
          /\ pc'[h] = "as_cas2" => cur'[h] > 0 /\ ~extended
          /\ pc'[h] = "as_ask" => extended
      BY <2>4, Bounds DEF strongLoop, TypeOK
    <3> QED
      BY Zenon, <1>1, <2>1, <2>4, <3>1, RetryInv
  <2> QED
    BY Zenon, <1>5, <2>3, <2>4 DEF attemptIncStrongCas
<1>6. CASE attemptIncStrongFirst(h)
  <2>1. pc[h] = "as_cas2" /\ UNCHANGED <<mWeak, object, refs, extended, raw>>
    BY Zenon, <1>6 DEF attemptIncStrongFirst
  <2>2. ~raw /\ ~extended /\ cur[h] > 0
    BY <2>1 DEF Alone, Lifetimes, CurCount
  <2>3. CASE mStrong' # mStrong
    <3>1. /\ mStrong = cur[h] /\ mStrong' = mStrong + 1
          /\ pc'[h] = IF mStrong = INITIAL_STRONG_VALUE THEN "as_sub"
                      ELSE "strong"
      BY <1>6, <2>3 DEF attemptIncStrongFirst, TypeOK
    <3> QED
      BY Zenon, <1>1, <2>1, <2>2, <3>1, AddInv DEF SLabels, Sub, TypeOK
  <2>4. CASE mStrong' = mStrong
    <3>1. /\ pc'[h] = IF mStrong > 0 THEN "as_cas2" ELSE "dw"
          /\ cur'[h] = mStrong /\ src'[h] = src[h]
      BY <1>6, <2>4 DEF attemptIncStrongFirst, TypeOK
    <3> QED
      BY Zenon, <1>1, <2>1, <2>2, <2>4, <3>1, RetryInv
  <2> QED
    BY Zenon, <2>3, <2>4
<1>7. CASE attemptIncStrongRevive(h)
  <2>1. /\ pc[h] = "as_add" /\ mStrong' = mStrong + 1 /\ raw' = raw
        /\ UNCHANGED <<mWeak, object, refs, extended>>
        /\ \/ mStrong = INITIAL_STRONG_VALUE /\ pc'[h] = "as_sub"
           \/ mStrong # INITIAL_STRONG_VALUE /\ pc'[h] \in {"as_extra", "strong"}
    BY <1>7, Bounds DEF attemptIncStrongRevive, TypeOK
  <2>2. extended /\ ~raw
    BY Zenon, <2>1 DEF Lifetimes, Alone
  <2> QED
    BY Zenon, <1>1, <2>1, <2>2, AddInv DEF SLabels, Sub, TypeOK
<1> QED
  BY <1>2, <1>3, <1>4, <1>5, <1>6, <1>7

(* The call that found the initial value takes it out of the count. *)
LEMMA SubtractInv ==
    ASSUME Counting, IInv, NEW h \in Handles,
           subtractInitial(h) \/ attemptIncStrongSubtract(h)
    PROVE  IInv'
<1> USE DEF IInv, subtractInitial, attemptIncStrongSubtract, Return, Continue,
        Goto, memory
<1>1. pc[h] \in Sub /\ pc[h] \in SLabels /\ pc'[h] \in {"first", "strong"}
  BY Zenon DEF Sub, SLabels, TypeOK
<1>2. /\ mStrong = INITIAL_STRONG_VALUE + Cardinality(StrongHolders)
      /\ mStrong' = Cardinality(StrongHolders) /\ ~raw /\ mStrong > 0
      /\ \A k \in Handles \ {h} : pc[k] \notin Sub
  BY <1>1, HeldStrong, Finite, Bounds DEF Counted, Plain, Armed
<1>3. StrongHolders # {}
  BY Zenon, <1>1 DEF StrongHolders, SLabels
<1>4. mStrong' \in Nat /\ mStrong' > 0
  BY <1>2, <1>3, Finite
<1>5. TypeOK' /\ Only(h)
  <2>1. pc' \in [Handles -> Labels]
    BY Zenon DEF TypeOK, Labels, Incrementing
  <2>2. src' \in [Handles -> Handles] /\ cur' \in [Handles -> Int] /\ Only(h)
    BY DEF TypeOK, Only
  <2> QED
    BY Zenon, <1>4, <2>1, <2>2 DEF TypeOK
<1>6. Counted'
  <2>1. /\ pc[h] \in WLabels /\ pc'[h] \in WLabels
        /\ pc[h] \in SLabels /\ pc'[h] \in SLabels /\ pc'[h] \notin Sub
    BY Zenon, <1>1 DEF WLabels, SLabels, Sub, Labels, Incrementing, Promoting,
                Decrementing
  <2>2. /\ Cardinality(WeakHolders)' = Cardinality(WeakHolders)
        /\ Cardinality(StrongHolders)' = Cardinality(StrongHolders)
    BY <1>5, <2>1, Moves, Finite
  <2>3. raw' = raw /\ mWeak' = mWeak
    BY Zenon
  <2> QED
    BY Zenon, <1>2, <1>5, <2>1, <2>2, <2>3 DEF Counted, Plain, Only
<1>7. Sources'
  <2>1. /\ pc'[h] \notin {"is_add", "rs_add"} /\ pc'[h] \notin OfAny
        /\ pc[h] \notin {"strong", "weak"} /\ raw' = raw
    BY Zenon, <1>1 DEF Sub, OfAny
  <2> QED
    BY Zenon, <1>5, <2>1, SourcesKept
<1>8. Alone' /\ LastWeak'
  BY <1>1, <1>2, <1>5 DEF Alone, LastWeak, Only
<1>9. LastStrong'
  BY <1>1, <1>2, <1>5 DEF LastStrong, Only
<1>10. Lifetimes' /\ CurCount'
  BY <1>1, <1>5 DEF Lifetimes, CurCount, Only
<1>11. Alive'
  BY <1>1, <1>2, <1>5 DEF Alive, Sub, Only
<1>12. Reclaimed'
  BY <1>1, <1>4, <1>5 DEF Reclaimed, Only
<1> QED
  BY Zenon, <1>5, <1>6, <1>7, <1>8, <1>9, <1>10, <1>11, <1>12

-----------------------------------------------------------------------------
(* decStrong: whoever brings the count to zero runs onLastStrongRef. *)
LEMMA DecStrongInv ==
    ASSUME Counting, IInv, NEW h \in Handles, decStrong(h)
    PROVE  IInv'
<1> USE DEF IInv, decStrong, Continue, Goto, memory
<1>1. /\ pc[h] = "strong" /\ pc'[h] = IF mStrong = 1 THEN "last" ELSE "dw"
      /\ mStrong > 0 /\ mStrong' = mStrong - 1 /\ object /\ ~raw
  BY Zenon, HeldStrong DEF SLabels, TypeOK
<1>2. TypeOK' /\ Only(h)
  <2>1. pc' \in [Handles -> Labels]
    BY DEF TypeOK, Labels, Decrementing
  <2>2. mStrong' \in Nat /\ Only(h)
    BY <1>1 DEF TypeOK, Only
  <2> QED
    BY Zenon, <2>1, <2>2 DEF TypeOK
<1>3. Counted'
  <2>1. /\ pc[h] \in WLabels /\ pc'[h] \in WLabels
        /\ pc[h] \in SLabels /\ pc'[h] \notin SLabels
        /\ pc[h] \notin Sub /\ pc'[h] \notin Sub
    BY <1>1 DEF WLabels, SLabels, Sub, Labels, Decrementing
  <2>2. /\ Cardinality(WeakHolders)' = Cardinality(WeakHolders)
        /\ Cardinality(StrongHolders)' = Cardinality(StrongHolders) - 1
    BY <1>2, <2>1, Moves, Finite
  <2>3. raw' = raw /\ mWeak' = mWeak
    BY Zenon
  <2>4. CASE Plain
    BY <1>1, <1>2, <2>1, <2>2, <2>3, <2>4, Finite DEF Counted, Plain, Only
  <2>5. CASE Armed
    <3>1. mStrong' = INITIAL_STRONG_VALUE + Cardinality(StrongHolders)'
      BY <1>1, <2>2, <2>5, Finite, Bounds DEF Armed
    <3>2. StrongHolders # {}
      BY <1>1 DEF StrongHolders
    <3>3. PICK k \in Handles : pc[k] \in Sub
      BY Zenon, <2>5, <3>2 DEF Armed
    <3>4. pc'[k] \in Sub
      BY Zenon, <1>2, <2>1, <3>3 DEF Only
    <3>5. \A g, j \in Handles : pc'[g] \in Sub /\ pc'[j] \in Sub => g = j
      BY Zenon, <1>2, <2>1, <2>5 DEF Armed, Only
    <3> QED
      BY <1>1, <2>2, <2>3, <3>1, <3>4, <3>5 DEF Counted, Armed
  <2> QED
    BY Zenon, <2>4, <2>5 DEF Counted
<1>4. Sources'
  <2>1. /\ pc'[h] \notin {"is_add", "rs_add"} /\ pc'[h] \notin OfAny
        /\ ~Copied(h) /\ raw' = raw
    BY <1>1 DEF OfAny
  <2> QED
    BY <1>2, <2>1, SourcesKept
<1>5. Alone' /\ LastWeak'
  BY <1>1, <1>2 DEF Alone, LastWeak, Only
<1>6. LastStrong'
  BY <1>1, <1>2 DEF LastStrong, Only
<1>7. Lifetimes' /\ CurCount'
  BY <1>1, <1>2 DEF Lifetimes, CurCount, Only
<1>8. Alive'
  BY Zenon, <1>1, <1>2 DEF Alive, Only
<1>9. Reclaimed'
  BY <1>1, <1>2 DEF Reclaimed, Only, TypeOK
<1> QED
  BY Zenon, <1>2, <1>3, <1>4, <1>5, <1>6, <1>7, <1>8, <1>9

(* decWeak: whoever brings the count to zero is the only one left. *)
LEMMA DecWeakInv ==
    ASSUME Counting, IInv, NEW h \in Handles, decWeak(h)
    PROVE  IInv'
<1> USE DEF IInv, decWeak, Return, Continue, Goto, memory
<1>1. /\ pc[h] \in {"weak", "dw"} /\ (pc[h] = "weak" => ~Copied(h))
      /\ pc'[h] = IF mWeak # 1 THEN "null"
                  ELSE IF extended THEN "dw_delete" ELSE "dw_load"
      /\ mWeak' = mWeak - 1 /\ UNCHANGED <<mStrong, object, refs, extended, raw>>
      /\ raw => Quiet /\ ~extended
  BY DEF TypeOK, Alone
<1>2. mWeak > 0
  BY Zenon, <1>1, HeldWeak DEF WLabels, Labels, Decrementing
<1>3. TypeOK' /\ Only(h)
  <2>1. pc' \in [Handles -> Labels]
    BY DEF TypeOK, Labels, Decrementing
  <2>2. src' \in [Handles -> Handles] /\ cur' \in [Handles -> Int] /\ Only(h)
    BY DEF TypeOK, Only
  <2>3. mWeak' \in Nat
    BY <1>1, <1>2 DEF TypeOK
  <2> QED
    BY Zenon, <1>1, <2>1, <2>2, <2>3 DEF TypeOK
<1>4. /\ pc[h] \in WLabels /\ pc'[h] \notin WLabels
      /\ pc[h] \notin SLabels /\ pc'[h] \notin SLabels
      /\ pc[h] \notin Sub /\ pc'[h] \notin Sub
  BY Zenon, <1>1 DEF WLabels, SLabels, Sub, Labels, Decrementing
<1>5. /\ Cardinality(WeakHolders)' = Cardinality(WeakHolders) - 1
      /\ Cardinality(StrongHolders)' = Cardinality(StrongHolders)
  BY <1>3, <1>4, Moves, Finite
<1>6. Counted'
  <2>1. StrongHolders' = StrongHolders
    BY Zenon, <1>3, <1>4 DEF StrongHolders, SLabels, Only
  <2> QED
    BY <1>1, <1>3, <1>4, <1>5, <2>1 DEF Counted, Plain, Armed, Only
<1>7. mWeak = 1 => \A k \in Handles \ {h} : pc[k] = "null"
  <2> SUFFICES ASSUME mWeak = 1, NEW k \in Handles \ {h}
               PROVE  pc[k] = "null"
    BY Zenon
  <2>1. \A j \in Handles \ {h} : pc[j] \notin WLabels
    <3>0. IsFiniteSet(WeakHolders) /\ Cardinality(WeakHolders) = 1
      BY Zenon, Finite DEF Counted
    <3>1. PICK x : WeakHolders = {x}
      BY Zenon, <3>0 DEF Counting
    <3> QED
      BY <1>4, <3>1 DEF WeakHolders, WLabels, TypeOK
  <2>2. pc[k] \in {"null", "aw_load", "aw_cas", "dw_load", "dw_delete"}
    BY Zenon, <2>1 DEF WLabels, TypeOK
  <2>3. pc[k] \notin {"dw_load", "dw_delete"}
    BY Zenon, <1>1 DEF LastWeak
  <2>4. pc[k] \notin {"aw_load", "aw_cas"}
    <3> SUFFICES ASSUME pc[k] \in {"aw_load", "aw_cas"} PROVE FALSE
      BY Zenon
    <3>1. src[k] \in Handles /\ pc[src[k]] \in {"strong", "weak"}
      BY DEF Sources, OfAny, TypeOK
    <3>2. src[k] = h
      BY Zenon, <2>1, <3>1 DEF WLabels, Labels
    <3> QED
      BY Zenon, <1>1, <3>1, <3>2 DEF Copied
  <2> QED
    BY Zenon, <2>2, <2>3, <2>4
<1>8. Sources'
  <2>1. /\ pc'[h] \notin {"is_add", "rs_add"} /\ pc'[h] \notin OfAny
        /\ pc[h] \in {"strong", "weak"} => ~Copied(h)
        /\ raw' = raw
    BY Zenon, <1>1 DEF OfAny
  <2> QED
    BY Zenon, <1>3, <2>1, SourcesKept
<1>9. Alone'
  BY <1>1, <1>3 DEF Alone, Quiet, Only
<1>10. LastWeak'
  BY Zenon, <1>1, <1>3, <1>7 DEF LastWeak, Only
<1>11. LastStrong'
  BY <1>1, <1>3 DEF LastStrong, Only
<1>12. Lifetimes' /\ CurCount'
  BY <1>1, <1>3 DEF Lifetimes, CurCount, Only
<1>13. Alive'
  BY <1>1, <1>3 DEF Alive, Only
<1>14. Reclaimed'
  <2>1. mWeak # 1 => \E k \in Handles \ {h} : pc[k] # "null"
    <3> SUFFICES ASSUME mWeak # 1, \A k \in Handles \ {h} : pc[k] = "null"
                 PROVE  FALSE
      BY Zenon
    <3>1. WeakHolders' = {}
      BY Zenon, <1>3, <1>4 DEF WeakHolders, WLabels, Only, TypeOK
    <3>2. Cardinality(WeakHolders)' = 0
      BY Zenon, <3>1 DEF Counting
    <3> QED
      BY <1>2, <1>5, <3>2 DEF Counted, TypeOK
  <2> QED
    BY <1>1, <1>3, <2>1 DEF Reclaimed, Only
<1> QED
  BY Zenon, <1>3, <1>6, <1>8, <1>9, <1>10, <1>11, <1>12, <1>13, <1>14

(* decStrong deletes the object, whose weakref_impl stays. *)
LEMMA DeleteThisInv ==
    ASSUME Counting, IInv, NEW h \in Handles, deleteThis(h)
    PROVE  IInv'
<1> USE DEF IInv, deleteThis, Continue, Goto, counts
<1>1. /\ pc[h] = "delete" /\ pc'[h] = "dw" /\ ~extended /\ ~raw
      /\ mStrong = 0 /\ object' = FALSE
      /\ UNCHANGED <<mStrong, mWeak, refs, extended, raw>>
  BY DEF TypeOK, Lifetimes, LastStrong, Alone
<1>2. TypeOK' /\ Only(h)
  <2>1. pc' \in [Handles -> Labels]
    BY Zenon DEF TypeOK, Labels, Decrementing
  <2> QED
    BY Zenon, <2>1 DEF TypeOK, Only
<1>3. Counted'
  <2>1. /\ pc[h] \in WLabels /\ pc'[h] \in WLabels
        /\ pc[h] \notin SLabels /\ pc'[h] \notin SLabels
        /\ pc[h] \notin Sub /\ pc'[h] \notin Sub
    BY Zenon, <1>1 DEF WLabels, SLabels, Sub, Labels, Decrementing
  <2>2. /\ Cardinality(WeakHolders)' = Cardinality(WeakHolders)
        /\ Cardinality(StrongHolders)' = Cardinality(StrongHolders)
    BY <1>2, <2>1, Moves, Finite
  <2>3. StrongHolders' = StrongHolders
    BY Zenon, <1>2, <2>1 DEF StrongHolders, SLabels, Only
  <2> QED
    BY <1>1, <1>2, <2>1, <2>2, <2>3 DEF Counted, Plain, Armed, Only
<1>4. Sources'
  <2>1. pc'[h] \notin {"is_add", "rs_add"} /\ pc'[h] \notin OfAny
    BY Zenon, <1>1 DEF OfAny
  <2> QED
    BY Zenon, <1>1, <1>2, <2>1, SourcesKept
<1>5. Alone' /\ LastWeak' /\ LastStrong'
  BY <1>1, <1>2 DEF Alone, LastWeak, LastStrong, Only
<1>6. Lifetimes' /\ CurCount'
  BY <1>1, <1>2 DEF Lifetimes, CurCount, Only
<1>7. Alive' /\ Reclaimed'
  BY <1>1, <1>2 DEF Alive, Reclaimed, Only
<1> QED
  BY Zenon, <1>2, <1>3, <1>4, <1>5, <1>6, <1>7

(* decWeak deletes the weakref_impl, or the object with it. *)
LEMMA DeleteRefsInv ==
    ASSUME Counting, IInv, NEW h \in Handles, deleteRefs(h) \/ deleteBase(h)
    PROVE  IInv'
<1> USE DEF IInv, deleteRefs, deleteBase, Return, Goto, counts
<1>1. /\ pc[h] \in {"dw_load", "dw_delete"} /\ pc'[h] = "null"
      /\ UNCHANGED <<mStrong, mWeak, extended, raw>>
      /\ pc[h] = "dw_load" => ~extended /\ object' = object
            /\ refs' = (mStrong = INITIAL_STRONG_VALUE /\ refs)
      /\ pc[h] = "dw_delete" => extended /\ ~raw /\ object' = FALSE
            /\ refs' = (mWeak # 0 /\ refs)
  BY DEF TypeOK, Lifetimes, Alone
<1>2. TypeOK' /\ Only(h)
  <2>1. pc' \in [Handles -> Labels]
    BY Zenon DEF TypeOK, Labels
  <2>2. src' \in [Handles -> Handles] /\ cur' \in [Handles -> Int] /\ Only(h)
    BY DEF TypeOK, Only
  <2> QED
    BY Zenon, <1>1, <2>1, <2>2 DEF TypeOK
<1>3. \A k \in Handles : pc'[k] = "null"
  BY Zenon, <1>1, <1>2 DEF LastWeak, Only
<1>4. /\ WeakHolders = {} /\ StrongHolders = {}
      /\ WeakHolders' = {} /\ StrongHolders' = {}
  BY Zenon, <1>1, <1>3 DEF LastWeak, WeakHolders, StrongHolders
<1>5. Cardinality({}) = 0
  BY Zenon DEF Counting
<1>6. Counted'
  <2>1. \A k \in Handles : pc'[k] \notin Sub
    BY Zenon, <1>3 DEF Sub
  <2> QED
    BY Zenon, <1>1, <1>4, <1>5, <2>1 DEF Counted, Plain, Armed
<1>7. Sources' /\ Alone' /\ LastWeak' /\ LastStrong' /\ Lifetimes' /\ CurCount'
  BY Zenon, <1>3 DEF Sources, OfAny, Alone, LastWeak, LastStrong, Lifetimes, CurCount
<1>8. mWeak = 0 /\ mStrong \in {0, INITIAL_STRONG_VALUE}
      /\ (raw => mStrong = INITIAL_STRONG_VALUE)
  BY <1>4, <1>5, Bounds DEF Counted, Plain, Armed
<1>9. Alive'
  BY <1>1, <1>3, <1>8 DEF Alive, TypeOK
<1>10. Reclaimed'
  <2>1. \A k \in Handles : pc[k] \notin {"last", "delete"}
    BY <1>1 DEF LastWeak
  <2> QED
    BY <1>1, <1>3, <1>8, <2>1 DEF Reclaimed, TypeOK
<1> QED
  BY Zenon, <1>2, <1>6, <1>7, <1>9, <1>10

(* The constructing thread gives its plain pointer up. *)
LEMMA RelinquishInv ==
    ASSUME Counting, IInv, relinquish
    PROVE  IInv'
<1> USE DEF IInv, relinquish, counts, memory
<1>1. /\ UNCHANGED <<mStrong, mWeak, object, refs, extended, pc, src, cur>>
      /\ WeakHolders' = WeakHolders /\ StrongHolders' = StrongHolders
  BY DEF WeakHolders, StrongHolders
<1>2. TypeOK' /\ Counted'
  BY Zenon, <1>1 DEF TypeOK, Counted, Plain, Armed
<1>3. Sources' /\ Alone' /\ LastWeak' /\ LastStrong'
  BY Zenon, <1>1 DEF Sources, Alone, LastWeak, LastStrong, Quiet
<1>4. Lifetimes' /\ CurCount' /\ Alive' /\ Reclaimed'
  BY <1>1 DEF Lifetimes, CurCount, Alive, Reclaimed
<1> QED
  BY Zenon, <1>2, <1>3, <1>4

-----------------------------------------------------------------------------
(* The constructor establishes the invariant, and every step keeps it. *)
LEMMA InitInv == Counting /\ Init => IInv
<1> SUFFICES ASSUME Counting, Init PROVE IInv
  OBVIOUS
<1>1. TypeOK
  <2>1. /\ pc \in [Handles -> Labels] /\ src \in [Handles -> Handles]
        /\ cur \in [Handles -> Int]
    BY DEF Init, Labels
  <2> QED
    BY <2>1, Bounds DEF Init, TypeOK
<1>2. WeakHolders = {} /\ StrongHolders = {} /\ Cardinality({}) = 0
  BY Zenon DEF Init, WeakHolders, StrongHolders, Counting
<1>3. Counted
  BY <1>2, Bounds DEF Init, Counted, Armed, Sub
<1>4. Sources /\ Alone /\ LastWeak /\ LastStrong /\ Lifetimes /\ CurCount
  BY DEF Init, Sources, OfAny, Alone, LastWeak, LastStrong, Lifetimes, CurCount
<1>5. Alive /\ Reclaimed
  BY Bounds DEF Init, Alive, Reclaimed
<1> QED
  BY <1>1, <1>3, <1>4, <1>5 DEF IInv

(* A step of something else leaves the object alone. *)
LEMMA StutterInv == IInv /\ UNCHANGED vars => IInv'
<1> SUFFICES ASSUME IInv, UNCHANGED vars PROVE IInv'
  OBVIOUS
<1>1. WeakHolders' = WeakHolders /\ StrongHolders' = StrongHolders
  BY DEF vars, WeakHolders, StrongHolders
<1> QED
  BY <1>1 DEF IInv, vars, TypeOK, Counted, Plain, Armed, Sources, Alone,
     LastWeak, LastStrong, Lifetimes, CurCount, Alive, Reclaimed

(* One case per kind of step of RefBase.cpp. *)
LEMMA NextInv == Counting /\ IInv /\ [Next]_vars => IInv'
<1> SUFFICES ASSUME Counting, IInv, [Next]_vars PROVE IInv'
  OBVIOUS
<1>1. CASE UNCHANGED vars
  BY <1>1, StutterInv
<1>2. CASE relinquish
  BY Zenon, <1>2, RelinquishInv
<1>3. ASSUME NEW h \in Handles, Call(h) PROVE IInv'
  BY Zenon, <1>3, StartInv, ReadInv, DecStrongInv DEF Call
<1>4. ASSUME NEW h \in Handles, Step(h) PROVE IInv'
  BY Zenon, <1>4, AddStepInv, SubtractInv, ReadInv, WeakCasInv, DecWeakInv,
     DeleteThisInv, DeleteRefsInv DEF Step
<1> QED
  BY <1>1, <1>2, <1>3, <1>4 DEF Next

-----------------------------------------------------------------------------
INSTANCE FiniteSetTheorems

(* The facts about cardinalities that the counts of RefBase.cpp rest on are    *)
(* theorems of the library.                                                   *)
LEMMA CountingHolds == Counting
<1> SUFFICES ASSUME NEW S, IsFiniteSet(S)
             PROVE  /\ Cardinality(S) \in Nat
                    /\ Cardinality(S) = 0 => S = {}
                    /\ Cardinality(S) = 1 => \E x : S = {x}
                    /\ \A T \in SUBSET S : IsFiniteSet(T) /\ Cardinality(T) <= Cardinality(S)
                    /\ \A x : /\ Cardinality(S \cup {x})
                                    = IF x \in S THEN Cardinality(S) ELSE Cardinality(S) + 1
                             /\ Cardinality(S \ {x})
                                    = IF x \in S THEN Cardinality(S) - 1 ELSE Cardinality(S)
  BY Zenon, FS_EmptySet, FS_Singleton DEF Counting
<1>1. Cardinality(S) \in Nat
  BY Zenon, FS_CardinalityType
<1>2. Cardinality(S) = 0 => S = {}
  BY Zenon, FS_EmptySet
<1>3. Cardinality(S) = 1 => \E x : S = {x}
  BY Zenon, FS_Singleton
<1>4. \A T \in SUBSET S : IsFiniteSet(T) /\ Cardinality(T) <= Cardinality(S)
  BY Zenon, FS_Subset
<1>5. \A x : /\ Cardinality(S \cup {x})
                  = IF x \in S THEN Cardinality(S) ELSE Cardinality(S) + 1
           /\ Cardinality(S \ {x})
                  = IF x \in S THEN Cardinality(S) - 1 ELSE Cardinality(S)
  BY Zenon, FS_AddElement, FS_RemoveElement
<1> QED
  BY Zenon, <1>1, <1>2, <1>3, <1>4, <1>5

(* The inductive invariant holds in every reachable state of the counts. *)
THEOREM Invariance == Spec => []IInv
<1>1. Init => IInv
  BY CountingHolds, InitInv
<1>2. IInv /\ [Next]_vars => IInv'
  BY CountingHolds, NextInv
<1> QED BY <1>1, <1>2, PTL DEF Spec

(* The types of the counts, the flags and the calls under way. *)
THEOREM TypeCorrect == Spec => []TypeOK
  BY Invariance, PTL DEF IInv

(* RefBase.cpp:98-101, for any number of instances and any calls under way:   *)
(* both counts are exact.                                                     *)
THEOREM CountsExact == Spec => []CountsAreExact
<1>1. IInv => CountsAreExact
  <2> SUFFICES ASSUME IInv PROVE CountsAreExact
    OBVIOUS
  <2> DEFINE subtracting ==
               {h \in Handles : pc[h] \in {"is_sub", "fs_sub", "as_sub"}}
  <2>1. CASE Plain
    BY <2>1 DEF IInv, Counted, Plain, Sub, CountsAreExact
  <2>2. CASE Armed
    <3>1. CASE StrongHolders = {}
      BY Zenon, <2>2, <3>1 DEF IInv, Counted, Armed, CountsAreExact
    <3>2. CASE StrongHolders # {}
      <4>1. PICK h \in Handles : pc[h] \in Sub
        BY <2>2, <3>2 DEF Armed
      <4>2. subtracting = {h}
        BY <2>2, <4>1 DEF Armed, Sub
      <4>3. Cardinality(subtracting) = 1
        BY Zenon, <4>2, CountingHolds DEF Counting
      <4> QED
        BY <2>2, <3>2, <4>3 DEF IInv, Counted, Armed, CountsAreExact
    <3> QED
      BY Zenon, <3>1, <3>2
  <2> QED
    BY <2>1, <2>2 DEF IInv, Counted
<1> QED
  BY <1>1, Invariance, PTL

(* The comment at the end of decStrong, for any number of instances: every     *)
(* access to the object and to refs comes before its deletion.                 *)
THEOREM AccessIsSafe == Spec => []SafeAccess
<1>1. IInv => SafeAccess
  <2> SUFFICES ASSUME IInv, NEW h \in Handles
               PROVE  /\ raw => object /\ refs
                      /\ pc[h] # "null" => refs
                      /\ \/ h \in StrongHolders
                         \/ pc[h] \in {"last", "delete", "dw_delete", "as_ask",
                                       "rs_add"}
                         \/ pc[h] # "null" /\ extended
                         => object
    BY DEF SafeAccess, IInv, Alive
  <2>1. h \in StrongHolders => object
    BY Zenon, HeldStrong, CountingHolds DEF StrongHolders, SLabels
  <2>2. pc[h] = "rs_add" => object
    BY HeldStrong, CountingHolds DEF IInv, Sources, SLabels, TypeOK
  <2>3. pc[h] \in {"last", "delete", "dw_delete", "as_ask"} => object
    BY Zenon DEF IInv, LastStrong, Lifetimes, Alive
  <2> QED
    BY Zenon, <2>1, <2>2, <2>3 DEF IInv, Alive
<1> QED
  BY <1>1, Invariance, PTL

(* None of the assertions and fatal checks of RefBase.cpp fires. *)
THEOREM ChecksPass == Spec => []ChecksHold
<1>1. IInv => ChecksHold
  <2> SUFFICES ASSUME IInv, NEW h \in Handles
               PROVE
                 /\ pc[h] = "is_add" => mStrong > 0
                 /\ pc[h] = "rs_add"
                       => mStrong > 0 /\ mStrong # INITIAL_STRONG_VALUE
                 /\ pc[h] \in {"is_sub", "fs_sub", "as_sub"}
                       => mStrong > INITIAL_STRONG_VALUE
                 /\ pc[h] = "strong" => ~BAD_STRONG(mStrong)
                 /\ pc[h] \in {"strong", "weak", "dw"} => ~BAD_WEAK(mWeak)
                 /\ pc[h] = "delete" => mStrong = 0
    BY Zenon DEF ChecksHold
  <2>1. pc[h] = "is_add" => mStrong > 0
    <3>1. raw => mStrong > 0
      BY Finite, CountingHolds, Bounds DEF IInv, Counted, Plain, Armed
    <3> QED
      BY Zenon, <3>1, HeldStrong, CountingHolds DEF IInv, Sources, SLabels, TypeOK
  <2>2. pc[h] = "rs_add" => mStrong > 0 /\ mStrong # INITIAL_STRONG_VALUE
    BY HeldStrong, CountingHolds DEF IInv, Sources, SLabels, TypeOK
  <2>3. pc[h] \in {"is_sub", "fs_sub", "as_sub"} => mStrong > INITIAL_STRONG_VALUE
    <3> SUFFICES ASSUME pc[h] \in {"is_sub", "fs_sub", "as_sub"}
                 PROVE  mStrong > INITIAL_STRONG_VALUE
      OBVIOUS
    <3>1. Armed /\ StrongHolders # {}
      BY Zenon DEF IInv, Counted, Plain, Sub, StrongHolders
    <3> QED
      BY <3>1, Finite, CountingHolds, Bounds DEF Armed
  <2>4. pc[h] = "strong" => ~BAD_STRONG(mStrong)
    <3> SUFFICES ASSUME pc[h] = "strong" PROVE ~BAD_STRONG(mStrong)
      OBVIOUS
    <3>1. mStrong > 0
      BY HeldStrong, CountingHolds DEF SLabels
    <3> QED
      BY <3>1, Finite, CountingHolds, Bounds DEF IInv, Counted, Plain, Armed, BAD_STRONG
  <2>5. pc[h] \in {"strong", "weak", "dw"} => ~BAD_WEAK(mWeak)
    <3> SUFFICES ASSUME pc[h] \in {"strong", "weak", "dw"}
                 PROVE  ~BAD_WEAK(mWeak)
      OBVIOUS
    <3>1. mWeak > 0
      BY HeldWeak, CountingHolds DEF IInv, WLabels, Labels, Decrementing
    <3> QED
      BY <3>1, Finite, CountingHolds, Bounds DEF IInv, Counted, BAD_WEAK
  <2>6. pc[h] = "delete" => mStrong = 0
    BY DEF IInv, Lifetimes, LastStrong
  <2> QED
    BY Zenon, <2>1, <2>2, <2>3, <2>4, <2>5, <2>6
<1> QED
  BY <1>1, Invariance, PTL

(* Once every instance is gone, decStrong and decWeak have deleted both the    *)
(* object and its weakref_impl, but for the case that decWeak logs.            *)
THEOREM NothingLeaks == Spec => []NoLeak
<1>1. IInv => NoLeak
  <2> SUFFICES ASSUME IInv, ~raw, \A h \in Handles : pc[h] = "null"
               PROVE  \/ ~object /\ ~refs
                      \/ /\ ~extended /\ mStrong = INITIAL_STRONG_VALUE
                         /\ object /\ refs
    BY DEF NoLeak
  <2>1. CASE extended
    BY <2>1 DEF IInv, Reclaimed
  <2>2. CASE ~extended /\ mStrong = INITIAL_STRONG_VALUE
    BY <2>2, Bounds DEF IInv, Alive, TypeOK
  <2>3. CASE ~extended /\ mStrong # INITIAL_STRONG_VALUE
    <3>1. ~refs
      BY <2>3 DEF IInv, Reclaimed
    <3>2. ~object
      BY <2>3, <3>1 DEF IInv, Alive, Reclaimed
    <3> QED
      BY <3>1, <3>2
  <2> QED
    BY <2>1, <2>2, <2>3
<1> QED
  BY <1>1, Invariance, PTL

(* attemptIncStrong cannot revive an object with the normal lifetime, however  *)
(* its compare-and-exchange loops interleave with the last decStrong.          *)
THEOREM DeadIsFinal == Spec => DeadStaysDead
<1>1. IInv /\ [Next]_vars => [~extended /\ mStrong = 0 => mStrong' = 0]_vars
  <2> SUFFICES ASSUME IInv, Next, ~extended, mStrong = 0
               PROVE  mStrong' = 0
    BY DEF vars
  <2>1. \A k \in Handles : pc[k] \notin SLabels
    BY HeldStrong, CountingHolds
  <2>2. \A k \in Handles : pc[k] \notin {"is_add", "rs_add", "fs_add", "as_add"}
    <3>1. ~raw
      BY Finite, CountingHolds, Bounds DEF IInv, Counted, Plain, Armed
    <3> QED
      BY Zenon, <2>1, <3>1 DEF IInv, Sources, Lifetimes, SLabels, TypeOK
  <2>3. CASE relinquish
    BY Zenon, <2>3 DEF relinquish, counts
  <2>4. ASSUME NEW h \in Handles, Call(h) PROVE mStrong' = 0
    BY <2>1, <2>4 DEF Call, incStrong, incStrongRequireStrong, forceIncStrong,
       createWeak, attemptIncWeak, attemptIncStrong, incWeak, decStrong, counts,
       SLabels
  <2>5. ASSUME NEW h \in Handles, Step(h) PROVE mStrong' = 0
    <3>1. \/ attemptIncStrongCas(h) \/ attemptIncStrongFirst(h)
          \/ UNCHANGED mStrong
      BY Zenon, <2>1, <2>2, <2>5 DEF Step, incStrongAdd, subtractInitial, onFirstRef,
         incStrongRequireStrongAdd, forceIncStrongAdd, attemptIncWeakLoad,
         attemptIncWeakCas, attemptIncStrongLoad, onIncStrongAttempted,
         attemptIncStrongRevive, attemptIncStrongExtra,
         attemptIncStrongSubtract, onLastStrongRef, deleteThis, decWeak,
         deleteRefs, deleteBase, counts, SLabels
    <3>2. attemptIncStrongCas(h) => UNCHANGED mStrong
      <4>1. pc[h] = "as_cas" => cur[h] > 0
        BY DEF IInv, CurCount
      <4>2. pc[h] = "as_cas" => mStrong # cur[h]
        BY <4>1
      <4> QED
        BY <4>2, Zenon DEF attemptIncStrongCas
    <3>3. attemptIncStrongFirst(h) => UNCHANGED mStrong
      BY DEF IInv, CurCount, attemptIncStrongFirst
    <3> QED
      BY <3>1, <3>2, <3>3
  <2> QED
    BY <2>3, <2>4, <2>5 DEF Next
<1> QED
  BY <1>1, Invariance, PTL DEF Spec, DeadStaysDead
=============================================================================
