----------------------- MODULE ApplicationLoop_proofs -----------------------
(***************************************************************************)
(* Proofs about ApplicationLoop, with CallbackPool and Input, for any      *)
(* callbacks, keys, fingers and bounds.                                    *)
(*                                                                         *)
(* The invariant follows what is true of a key or a touch along the way it *)
(* is told: the last message about it says it, or the last event in the    *)
(* queue when no message does, or the device when neither does; and the    *)
(* touches of a finger begin and end by turns in the queue, so that an     *)
(* event never finds the list of touches in a phase it was not made for.   *)
(***************************************************************************)
EXTENDS ApplicationLoop, FiniteSetTheorems, SequenceTheorems, WellFoundedInduction, TLAPS

-----------------------------------------------------------------------------
(* Indices and sequences *)

\* Every nonempty set of natural numbers has a least element.
LEMMA Smallest ==
  ASSUME NEW T \in SUBSET Nat, T # {}
  PROVE  \E m \in T : \A k \in T : m <= k
<1>1. PICK m \in T : \A k \in T : ~ (<<k, m>> \in OpToRel(<, Nat))
  BY WFMin, NatLessThanWellFounded, Zenon
<1>2. \A k \in T : ~ (k < m)
  BY <1>1, Zenon DEF OpToRel
<1>3. \A k \in T : m <= k
  BY <1>2
<1>4. QED
  BY <1>3

\* A finite set of indices has one for each number of indices below it.
Below(I, i) == {j \in I : j < i}

\* Each index has its own number of indices below it, and every number occurs.
LEMMA BelowCounts ==
  ASSUME NEW I \in SUBSET Nat, IsFiniteSet(I)
  PROVE  /\ \A i \in I : Cardinality(Below(I, i)) \in 0 .. Cardinality(I) - 1
         /\ \A i, j \in I : i < j => Cardinality(Below(I, i)) < Cardinality(Below(I, j))
         /\ \A k \in 1 .. Cardinality(I) : \E i \in I : Cardinality(Below(I, i)) = k - 1
<1>0. Cardinality(I) \in Nat /\ \A i \in I : i \in Nat
  BY FS_CardinalityType
<1>1. \A i \in I : IsFiniteSet(Below(I, i)) /\ Cardinality(Below(I, i)) \in Nat
  BY FS_Subset, FS_CardinalityType DEF Below
<1>2. ASSUME NEW i \in I PROVE Cardinality(Below(I, i)) \in 0 .. Cardinality(I) - 1
  <2>1. Below(I, i) \subseteq I /\ Below(I, i) # I
    BY DEF Below
  <2>2. Cardinality(Below(I, i)) < Cardinality(I)
    <3>1. Cardinality(Below(I, i)) <= Cardinality(I)
      BY <2>1, FS_Subset
    <3>2. Cardinality(Below(I, i)) # Cardinality(I)
      BY <2>1, FS_Subset
    <3>3. QED
      BY <3>1, <3>2, <1>0, <1>1
  <2>3. QED
    BY <2>2, <1>0, <1>1
<1>3. ASSUME NEW i \in I, NEW j \in I, i < j
      PROVE  Cardinality(Below(I, i)) < Cardinality(Below(I, j))
  <2>1. Below(I, i) \subseteq Below(I, j) /\ i \in Below(I, j) /\ i \notin Below(I, i)
    <3>1. i \in Nat /\ j \in Nat
      BY <1>0
    <3>2. ASSUME NEW l \in I, l < i PROVE l < j
      <4>1. l \in Nat
        BY <1>0
      <4>2. QED
        BY <1>3, <3>1, <3>2, <4>1
    <3>3. ~ (i < i)
      BY <3>1
    <3>4. \A l \in I : l < i => l < j
      BY <3>2
    <3>5. QED
      BY <1>3, <3>3, <3>4 DEF Below
  <2>2. Below(I, i) # Below(I, j)
    BY <2>1
  <2>3. QED
    BY <2>1, <2>2, <1>1, FS_Subset
<1>4. ASSUME NEW k \in 1 .. Cardinality(I)
      PROVE  \E i \in I : Cardinality(Below(I, i)) = k - 1
  <2>. DEFINE Missing == {n \in 1 .. Cardinality(I) : ~ \E i \in I : Cardinality(Below(I, i)) = n - 1}
  <2>. SUFFICES Missing = {}
    BY Zenon
  <2>. SUFFICES ASSUME Missing # {} PROVE FALSE
    OBVIOUS
  <2>0. Missing \subseteq Nat
    BY <1>0
  <2>1. PICK n \in Missing : \A l \in Missing : n <= l
    BY <2>0, Smallest
  <2>2. n \in 1 .. Cardinality(I) /\ n \in Nat
    BY <1>0
  <2>3. ~ \E i \in I : Cardinality(Below(I, i)) = n - 1
    OBVIOUS
  <2>4. CASE n = 1
    <3>1. I # {}
      BY <2>2, FS_EmptySet
    <3>2. PICK i \in I : \A j \in I : i <= j
      BY <3>1, Smallest
    <3>3. Below(I, i) = {}
      <4>1. ASSUME NEW l \in I PROVE ~ (l < i)
        BY <1>0, <3>2
      <4>2. QED
        BY <4>1 DEF Below
    <3>4. Cardinality(Below(I, i)) = 0
      BY <3>3, FS_EmptySet
    <3>5. QED
      BY <3>4, <2>3, <2>4
  <2>5. CASE n # 1
    <3>1. n - 1 \in 1 .. Cardinality(I) /\ n - 1 \notin Missing
      BY <2>1, <2>2, <2>5, <1>0
    <3>2. PICK i \in I : Cardinality(Below(I, i)) = n - 2
      BY <3>1, <2>2
    <3>. DEFINE upTo == Below(I, i) \cup {i}
                above == I \ upTo
    <3>3. i \notin Below(I, i) /\ upTo \subseteq I
      BY <1>0 DEF Below
    <3>4. Cardinality(upTo) = n - 1
      <4>1. Cardinality(Below(I, i) \cup {i}) = Cardinality(Below(I, i)) + 1
        BY <1>1, <3>3, FS_AddElement
      <4>2. QED
        BY <4>1, <3>2, <2>2
    <3>5. above # {}
      BY <3>3, <3>4, <2>2, <1>0
    <3>6. PICK j \in above : \A l \in above : j <= l
      BY <3>5, Smallest
    <3>7. Below(I, j) = upTo
      <4>1. j \in I /\ i < j
        BY <1>0 DEF Below
      <4>2. upTo \subseteq Below(I, j)
        <5>1. ASSUME NEW l \in Below(I, i) PROVE l \in I /\ l < j
          <6>1. l \in I /\ l < i
            BY DEF Below
          <6>2. l \in Nat /\ i \in Nat /\ j \in Nat
            BY <1>0, <4>1, <6>1
          <6>3. QED
            BY <4>1, <6>1, <6>2
        <5>2. QED
          BY <4>1, <5>1 DEF Below
      <4>3. Below(I, j) \subseteq upTo
        <5>1. \A l \in Below(I, j) : l \in I /\ l < j
          BY DEF Below
        <5>2. ASSUME NEW l \in Below(I, j) PROVE l \notin above
          <6>1. l \in Nat /\ j \in Nat /\ l < j
            BY <5>1, <1>0, <4>1
          <6>2. ~ (j <= l)
            BY <6>1
          <6>3. QED
            BY <6>2, <3>6
        <5>3. QED
          BY <5>1, <5>2
      <4>4. QED
        BY <4>2, <4>3
    <3>8. QED
      BY <3>4, <3>7, <2>3
  <2>6. QED
    BY <2>4, <2>5
<1>5. QED
  BY <1>2, <1>3, <1>4

\* Kept(s, I) lists the elements of s at the indices I once each and in order.
LEMMA KeptProperties ==
  ASSUME NEW S, NEW s \in Seq(S), NEW I \in SUBSET (1 .. Len(s))
  PROVE  /\ Kept(s, I) \in Seq(S)
         /\ \A k \in 1 .. Len(Kept(s, I)) : Nth(I, k) \in I /\ Kept(s, I)[k] = s[Nth(I, k)]
         /\ \A k, l \in 1 .. Len(Kept(s, I)) : k < l => Nth(I, k) < Nth(I, l)
         /\ \A i \in I : \E k \in 1 .. Len(Kept(s, I)) : Nth(I, k) = i
<1>0. Len(s) \in Nat /\ \A i \in 1 .. Len(s) : s[i] \in S
  BY LenProperties
<1>1. I \subseteq Nat /\ IsFiniteSet(I) /\ Cardinality(I) \in Nat /\ \A i \in I : i \in Nat
  <2>1. IsFiniteSet(1 .. Len(s))
    BY <1>0, FS_Interval
  <2>2. IsFiniteSet(I)
    BY <2>1, FS_Subset
  <2>3. QED
    BY <2>2, <1>0, FS_CardinalityType
<1>2. /\ \A i \in I : Cardinality(Below(I, i)) \in 0 .. Cardinality(I) - 1
      /\ \A i, j \in I : i < j => Cardinality(Below(I, i)) < Cardinality(Below(I, j))
      /\ \A k \in 1 .. Cardinality(I) : \E i \in I : Cardinality(Below(I, i)) = k - 1
  BY <1>1, BelowCounts
<1>3. \A k : Nth(I, k) = CHOOSE i \in I : Cardinality(Below(I, i)) = k - 1
  BY DEF Nth, Below
<1>4. \A k \in 1 .. Cardinality(I) : Nth(I, k) \in I /\ Cardinality(Below(I, Nth(I, k))) = k - 1
  BY <1>2, <1>3
<1>5. Kept(s, I) \in [1 .. Cardinality(I) -> S]
  BY <1>0, <1>4 DEF Kept
<1>6. Kept(s, I) \in Seq(S) /\ Len(Kept(s, I)) = Cardinality(I)
  BY <1>1, <1>5, SeqDef
<1>7. \A k, l \in 1 .. Cardinality(I) : k < l => Nth(I, k) < Nth(I, l)
  <2>. SUFFICES ASSUME NEW k \in 1 .. Cardinality(I), NEW l \in 1 .. Cardinality(I), k < l
                PROVE  Nth(I, k) < Nth(I, l)
    OBVIOUS
  <2>1. /\ Nth(I, k) \in I /\ Cardinality(Below(I, Nth(I, k))) = k - 1
        /\ Nth(I, l) \in I /\ Cardinality(Below(I, Nth(I, l))) = l - 1
    BY <1>4
  <2>2. ~ (l - 1 < k - 1) /\ l - 1 # k - 1
    BY <1>1
  <2>4. ~ (Nth(I, l) < Nth(I, k)) /\ Nth(I, l) # Nth(I, k)
    BY <1>2, <2>1, <2>2
  <2>3. QED
    <3>. HIDE DEF Nth
    <3>1. Nth(I, k) \in Nat /\ Nth(I, l) \in Nat
      BY <1>1, <2>1
    <3>2. QED
      BY <3>1, <2>4
<1>8. ASSUME NEW i \in I PROVE \E k \in 1 .. Cardinality(I) : Nth(I, k) = i
  <2>. DEFINE k == Cardinality(Below(I, i)) + 1
  <2>1. k \in 1 .. Cardinality(I) /\ k - 1 = Cardinality(Below(I, i))
    BY <1>1, <1>2
  <2>2. Nth(I, k) \in I /\ Cardinality(Below(I, Nth(I, k))) = Cardinality(Below(I, i))
    BY <1>4, <2>1
  <2>3. ~ (Nth(I, k) < i) /\ ~ (i < Nth(I, k))
    <3>1. Cardinality(Below(I, i)) \in Nat
      BY <1>1, <1>2
    <3>2. ~ (Cardinality(Below(I, i)) < Cardinality(Below(I, i)))
      BY <3>1
    <3>3. QED
      BY <3>2, <1>2, <2>2
  <2>4. Nth(I, k) \in Nat /\ i \in Nat
    BY <1>1, <2>2
  <2>5. Nth(I, k) = i
    BY <2>3, <2>4
  <2>6. QED
    BY <2>1, <2>5
<1>9. QED
  BY <1>4, <1>6, <1>7, <1>8 DEF Kept

-----------------------------------------------------------------------------
(* The callbacks of the pool *)

\* Appending to the second of two sequences appends to their concatenation.
LEMMA AppendTo ==
  ASSUME NEW S, NEW s \in Seq(S), NEW t \in Seq(S), NEW e \in S
  PROVE  s \o Append(t, e) = Append(s \o t, e)
<1>. <<e>> \in Seq(S)
  OBVIOUS
<1>1. Append(t, e) = t \o <<e>> /\ s \o t \in Seq(S)
  BY AppendIsConcat, ConcatProperties
<1>2. Append(s \o t, e) = (s \o t) \o <<e>>
  BY <1>1, AppendIsConcat
<1>3. (s \o t) \o <<e>> = s \o (t \o <<e>>)
  BY ConcatAssociative
<1>4. QED
  BY <1>1, <1>2, <1>3

\* Moving the head of one sequence to the end of another keeps their concatenation.
LEMMA HeadMoves ==
  ASSUME NEW S, NEW s \in Seq(S), NEW t \in Seq(S), t # <<>>
  PROVE  Append(s, Head(t)) \o Tail(t) = s \o t
<1>1. Head(t) \in S /\ Tail(t) \in Seq(S) /\ <<Head(t)>> \in Seq(S)
  BY HeadTailProperties
<1>2. <<Head(t)>> \o Tail(t) = t
  <2>1. t = SubSeq(t, 1, Len(t)) /\ Tail(t) = SubSeq(t, 2, Len(t)) /\ Len(t) \in Nat /\ Len(t) # 0
    BY SubSeqFull, TailIsSubSeq, EmptySeq
  <2>2. 1 \in 1 .. Len(t) /\ Len(t) \in 1 .. Len(t) /\ t[1] = Head(t)
    BY <2>1
  <2>3. SubSeq(t, 1, Len(t)) = <<t[1]>> \o SubSeq(t, 1 + 1, Len(t))
    BY <2>2, SubSeqRecursiveFirst
  <2>4. QED
    BY <2>1, <2>2, <2>3
<1>3. Append(s, Head(t)) = s \o <<Head(t)>>
  BY <1>1, AppendIsConcat
<1>4. (s \o <<Head(t)>>) \o Tail(t) = s \o (<<Head(t)>> \o Tail(t))
  BY <1>1, ConcatAssociative
<1>5. QED
  BY <1>2, <1>3, <1>4

Unlike(s) == \A i, j \in 1 .. Len(s) : s[i] = s[j] => i = j

\* What a sequence holds, and whether it repeats itself, after an Append.
LEMMA AppendRange ==
  ASSUME NEW S, NEW s \in Seq(S), NEW e \in S
  PROVE  /\ Range(Append(s, e)) = Range(s) \cup {e}
         /\ Unlike(s) /\ e \notin Range(s) => Unlike(Append(s, e))
<1>. DEFINE t == Append(s, e)
<1>1. /\ t \in Seq(S) /\ Len(t) = Len(s) + 1 /\ Len(s) \in Nat
      /\ \A i \in 1 .. Len(s) : t[i] = s[i]
      /\ t[Len(s) + 1] = e
  BY AppendProperties, LenProperties
<1>2. Range(t) = {t[i] : i \in 1 .. Len(t)} /\ Range(s) = {s[i] : i \in 1 .. Len(s)}
  BY <1>1, RangeEquality
<1>. HIDE DEF t
<1>3. 1 .. Len(t) = 1 .. Len(s) \cup {Len(s) + 1}
  BY <1>1
<1>4. Range(t) = Range(s) \cup {e}
  BY <1>1, <1>2, <1>3
<1>5. ASSUME Unlike(s), e \notin Range(s) PROVE Unlike(t)
  <2>. SUFFICES ASSUME NEW i \in 1 .. Len(t), NEW j \in 1 .. Len(t), t[i] = t[j] PROVE i = j
    BY DEF Unlike
  <2>1. CASE i \in 1 .. Len(s) /\ j \in 1 .. Len(s)
    BY <1>1, <1>5, <2>1 DEF Unlike
  <2>2. CASE i = Len(s) + 1
    BY <1>1, <1>2, <1>3, <1>5, <2>2
  <2>3. CASE j = Len(s) + 1
    BY <1>1, <1>2, <1>3, <1>5, <2>3
  <2>4. QED
    BY <1>3, <2>1, <2>2, <2>3
<1>6. QED
  BY <1>4, <1>5 DEF t

-----------------------------------------------------------------------------

\* Callbacks queued for the worker and run by it, in their order.
OnWorker == ranWorker \o workerQueue

Routed ==
    /\ Pool!MainOrderKept
    /\ Unlike(sentMain) /\ Unlike(OnWorker)
    /\ Range(sentMain) \cap (toWorker \cup Range(OnWorker)) = {}
    /\ toWorker \cap Range(OnWorker) = {}

PoolInv == Pool!TypeOK /\ Routed

\* The pool's invariant depends on the pool's variables only.
LEMMA PoolUnchanged == PoolInv /\ UNCHANGED poolVars => PoolInv'
<1>. SUFFICES ASSUME PoolInv, UNCHANGED poolVars PROVE PoolInv'
  OBVIOUS
<1>1. UNCHANGED <<callbackThreadType, main_thread_callbacks, batch, ranMain, sentMain, toWorker,
                  workerQueue, ranWorker>>
  BY DEF poolVars
<1>2. Pool!TypeOK' /\ OnWorker' = OnWorker
  BY <1>1 DEF PoolInv, Pool!TypeOK, OnWorker
<1>3. QED
  BY <1>1, <1>2 DEF PoolInv, Routed, Unlike, Pool!MainOrderKept

\* The worker's callbacks are those it ran and those it has yet to run.
LEMMA OnWorkerType ==
  ASSUME Pool!TypeOK
  PROVE  /\ OnWorker \in Seq(Callback)
         /\ Range(OnWorker) = Range(ranWorker) \cup Range(workerQueue)
BY ConcatProperties, RangeConcatenation DEF Pool!TypeOK, OnWorker

\* One lemma per action of the pool: SubmitTask towards the main thread,
LEMMA SubmitToMainKeeps ==
  ASSUME PoolInv, NEW c \in Callback \ Pool!Sent, Pool!SubmitToMain(c)
  PROVE  PoolInv'
<1>0. Pool!TypeOK /\ Routed
  BY DEF PoolInv
<1>1. /\ main_thread_callbacks' = Append(main_thread_callbacks, c)
      /\ sentMain' = Append(sentMain, c)
      /\ UNCHANGED <<callbackThreadType, batch, ranMain, toWorker, workerQueue, ranWorker>>
  BY DEF Pool!SubmitToMain, Pool!workerVars
<1>2. c \notin Range(sentMain) /\ c \notin toWorker \cup Range(OnWorker)
  BY <1>0, OnWorkerType DEF Pool!Sent, Pool!Range, Range
<1>3. Pool!TypeOK'
  BY <1>0, <1>1, AppendProperties DEF Pool!TypeOK
<1>4. Pool!MainOrderKept'
  <2>1. ranMain \o batch \in Seq(Callback)
    BY <1>0, ConcatProperties DEF Pool!TypeOK
  <2>2. (ranMain \o batch) \o Append(main_thread_callbacks, c)
          = Append((ranMain \o batch) \o main_thread_callbacks, c)
    BY <1>0, <2>1, AppendTo DEF Pool!TypeOK
  <2>3. QED
    BY <1>0, <1>1, <2>2 DEF Routed, Pool!MainOrderKept
<1>5. Range(sentMain') = Range(sentMain) \cup {c} /\ Unlike(sentMain')
  BY <1>0, <1>1, <1>2, AppendRange DEF Pool!TypeOK, Routed
<1>6. OnWorker' = OnWorker
  BY <1>1 DEF OnWorker
<1>7. QED
  BY <1>0, <1>1, <1>2, <1>3, <1>4, <1>5, <1>6 DEF PoolInv, Routed, Unlike

\* SubmitTask deciding for the worker,
LEMMA ChooseWorkerKeeps ==
  ASSUME PoolInv, NEW c \in Callback \ Pool!Sent, Pool!ChooseWorker(c)
  PROVE  PoolInv'
<1>0. Pool!TypeOK /\ Routed
  BY DEF PoolInv
<1>1. /\ toWorker' = toWorker \cup {c}
      /\ UNCHANGED <<callbackThreadType, main_thread_callbacks, batch, ranMain, sentMain,
                     workerQueue, ranWorker>>
  BY DEF Pool!ChooseWorker, Pool!mainVars
<1>2. c \notin Range(sentMain) /\ c \notin Range(OnWorker)
  BY <1>0, OnWorkerType DEF Pool!Sent, Pool!Range, Range
<1>3. Pool!TypeOK' /\ OnWorker' = OnWorker
  BY <1>0, <1>1 DEF Pool!TypeOK, OnWorker
<1>4. QED
  BY <1>0, <1>1, <1>2, <1>3 DEF PoolInv, Routed, Unlike, Pool!MainOrderKept

\* SubmitTask handing over to the worker,
LEMMA SubmitToWorkerKeeps ==
  ASSUME PoolInv, NEW c \in Callback, Pool!SubmitToWorker(c)
  PROVE  PoolInv'
<1>0. Pool!TypeOK /\ Routed
  BY DEF PoolInv
<1>1. /\ c \in toWorker /\ toWorker' = toWorker \ {c}
      /\ workerQueue' = Append(workerQueue, c)
      /\ UNCHANGED <<callbackThreadType, main_thread_callbacks, batch, ranMain, sentMain,
                     ranWorker>>
  BY DEF Pool!SubmitToWorker, Pool!mainVars
<1>2. Pool!TypeOK'
  BY <1>0, <1>1, AppendProperties DEF Pool!TypeOK
<1>3. OnWorker' = Append(OnWorker, c)
  BY SMTT(30), <1>0, <1>1, AppendTo DEF Pool!TypeOK, OnWorker
<1>4. c \notin Range(OnWorker) /\ c \notin Range(sentMain)
  BY <1>0, <1>1 DEF Routed
<1>5. Range(OnWorker') = Range(OnWorker) \cup {c} /\ Unlike(OnWorker')
  BY <1>0, <1>3, <1>4, OnWorkerType, AppendRange DEF Routed
<1>6. QED
  BY <1>0, <1>1, <1>2, <1>4, <1>5 DEF PoolInv, Routed, Unlike, Pool!MainOrderKept

\* SetCallbackThread,
LEMMA SetCallbackThreadKeeps ==
  ASSUME PoolInv, NEW type \in Pool!CallbackThreadType, Pool!SetCallbackThread(type)
  PROVE  PoolInv'
<1>1. /\ callbackThreadType' = type
      /\ UNCHANGED <<main_thread_callbacks, batch, ranMain, sentMain, toWorker, workerQueue,
                     ranWorker>>
  BY DEF Pool!SetCallbackThread, Pool!mainVars, Pool!workerVars
<1>2. Pool!TypeOK' /\ OnWorker' = OnWorker
  BY <1>1 DEF PoolInv, Pool!TypeOK, OnWorker
<1>3. QED
  BY <1>1, <1>2 DEF PoolInv, Routed, Unlike, Pool!MainOrderKept

\* ProcessMainThreadCallbacks taking the queue,
LEMMA TakeBatchKeeps ==
  ASSUME PoolInv, Pool!TakeBatch
  PROVE  PoolInv'
<1>0. Pool!TypeOK /\ Routed
  BY DEF PoolInv
<1>1. /\ batch = <<>> /\ batch' = main_thread_callbacks /\ main_thread_callbacks' = <<>>
      /\ UNCHANGED <<callbackThreadType, ranMain, sentMain, toWorker, workerQueue, ranWorker>>
  BY DEF Pool!TakeBatch, Pool!workerVars
<1>2. Pool!TypeOK' /\ OnWorker' = OnWorker
  BY <1>0, <1>1, EmptySeq DEF Pool!TypeOK, OnWorker
<1>3. Pool!MainOrderKept'
  <2>1. ranMain \o batch = ranMain
    BY <1>0, <1>1, ConcatEmptySeq DEF Pool!TypeOK
  <2>2. ranMain \o main_thread_callbacks \in Seq(Callback)
    BY <1>0, ConcatProperties DEF Pool!TypeOK
  <2>3. (ranMain \o main_thread_callbacks) \o <<>> = ranMain \o main_thread_callbacks
    BY <2>2, ConcatEmptySeq
  <2>4. QED
    BY <1>0, <1>1, <2>1, <2>3 DEF Routed, Pool!MainOrderKept
<1>4. QED
  BY <1>0, <1>1, <1>2, <1>3 DEF PoolInv, Routed, Unlike

\* running the first of the batch,
LEMMA RunBatchedKeeps ==
  ASSUME PoolInv, Pool!RunBatched
  PROVE  PoolInv'
<1>0. Pool!TypeOK /\ Routed
  BY DEF PoolInv
<1>1. /\ batch # <<>> /\ ranMain' = Append(ranMain, Head(batch)) /\ batch' = Tail(batch)
      /\ UNCHANGED <<callbackThreadType, main_thread_callbacks, sentMain, toWorker,
                     workerQueue, ranWorker>>
  BY DEF Pool!RunBatched, Pool!workerVars
<1>2. Pool!TypeOK' /\ OnWorker' = OnWorker
  <2>1. Head(batch) \in Callback /\ Tail(batch) \in Seq(Callback)
    BY <1>0, <1>1, HeadTailProperties DEF Pool!TypeOK
  <2>2. QED
    BY <1>0, <1>1, <2>1, AppendProperties DEF Pool!TypeOK, OnWorker
<1>3. ranMain' \o batch' = ranMain \o batch
  BY <1>0, <1>1, HeadMoves DEF Pool!TypeOK
<1>4. QED
  BY <1>0, <1>1, <1>2, <1>3 DEF PoolInv, Routed, Unlike, Pool!MainOrderKept

\* and the worker running its first.
LEMMA RunOnWorkerKeeps ==
  ASSUME PoolInv, Pool!RunOnWorker
  PROVE  PoolInv'
<1>0. Pool!TypeOK /\ Routed
  BY DEF PoolInv
<1>1. /\ workerQueue # <<>> /\ workerQueue' = Tail(workerQueue)
      /\ ranWorker' = Append(ranWorker, Head(workerQueue))
      /\ UNCHANGED <<callbackThreadType, main_thread_callbacks, batch, ranMain, sentMain, toWorker>>
  BY DEF Pool!RunOnWorker, Pool!mainVars
<1>2. Pool!TypeOK'
  <2>1. Head(workerQueue) \in Callback /\ Tail(workerQueue) \in Seq(Callback)
    BY <1>0, <1>1, HeadTailProperties DEF Pool!TypeOK
  <2>2. QED
    BY <1>0, <1>1, <2>1, AppendProperties DEF Pool!TypeOK
<1>3. OnWorker' = OnWorker
  BY <1>0, <1>1, HeadMoves DEF Pool!TypeOK, OnWorker
<1>4. QED
  BY <1>0, <1>1, <1>2, <1>3 DEF PoolInv, Routed, Unlike, Pool!MainOrderKept

\* What the invariant says of the queues gives each callback its one thread.
LEMMA OneThread == PoolInv => Pool!OneThreadPerCallback
<1>. SUFFICES ASSUME PoolInv PROVE Pool!OneThreadPerCallback
  OBVIOUS
<1>0. Pool!TypeOK /\ Routed
  BY DEF PoolInv
<1>1. Range(sentMain) \cap (toWorker \cup Range(workerQueue) \cup Range(ranWorker)) = {}
  BY <1>0, OnWorkerType DEF Routed
<1>2. IsInjective(ranWorker)
  <2>1. /\ Len(ranWorker) \in Nat /\ Len(workerQueue) \in Nat
        /\ DOMAIN ranWorker = 1 .. Len(ranWorker)
        /\ Len(OnWorker) = Len(ranWorker) + Len(workerQueue)
        /\ \A i \in 1 .. Len(ranWorker) + Len(workerQueue) :
              OnWorker[i] = IF i <= Len(ranWorker) THEN ranWorker[i]
                            ELSE workerQueue[i - Len(ranWorker)]
    BY <1>0, ConcatProperties, LenProperties DEF Pool!TypeOK, OnWorker
  <2>2. \A i \in 1 .. Len(ranWorker) : i \in 1 .. Len(OnWorker) /\ OnWorker[i] = ranWorker[i]
    BY <2>1
  <2>3. QED
    BY <1>0, <2>1, <2>2 DEF Routed, Unlike, IsInjective
<1>3. IsInjective(ranMain)
  <2>. DEFINE rest == batch \o main_thread_callbacks
  <2>00. ranMain \in Seq(Callback) /\ batch \in Seq(Callback)
         /\ main_thread_callbacks \in Seq(Callback)
    BY <1>0 DEF Pool!TypeOK
  <2>01. (ranMain \o batch) \o main_thread_callbacks = ranMain \o (batch \o main_thread_callbacks)
    BY <2>00, ConcatAssociative
  <2>0. rest \in Seq(Callback) /\ sentMain = ranMain \o rest
    BY <1>0, <2>00, <2>01, ConcatProperties DEF Routed, Pool!MainOrderKept
  <2>. HIDE DEF rest
  <2>1. /\ Len(ranMain) \in Nat /\ Len(rest) \in Nat
        /\ DOMAIN ranMain = 1 .. Len(ranMain)
        /\ Len(sentMain) = Len(ranMain) + Len(rest)
        /\ \A i \in 1 .. Len(ranMain) + Len(rest) :
              sentMain[i] = IF i <= Len(ranMain) THEN ranMain[i] ELSE rest[i - Len(ranMain)]
    BY <1>0, <2>0, ConcatProperties, LenProperties DEF Pool!TypeOK
  <2>2. \A i \in 1 .. Len(ranMain) : i \in 1 .. Len(sentMain) /\ sentMain[i] = ranMain[i]
    BY <2>1
  <2>3. QED
    BY <1>0, <2>1, <2>2 DEF Routed, Unlike, IsInjective
<1>4. QED
  BY <1>1, <1>2, <1>3 DEF Pool!OneThreadPerCallback, Pool!Range, Range, Pool!IsInjective, IsInjective

-----------------------------------------------------------------------------
(* What is told of keys and touches *)

\* What a q of messages or events says last of a key or finger.
About(e, x) == e.what = x /\ e.type \in {"Down", "Up", "TouchDown", "TouchMove", "TouchUp"}

Ends(e) == e.type \in {"Up", "TouchUp"}

Silent(s, x) == \A i \in 1 .. Len(s) : ~About(s[i], x)

LastAbout(s, x, e) ==
    \E i \in 1 .. Len(s) : /\ s[i] = e /\ About(e, x)
                           /\ \A j \in 1 .. Len(s) : i < j => ~About(s[j], x)

\* The last event about x after one is pushed: the new one if it is about x.
LEMMA AppendAbout ==
  ASSUME NEW S, NEW s \in Seq(S), NEW e \in S, NEW x
  PROVE  /\ Silent(Append(s, e), x) <=> Silent(s, x) /\ ~About(e, x)
         /\ \A d : LastAbout(Append(s, e), x, d) =>
                      IF About(e, x) THEN d = e ELSE LastAbout(s, x, d)
<1>. DEFINE t == Append(s, e)
<1>1. /\ Len(t) = Len(s) + 1 /\ Len(s) \in Nat
      /\ \A i \in 1 .. Len(s) : t[i] = s[i]
      /\ t[Len(s) + 1] = e
  BY AppendProperties, LenProperties
<1>. HIDE DEF t
<1>2. 1 .. Len(t) = 1 .. Len(s) \cup {Len(s) + 1} /\ \A i \in 1 .. Len(s) : i < Len(s) + 1
  BY <1>1
<1>3. Silent(t, x) <=> Silent(s, x) /\ ~About(e, x)
  BY <1>1, <1>2 DEF Silent
<1>4. ASSUME NEW d, LastAbout(t, x, d)
      PROVE  IF About(e, x) THEN d = e ELSE LastAbout(s, x, d)
  <2>1. PICK i \in 1 .. Len(t) : /\ t[i] = d /\ About(d, x)
                                 /\ \A j \in 1 .. Len(t) : i < j => ~About(t[j], x)
    BY <1>4 DEF LastAbout
  <2>2. CASE i = Len(s) + 1
    BY <1>1, <2>1, <2>2
  <2>3. CASE i \in 1 .. Len(s)
    <3>1. ~About(e, x)
      BY <1>1, <1>2, <2>1, <2>3
    <3>2. t[i] = s[i] /\ \A j \in 1 .. Len(s) : j \in 1 .. Len(t) /\ t[j] = s[j]
      BY <1>1, <1>2, <2>3
    <3>3. \A j \in 1 .. Len(s) : i < j => ~About(s[j], x)
      BY <2>1, <3>2
    <3>4. LastAbout(s, x, d)
      BY <2>1, <2>3, <3>2, <3>3 DEF LastAbout
    <3>5. QED
      BY <3>1, <3>4
  <2>4. QED
    BY <1>2, <2>2, <2>3
<1>5. QED
  BY <1>3, <1>4 DEF t

\* The elements of a tail are those of the sequence, one further on.
LEMMA HeadAndTail ==
  ASSUME NEW S, NEW s \in Seq(S), s # <<>>
  PROVE  /\ Len(s) \in Nat \ {0} /\ Head(s) = s[1] /\ Head(s) \in S
         /\ Tail(s) \in Seq(S) /\ Len(Tail(s)) = Len(s) - 1
         /\ \A i \in 1 .. Len(s) - 1 : Tail(s)[i] = s[i + 1]
BY HeadTailProperties, EmptySeq

\* What taking the first event off the queue does to the last one about x.
LEMMA TailAbout ==
  ASSUME NEW S, NEW s \in Seq(S), s # <<>>, NEW x
  PROVE  /\ Silent(s, x) <=> ~About(Head(s), x) /\ Silent(Tail(s), x)
         /\ \A d : LastAbout(Tail(s), x, d) => LastAbout(s, x, d)
         /\ About(Head(s), x) /\ Silent(Tail(s), x) => LastAbout(s, x, Head(s))
<1>. DEFINE t == Tail(s)
            h == Head(s)
<1>1. /\ Len(s) \in Nat \ {0} /\ h = s[1] /\ Len(t) = Len(s) - 1
      /\ \A i \in 1 .. Len(t) : t[i] = s[i + 1]
  BY HeadAndTail
<1>. HIDE DEF t, h
<1>2. /\ 1 \in 1 .. Len(s)
      /\ \A i \in 1 .. Len(t) : i + 1 \in 1 .. Len(s)
      /\ \A j \in 1 .. Len(s) : j = 1 \/ (j - 1 \in 1 .. Len(t) /\ s[j] = t[j - 1])
  BY <1>1
<1>3. Silent(s, x) <=> ~About(h, x) /\ Silent(t, x)
  <2>1. ASSUME Silent(s, x) PROVE ~About(h, x) /\ Silent(t, x)
    BY <1>1, <1>2, <2>1 DEF Silent
  <2>2. ASSUME ~About(h, x), Silent(t, x) PROVE Silent(s, x)
    BY <1>1, <1>2, <2>2 DEF Silent
  <2>3. QED
    BY <2>1, <2>2
<1>4. ASSUME NEW d, LastAbout(t, x, d) PROVE LastAbout(s, x, d)
  <2>1. PICK i \in 1 .. Len(t) : /\ t[i] = d /\ About(d, x)
                                 /\ \A j \in 1 .. Len(t) : i < j => ~About(t[j], x)
    BY <1>4 DEF LastAbout
  <2>2. ASSUME NEW j \in 1 .. Len(s), i + 1 < j PROVE ~About(s[j], x)
    <3>1. j # 1 /\ i < j - 1
      BY <1>1, <2>2
    <3>2. QED
      BY <1>2, <2>1, <3>1
  <2>3. QED
    BY <1>1, <1>2, <2>1, <2>2 DEF LastAbout
<1>5. ASSUME About(h, x), Silent(t, x) PROVE LastAbout(s, x, h)
  <2>1. ASSUME NEW j \in 1 .. Len(s), 1 < j PROVE ~About(s[j], x)
    BY <1>2, <1>5, <2>1 DEF Silent
  <2>2. QED
    BY <1>1, <1>2, <1>5, <2>1 DEF LastAbout
<1>6. QED
  BY <1>3, <1>4, <1>5 DEF t, h

\* Keeping what is about x keeps the last event about it.
LEMMA KeptAbout ==
  ASSUME NEW S, NEW s \in Seq(S), NEW I \in SUBSET (1 .. Len(s)), NEW x,
         \A i \in 1 .. Len(s) : i \in I \/ ~About(s[i], x)
  PROVE  /\ Silent(Kept(s, I), x) <=> Silent(s, x)
         /\ \A d : LastAbout(Kept(s, I), x, d) => LastAbout(s, x, d)
<1>. DEFINE t == Kept(s, I)
            p(k) == Nth(I, k)
<1>1. /\ t \in Seq(S)
      /\ \A k \in 1 .. Len(t) : p(k) \in I /\ t[k] = s[p(k)]
      /\ \A k, l \in 1 .. Len(t) : k < l => p(k) < p(l)
      /\ \A i \in I : \E k \in 1 .. Len(t) : p(k) = i
  BY KeptProperties
<1>2. Len(s) \in Nat /\ Len(t) \in Nat
  BY <1>1, LenProperties
<1>. HIDE DEF t, p
<1>3. Silent(t, x) <=> Silent(s, x)
  BY <1>1 DEF Silent
<1>4. ASSUME NEW d, LastAbout(t, x, d) PROVE LastAbout(s, x, d)
  <2>1. PICK k \in 1 .. Len(t) : /\ t[k] = d /\ About(d, x)
                                 /\ \A l \in 1 .. Len(t) : k < l => ~About(t[l], x)
    BY <1>4 DEF LastAbout
  <2>2. ASSUME NEW j \in 1 .. Len(s), p(k) < j PROVE ~About(s[j], x)
    <3>1. CASE j \in I
      <4>1. PICK l \in 1 .. Len(t) : p(l) = j
        BY <1>1, <3>1
      <4>0. p(k) \in 1 .. Len(s) /\ p(l) \in 1 .. Len(s)
        BY <1>1
      <4>2. /\ l \in Nat /\ k \in Nat /\ p(l) \in Nat /\ p(k) \in Nat
            /\ ~ (p(l) < p(k)) /\ p(l) # p(k)
        BY <1>2, <2>2, <4>0, <4>1
      <4>3. ~ (l < k) /\ l # k
        BY <1>1, <4>2
      <4>4. k < l
        BY <4>2, <4>3
      <4>5. QED
        BY <1>1, <2>1, <4>1, <4>4
    <3>2. QED
      BY <3>1
  <2>3. p(k) \in 1 .. Len(s) /\ s[p(k)] = d
    BY <1>1, <2>1
  <2>4. QED
    BY <2>1, <2>2, <2>3 DEF LastAbout
<1>5. QED
  BY <1>3, <1>4 DEF t

Message == [type : {"Down", "Up"}, what : Key] \cup [type : {"WindowClosed"}, what : Window]

Event == Message \cup [type : {"TouchDown", "TouchMove", "TouchUp"}, what : Finger]
            \cup [type : {"WindowCreated", "WindowClosed", "WindowDestroyed"},
                  what : Window \cup {InvalidWindowId}]

\* A finger has one entry in the list of touches.
OneEntry == \A i, j \in 1 .. Len(touches) : touches[i].finger = touches[j].finger => i = j

\* The list of touches is a sequence, and Touching what of it has not ended.
LEMMA TouchList ==
  ASSUME InputTypeOK
  PROVE  /\ Len(touches) \in Nat /\ DOMAIN touches = 1 .. Len(touches)
         /\ \A i \in 1 .. Len(touches) : touches[i] \in [finger : Finger, phase : Phase]
         /\ \A f : f \in Touching <=>
               \E i \in 1 .. Len(touches) : touches[i].finger = f /\ touches[i].phase # "End"
BY LenProperties DEF InputTypeOK, Touching

\* The first of a finger's entries is the only one.
LEMMA FirstEntry ==
  ASSUME InputTypeOK, OneEntry, NEW f, NEW I \in SUBSET Entries(f), I # {}
  PROVE  First(I) \in I /\ I = {First(I)} /\ Entries(f) = I
<1>1. PICK i \in I : TRUE
  OBVIOUS
<1>2. Entries(f) \subseteq 1 .. Len(touches) /\ Len(touches) \in Nat
  BY TouchList DEF Entries
<1>3. Entries(f) = {i} /\ I = {i}
  BY <1>2, TouchList DEF Entries, OneEntry
<1>4. i <= i
  BY <1>1, <1>2
<1>5. QED
  BY <1>3, <1>4 DEF First

\* One entry given another phase.
LEMMA EntrySet ==
  ASSUME InputTypeOK, OneEntry, NEW f \in Finger, NEW phase \in Phase,
         NEW i \in 1 .. Len(touches), touches[i].finger = f,
         touches' = [touches EXCEPT ![i] = [finger |-> f, phase |-> phase]]
  PROVE  /\ touches' \in Seq([finger : Finger, phase : Phase]) /\ OneEntry'
         /\ \A g : g \in Touching' <=> IF g = f THEN phase # "End" ELSE g \in Touching
<1>. DEFINE e == [finger |-> f, phase |-> phase]
<1>0. e \in [finger : Finger, phase : Phase] /\ e.finger = f /\ e.phase = phase
  OBVIOUS
<1>. HIDE DEF e
<1>1. /\ touches' \in Seq([finger : Finger, phase : Phase])
      /\ Len(touches') = Len(touches)
      /\ \A j \in 1 .. Len(touches) : touches'[j] = IF j = i THEN e ELSE touches[j]
  <2>1. touches' = [touches EXCEPT ![i] = e]
    BY DEF e
  <2>2. QED
    BY <1>0, <2>1, ExceptSeq DEF InputTypeOK
<1>2. \A j \in 1 .. Len(touches) : touches'[j].finger = touches[j].finger
  BY <1>0, <1>1
<1>3. OneEntry'
  BY <1>1, <1>2 DEF OneEntry
<1>4. DOMAIN touches' = 1 .. Len(touches)
  BY <1>1, LenProperties
<1>5. \A g : g \in Touching' <=>
         \E j \in 1 .. Len(touches) : touches'[j].finger = g /\ touches'[j].phase # "End"
  BY <1>4 DEF Touching
<1>6. ASSUME NEW g PROVE g \in Touching' <=> IF g = f THEN phase # "End" ELSE g \in Touching
  <2>1. CASE g = f
    <3>1. \A j \in 1 .. Len(touches) : touches[j].finger = f => j = i
      BY DEF OneEntry
    <3>2. QED
      BY <1>0, <1>1, <1>2, <1>5, <2>1, <3>1
  <2>2. CASE g # f
    <3>1. \A j \in 1 .. Len(touches) : touches'[j].finger = g => touches'[j] = touches[j]
      BY <1>0, <1>1, <2>2
    <3>2. \A j \in 1 .. Len(touches) : touches[j].finger = g => touches'[j] = touches[j]
      BY <1>1, <2>2
    <3>3. QED
      BY <1>5, <2>2, <3>1, <3>2, TouchList
  <2>3. QED
    BY <2>1, <2>2
<1>7. QED
  BY <1>1, <1>3, <1>6

\* What an event about a touch does to the list, when it is that touch's turn.
TouchDone(f, phase) ==
    /\ touches' \in Seq([finger : Finger, phase : Phase]) /\ OneEntry'
    /\ \A g : g \in Touching' <=> IF g = f THEN phase # "End" ELSE g \in Touching

\* TouchDown adds a finger that was off the screen, and nobody else's state changes.
LEMMA DownDone ==
  ASSUME InputTypeOK, OneEntry, NEW f \in Finger, f \notin Touching, TouchDown(f)
  PROVE  TouchDone(f, "Begin")
<1>. DEFINE ended == {i \in Entries(f) : touches[i].phase = "End"}
            begun == [finger |-> f, phase |-> "Begin"]
            S == [finger : Finger, phase : Phase]
<1>0. touches' = IF ended = {} THEN Append(touches, begun)
                               ELSE [touches EXCEPT ![First(ended)] = begun]
  BY DEF TouchDown
<1>1. ended = Entries(f)
  BY TouchList DEF Entries
<1>2. CASE ended = {}
  <2>0. begun \in S /\ begun.finger = f /\ begun.phase = "Begin" /\ touches' = Append(touches, begun)
    BY <1>0, <1>2 DEF Phase
  <2>. HIDE DEF begun
  <2>1. /\ touches' \in Seq(S) /\ Len(touches') = Len(touches) + 1
        /\ \A j \in 1 .. Len(touches) : touches'[j] = touches[j]
        /\ touches'[Len(touches) + 1] = begun
    BY <2>0, AppendProperties DEF InputTypeOK
  <2>2. /\ Len(touches) \in Nat
        /\ 1 .. Len(touches') = 1 .. Len(touches) \cup {Len(touches) + 1}
        /\ DOMAIN touches' = 1 .. Len(touches')
    BY <2>1, TouchList, LenProperties
  <2>3. \A j \in 1 .. Len(touches) : touches[j].finger # f
    BY <1>1, <1>2, TouchList DEF Entries
  <2>4. OneEntry'
    <3>. SUFFICES ASSUME NEW i \in 1 .. Len(touches'), NEW j \in 1 .. Len(touches'),
                         touches'[i].finger = touches'[j].finger
                  PROVE  i = j
      BY DEF OneEntry
    <3>1. CASE i \in 1 .. Len(touches) /\ j \in 1 .. Len(touches)
      BY <2>1, <3>1 DEF OneEntry
    <3>2. CASE i = Len(touches) + 1
      BY <2>0, <2>1, <2>2, <2>3, <3>2
    <3>3. CASE j = Len(touches) + 1
      BY <2>0, <2>1, <2>2, <2>3, <3>3
    <3>4. QED
      BY <2>2, <3>1, <3>2, <3>3
  <2>5. \A g : g \in Touching' <=>
           \E j \in 1 .. Len(touches') : touches'[j].finger = g /\ touches'[j].phase # "End"
    BY <2>2 DEF Touching
  <2>6. \A g : g \in Touching' <=> g = f \/ g \in Touching
    BY <2>0, <2>1, <2>2, <2>5, TouchList
  <2>7. QED
    BY <2>1, <2>4, <2>6 DEF TouchDone
<1>3. CASE ended # {}
  <2>1. First(ended) \in Entries(f)
    BY <1>3, FirstEntry
  <2>2. First(ended) \in 1 .. Len(touches) /\ touches[First(ended)].finger = f
    BY <2>1, TouchList DEF Entries
  <2>3. "Begin" \in Phase
    BY DEF Phase
  <2>4. touches' = [touches EXCEPT ![First(ended)] = [finger |-> f, phase |-> "Begin"]]
    BY <1>0, <1>3
  <2>. HIDE DEF ended, begun
  <2>5. QED
    BY <2>2, <2>3, <2>4, EntrySet DEF TouchDone
<1>4. QED
  BY <1>2, <1>3

\* TouchMove and TouchUp change the phase of one finger only.
LEMMA PhaseDone ==
  ASSUME InputTypeOK, OneEntry, NEW f \in Finger, f \in Touching, NEW phase \in Phase,
         SetPhase(f, phase)
  PROVE  TouchDone(f, phase)
<1>1. Entries(f) # {}
  BY TouchList DEF Entries
<1>. DEFINE i == First(Entries(f))
<1>2. i \in 1 .. Len(touches) /\ touches[i].finger = f
  <2>1. i \in Entries(f)
    BY <1>1, FirstEntry
  <2>2. QED
    BY <2>1, TouchList DEF Entries
<1>3. touches' = [touches EXCEPT ![i] = [finger |-> f, phase |-> phase]]
  <2>1. touches' = [touches EXCEPT ![i].phase = phase]
    BY <1>1 DEF SetPhase
  <2>2. touches[i] \in [finger : Finger, phase : Phase]
    BY <1>2, TouchList
  <2>. HIDE DEF i
  <2>3. [touches[i] EXCEPT !.phase = phase] = [finger |-> f, phase |-> phase]
    BY <1>2, <2>2
  <2>4. QED
    BY <2>1, <2>3
<1>. HIDE DEF i
<1>4. QED
  BY <1>2, <1>3, EntrySet DEF TouchDone

\* What UpdateFromEvent makes of the devices.
LEMMA DevicesUpdate ==
  ASSUME InputTypeOK, OneEntry, NEW e \in Event, UpdateFromEvent(e),
         \A f \in Finger : About(e, f) => (e.type = "TouchDown" <=> f \notin Touching)
  PROVE  /\ InputTypeOK' /\ OneEntry'
         /\ \A k \in Key : k \in currentKeys' <=> IF About(e, k) THEN ~Ends(e)
                                                  ELSE k \in currentKeys
         /\ \A f \in Finger : f \in Touching' <=> IF About(e, f) THEN ~Ends(e)
                                                  ELSE f \in Touching
<1>0. /\ currentKeys \subseteq Key /\ previousKeys' = previousKeys /\ previousKeys \subseteq Key
      /\ touches \in Seq([finger : Finger, phase : Phase])
  BY DEF InputTypeOK, UpdateFromEvent
<1>1. currentKeys' = CASE e.type = "Down" -> currentKeys \cup {e.what}
                       [] e.type = "Up" -> currentKeys \ {e.what}
                       [] OTHER -> currentKeys
  BY DEF UpdateFromEvent
<1>2. (CASE e.type = "TouchDown" -> TouchDown(e.what)
         [] e.type = "TouchMove" -> SetPhase(e.what, "Move")
         [] e.type = "TouchUp" -> SetPhase(e.what, "End")
         [] OTHER -> UNCHANGED touches)
  BY DEF UpdateFromEvent
<1>3. CASE e.type \in {"Down", "Up"}
  <2>1. e.what \in Key /\ e.what \notin Finger
    BY <1>3, InputAssumption DEF Event, Message
  <2>2. touches' = touches
    BY <1>2, <1>3
  <2>3. /\ currentKeys' \subseteq Key
        /\ \A k \in Key : k \in currentKeys' <=> IF About(e, k) THEN ~Ends(e) ELSE k \in currentKeys
    BY <1>0, <1>1, <1>3, <2>1 DEF About, Ends
  <2>4. \A f \in Finger : ~About(e, f)
    BY <2>1 DEF About
  <2>5. Touching' = Touching /\ OneEntry'
    BY <2>2 DEF Touching, OneEntry
  <2>6. QED
    BY <1>0, <2>2, <2>3, <2>4, <2>5 DEF InputTypeOK
<1>4. CASE e.type \in {"TouchDown", "TouchMove", "TouchUp"}
  <2>1. e.what \in Finger /\ e.what \notin Key
    BY <1>4, InputAssumption DEF Event, Message
  <2>2. currentKeys' = currentKeys
    BY <1>1, <1>4
  <2>3. About(e, e.what) /\ (e.type = "TouchDown" <=> e.what \notin Touching)
    BY <1>4, <2>1 DEF About
  <2>4. \E phase \in Phase : TouchDone(e.what, phase) /\ (phase = "End" <=> Ends(e))
    <3>1. CASE e.type = "TouchDown"
      BY <1>2, <2>1, <2>3, <3>1, DownDone DEF Phase, Ends
    <3>2. CASE e.type = "TouchMove"
      <4>1. SetPhase(e.what, "Move")
        BY <1>2, <3>2
      <4>2. QED
        BY <2>1, <2>3, <3>2, <4>1, PhaseDone DEF Phase, Ends
    <3>3. CASE e.type = "TouchUp"
      <4>1. SetPhase(e.what, "End")
        BY <1>2, <3>3
      <4>2. QED
        BY <2>1, <2>3, <3>3, <4>1, PhaseDone DEF Phase, Ends
    <3>4. QED
      BY <1>4, <3>1, <3>2, <3>3
  <2>5. PICK phase \in Phase : TouchDone(e.what, phase) /\ (phase = "End" <=> Ends(e))
    BY <2>4
  <2>6. \A k \in Key : ~About(e, k)
    BY <2>1 DEF About
  <2>7. \A f \in Finger : About(e, f) <=> f = e.what
    BY <1>4 DEF About
  <2>8. QED
    BY <1>0, <2>2, <2>5, <2>6, <2>7 DEF TouchDone, InputTypeOK
<1>5. CASE e.type \notin {"Down", "Up", "TouchDown", "TouchMove", "TouchUp"}
  <2>1. currentKeys' = currentKeys /\ touches' = touches
    BY <1>1, <1>2, <1>5
  <2>2. Touching' = Touching /\ OneEntry'
    BY <2>1 DEF Touching, OneEntry
  <2>3. \A x : ~About(e, x)
    BY <1>5 DEF About
  <2>4. QED
    BY <1>0, <2>1, <2>2, <2>3 DEF InputTypeOK
<1>6. QED
  BY <1>3, <1>4, <1>5

\* EndFrame takes ended touches off the list, and no other.
LEMMA FrameEnds ==
  ASSUME InputTypeOK, OneEntry, EndFrame
  PROVE  InputTypeOK' /\ OneEntry' /\ currentKeys' = currentKeys
         /\ \A f : f \in Touching' <=> f \in Touching
<1>. DEFINE I == {i \in 1 .. Len(touches) : touches[i].phase # "End"}
            S == [finger : Finger, phase : Phase]
            p(k) == Nth(I, k)
<1>1. /\ previousKeys' = currentKeys /\ currentKeys' = currentKeys
      /\ touches' = Kept(touches, I) /\ touches \in Seq(S)
  BY TouchList DEF EndFrame, InputTypeOK
<1>2. /\ touches' \in Seq(S)
      /\ \A k \in 1 .. Len(touches') : p(k) \in I /\ touches'[k] = touches[p(k)]
      /\ \A k, l \in 1 .. Len(touches') : k < l => p(k) < p(l)
      /\ \A i \in I : \E k \in 1 .. Len(touches') : p(k) = i
  <2>1. I \in SUBSET (1 .. Len(touches))
    OBVIOUS
  <2>. HIDE DEF I, S
  <2>2. /\ Kept(touches, I) \in Seq(S)
        /\ \A k \in 1 .. Len(Kept(touches, I)) :
              Nth(I, k) \in I /\ Kept(touches, I)[k] = touches[Nth(I, k)]
        /\ \A k, l \in 1 .. Len(Kept(touches, I)) : k < l => Nth(I, k) < Nth(I, l)
        /\ \A i \in I : \E k \in 1 .. Len(Kept(touches, I)) : Nth(I, k) = i
    BY <1>1, <2>1, KeptProperties
  <2>3. QED
    BY <1>1, <2>2
<1>3. Len(touches') \in Nat /\ DOMAIN touches' = 1 .. Len(touches')
  BY <1>2, LenProperties
<1>. HIDE DEF p
<1>4. OneEntry'
  <2>. SUFFICES ASSUME NEW k \in 1 .. Len(touches'), NEW l \in 1 .. Len(touches'),
                       touches'[k].finger = touches'[l].finger
                PROVE  k = l
    BY DEF OneEntry
  <2>1. p(k) = p(l) /\ p(k) \in 1 .. Len(touches)
    BY <1>2 DEF OneEntry
  <2>2. ~ (p(k) < p(l)) /\ ~ (p(l) < p(k))
    BY <2>1, TouchList
  <2>3. ~ (k < l) /\ ~ (l < k) /\ k \in Nat /\ l \in Nat
    BY <1>2, <1>3, <2>2
  <2>4. QED
    BY <2>3
<1>5. \A f : f \in Touching' <=>
         \E k \in 1 .. Len(touches') : touches'[k].finger = f /\ touches'[k].phase # "End"
  BY <1>3 DEF Touching
<1>6. \A f : f \in Touching' <=> f \in Touching
  <2>1. ASSUME NEW f, f \in Touching' PROVE f \in Touching
    <3>1. PICK k \in 1 .. Len(touches') : touches'[k].finger = f /\ touches'[k].phase # "End"
      BY <1>5, <2>1
    <3>2. p(k) \in 1 .. Len(touches) /\ touches'[k] = touches[p(k)]
      BY <1>2
    <3>3. QED
      BY <3>1, <3>2, TouchList
  <2>2. ASSUME NEW f, f \in Touching PROVE f \in Touching'
    <3>1. PICK i \in I : touches[i].finger = f
      BY <2>2, TouchList
    <3>2. PICK k \in 1 .. Len(touches') : p(k) = i
      BY <1>2
    <3>3. touches'[k] = touches[i]
      BY <1>2, <3>2
    <3>4. QED
      BY <1>5, <3>1, <3>3
  <2>3. QED
    BY <2>1, <2>2
<1>7. QED
  BY <1>1, <1>2, <1>4, <1>6 DEF InputTypeOK

\* The last word about a key is what is true; what has not come is in the messages,
\* then in the queue, then in the state of the keyboard.
KeyFollows(k) ==
    /\ \A e : LastAbout(messages, k, e) => (k \in held <=> ~Ends(e))
    /\ Silent(messages, k) =>
         /\ \A e : LastAbout(eventQueue, k, e) => (k \in held <=> ~Ends(e))
         /\ Silent(eventQueue, k) => (k \in held <=> k \in currentKeys)

\* The same of a touch, which no message tells of.
ScreenFollows(f) ==
    /\ \A e : LastAbout(eventQueue, f, e) => (f \in held <=> ~Ends(e))
    /\ Silent(eventQueue, f) => (f \in held <=> f \in Touching)

\* In the queue the touches of a finger begin and end by turns, from what the list
\* of touches tells now.
Alternates(f) ==
    /\ \A i \in 1 .. Len(eventQueue) :
          /\ About(eventQueue[i], f)
          /\ \A j \in 1 .. Len(eventQueue) : j < i => ~About(eventQueue[j], f)
          => (eventQueue[i].type = "TouchDown" <=> f \notin Touching)
    /\ \A i, j \in 1 .. Len(eventQueue) :
          /\ i < j /\ About(eventQueue[i], f) /\ About(eventQueue[j], f)
          /\ \A k \in 1 .. Len(eventQueue) : i < k /\ k < j => ~About(eventQueue[k], f)
          => (eventQueue[j].type = "TouchDown" <=> Ends(eventQueue[i]))

Follows == /\ OneEntry
           /\ \A k \in Key : KeyFollows(k)
           /\ \A f \in Finger : ScreenFollows(f) /\ Alternates(f)

Logs == messages \in Seq(Message) /\ eventQueue \in Seq(Event)

\* A key of which no message or event speaks anew is followed as before.
LEMMA KeyKeeps ==
  ASSUME NEW k, KeyFollows(k), k \in held' <=> k \in held, k \in currentKeys' <=> k \in currentKeys,
         Silent(messages', k) <=> Silent(messages, k),
         \A e : LastAbout(messages', k, e) => LastAbout(messages, k, e),
         Silent(eventQueue', k) <=> Silent(eventQueue, k),
         \A e : LastAbout(eventQueue', k, e) => LastAbout(eventQueue, k, e)
  PROVE  KeyFollows(k)'
<1>1. KeyFollows(k)' <=>
        /\ \A e : LastAbout(messages', k, e) => (k \in held' <=> ~Ends(e))
        /\ Silent(messages', k) =>
             /\ \A e : LastAbout(eventQueue', k, e) => (k \in held' <=> ~Ends(e))
             /\ Silent(eventQueue', k) => (k \in held' <=> k \in currentKeys')
  BY DEF KeyFollows, LastAbout, Silent, About, Ends
<1>2. QED
  BY <1>1 DEF KeyFollows

\* A key that is pressed or released is followed through its new message.
LEMMA KeyPressed ==
  ASSUME Logs, NEW k \in Key, NEW e \in Message, About(e, k),
         messages' = Append(messages, e), k \in held' <=> ~Ends(e)
  PROVE  KeyFollows(k)'
<1>1. /\ ~Silent(messages', k)
      /\ \A d : LastAbout(messages', k, d) => d = e
  BY AppendAbout DEF Logs
<1>2. KeyFollows(k)' <=>
        /\ \A d : LastAbout(messages', k, d) => (k \in held' <=> ~Ends(d))
        /\ Silent(messages', k) =>
             /\ \A d : LastAbout(eventQueue', k, d) => (k \in held' <=> ~Ends(d))
             /\ Silent(eventQueue', k) => (k \in held' <=> k \in currentKeys')
  BY DEF KeyFollows, LastAbout, Silent, About, Ends
<1>3. QED
  BY <1>1, <1>2

\* The pump moves the last word about a key from a message to an event.
LEMMA KeyPumped ==
  ASSUME Logs, NEW k, KeyFollows(k), messages # <<>>,
         messages' = Tail(messages), eventQueue' = Append(eventQueue, Head(messages)),
         held' = held, currentKeys' = currentKeys
  PROVE  KeyFollows(k)'
<1>. DEFINE m == Head(messages)
<1>0. m \in Event /\ messages \in Seq(Message) /\ eventQueue \in Seq(Event)
  BY HeadAndTail DEF Logs, Event
<1>1. /\ Silent(messages, k) <=> ~About(m, k) /\ Silent(messages', k)
      /\ \A d : LastAbout(messages', k, d) => LastAbout(messages, k, d)
      /\ About(m, k) /\ Silent(messages', k) => LastAbout(messages, k, m)
  BY <1>0, TailAbout
<1>2. /\ Silent(eventQueue', k) <=> Silent(eventQueue, k) /\ ~About(m, k)
      /\ \A d : LastAbout(eventQueue', k, d) =>
                   IF About(m, k) THEN d = m ELSE LastAbout(eventQueue, k, d)
  BY <1>0, AppendAbout
<1>. HIDE DEF m
<1>3. CASE About(m, k)
  <2>1. KeyFollows(k)' <=>
        /\ \A d : LastAbout(messages', k, d) => (k \in held' <=> ~Ends(d))
        /\ Silent(messages', k) =>
             /\ \A d : LastAbout(eventQueue', k, d) => (k \in held' <=> ~Ends(d))
             /\ Silent(eventQueue', k) => (k \in held' <=> k \in currentKeys')
    BY DEF KeyFollows, LastAbout, Silent, About, Ends
  <2>2. \A d : LastAbout(messages, k, d) => (k \in held <=> ~Ends(d))
    BY DEF KeyFollows
  <2>3. \A d : LastAbout(eventQueue', k, d) => d = m
    BY <1>2, <1>3
  <2>4. QED
    BY <1>1, <1>2, <1>3, <2>1, <2>2, <2>3
<1>4. CASE ~About(m, k)
  BY <1>1, <1>2, <1>4, KeyKeeps
<1>5. QED
  BY <1>3, <1>4

\* Processing an event leaves the last word about a key with the queue or the state.
LEMMA KeyProcessed ==
  ASSUME Logs, NEW k, KeyFollows(k), eventQueue # <<>>,
         eventQueue' = Tail(eventQueue), messages' = messages, held' = held,
         k \in currentKeys' <=> IF About(Head(eventQueue), k) THEN ~Ends(Head(eventQueue))
                                ELSE k \in currentKeys
  PROVE  KeyFollows(k)'
<1>. DEFINE e == Head(eventQueue)
<1>1. /\ Silent(eventQueue, k) <=> ~About(e, k) /\ Silent(eventQueue', k)
      /\ \A d : LastAbout(eventQueue', k, d) => LastAbout(eventQueue, k, d)
      /\ About(e, k) /\ Silent(eventQueue', k) => LastAbout(eventQueue, k, e)
  BY TailAbout DEF Logs
<1>2. k \in currentKeys' <=> IF About(e, k) THEN ~Ends(e) ELSE k \in currentKeys
  OBVIOUS
<1>. HIDE DEF e
<1>3. KeyFollows(k)' <=>
        /\ \A d : LastAbout(messages, k, d) => (k \in held <=> ~Ends(d))
        /\ Silent(messages, k) =>
             /\ \A d : LastAbout(eventQueue', k, d) => (k \in held <=> ~Ends(d))
             /\ Silent(eventQueue', k) => (k \in held <=> k \in currentKeys')
  BY DEF KeyFollows, LastAbout, Silent, About, Ends
<1>4. QED
  BY <1>1, <1>2, <1>3 DEF KeyFollows

-----------------------------------------------------------------------------

\* A finger of which no event speaks anew is followed as before.
LEMMA ScreenKeeps ==
  ASSUME NEW f, ScreenFollows(f), f \in held' <=> f \in held, f \in Touching' <=> f \in Touching,
         Silent(eventQueue', f) <=> Silent(eventQueue, f),
         \A e : LastAbout(eventQueue', f, e) => LastAbout(eventQueue, f, e)
  PROVE  ScreenFollows(f)'
<1>1. ScreenFollows(f)' <=>
        /\ \A e : LastAbout(eventQueue', f, e) => (f \in held' <=> ~Ends(e))
        /\ Silent(eventQueue', f) => (f \in held' <=> f \in Touching')
  BY DEF ScreenFollows, LastAbout, Silent, About, Ends
<1>2. QED
  BY <1>1 DEF ScreenFollows

\* A finger that is put down or lifted is followed through its new event.
LEMMA ScreenTouched ==
  ASSUME Logs, NEW f, NEW e \in Event, About(e, f), eventQueue' = Append(eventQueue, e),
         f \in held' <=> ~Ends(e)
  PROVE  ScreenFollows(f)'
<1>1. ~Silent(eventQueue', f) /\ \A d : LastAbout(eventQueue', f, d) => d = e
  BY AppendAbout DEF Logs
<1>2. ScreenFollows(f)' <=>
        /\ \A d : LastAbout(eventQueue', f, d) => (f \in held' <=> ~Ends(d))
        /\ Silent(eventQueue', f) => (f \in held' <=> f \in Touching')
  BY DEF ScreenFollows, LastAbout, Silent, About, Ends
<1>3. QED
  BY <1>1, <1>2

\* Processing an event leaves the last word about a finger with the queue or the list.
LEMMA ScreenProcessed ==
  ASSUME Logs, NEW f, ScreenFollows(f), eventQueue # <<>>,
         eventQueue' = Tail(eventQueue), held' = held,
         f \in Touching' <=> IF About(Head(eventQueue), f) THEN ~Ends(Head(eventQueue))
                             ELSE f \in Touching
  PROVE  ScreenFollows(f)'
<1>. DEFINE e == Head(eventQueue)
<1>1. /\ Silent(eventQueue, f) <=> ~About(e, f) /\ Silent(eventQueue', f)
      /\ \A d : LastAbout(eventQueue', f, d) => LastAbout(eventQueue, f, d)
      /\ About(e, f) /\ Silent(eventQueue', f) => LastAbout(eventQueue, f, e)
  BY TailAbout DEF Logs
<1>2. f \in Touching' <=> IF About(e, f) THEN ~Ends(e) ELSE f \in Touching
  OBVIOUS
<1>. HIDE DEF e
<1>3. ScreenFollows(f)' <=>
        /\ \A d : LastAbout(eventQueue', f, d) => (f \in held <=> ~Ends(d))
        /\ Silent(eventQueue', f) => (f \in held <=> f \in Touching')
  BY DEF ScreenFollows, LastAbout, Silent, About, Ends
<1>4. QED
  BY <1>1, <1>2, <1>3 DEF ScreenFollows

\* Each of the two conjuncts of Alternates, for a queue and what the screen tells.
FirstFits(q, f, touching) ==
    \A i \in 1 .. Len(q) :
       About(q[i], f) /\ (\A j \in 1 .. Len(q) : j < i => ~About(q[j], f))
       => (q[i].type = "TouchDown" <=> ~touching)

TurnsFit(q, f) ==
    \A i, j \in 1 .. Len(q) :
       /\ i < j /\ About(q[i], f) /\ About(q[j], f)
       /\ \A k \in 1 .. Len(q) : i < k /\ k < j => ~About(q[k], f)
       => (q[j].type = "TouchDown" <=> Ends(q[i]))

\* The two conjuncts of Alternates, in the state and the next.
LEMMA AlternatesParts ==
  /\ \A f : Alternates(f) <=> FirstFits(eventQueue, f, f \in Touching) /\ TurnsFit(eventQueue, f)
  /\ \A f : Alternates(f)' <=> FirstFits(eventQueue', f, f \in Touching') /\ TurnsFit(eventQueue', f)
BY DEF Alternates, FirstFits, TurnsFit, About, Ends

\* A finger's events still take turns after a push that takes its turn.
LEMMA AlternatesAppend ==
  ASSUME Logs, NEW f, Alternates(f), ScreenFollows(f), NEW e \in Event,
         eventQueue' = Append(eventQueue, e), f \in Touching' <=> f \in Touching,
         About(e, f) => (e.type = "TouchDown" <=> f \notin held)
  PROVE  Alternates(f)'
<1>. DEFINE q == eventQueue
            n == Len(q)
            r == eventQueue'
<1>1. /\ Len(r) = n + 1 /\ n \in Nat /\ r[n + 1] = e
      /\ \A i \in 1 .. n : r[i] = q[i]
      /\ 1 .. Len(r) = 1 .. n \cup {n + 1} /\ \A i \in 1 .. n : i < n + 1
  BY AppendProperties, LenProperties DEF Logs
<1>2. FirstFits(q, f, f \in Touching) /\ TurnsFit(q, f)
  BY AlternatesParts
<1>3. /\ \A d : LastAbout(q, f, d) => (f \in held <=> ~Ends(d))
      /\ Silent(q, f) => (f \in held <=> f \in Touching)
  BY DEF ScreenFollows
<1>. HIDE DEF q, n, r
<1>4. FirstFits(r, f, f \in Touching')
  <2>. SUFFICES ASSUME NEW i \in 1 .. Len(r), About(r[i], f),
                       \A j \in 1 .. Len(r) : j < i => ~About(r[j], f)
                PROVE  r[i].type = "TouchDown" <=> f \notin Touching
    BY DEF FirstFits, r
  <2>1. CASE i \in 1 .. n
    <3>1. \A j \in 1 .. n : j < i => ~About(q[j], f)
      BY <1>1
    <3>2. About(q[i], f) /\ r[i] = q[i]
      BY <1>1, <2>1
    <3>3. QED
      BY <1>2, <2>1, <3>1, <3>2 DEF FirstFits, n
  <2>2. CASE i = n + 1
    <3>1. Silent(q, f) /\ r[i] = e
      <4>1. \A j \in 1 .. n : ~About(q[j], f)
        BY <1>1, <2>2
      <4>2. QED
        BY <1>1, <2>2, <4>1 DEF Silent, n
    <3>2. QED
      BY <1>3, <3>1
  <2>3. QED
    BY <1>1, <2>1, <2>2
<1>5. TurnsFit(r, f)
  <2>. SUFFICES ASSUME NEW i \in 1 .. Len(r), NEW j \in 1 .. Len(r), i < j,
                       About(r[i], f), About(r[j], f),
                       \A k \in 1 .. Len(r) : i < k /\ k < j => ~About(r[k], f)
                PROVE  r[j].type = "TouchDown" <=> Ends(r[i])
    BY DEF TurnsFit
  <2>0. i \in 1 .. n
    BY <1>1
  <2>1. CASE j \in 1 .. n
    <3>1. \A k \in 1 .. n : i < k /\ k < j => ~About(q[k], f)
      BY <1>1
    <3>2. About(q[i], f) /\ About(q[j], f) /\ r[i] = q[i] /\ r[j] = q[j]
      BY <1>1, <2>0, <2>1
    <3>3. QED
      BY <1>2, <2>0, <2>1, <3>1, <3>2 DEF TurnsFit, n
  <2>2. CASE j = n + 1
    <3>1. \A k \in 1 .. n : i < k => ~About(q[k], f)
      BY <1>1, <2>2
    <3>2. LastAbout(q, f, q[i])
      BY <1>1, <2>0, <3>1 DEF LastAbout, n
    <3>3. r[i] = q[i] /\ r[j] = e
      BY <1>1, <2>0, <2>2
    <3>4. QED
      BY <1>3, <3>2, <3>3
  <2>3. QED
    BY <1>1, <2>1, <2>2
<1>6. QED
  BY <1>4, <1>5, AlternatesParts DEF r

\* A finger's events still take turns when the first of the queue is processed.
LEMMA AlternatesTail ==
  ASSUME Logs, NEW f, Alternates(f), eventQueue # <<>>, eventQueue' = Tail(eventQueue),
         f \in Touching' <=> IF About(Head(eventQueue), f) THEN ~Ends(Head(eventQueue))
                             ELSE f \in Touching
  PROVE  Alternates(f)'
<1>. DEFINE q == eventQueue
            n == Len(q)
            r == eventQueue'
            touching == f \in Touching'
<1>1. /\ n \in Nat \ {0} /\ Head(q) = q[1] /\ Len(r) = n - 1
      /\ \A i \in 1 .. n - 1 : r[i] = q[i + 1]
  BY HeadAndTail DEF Logs
<1>2. /\ FirstFits(q, f, f \in Touching) /\ TurnsFit(q, f)
      /\ touching <=> IF About(q[1], f) THEN ~Ends(q[1]) ELSE f \in Touching
  BY <1>1, AlternatesParts
<1>. HIDE DEF q, n, r, touching
<1>3. /\ 1 \in 1 .. n
      /\ \A i \in 1 .. Len(r) : i + 1 \in 1 .. n /\ r[i] = q[i + 1] /\ i \in Nat /\ 1 < i + 1
      /\ \A j \in 1 .. n : j = 1 \/ (j - 1 \in 1 .. Len(r) /\ q[j] = r[j - 1])
  BY <1>1
<1>4. FirstFits(r, f, touching)
  <2>. SUFFICES ASSUME NEW i \in 1 .. Len(r), About(r[i], f),
                       \A j \in 1 .. Len(r) : j < i => ~About(r[j], f)
                PROVE  r[i].type = "TouchDown" <=> ~touching
    BY DEF FirstFits
  <2>1. ASSUME NEW j \in 1 .. n, j < i + 1, j # 1 PROVE ~About(q[j], f)
    <3>1. j - 1 \in 1 .. Len(r) /\ q[j] = r[j - 1] /\ j - 1 < i
      BY <1>1, <1>3, <2>1
    <3>2. QED
      BY <3>1
  <2>2. CASE About(q[1], f)
    <3>1. \A k \in 1 .. n : 1 < k /\ k < i + 1 => ~About(q[k], f)
      BY <2>1, <1>1
    <3>2. q[i + 1].type = "TouchDown" <=> Ends(q[1])
      BY <1>2, <1>3, <2>2, <3>1 DEF TurnsFit, n
    <3>3. QED
      BY <1>2, <1>3, <2>2, <3>2
  <2>3. CASE ~About(q[1], f)
    <3>1. \A j \in 1 .. n : j < i + 1 => ~About(q[j], f)
      BY <2>1, <2>3
    <3>2. q[i + 1].type = "TouchDown" <=> f \notin Touching
      BY <1>2, <1>3, <3>1 DEF FirstFits, n
    <3>3. QED
      BY <1>2, <1>3, <2>3, <3>2
  <2>4. QED
    BY <2>2, <2>3
<1>5. TurnsFit(r, f)
  <2>. SUFFICES ASSUME NEW i \in 1 .. Len(r), NEW j \in 1 .. Len(r), i < j,
                       About(r[i], f), About(r[j], f),
                       \A k \in 1 .. Len(r) : i < k /\ k < j => ~About(r[k], f)
                PROVE  r[j].type = "TouchDown" <=> Ends(r[i])
    BY DEF TurnsFit
  <2>1. ASSUME NEW k \in 1 .. n, i + 1 < k, k < j + 1 PROVE ~About(q[k], f)
    <3>1. k # 1
      BY <1>1, <2>1
    <3>2. k - 1 \in 1 .. Len(r) /\ q[k] = r[k - 1]
      BY <1>3, <3>1
    <3>3. i < k - 1 /\ k - 1 < j
      BY <1>1, <2>1
    <3>4. QED
      BY <3>2, <3>3
  <2>2. i + 1 < j + 1 /\ About(q[i + 1], f) /\ About(q[j + 1], f)
    BY <1>3
  <2>3. q[j + 1].type = "TouchDown" <=> Ends(q[i + 1])
    BY <1>2, <1>3, <2>1, <2>2 DEF TurnsFit, n
  <2>4. QED
    BY <1>3, <2>3
<1>6. QED
  BY <1>4, <1>5, AlternatesParts DEF r, touching

\* A push that says nothing of any key or touch, while messages that say nothing of
\* one may be added or discarded.
LEMMA QuietPush ==
  ASSUME Logs, Follows, NEW e \in Event, \A x : ~About(e, x),
         eventQueue' = Append(eventQueue, e), held' = held, UNCHANGED inputVars,
         \A k \in Key : /\ Silent(messages', k) <=> Silent(messages, k)
                        /\ \A d : LastAbout(messages', k, d) => LastAbout(messages, k, d)
  PROVE  Follows'
<1>1. currentKeys' = currentKeys /\ Touching' = Touching /\ OneEntry'
  BY DEF inputVars, Touching, Follows, OneEntry
<1>2. \A x : /\ Silent(eventQueue', x) <=> Silent(eventQueue, x)
             /\ \A d : LastAbout(eventQueue', x, d) => LastAbout(eventQueue, x, d)
  BY AppendAbout DEF Logs
<1>3. \A k \in Key : KeyFollows(k)'
  BY <1>1, <1>2, KeyKeeps DEF Follows
<1>4. ASSUME NEW f \in Finger PROVE ScreenFollows(f)' /\ Alternates(f)'
  <2>1. ScreenFollows(f) /\ Alternates(f)
    BY DEF Follows
  <2>2. f \in held' <=> f \in held
    OBVIOUS
  <2>3. ScreenFollows(f)'
    BY <1>1, <1>2, <2>1, <2>2, ScreenKeeps
  <2>4. About(e, f) => (e.type = "TouchDown" <=> f \notin held)
    OBVIOUS
  <2>5. Alternates(f)'
    BY <1>1, <2>1, <2>4, AlternatesAppend
  <2>6. QED
    BY <2>3, <2>5
<1>5. QED
  BY <1>1, <1>3, <1>4 DEF Follows

\* Messages that say nothing of a key come or go; nothing else happens.
LEMMA QuietMessages ==
  ASSUME Follows, eventQueue' = eventQueue, held' = held, UNCHANGED inputVars,
         \A k \in Key : /\ Silent(messages', k) <=> Silent(messages, k)
                        /\ \A d : LastAbout(messages', k, d) => LastAbout(messages, k, d)
  PROVE  Follows'
<1>1. currentKeys' = currentKeys /\ Touching' = Touching /\ OneEntry'
  BY DEF inputVars, Touching, Follows, OneEntry
<1>2. \A k \in Key : KeyFollows(k)'
  BY <1>1, KeyKeeps DEF Follows
<1>3. ASSUME NEW f \in Finger PROVE ScreenFollows(f)' /\ Alternates(f)'
  <2>1. ScreenFollows(f) /\ Alternates(f)
    BY DEF Follows
  <2>2. ScreenFollows(f)'
    BY <1>1, <2>1, ScreenKeeps
  <2>3. Alternates(f)'
    BY <1>1, <2>1, AlternatesParts
  <2>4. QED
    BY <2>2, <2>3
<1>4. QED
  BY <1>1, <1>2, <1>3 DEF Follows

\* A step that touches neither messages, events nor input keeps Follows.
LEMMA QuietStep ==
  ASSUME Follows, UNCHANGED <<messages, eventQueue, held, inputVars>>
  PROVE  Follows'
BY QuietMessages

\* The messages of a window that is destroyed say nothing of keys.
LEMMA Discarded ==
  ASSUME Logs, NEW w \in Window
  PROVE  /\ MessagesWithout(w) \in Seq(Message)
         /\ \A k : /\ Silent(MessagesWithout(w), k) <=> Silent(messages, k)
                   /\ \A d : LastAbout(MessagesWithout(w), k, d) => LastAbout(messages, k, d)
<1>. DEFINE I == {i \in 1 .. Len(messages) : messages[i] # Item("WindowClosed", w)}
<1>1. /\ messages \in Seq(Message) /\ DOMAIN messages = 1 .. Len(messages)
      /\ MessagesWithout(w) = Kept(messages, I) /\ I \in SUBSET (1 .. Len(messages))
  BY LenProperties DEF Logs, MessagesWithout
<1>2. \A x, i : i \in 1 .. Len(messages) => i \in I \/ ~About(messages[i], x)
  BY DEF Item, About
<1>. HIDE DEF I
<1>3. MessagesWithout(w) \in Seq(Message)
  <2>1. Kept(messages, I) \in Seq(Message)
    BY <1>1, KeptProperties
  <2>2. QED
    BY <1>1, <2>1
<1>4. ASSUME NEW k
      PROVE  /\ Silent(MessagesWithout(w), k) <=> Silent(messages, k)
             /\ \A d : LastAbout(MessagesWithout(w), k, d) => LastAbout(messages, k, d)
  <2>1. \A i \in 1 .. Len(messages) : i \in I \/ ~About(messages[i], k)
    BY <1>2
  <2>2. /\ Silent(Kept(messages, I), k) <=> Silent(messages, k)
        /\ \A d : LastAbout(Kept(messages, I), k, d) => LastAbout(messages, k, d)
    BY <1>1, <2>1, KeptAbout
  <2>3. QED
    BY <1>1, <2>2
<1>5. QED
  BY <1>3, <1>4

-----------------------------------------------------------------------------

\* Each action keeps Follows: a key pressed or released,
LEMMA PressKeyFollows ==
  ASSUME Logs, Follows, NEW k \in Key, PressKey(k)
  PROVE  Logs' /\ Follows'
<1>. DEFINE e == Item(IF k \in held THEN "Up" ELSE "Down", k)
<1>1. /\ held' = IF k \in held THEN held \ {k} ELSE held \cup {k}
      /\ messages' = Append(messages, e) /\ eventQueue' = eventQueue /\ UNCHANGED inputVars
  BY DEF PressKey
<1>2. /\ e \in Message /\ About(e, k) /\ (k \in held' <=> ~Ends(e))
      /\ \A x : x # k => ~About(e, x)
  BY <1>1 DEF Item, Message, About, Ends
<1>. HIDE DEF e
<1>3. Logs'
  BY <1>1, <1>2, AppendProperties DEF Logs
<1>4. currentKeys' = currentKeys /\ Touching' = Touching /\ OneEntry'
  BY <1>1 DEF inputVars, Touching, Follows, OneEntry
<1>5. ASSUME NEW x \in Key PROVE KeyFollows(x)'
  <2>1. CASE x = k
    BY <1>1, <1>2, <2>1, KeyPressed
  <2>2. CASE x # k
    <3>1. /\ Silent(messages', x) <=> Silent(messages, x)
          /\ \A d : LastAbout(messages', x, d) => LastAbout(messages, x, d)
      BY <1>1, <1>2, <2>2, AppendAbout DEF Logs
    <3>2. x \in held' <=> x \in held
      BY <1>1, <2>2
    <3>3. KeyFollows(x)
      BY DEF Follows
    <3>4. QED
      BY <1>1, <1>4, <3>1, <3>2, <3>3, KeyKeeps
  <2>3. QED
    BY <2>1, <2>2
<1>6. ASSUME NEW f \in Finger PROVE ScreenFollows(f)' /\ Alternates(f)'
  <2>1. ScreenFollows(f) /\ Alternates(f)
    BY DEF Follows
  <2>2. f # k
    BY InputAssumption
  <2>3. f \in held' <=> f \in held
    BY <1>1, <2>2
  <2>4. ScreenFollows(f)'
    BY <1>1, <1>4, <2>1, <2>3, ScreenKeeps
  <2>5. Alternates(f)'
    BY <1>1, <1>4, <2>1, AlternatesParts
  <2>6. QED
    BY <2>4, <2>5
<1>7. QED
  BY <1>3, <1>4, <1>5, <1>6 DEF Follows

\* a window closed by the system,
LEMMA CloseWindowFollows ==
  ASSUME Logs, Follows, NEW w \in Window, CloseWindow(w)
  PROVE  Logs' /\ Follows'
<1>. DEFINE e == Item("WindowClosed", w)
<1>1. /\ messages' = Append(messages, e)
      /\ UNCHANGED <<eventQueue, held, inputVars>>
  BY DEF CloseWindow
<1>2. e \in Message /\ \A x : ~About(e, x)
  BY DEF Item, Message, About
<1>. HIDE DEF e
<1>3. Logs'
  BY <1>1, <1>2, AppendProperties DEF Logs
<1>4. \A x : /\ Silent(messages', x) <=> Silent(messages, x)
             /\ \A d : LastAbout(messages', x, d) => LastAbout(messages, x, d)
  BY <1>1, <1>2, AppendAbout DEF Logs
<1>5. QED
  BY <1>1, <1>3, <1>4, QuietMessages

\* a touch pushed by another thread,
LEMMA TouchFollows ==
  ASSUME Logs, Follows, NEW f \in Finger, Touch(f)
  PROVE  Logs' /\ Follows'
<1>1. PICK e \in [type : {"TouchDown", "TouchMove", "TouchUp"}, what : {f}] :
         /\ eventQueue' = Append(eventQueue, e)
         /\ e.type = "TouchDown" <=> f \notin held
         /\ held' = IF Ends(e) THEN held \ {f} ELSE held \cup {f}
  <2>1. CASE f \notin held /\ held' = held \cup {f} /\ PushEvent(Item("TouchDown", f))
    <3>. DEFINE e == Item("TouchDown", f)
    <3>1. /\ e \in [type : {"TouchDown", "TouchMove", "TouchUp"}, what : {f}]
          /\ eventQueue' = Append(eventQueue, e)
          /\ e.type = "TouchDown"
      BY <2>1 DEF Item, PushEvent
    <3>. HIDE DEF e
    <3>2. QED
      BY <2>1, <3>1 DEF Ends
  <2>2. CASE f \in held /\ held' = held \ {f} /\ PushEvent(Item("TouchUp", f))
    <3>. DEFINE e == Item("TouchUp", f)
    <3>1. /\ e \in [type : {"TouchDown", "TouchMove", "TouchUp"}, what : {f}]
          /\ eventQueue' = Append(eventQueue, e)
          /\ e.type = "TouchUp"
      BY <2>2 DEF Item, PushEvent
    <3>. HIDE DEF e
    <3>2. QED
      BY <2>2, <3>1 DEF Ends
  <2>3. CASE f \in held /\ UNCHANGED held /\ PushEvent(Item("TouchMove", f))
    <3>. DEFINE e == Item("TouchMove", f)
    <3>1. /\ e \in [type : {"TouchDown", "TouchMove", "TouchUp"}, what : {f}]
          /\ eventQueue' = Append(eventQueue, e)
          /\ e.type = "TouchMove"
      BY <2>3 DEF Item, PushEvent
    <3>. HIDE DEF e
    <3>2. QED
      BY <2>3, <3>1 DEF Ends
  <2>4. QED
    BY <2>1, <2>2, <2>3 DEF Touch
<1>2. messages' = messages /\ UNCHANGED inputVars
  BY DEF Touch
<1>3. /\ e \in Event /\ About(e, f) /\ (f \in held' <=> ~Ends(e))
      /\ \A x : x # f => ~About(e, x)
  BY <1>1 DEF Event, About, Ends
<1>4. Logs'
  BY <1>1, <1>2, <1>3, AppendProperties DEF Logs
<1>5. currentKeys' = currentKeys /\ Touching' = Touching /\ OneEntry'
  BY <1>2 DEF inputVars, Touching, Follows, OneEntry
<1>6. \A x : x # f =>
         /\ Silent(eventQueue', x) <=> Silent(eventQueue, x)
         /\ \A d : LastAbout(eventQueue', x, d) => LastAbout(eventQueue, x, d)
         /\ x \in held' <=> x \in held
  BY <1>1, <1>3, AppendAbout DEF Logs
<1>7. ASSUME NEW k \in Key PROVE KeyFollows(k)'
  <2>1. k # f /\ KeyFollows(k)
    BY InputAssumption DEF Follows
  <2>2. QED
    BY <1>2, <1>5, <1>6, <2>1, KeyKeeps
<1>8. ASSUME NEW g \in Finger PROVE ScreenFollows(g)' /\ Alternates(g)'
  <2>1. ScreenFollows(g) /\ Alternates(g)
    BY DEF Follows
  <2>2. ScreenFollows(g)'
    <3>1. CASE g = f
      BY <1>1, <1>3, <3>1, ScreenTouched
    <3>2. CASE g # f
      BY <1>5, <1>6, <2>1, <3>2, ScreenKeeps
    <3>3. QED
      BY <3>1, <3>2
  <2>3. About(e, g) => (e.type = "TouchDown" <=> g \notin held)
    BY <1>1, <1>3
  <2>4. Alternates(g)'
    BY <1>1, <1>3, <1>5, <2>1, <2>3, AlternatesAppend
  <2>5. QED
    BY <2>2, <2>4
<1>9. QED
  BY <1>4, <1>5, <1>7, <1>8 DEF Follows

\* Pushing an event about a window.
LEMMA WindowEvent ==
  ASSUME NEW type \in {"WindowCreated", "WindowClosed", "WindowDestroyed"},
         NEW w \in Window \cup {InvalidWindowId}
  PROVE  Item(type, w) \in Event /\ \A x : ~About(Item(type, w), x)
BY DEF Item, Event, About

\* the pump's step, which makes an event of a message,
LEMMA PumpMessageFollows ==
  ASSUME Logs, Follows, mainWindow \in Window \cup {InvalidWindowId},
         PumpMessage, UNCHANGED inputVars
  PROVE  Logs' /\ Follows'
<1>. DEFINE m == Head(messages)
<1>0. messages # <<>> /\ m \in Message /\ held' = held
  BY HeadAndTail DEF PumpMessage, Logs
<1>1. CASE m.type = "WindowClosed"
  <2>1. /\ messages' = MessagesWithout(m.what)
        /\ eventQueue' = Append(eventQueue, Item("WindowClosed", mainWindow))
    BY <1>1 DEF PumpMessage, PushEvent
  <2>2. m.what \in Window
    BY <1>0, <1>1 DEF Message
  <2>. HIDE DEF m
  <2>3. Item("WindowClosed", mainWindow) \in Event /\ \A x : ~About(Item("WindowClosed", mainWindow), x)
    BY WindowEvent
  <2>4. Logs'
    BY <2>1, <2>2, <2>3, Discarded, AppendProperties DEF Logs
  <2>5. Follows'
    BY <1>0, <2>1, <2>2, <2>3, Discarded, QuietPush
  <2>6. QED
    BY <2>4, <2>5
<1>2. CASE m.type # "WindowClosed"
  <2>1. messages' = Tail(messages) /\ eventQueue' = Append(eventQueue, m)
    BY <1>2 DEF PumpMessage, PushEvent
  <2>2. m \in Event /\ m.what \in Key
    BY <1>0, <1>2 DEF Event, Message
  <2>3. Logs'
    BY <1>0, <2>1, <2>2, HeadAndTail, AppendProperties DEF Logs
  <2>4. currentKeys' = currentKeys /\ Touching' = Touching /\ OneEntry'
    BY DEF inputVars, Touching, Follows, OneEntry
  <2>5. \A k \in Key : KeyFollows(k)'
    BY <1>0, <2>1, <2>4, KeyPumped DEF Follows
  <2>6. ASSUME NEW f \in Finger PROVE ScreenFollows(f)' /\ Alternates(f)'
    <3>1. ScreenFollows(f) /\ Alternates(f)
      BY DEF Follows
    <3>2. ~About(m, f)
      BY <2>2, InputAssumption DEF About
    <3>3. /\ Silent(eventQueue', f) <=> Silent(eventQueue, f)
          /\ \A d : LastAbout(eventQueue', f, d) => LastAbout(eventQueue, f, d)
      BY <2>1, <2>2, <3>2, AppendAbout DEF Logs
    <3>4. ScreenFollows(f)'
      BY <1>0, <2>4, <3>1, <3>3, ScreenKeeps
    <3>5. Alternates(f)'
      BY <2>1, <2>2, <2>4, <3>1, <3>2, AlternatesAppend
    <3>6. QED
      BY <3>4, <3>5
  <2>7. QED
    BY <2>3, <2>4, <2>5, <2>6 DEF Follows
<1>3. QED
  BY <1>1, <1>2

\* and ProcessEvents' step, with EndFrame when the queue is empty.
LEMMA ProcessEventsFollows ==
  ASSUME Logs, Follows, InputTypeOK, ProcessEvents
  PROVE  Logs' /\ Follows' /\ InputTypeOK'
<1>0. messages' = messages /\ held' = held
  BY DEF ProcessEvents, systemVars
<1>1. CASE eventQueue = <<>>
  <2>1. EndFrame /\ eventQueue' = eventQueue
    BY <1>1 DEF ProcessEvents
  <2>2. InputTypeOK' /\ OneEntry' /\ currentKeys' = currentKeys
        /\ \A f : f \in Touching' <=> f \in Touching
    BY <2>1, FrameEnds DEF Follows
  <2>3. \A k \in Key : KeyFollows(k)'
    BY <1>0, <2>1, <2>2, KeyKeeps DEF Follows
  <2>4. ASSUME NEW f \in Finger PROVE ScreenFollows(f)' /\ Alternates(f)'
    <3>1. ScreenFollows(f) /\ Alternates(f)
      BY DEF Follows
    <3>2. ScreenFollows(f)'
      BY <1>0, <2>1, <2>2, <3>1, ScreenKeeps
    <3>3. (f \in Touching') = (f \in Touching)
      BY <2>2
    <3>4. Alternates(f)'
      BY <2>1, <3>1, <3>3, AlternatesParts
    <3>5. QED
      BY <3>2, <3>4
  <2>5. QED
    BY <1>0, <2>1, <2>2, <2>3, <2>4 DEF Follows, Logs
<1>2. CASE eventQueue # <<>>
  <2>. DEFINE e == Head(eventQueue)
  <2>1. UpdateFromEvent(e) /\ eventQueue' = Tail(eventQueue)
    BY <1>2 DEF ProcessEvents
  <2>2. /\ e \in Event /\ e = eventQueue[1] /\ 1 \in 1 .. Len(eventQueue)
        /\ \A j \in 1 .. Len(eventQueue) : ~ (j < 1)
        /\ Tail(eventQueue) \in Seq(Event)
    BY <1>2, HeadAndTail DEF Logs
  <2>3. ASSUME NEW f \in Finger, About(e, f)
        PROVE  e.type = "TouchDown" <=> f \notin Touching
    <3>1. FirstFits(eventQueue, f, f \in Touching)
      BY AlternatesParts DEF Follows
    <3>2. QED
      BY <2>2, <2>3, <3>1 DEF FirstFits
  <2>4. /\ InputTypeOK' /\ OneEntry'
        /\ \A k \in Key : k \in currentKeys' <=> IF About(e, k) THEN ~Ends(e)
                                                 ELSE k \in currentKeys
        /\ \A f \in Finger : f \in Touching' <=> IF About(e, f) THEN ~Ends(e)
                                                 ELSE f \in Touching
    BY <2>1, <2>2, <2>3, DevicesUpdate DEF Follows
  <2>5. \A k \in Key : KeyFollows(k)'
    BY <1>0, <1>2, <2>1, <2>4, KeyProcessed DEF Follows
  <2>6. ASSUME NEW f \in Finger PROVE ScreenFollows(f)' /\ Alternates(f)'
    <3>1. ScreenFollows(f) /\ Alternates(f)
      BY DEF Follows
    <3>2. f \in Touching' <=> IF About(e, f) THEN ~Ends(e) ELSE f \in Touching
      BY <2>4
    <3>3. QED
      BY <1>0, <1>2, <2>1, <3>1, <3>2, ScreenProcessed, AlternatesTail
  <2>7. QED
    BY <1>0, <2>1, <2>2, <2>4, <2>5, <2>6 DEF Follows, Logs
<1>3. QED
  BY <1>1, <1>2

-----------------------------------------------------------------------------
(* The invariant and its steps *)

Pc == {"pump", "windowCallback", "callbacks", "batch", "sort", "ticks", "input",
       "exited", "destroyed"}

RunTyped == /\ pc \in Pc
            /\ isRunning \in BOOLEAN /\ isPaused \in BOOLEAN
            /\ quit \in BOOLEAN /\ closed \in BOOLEAN
            /\ held \subseteq Key \cup Finger

WindowsTyped == /\ DOMAIN windows \subseteq Window /\ windows \in [DOMAIN windows -> BOOLEAN]
                /\ mainWindow \in Window \cup {InvalidWindowId}
                /\ nextWindowId \in Nat \ {0}
                /\ native \subseteq Window

TicksTyped == /\ DOMAIN tickCallbacks \subseteq TickId
              /\ tickCallbacks \in [DOMAIN tickCallbacks -> Priority]
              /\ nextCallbackId \in Nat \ {0}
              /\ sortedCallbacks \in Seq(TickId)

\* The exit comes with the close of a window.
ExitPumped == NoTickAfterClose /\ (closed => quit \/ ~isRunning)

LoopIInv == /\ PoolInv /\ InputTypeOK /\ Logs
            /\ RunTyped /\ WindowsTyped /\ TicksTyped
            /\ MainWindowOpen /\ ExitPumped /\ Follows

\* A function with an empty domain is the empty sequence.
LEMMA EmptyWindows == WindowsTyped => (windows = <<>> <=> DOMAIN windows = {})
<1>. SUFFICES ASSUME WindowsTyped PROVE windows = <<>> <=> DOMAIN windows = {}
  OBVIOUS
<1>1. ASSUME DOMAIN windows = {} PROVE windows = <<>>
  <2>1. 1 .. 0 = {}
    OBVIOUS
  <2>2. windows \in [1 .. 0 -> BOOLEAN]
    BY <1>1, <2>1 DEF WindowsTyped
  <2>3. windows \in Seq(BOOLEAN) /\ Len(windows) = 0
    BY <2>2, SeqDef
  <2>4. QED
    BY <2>3, EmptySeq
<1>2. ASSUME windows = <<>> PROVE DOMAIN windows = {}
  BY <1>2
<1>3. QED
  BY <1>1, <1>2

\* The initial states satisfy the invariant.
LEMMA LoopInitHolds == LoopInit => LoopIInv
<1>. SUFFICES ASSUME LoopInit PROVE LoopIInv
  OBVIOUS
<1>0. /\ eventQueue = <<Item("WindowCreated", 1)>> /\ messages = <<>>
      /\ currentKeys = {} /\ touches = <<>> /\ held = {} /\ previousKeys = {}
  BY DEF LoopInit, InputInit
<1>1. PoolInv
  <2>0. /\ callbackThreadType = "WorkerThread" /\ toWorker = {}
        /\ main_thread_callbacks = <<>> /\ batch = <<>> /\ ranMain = <<>> /\ sentMain = <<>>
        /\ workerQueue = <<>> /\ ranWorker = <<>>
    BY DEF LoopInit, Pool!Init, Pool!InitQueues
  <2>1. Pool!TypeOK
    BY <2>0, EmptySeq DEF Pool!TypeOK, Pool!CallbackThreadType
  <2>2. <<>> \o <<>> = <<>>
    BY EmptySeq, ConcatEmptySeq
  <2>3. Range(<<>>) = {}
    BY DEF Range
  <2>4. Unlike(<<>>)
    BY EmptySeq DEF Unlike
  <2>5. QED
    BY <2>0, <2>1, <2>2, <2>3, <2>4 DEF PoolInv, Routed, Pool!MainOrderKept, OnWorker
<1>2. InputTypeOK
  BY <1>0, EmptySeq DEF InputTypeOK
<1>3. 1 \in Window /\ 1 \in TickId /\ MaxWindows \in Nat
  BY LoopAssumption DEF Window, TickId
<1>4. Item("WindowCreated", 1) \in Event /\ \A x : ~About(Item("WindowCreated", 1), x)
  BY <1>3, WindowEvent
<1>5. Logs
  <2>. HIDE DEF Event, Message
  <2>1. messages \in Seq(Message)
    BY <1>0, EmptySeq
  <2>2. eventQueue \in Seq(Event)
    BY <1>0, <1>4
  <2>3. QED
    BY <2>1, <2>2 DEF Logs
<1>6. Len(eventQueue) = 1 /\ eventQueue[1] = Item("WindowCreated", 1)
  BY <1>0
<1>7. Follows
  <2>1. \A x : /\ Silent(messages, x) /\ \A e : ~LastAbout(messages, x, e)
    BY <1>0, EmptySeq DEF Silent, LastAbout
  <2>2. \A i \in 1 .. Len(eventQueue) : \A x : ~About(eventQueue[i], x)
    BY <1>4, <1>6
  <2>3. \A x : Silent(eventQueue, x) /\ \A e : ~LastAbout(eventQueue, x, e)
    BY <2>2 DEF Silent, LastAbout
  <2>4. Len(touches) = 0 /\ DOMAIN touches = {}
    BY <1>0, EmptySeq
  <2>5. OneEntry /\ Touching = {}
    BY <2>4 DEF OneEntry, Touching
  <2>6. \A k \in Key : KeyFollows(k)
    BY <1>0, <2>1, <2>3 DEF KeyFollows
  <2>7. \A f \in Finger : ScreenFollows(f)
    BY <1>0, <2>3, <2>5 DEF ScreenFollows
  <2>8. \A f \in Finger : Alternates(f)
    BY <2>2 DEF Alternates
  <2>9. QED
    BY <2>5, <2>6, <2>7, <2>8 DEF Follows
<1>8. RunTyped /\ ExitPumped
  BY <1>0 DEF LoopInit, RunTyped, Pc, ExitPumped, NoTickAfterClose
<1>9. WindowsTyped /\ MainWindowOpen
  <2>1. windows = [w \in {1} |-> FALSE] /\ mainWindow = 1 /\ nextWindowId = 2 /\ native = {1}
    BY DEF LoopInit
  <2>2. DOMAIN windows = {1} /\ windows \in [DOMAIN windows -> BOOLEAN]
    BY <2>1
  <2>3. WindowsTyped
    BY <1>3, <2>1, <2>2 DEF WindowsTyped
  <2>4. QED
    BY <2>1, <2>2, <2>3, EmptyWindows DEF MainWindowOpen
<1>10. TicksTyped
  <2>1. tickCallbacks = [t \in {1} |-> 0] /\ nextCallbackId = 2 /\ sortedCallbacks = <<>>
    BY DEF LoopInit
  <2>2. DOMAIN tickCallbacks = {1} /\ tickCallbacks \in [DOMAIN tickCallbacks -> Priority]
    BY <2>1 DEF Priority
  <2>3. QED
    BY <1>3, <2>1, <2>2, EmptySeq DEF TicksTyped
<1>11. QED
  BY <1>1, <1>2, <1>5, <1>7, <1>8, <1>9, <1>10 DEF LoopIInv

-----------------------------------------------------------------------------
\* Parts of the invariant that a step leaves alone.

\* Windows,
LEMMA WindowsStay ==
  ASSUME WindowsTyped, MainWindowOpen, UNCHANGED <<windowVars, native>>,
         pc' # "destroyed" => pc # "destroyed"
  PROVE  WindowsTyped' /\ MainWindowOpen'
BY DEF WindowsTyped, MainWindowOpen, windowVars

\* ticks,
LEMMA TicksStay ==
  ASSUME TicksTyped, UNCHANGED <<tickVars, sortedCallbacks>>
  PROVE  TicksTyped'
BY DEF TicksTyped, tickVars

\* devices,
LEMMA InputStays == InputTypeOK /\ UNCHANGED inputVars => InputTypeOK'
BY DEF InputTypeOK, inputVars

\* and the two queues of messages and events.
LEMMA LogsStay == Logs /\ UNCHANGED <<messages, eventQueue>> => Logs'
BY DEF Logs

\* What a step of the pool, of the system or of another thread leaves alone.
LEMMA LoopStays ==
  ASSUME LoopIInv, UNCHANGED <<pc, runVars, windowVars, tickVars, sortedCallbacks, native, quit, closed>>
  PROVE  WindowsTyped' /\ MainWindowOpen' /\ TicksTyped' /\ ExitPumped'
         /\ (held' \subseteq Key \cup Finger => RunTyped')
<1>1. WindowsTyped' /\ MainWindowOpen' /\ TicksTyped'
  BY WindowsStay, TicksStay DEF LoopIInv
<1>2. ExitPumped'
  BY DEF LoopIInv, ExitPumped, NoTickAfterClose, runVars
<1>3. held' \subseteq Key \cup Finger => RunTyped'
  BY DEF LoopIInv, RunTyped, runVars
<1>4. QED
  BY <1>1, <1>2, <1>3

\* Steps of the system and of other threads keep the invariant.
LEMMA OutsideKeeps ==
  ASSUME LoopIInv,
         \/ \E k \in Key : PressKey(k)
         \/ \E w \in Window : CloseWindow(w)
         \/ \E f \in Finger : Touch(f)
  PROVE  LoopIInv'
<1>0. Logs /\ Follows
  BY DEF LoopIInv
<1>1. Logs' /\ Follows'
  BY <1>0, PressKeyFollows, CloseWindowFollows, TouchFollows
<1>2. UNCHANGED <<poolVars, inputVars, pc, runVars, windowVars, tickVars, sortedCallbacks,
                  native, quit, closed>>
  BY DEF PressKey, CloseWindow, Touch
<1>3. PoolInv' /\ InputTypeOK'
  BY <1>2, PoolUnchanged, InputStays DEF LoopIInv
<1>4. held' \subseteq Key \cup Finger
  <2>0. held \subseteq Key \cup Finger
    BY DEF LoopIInv, RunTyped
  <2>1. ASSUME NEW k \in Key, PressKey(k) PROVE held' \subseteq Key \cup Finger
    BY <2>0, <2>1 DEF PressKey
  <2>2. ASSUME NEW w \in Window, CloseWindow(w) PROVE held' \subseteq Key \cup Finger
    BY <2>0, <2>2 DEF CloseWindow
  <2>3. ASSUME NEW f \in Finger, Touch(f) PROVE held' \subseteq Key \cup Finger
    BY <2>0, <2>3 DEF Touch
  <2>4. QED
    BY <2>1, <2>2, <2>3
<1>5. WindowsTyped' /\ MainWindowOpen' /\ TicksTyped' /\ ExitPumped' /\ RunTyped'
  BY <1>2, <1>4, LoopStays
<1>6. QED
  BY <1>1, <1>3, <1>5 DEF LoopIInv

\* Steps of the pool's clients and of its worker keep the invariant.
LEMMA PoolKeeps ==
  ASSUME LoopIInv,
         PoolStep \/ \E type \in Pool!CallbackThreadType : SetCallbackThread(type)
  PROVE  LoopIInv'
<1>1. UNCHANGED <<inputVars, pc, runVars, windowVars, tickVars, sortedCallbacks, eventQueue,
                  systemVars>>
  BY DEF PoolStep, SetCallbackThread
<1>2. UNCHANGED <<messages, eventQueue, held, inputVars, native, quit, closed>>
  BY <1>1 DEF systemVars
<1>3. Logs' /\ Follows' /\ InputTypeOK'
  BY <1>2, LogsStay, QuietStep, InputStays DEF LoopIInv
<1>4. WindowsTyped' /\ MainWindowOpen' /\ TicksTyped' /\ ExitPumped' /\ RunTyped'
  <2>1. held' \subseteq Key \cup Finger
    BY <1>2 DEF LoopIInv, RunTyped
  <2>2. QED
    BY <1>1, <1>2, <2>1, LoopStays
<1>5. PoolInv'
  <2>0. PoolInv
    BY DEF LoopIInv
  <2>1. ASSUME PoolStep PROVE PoolInv'
    <3>1. \/ \E c \in Callback \ Pool!Sent : Pool!SubmitToMain(c) \/ Pool!ChooseWorker(c)
          \/ \E c \in Callback : Pool!SubmitToWorker(c)
          \/ Pool!RunOnWorker
      BY <2>1 DEF PoolStep, Pool!Pool
    <3>2. QED
      BY <2>0, <3>1, SubmitToMainKeeps, ChooseWorkerKeeps, SubmitToWorkerKeeps, RunOnWorkerKeeps
  <2>2. ASSUME NEW type \in Pool!CallbackThreadType, SetCallbackThread(type) PROVE PoolInv'
    BY <2>0, <2>2, SetCallbackThreadKeeps DEF SetCallbackThread
  <2>3. QED
    BY <2>1, <2>2
<1>6. QED
  BY <1>3, <1>4, <1>5 DEF LoopIInv

-----------------------------------------------------------------------------

\* The pump keeps the invariant: a closed main window ends it with quit or exit.
LEMMA PumpKeeps ==
  ASSUME LoopIInv, PumpEvents
  PROVE  LoopIInv'
<1>0. /\ PoolInv /\ InputTypeOK /\ Logs /\ RunTyped /\ WindowsTyped /\ TicksTyped
      /\ MainWindowOpen /\ ExitPumped /\ Follows
  BY DEF LoopIInv
<1>1. /\ pc = "pump" /\ UNCHANGED <<poolVars, inputVars, isPaused, windowVars, tickVars, sortedCallbacks>>
      /\ PumpMessage \/ PumpQuit \/ PumpDone
  BY DEF PumpEvents
<1>2. PoolInv' /\ InputTypeOK' /\ TicksTyped'
  BY <1>0, <1>1, PoolUnchanged, InputStays, TicksStay
<1>3. CASE PumpMessage
  <2>1. Logs' /\ Follows'
    BY <1>0, <1>1, <1>3, PumpMessageFollows DEF WindowsTyped
  <2>2. /\ pc' \in {"pump", "windowCallback"} /\ isRunning' = isRunning /\ held' = held
        /\ native' \subseteq native
        /\ (quit' = quit /\ closed' = closed) \/ (quit' = TRUE /\ closed' = TRUE)
    BY <1>3 DEF PumpMessage
  <2>3. RunTyped' /\ ExitPumped'
    <3>1. RunTyped'
      <4>1. CASE quit' = quit /\ closed' = closed
        BY <1>0, <1>1, <2>2, <4>1 DEF RunTyped, Pc
      <4>2. CASE quit' = TRUE /\ closed' = TRUE
        BY <1>0, <1>1, <2>2, <4>2 DEF RunTyped, Pc
      <4>3. QED
        BY <2>2, <4>1, <4>2
    <3>2. ExitPumped'
      <4>1. NoTickAfterClose'
        BY <2>2 DEF NoTickAfterClose
      <4>2. CASE quit' = quit /\ closed' = closed
        BY <1>0, <2>2, <4>1, <4>2 DEF ExitPumped
      <4>3. CASE quit' = TRUE /\ closed' = TRUE
        BY <4>1, <4>3 DEF ExitPumped
      <4>4. QED
        BY <2>2, <4>2, <4>3
    <3>3. QED
      BY <3>1, <3>2
  <2>4. WindowsTyped' /\ MainWindowOpen'
    BY <1>0, <1>1, <2>2 DEF WindowsTyped, MainWindowOpen, windowVars
  <2>5. QED
    BY <1>2, <2>1, <2>3, <2>4 DEF LoopIInv
<1>4. CASE PumpQuit \/ PumpDone
  <2>1. UNCHANGED <<messages, eventQueue, held, inputVars, native, closed>>
    BY <1>1, <1>4 DEF PumpQuit, PumpDone, systemVars
  <2>2. Logs' /\ Follows'
    BY <1>0, <2>1, LogsStay, QuietStep
  <2>3. RunTyped' /\ ExitPumped'
    <3>1. CASE PumpQuit
      BY <1>0, <1>1, <2>1, <3>1 DEF PumpQuit, RunTyped, Pc, ExitPumped, NoTickAfterClose
    <3>2. CASE PumpDone
      BY <1>0, <1>1, <2>1, <3>2 DEF PumpDone, systemVars, RunTyped, Pc, ExitPumped, NoTickAfterClose
    <3>3. QED
      BY <1>4, <3>1, <3>2
  <2>4. WindowsTyped' /\ MainWindowOpen'
    BY <1>0, <1>1, <2>1, WindowsStay
  <2>5. QED
    BY <1>2, <2>2, <2>3, <2>4 DEF LoopIInv
<1>5. QED
  BY <1>1, <1>3, <1>4

\* A part of the main loop that touches neither windows, input nor messages.
LEMMA LoopMoves ==
  ASSUME LoopIInv, PoolInv', TicksTyped', pc \notin {"exited", "destroyed"},
         pc' \in Pc \ {"destroyed"}, ~closed \/ pc' \in {"pump", "windowCallback", "exited"},
         UNCHANGED <<inputVars, runVars, windowVars, eventQueue, systemVars>>
  PROVE  LoopIInv'
<1>1. UNCHANGED <<messages, eventQueue, held, inputVars, native, quit, closed>>
  BY DEF systemVars
<1>2. Logs' /\ Follows' /\ InputTypeOK'
  BY <1>1, LogsStay, QuietStep, InputStays DEF LoopIInv
<1>3. RunTyped' /\ ExitPumped'
  BY <1>1 DEF LoopIInv, RunTyped, ExitPumped, NoTickAfterClose, runVars
<1>4. WindowsTyped' /\ MainWindowOpen'
  BY <1>1, WindowsStay DEF LoopIInv
<1>5. QED
  BY <1>2, <1>3, <1>4 DEF LoopIInv

\* The return of a window's callback keeps the invariant,
LEMMA WindowCallbackReturnsKeeps ==
  ASSUME LoopIInv, WindowCallbackReturns
  PROVE  LoopIInv'
<1>1. /\ pc = "windowCallback" /\ pc' = "pump"
      /\ UNCHANGED <<poolVars, inputVars, runVars, windowVars, tickVars, sortedCallbacks, eventQueue,
                     systemVars>>
  BY DEF WindowCallbackReturns
<1>2. PoolInv' /\ TicksTyped'
  BY <1>1, PoolUnchanged, TicksStay DEF LoopIInv
<1>3. QED
  BY <1>1, <1>2, LoopMoves DEF Pc

\* so do the batch of the pool's callbacks,
LEMMA ProcessMainKeeps ==
  ASSUME LoopIInv, ProcessMainThreadCallbacks
  PROVE  LoopIInv'
<1>1. UNCHANGED <<inputVars, runVars, windowVars, tickVars, sortedCallbacks, eventQueue, systemVars>>
  BY DEF ProcessMainThreadCallbacks
<1>2. TicksTyped'
  BY <1>1, TicksStay DEF LoopIInv
<1>3. pc \in {"callbacks", "batch"} /\ pc' \in {"sort", "batch"} /\ PoolInv'
  <2>1. CASE pc = "callbacks" /\ pc' = "sort" /\ UNCHANGED poolVars
    BY <2>1, PoolUnchanged DEF LoopIInv
  <2>2. CASE pc = "callbacks" /\ pc' = "batch" /\ Pool!TakeBatch
    BY <2>2, TakeBatchKeeps DEF LoopIInv
  <2>3. CASE pc = "batch" /\ pc' \in {"sort", "batch"} /\ Pool!RunBatched
    BY <2>3, RunBatchedKeeps DEF LoopIInv
  <2>4. QED
    BY <2>1, <2>2, <2>3 DEF ProcessMainThreadCallbacks
<1>4. ~closed
  BY <1>3 DEF LoopIInv, ExitPumped, NoTickAfterClose
<1>5. QED
  BY <1>1, <1>2, <1>3, <1>4, LoopMoves DEF Pc

\* the sort and the tick callbacks,
LEMMA TicksKeep ==
  ASSUME LoopIInv, SortTicks \/ Tick
  PROVE  LoopIInv'
<1>1. UNCHANGED <<poolVars, inputVars, runVars, windowVars, tickVars, eventQueue, systemVars>>
  BY DEF SortTicks, Tick
<1>2. PoolInv'
  BY <1>1, PoolUnchanged DEF LoopIInv
<1>3. pc \in {"sort", "ticks"} /\ pc' \in {"pump", "exited", "ticks", "input"}
  BY DEF SortTicks, Tick, EndOfFrame
<1>4. ~closed
  BY <1>3 DEF LoopIInv, ExitPumped, NoTickAfterClose
<1>5. sortedCallbacks' \in Seq(TickId)
  <2>0. sortedCallbacks \in Seq(TickId) /\ DOMAIN tickCallbacks \subseteq TickId
    BY DEF LoopIInv, TicksTyped
  <2>1. CASE SortTicks
    <3>1. CASE sortedCallbacks' \in SetToSeqs(DOMAIN tickCallbacks)
      <4>. DEFINE n == Cardinality(DOMAIN tickCallbacks)
      <4>0. IsFiniteSet(TickId)
        BY LoopAssumption, FS_Interval DEF TickId
      <4>1. n \in Nat
        BY <2>0, <4>0, FS_Subset, FS_CardinalityType
      <4>2. sortedCallbacks' \in [1 .. n -> DOMAIN tickCallbacks]
        BY <3>1 DEF SetToSeqs
      <4>3. sortedCallbacks' \in [1 .. n -> TickId]
        BY <2>0, <4>2
      <4>4. QED
        BY <4>1, <4>3, SeqDef
    <3>2. QED
      BY <2>0, <2>1, <3>1 DEF SortTicks
  <2>2. CASE Tick
    BY <2>0, <2>2, HeadTailProperties DEF Tick
  <2>3. QED
    BY <2>1, <2>2
<1>6. TicksTyped'
  BY <1>1, <1>5 DEF LoopIInv, TicksTyped, tickVars
<1>7. QED
  BY <1>1, <1>2, <1>3, <1>4, <1>6, LoopMoves DEF Pc

\* and ProcessEvents.
LEMMA ProcessEventsKeeps ==
  ASSUME LoopIInv, ProcessEvents
  PROVE  LoopIInv'
<1>1. /\ pc = "input" /\ pc' \in {"input", "ticks"}
      /\ UNCHANGED <<poolVars, runVars, windowVars, tickVars, sortedCallbacks, systemVars>>
  BY DEF ProcessEvents
<1>2. Logs' /\ Follows' /\ InputTypeOK'
  BY ProcessEventsFollows DEF LoopIInv
<1>3. PoolInv' /\ TicksTyped'
  BY <1>1, PoolUnchanged, TicksStay DEF LoopIInv
<1>4. RunTyped' /\ ExitPumped'
  BY <1>1 DEF LoopIInv, RunTyped, Pc, ExitPumped, NoTickAfterClose, runVars, systemVars
<1>5. WindowsTyped' /\ MainWindowOpen'
  <2>1. UNCHANGED <<windowVars, native>>
    BY <1>1 DEF systemVars
  <2>2. QED
    BY <1>1, <2>1, WindowsStay DEF LoopIInv
<1>6. QED
  BY <1>2, <1>3, <1>4, <1>5 DEF LoopIInv

\* So does the destructor.
LEMMA DestroyKeeps ==
  ASSUME LoopIInv, Destroy
  PROVE  LoopIInv'
<1>1. /\ pc' = "destroyed" /\ native' \subseteq native /\ windows' = <<>>
      /\ UNCHANGED <<poolVars, inputVars, runVars, mainWindow, nextWindowId, tickVars,
                     sortedCallbacks, eventQueue, messages, quit, held, closed>>
  BY DEF Destroy
<1>2. PoolInv' /\ TicksTyped' /\ Logs' /\ Follows' /\ InputTypeOK'
  BY <1>1, PoolUnchanged, TicksStay, LogsStay, QuietStep, InputStays DEF LoopIInv
<1>3. RunTyped' /\ ExitPumped'
  BY <1>1 DEF LoopIInv, RunTyped, Pc, ExitPumped, NoTickAfterClose, runVars
<1>4. WindowsTyped'
  <2>1. DOMAIN windows' = {} /\ windows' \in [DOMAIN windows' -> BOOLEAN]
    BY <1>1
  <2>2. QED
    BY <1>1, <2>1 DEF LoopIInv, WindowsTyped
<1>5. MainWindowOpen'
  BY <1>1 DEF MainWindowOpen
<1>6. QED
  BY <1>2, <1>3, <1>4, <1>5 DEF LoopIInv

\* What a call of user code has to say of windows and ticks; the rest follows.
LEMMA CallKeeps ==
  ASSUME LoopIInv, Calls, UNCHANGED <<poolVars, inputVars, pc, sortedCallbacks, held, closed>>,
         Logs', Follows', WindowsTyped', MainWindowOpen', TicksTyped',
         isRunning' \in BOOLEAN, isPaused' \in BOOLEAN, quit' \in BOOLEAN,
         quit => quit', isRunning' => isRunning
  PROVE  LoopIInv'
<1>1. PoolInv' /\ InputTypeOK'
  BY PoolUnchanged, InputStays DEF LoopIInv
<1>2. RunTyped' /\ ExitPumped'
  BY DEF LoopIInv, RunTyped, ExitPumped, NoTickAfterClose
<1>3. QED
  BY <1>1, <1>2 DEF LoopIInv

\* A call that concerns no window: messages and events stay.
LEMMA CallApart ==
  ASSUME LoopIInv, Calls, UNCHANGED <<poolVars, inputVars, pc, sortedCallbacks>>,
         UNCHANGED <<windowVars, eventQueue, systemVars>>, TicksTyped',
         isRunning' \in BOOLEAN, isPaused' \in BOOLEAN, isRunning' => isRunning
  PROVE  LoopIInv'
<1>1. UNCHANGED <<messages, eventQueue, held, native, quit, closed>>
  BY DEF systemVars
<1>2. Logs' /\ Follows' /\ WindowsTyped' /\ MainWindowOpen'
  BY <1>1, LogsStay, QuietStep, WindowsStay DEF LoopIInv
<1>3. quit' \in BOOLEAN /\ (quit => quit')
  BY <1>1 DEF LoopIInv, RunTyped
<1>4. QED
  BY <1>1, <1>2, <1>3, CallKeeps

\* CreateWindow keeps the invariant: the first window is the main one,
LEMMA CreateWindowKeeps ==
  ASSUME LoopIInv, Calls, UNCHANGED <<poolVars, inputVars, pc, sortedCallbacks>>, CreateWindow
  PROVE  LoopIInv'
<1>. DEFINE w == nextWindowId
<1>0. Logs /\ Follows /\ WindowsTyped /\ MainWindowOpen /\ TicksTyped /\ RunTyped
  BY DEF LoopIInv
<1>1. /\ w <= MaxWindows /\ nextWindowId' = w + 1
      /\ windows' = With(windows, w, FALSE)
      /\ mainWindow' = IF mainWindow = InvalidWindowId THEN w ELSE mainWindow
      /\ native' = native \cup {w}
      /\ eventQueue' = Append(eventQueue, Item("WindowCreated", w))
      /\ UNCHANGED <<runVars, tickVars, messages, quit, held, closed>>
  BY DEF CreateWindow, PushEvent
<1>2. w \in Window /\ w # InvalidWindowId
  BY <1>0, <1>1, LoopAssumption DEF WindowsTyped, Window, InvalidWindowId
<1>3. Item("WindowCreated", w) \in Event /\ \A x : ~About(Item("WindowCreated", w), x)
  BY <1>2, WindowEvent
<1>4. Logs'
  BY <1>0, <1>1, <1>3, AppendProperties DEF Logs
<1>5. Follows'
  BY <1>0, <1>1, <1>3, QuietPush
<1>6. /\ DOMAIN windows' = DOMAIN windows \cup {w}
      /\ windows' \in [DOMAIN windows' -> BOOLEAN]
  BY <1>0, <1>1 DEF WindowsTyped, With
<1>7. WindowsTyped'
  <2>1. nextWindowId' \in Nat \ {0}
    BY <1>0, <1>1 DEF WindowsTyped
  <2>2. mainWindow' \in Window \cup {InvalidWindowId} /\ native' \subseteq Window
    BY <1>0, <1>1, <1>2 DEF WindowsTyped
  <2>3. DOMAIN windows' \subseteq Window
    BY <1>0, <1>2, <1>6 DEF WindowsTyped
  <2>4. QED
    BY <1>6, <2>1, <2>2, <2>3 DEF WindowsTyped
<1>8. pc # "destroyed"
  BY DEF Calls
<1>9. mainWindow = InvalidWindowId => windows = <<>>
  <2>1. mainWindow \in IF windows = <<>> THEN {InvalidWindowId} ELSE DOMAIN windows
    BY <1>0, <1>8 DEF MainWindowOpen
  <2>2. InvalidWindowId \notin Window
    BY LoopAssumption DEF Window, InvalidWindowId
  <2>3. QED
    BY <1>0, <2>1, <2>2 DEF WindowsTyped
<1>10. mainWindow' \in DOMAIN windows'
  <2>1. mainWindow \in IF windows = <<>> THEN {InvalidWindowId} ELSE DOMAIN windows
    BY <1>0, <1>8 DEF MainWindowOpen
  <2>2. CASE mainWindow = InvalidWindowId
    BY <1>1, <1>6, <2>2
  <2>3. CASE mainWindow # InvalidWindowId
    BY <1>1, <1>6, <2>1, <2>3
  <2>4. QED
    BY <2>2, <2>3
<1>11. windows' # <<>>
  BY <1>6, EmptySeq
<1>12. MainWindowOpen'
  BY <1>10, <1>11 DEF MainWindowOpen
<1>13. TicksTyped'
  BY <1>0, <1>1, TicksStay
<1>14. isRunning' = isRunning /\ isPaused' = isPaused
  BY <1>1 DEF runVars
<1>15. QED
  BY <1>0, <1>1, <1>4, <1>5, <1>7, <1>12, <1>13, <1>14, CallKeeps DEF RunTyped

\* DestroyWindow does: another open window becomes the main one, if there is one,
LEMMA DestroyWindowKeeps ==
  ASSUME LoopIInv, Calls, UNCHANGED <<poolVars, inputVars, pc, sortedCallbacks>>,
         NEW w \in Window, DestroyWindow(w)
  PROVE  LoopIInv'
<1>0. Logs /\ Follows /\ WindowsTyped /\ MainWindowOpen /\ TicksTyped /\ RunTyped
  BY DEF LoopIInv
<1>1. /\ w \in DOMAIN windows
      /\ windows' = Restrict(windows, DOMAIN windows \ {w})
      /\ mainWindow' \in IF mainWindow # w THEN {mainWindow}
                         ELSE IF DOMAIN windows = {w} THEN {InvalidWindowId}
                         ELSE DOMAIN windows \ {w}
      /\ native' = native \ {w}
      /\ quit' = (quit \/ w \in native)
      /\ messages' = MessagesWithout(w)
      /\ eventQueue' = Append(eventQueue, Item("WindowDestroyed", w))
      /\ UNCHANGED <<runVars, nextWindowId, tickVars, held, closed>>
  BY DEF DestroyWindow, PushEvent
<1>2. Item("WindowDestroyed", w) \in Event /\ \A x : ~About(Item("WindowDestroyed", w), x)
  BY WindowEvent
<1>3. Logs'
  BY <1>0, <1>1, <1>2, Discarded, AppendProperties DEF Logs
<1>4. Follows'
  BY <1>0, <1>1, <1>2, Discarded, QuietPush
<1>5. /\ DOMAIN windows' = DOMAIN windows \ {w}
      /\ windows' \in [DOMAIN windows' -> BOOLEAN]
  BY <1>0, <1>1 DEF WindowsTyped, Restrict
<1>6. WindowsTyped'
  BY <1>0, <1>1, <1>5 DEF WindowsTyped
<1>7. mainWindow \in DOMAIN windows
  <2>1. windows # <<>>
    BY <1>0, <1>1, EmptyWindows
  <2>2. pc # "destroyed"
    BY DEF Calls
  <2>3. QED
    BY <1>0, <2>1, <2>2 DEF MainWindowOpen
<1>8. mainWindow' \in IF DOMAIN windows' = {} THEN {InvalidWindowId} ELSE DOMAIN windows'
  BY <1>1, <1>5, <1>7
<1>9. windows' = <<>> <=> DOMAIN windows' = {}
  <2>1. (WindowsTyped => (windows = <<>> <=> DOMAIN windows = {}))'
    BY EmptyWindows, PTL
  <2>2. QED
    BY <1>6, <2>1
<1>10. MainWindowOpen'
  BY <1>8, <1>9 DEF MainWindowOpen
<1>11. TicksTyped'
  BY <1>0, <1>1, TicksStay
<1>12. isRunning' = isRunning /\ isPaused' = isPaused
  BY <1>1 DEF runVars
<1>13. quit' \in BOOLEAN /\ (quit => quit')
  BY <1>0, <1>1 DEF RunTyped
<1>14. QED
  BY <1>0, <1>1, <1>3, <1>4, <1>6, <1>10, <1>11, <1>12, <1>13, CallKeeps DEF RunTyped

\* and SetWindowCallback.
LEMMA SetWindowCallbackKeeps ==
  ASSUME LoopIInv, Calls, UNCHANGED <<poolVars, inputVars, pc, sortedCallbacks>>,
         NEW w \in Window, SetWindowCallback(w)
  PROVE  LoopIInv'
<1>0. Logs /\ Follows /\ WindowsTyped /\ MainWindowOpen /\ TicksTyped /\ RunTyped
  BY DEF LoopIInv
<1>1. /\ w \in DOMAIN windows /\ windows' = [windows EXCEPT ![w] = TRUE]
      /\ UNCHANGED <<runVars, mainWindow, nextWindowId, tickVars, eventQueue, systemVars>>
  BY DEF SetWindowCallback
<1>2. UNCHANGED <<messages, eventQueue, held, native, quit, closed>>
  BY <1>1 DEF systemVars
<1>3. Logs' /\ Follows' /\ TicksTyped'
  BY <1>0, <1>1, <1>2, LogsStay, QuietStep, TicksStay
<1>4. DOMAIN windows' = DOMAIN windows /\ windows' \in [DOMAIN windows' -> BOOLEAN]
  BY <1>0, <1>1 DEF WindowsTyped
<1>5. WindowsTyped'
  BY <1>0, <1>1, <1>2, <1>4 DEF WindowsTyped
<1>6. windows # <<>> /\ windows' # <<>>
  BY <1>1, <1>4, EmptySeq
<1>7. MainWindowOpen'
  BY <1>0, <1>1, <1>4, <1>6 DEF MainWindowOpen, Calls
<1>8. isRunning' = isRunning /\ isPaused' = isPaused
  BY <1>1 DEF runVars
<1>9. QED
  BY <1>0, <1>2, <1>3, <1>5, <1>7, <1>8, CallKeeps DEF RunTyped

\* Whatever code of the user does in a callback keeps the invariant.
LEMMA UserCodeKeeps ==
  ASSUME LoopIInv, UserCode
  PROVE  LoopIInv'
<1>0. /\ Calls /\ UNCHANGED <<poolVars, inputVars, pc, sortedCallbacks>>
      /\ TicksTyped /\ RunTyped
  BY DEF UserCode, LoopIInv
<1>1. CASE PauseOrResume \/ RequestExit
  <2>1. /\ UNCHANGED <<windowVars, tickVars, eventQueue, systemVars>>
        /\ isRunning' \in BOOLEAN /\ isPaused' \in BOOLEAN /\ (isRunning' => isRunning)
    <3>1. CASE PauseOrResume
      BY <1>0, <3>1 DEF PauseOrResume, RunTyped
    <3>2. CASE RequestExit
      BY <1>0, <3>2 DEF RequestExit, RunTyped
    <3>3. QED
      BY <1>1, <3>1, <3>2
  <2>2. TicksTyped'
    BY <1>0, <2>1, TicksStay
  <2>3. QED
    BY <1>0, <2>1, <2>2, CallApart
<1>2. CASE CreateWindow
  BY <1>0, <1>2, CreateWindowKeeps
<1>3. CASE \E w \in Window : DestroyWindow(w) \/ SetWindowCallback(w)
  BY <1>0, <1>3, DestroyWindowKeeps, SetWindowCallbackKeeps
<1>4. CASE \E p \in Priority : RegisterTickCallback(p)
  <2>1. PICK p \in Priority : RegisterTickCallback(p)
    BY <1>4
  <2>. DEFINE t == nextCallbackId
  <2>2. /\ t <= MaxTicks /\ nextCallbackId' = t + 1
        /\ tickCallbacks' = With(tickCallbacks, t, p)
        /\ UNCHANGED <<runVars, windowVars, eventQueue, systemVars>>
    BY <2>1 DEF RegisterTickCallback
  <2>3. t \in TickId
    BY <1>0, <2>2, LoopAssumption DEF TicksTyped, TickId
  <2>4. /\ DOMAIN tickCallbacks' = DOMAIN tickCallbacks \cup {t}
        /\ tickCallbacks' \in [DOMAIN tickCallbacks' -> Priority]
    BY <1>0, <2>2 DEF TicksTyped, With
  <2>5. TicksTyped'
    BY <1>0, <2>2, <2>3, <2>4 DEF TicksTyped
  <2>6. QED
    BY <1>0, <2>2, <2>5, CallApart DEF RunTyped, runVars
<1>5. CASE \E t \in TickId : UnregisterTickCallback(t)
  <2>1. PICK t \in TickId : UnregisterTickCallback(t)
    BY <1>5
  <2>2. /\ tickCallbacks' = Restrict(tickCallbacks, DOMAIN tickCallbacks \ {t})
        /\ UNCHANGED <<runVars, windowVars, nextCallbackId, eventQueue, systemVars>>
    BY <2>1 DEF UnregisterTickCallback
  <2>3. /\ DOMAIN tickCallbacks' = DOMAIN tickCallbacks \ {t}
        /\ tickCallbacks' \in [DOMAIN tickCallbacks' -> Priority]
    BY <1>0, <2>2 DEF TicksTyped, Restrict
  <2>4. TicksTyped'
    BY <1>0, <2>2, <2>3 DEF TicksTyped
  <2>5. QED
    BY <1>0, <2>2, <2>4, CallApart DEF RunTyped, runVars
<1>6. QED
  BY <1>1, <1>2, <1>3, <1>4, <1>5 DEF UserCode

\* Every step keeps the invariant, one case for each actor.
LEMMA LoopNextHolds == LoopIInv /\ [LoopNext]_loopVars => LoopIInv'
<1>. SUFFICES ASSUME LoopIInv, [LoopNext]_loopVars PROVE LoopIInv'
  OBVIOUS
<1>1. CASE Run
  BY <1>1, PumpKeeps, WindowCallbackReturnsKeeps, ProcessMainKeeps, TicksKeep,
     ProcessEventsKeeps, DestroyKeeps DEF Run
<1>2. CASE UserCode
  BY <1>2, UserCodeKeeps
<1>3. CASE PoolStep \/ \E type \in Pool!CallbackThreadType : SetCallbackThread(type)
  BY <1>3, PoolKeeps
<1>4. CASE \/ \E k \in Key : PressKey(k)
           \/ \E w \in Window : CloseWindow(w)
           \/ \E f \in Finger : Touch(f)
  BY <1>4, OutsideKeeps
<1>5. CASE UNCHANGED loopVars
  <2>1. UNCHANGED <<poolVars, inputVars, pc, runVars, windowVars, tickVars, sortedCallbacks,
                    eventQueue, systemVars, inputs>>
    BY <1>5 DEF loopVars
  <2>2. UNCHANGED <<messages, eventQueue, held, inputVars, native, quit, closed>>
    BY <2>1 DEF systemVars
  <2>3. Logs' /\ Follows' /\ InputTypeOK' /\ PoolInv'
    BY <2>1, <2>2, LogsStay, QuietStep, InputStays, PoolUnchanged DEF LoopIInv
  <2>4. held' \subseteq Key \cup Finger
    BY <2>2 DEF LoopIInv, RunTyped
  <2>5. QED
    BY <2>1, <2>2, <2>3, <2>4, LoopStays DEF LoopIInv
<1>6. QED
  BY <1>1, <1>2, <1>3, <1>4, <1>5 DEF LoopNext

\* Application::Run with its pump, windows, ticks, input and the callbacks of the pool
\* keeps the inductive invariant, for any number of windows, keys, fingers, callbacks and ticks.
THEOREM LoopInvariant == LoopSpec => []LoopIInv
BY LoopInitHolds, LoopNextHolds, PTL DEF LoopSpec

\* What the run checks of the loop follows from the invariant.
LEMMA LoopIsSound == LoopIInv => LoopSound
<1>. SUFFICES ASSUME LoopIInv PROVE LoopSound
  OBVIOUS
<1>1. /\ PoolInv /\ InputTypeOK /\ RunTyped /\ WindowsTyped /\ TicksTyped
      /\ MainWindowOpen /\ ExitPumped
  BY DEF LoopIInv
<1>2. Pool!TypeOK /\ Pool!MainOrderKept /\ Pool!OneThreadPerCallback
  BY <1>1, OneThread DEF PoolInv, Routed
<1>3. Range(windows) \subseteq BOOLEAN /\ Range(tickCallbacks) \subseteq Priority
  BY <1>1 DEF WindowsTyped, TicksTyped, Range
<1>4. Range(sortedCallbacks) \subseteq TickId
  BY <1>1, RangeOfSeq DEF TicksTyped
<1>5. LoopTypeOK
  BY <1>1, <1>2, <1>3, <1>4 DEF LoopTypeOK, RunTyped, Pc, WindowsTyped, TicksTyped
<1>6. QED
  BY <1>1, <1>2, <1>5 DEF LoopSound, ExitPumped

\* Application.cpp never runs a callback of the pool twice or out of order, its main window
\* is one that is open, and once that is closed nothing ticks: the exit comes with the close.
THEOREM LoopAlwaysSound == LoopSpec => []LoopSound
BY LoopInvariant, LoopIsSound, PTL

\* What the run checks of the input follows from the invariant.
LEMMA InputIsTrue == LoopIInv => InputFollowsSystem
<1>. SUFFICES ASSUME LoopIInv, messages = <<>>, eventQueue = <<>>
              PROVE  currentKeys = held \cap Key /\ Touching = held \cap Finger
  BY DEF InputFollowsSystem
<1>0. InputTypeOK /\ Follows
  BY DEF LoopIInv
<1>1. \A x : Silent(messages, x) /\ Silent(eventQueue, x)
  BY EmptySeq DEF Silent
<1>2. \A k \in Key : k \in held <=> k \in currentKeys
  BY <1>0, <1>1 DEF Follows, KeyFollows
<1>3. \A f \in Finger : f \in held <=> f \in Touching
  BY <1>0, <1>1 DEF Follows, ScreenFollows
<1>4. currentKeys \subseteq Key
  BY <1>0 DEF InputTypeOK
<1>5. Touching \subseteq Finger
  BY <1>0, TouchList
<1>6. QED
  BY <1>2, <1>3, <1>4, <1>5

\* Through the system's messages, the pump and the event queue, KeyboardState and
\* TouchState end up at what is really held, whatever is pressed, touched and pushed meanwhile.
THEOREM InputAlwaysFollows == LoopSpec => []InputFollowsSystem
BY LoopInvariant, InputIsTrue, PTL
=============================================================================
