----------------------- MODULE MpscBoundedQueueProofs -----------------------
(***************************************************************************)
(* The ring of MpscBoundedQueue implements BoundedFifo for every capacity  *)
(* and every set of records.                                               *)
(***************************************************************************)
EXTENDS MpscBoundedQueue, TLAPS

\* What the proofs need of the capacity.
LEMMA CapacityFacts == QueueCapacity \in Nat /\ QueueCapacity > 1
BY QueueAssumption

\* The remainder of an index that has run at most once past the end of the ring.
LEMMA WrapOnce ==
    ASSUME NEW n \in Nat, n < 2 * QueueCapacity
    PROVE  n % QueueCapacity = IF n < QueueCapacity THEN n ELSE n - QueueCapacity
BY CapacityFacts, SMT

\* The i-th item of Contents is in a slot of the ring.
LEMMA SlotOfItem ==
    ASSUME NEW d \in 0 .. QueueCapacity - 1, NEW i \in 1 .. QueueCapacity
    PROVE  /\ (d + i - 1) % QueueCapacity \in 0 .. QueueCapacity - 1
           /\ (d + i - 1) % QueueCapacity =
                 IF d + i - 1 < QueueCapacity THEN d + i - 1 ELSE d + i - 1 - QueueCapacity
<1>1. d + i - 1 \in Nat /\ d + i - 1 < 2 * QueueCapacity
  BY CapacityFacts
<1>2. QED
  BY <1>1, WrapOnce, CapacityFacts

\* One step forward from either index.
LEMMA NextIndexOf ==
    ASSUME NEW d \in 0 .. QueueCapacity - 1
    PROVE  /\ NextIndex(d) \in 0 .. QueueCapacity - 1
           /\ NextIndex(d) = IF d + 1 < QueueCapacity THEN d + 1 ELSE 0
<1>1. d + 1 \in Nat /\ d + 1 < 2 * QueueCapacity
  BY CapacityFacts
<1>2. QED
  BY <1>1, WrapOnce, CapacityFacts DEF NextIndex

\* The distance between the indices, without the remainder.
LEMMA EnqueueIndexOf ==
    ASSUME RingOK
    PROVE  enqueueIndex = IF dequeueIndex + size < QueueCapacity
                          THEN dequeueIndex + size ELSE dequeueIndex + size - QueueCapacity
<1> DEFINE n == dequeueIndex + size
<1>1. n \in Nat /\ n < 2 * QueueCapacity /\ enqueueIndex = n % QueueCapacity
  BY CapacityFacts DEF RingOK
<1> HIDE DEF n
<1>2. n % QueueCapacity = IF n < QueueCapacity THEN n ELSE n - QueueCapacity
  BY <1>1, WrapOnce
<1>3. enqueueIndex = IF n < QueueCapacity THEN n ELSE n - QueueCapacity
  BY <1>1, <1>2
<1>4. dequeueIndex \in Nat /\ size \in Nat /\ enqueueIndex \in Nat
  BY CapacityFacts DEF RingOK
<1>5. QED
  BY <1>3, <1>4, CapacityFacts DEF n

\* Init establishes RingOK and every operation preserves it.
THEOREM RingInvariant == Spec => []RingOK
<1>1. Init => RingOK
  <2>1. 0 % QueueCapacity = 0
    BY WrapOnce, CapacityFacts
  <2>2. QED
    BY <2>1, CapacityFacts DEF Init, RingOK
<1>2. RingOK /\ [Next]_vars => RingOK'
  <2> SUFFICES ASSUME RingOK, [Next]_vars PROVE RingOK'
    OBVIOUS
  <2> USE CapacityFacts
  <2>1. ASSUME NEW v \in Values, TryEnqueue(v) PROVE RingOK'
    <3>1. CASE size < QueueCapacity /\ slots' = [slots EXCEPT ![enqueueIndex] = v]
      <4>1. /\ enqueueIndex' = NextIndex(enqueueIndex)
            /\ size' = size + 1
            /\ dequeueIndex' = dequeueIndex
        BY <2>1, <3>1 DEF TryEnqueue, RingOK
      <4>2. dequeueIndex + size + 1 \in Nat /\ dequeueIndex + size + 1 < 2 * QueueCapacity
        BY <3>1 DEF RingOK
      <4>3. (dequeueIndex + size + 1) % QueueCapacity = NextIndex(enqueueIndex)
        <5> DEFINE n == dequeueIndex + size + 1
        <5>1. n % QueueCapacity = IF n < QueueCapacity THEN n ELSE n - QueueCapacity
          BY <4>2, WrapOnce
        <5>2. NextIndex(enqueueIndex) = IF enqueueIndex + 1 < QueueCapacity
                                        THEN enqueueIndex + 1 ELSE 0
          BY NextIndexOf DEF RingOK
        <5>3. QED
          BY <3>1, <5>1, <5>2, EnqueueIndexOf DEF RingOK
      <4>4. slots' \in [0 .. QueueCapacity - 1 -> Values \cup {NoValue}]
        BY <3>1 DEF RingOK
      <4>5. QED
        BY <3>1, <4>1, <4>3, <4>4, NextIndexOf DEF RingOK
    <3>2. CASE UNCHANGED <<slots, enqueueIndex, dequeueIndex, size>>
      BY <3>2 DEF RingOK
    <3>3. QED
      BY <2>1, <3>1, <3>2 DEF TryEnqueue
  <2>2. ASSUME TryDequeue PROVE RingOK'
    <3>1. CASE size # 0 /\ size' = size - 1
      <4>1. /\ dequeueIndex' = NextIndex(dequeueIndex)
            /\ slots' = slots /\ enqueueIndex' = enqueueIndex
        BY <2>2, <3>1 DEF TryDequeue, RingOK
      <4>2. /\ NextIndex(dequeueIndex) + (size - 1) \in Nat
            /\ NextIndex(dequeueIndex) + (size - 1) < 2 * QueueCapacity
        <5>1. NextIndex(dequeueIndex) \in 0 .. QueueCapacity - 1
          BY NextIndexOf DEF RingOK
        <5>2. size - 1 \in 0 .. QueueCapacity - 1
          BY <3>1 DEF RingOK
        <5>3. QED
          BY <5>1, <5>2
      <4>3. (NextIndex(dequeueIndex) + (size - 1)) % QueueCapacity = enqueueIndex
        <5> DEFINE n == NextIndex(dequeueIndex) + (size - 1)
        <5>1. n % QueueCapacity = IF n < QueueCapacity THEN n ELSE n - QueueCapacity
          BY <4>2, WrapOnce
        <5>2. NextIndex(dequeueIndex) = IF dequeueIndex + 1 < QueueCapacity
                                        THEN dequeueIndex + 1 ELSE 0
          BY NextIndexOf DEF RingOK
        <5>3. QED
          BY <3>1, <5>1, <5>2, EnqueueIndexOf DEF RingOK
      <4>4. /\ dequeueIndex' \in 0 .. QueueCapacity - 1
            /\ size' \in 0 .. QueueCapacity
        BY <3>1, <4>1, NextIndexOf DEF RingOK
      <4>5. enqueueIndex' = (dequeueIndex' + size') % QueueCapacity
        BY <3>1, <4>1, <4>3
      <4>6. QED
        BY <4>1, <4>4, <4>5 DEF RingOK
    <3>2. CASE UNCHANGED <<slots, enqueueIndex, dequeueIndex, size>>
      BY <3>2 DEF RingOK
    <3>3. QED
      BY <2>2, <3>1, <3>2 DEF TryDequeue
  <2>3. ASSUME ApproxDepth PROVE RingOK'
    BY <2>3 DEF ApproxDepth, RingOK
  <2>4. CASE UNCHANGED vars
    BY <2>4 DEF vars, RingOK
  <2>5. QED
    BY <2>1, <2>2, <2>3, <2>4 DEF Next
<1>3. QED
  BY <1>1, <1>2, PTL DEF Spec

\* The ring holds a sequence of size items.
LEMMA ContentsSeq ==
    ASSUME RingOK
    PROVE  /\ Contents \in Seq(Values \cup {NoValue})
           /\ Len(Contents) = size
           /\ \A i \in 1 .. size : Contents[i] = slots[(dequeueIndex + i - 1) % QueueCapacity]
<1>1. \A i \in 1 .. size : slots[(dequeueIndex + i - 1) % QueueCapacity] \in Values \cup {NoValue}
  BY SlotOfItem, CapacityFacts DEF RingOK
<1>2. Contents \in [1 .. size -> Values \cup {NoValue}]
  BY <1>1 DEF Contents
<1>3. size \in Nat
  BY CapacityFacts DEF RingOK
<1>4. QED
  BY <1>2, <1>3 DEF Contents

\* An enqueue appends to the contents.
LEMMA EnqueueAppends ==
    ASSUME RingOK, RingOK', NEW v \in Values, size < QueueCapacity,
           slots' = [slots EXCEPT ![enqueueIndex] = v],
           size' = size + 1, dequeueIndex' = dequeueIndex
    PROVE  Contents' = Append(Contents, v)
<1> USE CapacityFacts
<1>1. \A i \in 1 .. size : (dequeueIndex + i - 1) % QueueCapacity # enqueueIndex
  BY SlotOfItem, EnqueueIndexOf DEF RingOK
<1>2. (dequeueIndex + (size + 1) - 1) % QueueCapacity = enqueueIndex
  BY DEF RingOK
<1>3. \A i \in 1 .. size : Contents'[i] = Contents[i]
  <2> SUFFICES ASSUME NEW i \in 1 .. size PROVE Contents'[i] = Contents[i]
    OBVIOUS
  <2>1. i \in 1 .. size' /\ (dequeueIndex + i - 1) % QueueCapacity \in 0 .. QueueCapacity - 1
    BY SlotOfItem DEF RingOK
  <2>2. Contents'[i] = slots'[(dequeueIndex + i - 1) % QueueCapacity]
    BY <2>1 DEF Contents
  <2>3. QED
    BY <1>1, <2>1, <2>2, ContentsSeq DEF RingOK
<1>4. Contents'[size + 1] = v
  <2>1. size + 1 \in 1 .. size'
    BY DEF RingOK
  <2>2. Contents'[size + 1] = slots'[(dequeueIndex + (size + 1) - 1) % QueueCapacity]
    BY <2>1 DEF Contents
  <2>3. QED
    BY <1>2, <2>2 DEF RingOK
<1>5. Contents' \in Seq(Values \cup {NoValue}) /\ Len(Contents') = size + 1
  <2>1. \A i \in 1 .. size + 1 : Contents'[i] \in Values \cup {NoValue}
    <3> SUFFICES ASSUME NEW i \in 1 .. size + 1
                 PROVE  Contents'[i] \in Values \cup {NoValue}
      OBVIOUS
    <3>1. i \in 1 .. size \/ i = size + 1
      BY DEF RingOK
    <3>2. CASE i \in 1 .. size
      BY <1>3, <3>2, ContentsSeq
    <3>3. QED
      BY <1>4, <3>1, <3>2
  <2>2. Contents' = [i \in 1 .. size + 1 |-> Contents'[i]]
    BY DEF Contents
  <2>3. size + 1 \in Nat
    BY DEF RingOK
  <2>4. QED
    BY <2>1, <2>2, <2>3
<1>6. QED
  BY <1>3, <1>4, <1>5, ContentsSeq, SMTT(30) DEF RingOK

\* A dequeue removes the head.
LEMMA DequeueRemovesHead ==
    ASSUME RingOK, size # 0, slots' = slots, size' = size - 1,
           dequeueIndex' = NextIndex(dequeueIndex)
    PROVE  Contents # <<>> /\ Contents' = Tail(Contents) /\ Head(Contents) = slots[dequeueIndex]
<1> USE CapacityFacts
<1>1. \A i \in 1 .. size - 1 :
         (NextIndex(dequeueIndex) + i - 1) % QueueCapacity
            = (dequeueIndex + (i + 1) - 1) % QueueCapacity
  <2> SUFFICES ASSUME NEW i \in 1 .. size - 1
               PROVE  (NextIndex(dequeueIndex) + i - 1) % QueueCapacity
                        = (dequeueIndex + (i + 1) - 1) % QueueCapacity
    OBVIOUS
  <2> DEFINE d == dequeueIndex
             e == NextIndex(dequeueIndex)
  <2>1. i \in 1 .. QueueCapacity /\ i + 1 \in 1 .. QueueCapacity
    BY DEF RingOK
  <2>2. /\ d \in 0 .. QueueCapacity - 1
        /\ e \in 0 .. QueueCapacity - 1
        /\ e = IF d + 1 < QueueCapacity THEN d + 1 ELSE 0
    BY NextIndexOf DEF RingOK
  <2> HIDE DEF d, e
  <2>3. (e + i - 1) % QueueCapacity =
           IF e + i - 1 < QueueCapacity THEN e + i - 1 ELSE e + i - 1 - QueueCapacity
    BY <2>1, <2>2, SlotOfItem
  <2>4. (d + (i + 1) - 1) % QueueCapacity =
           IF d + (i + 1) - 1 < QueueCapacity THEN d + (i + 1) - 1
                                              ELSE d + (i + 1) - 1 - QueueCapacity
    BY <2>1, <2>2, SlotOfItem
  <2>5. (e + i - 1) % QueueCapacity = (d + (i + 1) - 1) % QueueCapacity
    BY <2>1, <2>2, <2>3, <2>4
  <2>6. QED
    BY <2>5 DEF d, e
<1>2. dequeueIndex % QueueCapacity = dequeueIndex
  BY WrapOnce DEF RingOK
<1>3. Len(Contents) = size /\ Contents[1] = slots[dequeueIndex]
  <2>1. 1 \in 1 .. size /\ dequeueIndex + 1 - 1 = dequeueIndex
    BY DEF RingOK
  <2>2. QED
    BY <1>2, <2>1, ContentsSeq DEF RingOK
<1>4. \A i \in 1 .. size - 1 : Contents'[i] = Contents[i + 1]
  <2> SUFFICES ASSUME NEW i \in 1 .. size - 1 PROVE Contents'[i] = Contents[i + 1]
    OBVIOUS
  <2>1. Contents'[i] = slots[(NextIndex(dequeueIndex) + i - 1) % QueueCapacity]
    BY DEF Contents
  <2>2. i + 1 \in 1 .. size
    BY DEF RingOK
  <2>3. QED
    BY <1>1, <2>1, <2>2, ContentsSeq
<1>5. Contents' = [i \in 1 .. size - 1 |-> Contents[i + 1]]
  BY <1>4 DEF Contents
<1>6. Contents \in Seq(Values \cup {NoValue}) /\ size \in Nat \ {0}
  BY ContentsSeq DEF RingOK
<1>7. Contents # <<>> /\ Head(Contents) = slots[dequeueIndex]
  BY <1>3, <1>6
<1>8. /\ Tail(Contents) \in Seq(Values \cup {NoValue})
      /\ Len(Tail(Contents)) = size - 1
      /\ \A i \in 1 .. size - 1 : Tail(Contents)[i] = Contents[i + 1]
  BY <1>3, <1>6
<1>9. Contents' \in Seq(Values \cup {NoValue}) /\ Len(Contents') = size - 1
  <2>1. \A i \in 1 .. size - 1 : Contents[i + 1] \in Values \cup {NoValue}
    BY <1>3, <1>6
  <2>2. size - 1 \in Nat
    BY <1>6
  <2>3. QED
    BY <1>5, <2>1, <2>2
<1>10. QED
  BY <1>4, <1>7, <1>8, <1>9

\* Every step of the ring is a step of the abstract queue.
LEMMA FifoStep ==
    ASSUME RingOK, RingOK', [Next]_vars
    PROVE  [Fifo!Next]_(Fifo!fifoVars)
<1>1. ASSUME NEW v \in Values, TryEnqueue(v) PROVE Fifo!TryEnqueue(v)
  <2>1. CASE size < QueueCapacity
    <3>0. /\ slots' = [slots EXCEPT ![enqueueIndex] = v]
          /\ size' = size + 1 /\ dequeueIndex' = dequeueIndex
      BY <1>1, <2>1, CapacityFacts DEF TryEnqueue, RingOK
    <3>1. Contents' = Append(Contents, v)
      BY <2>1, <3>0, EnqueueAppends
    <3>2. Len(Contents) < QueueCapacity
      BY <2>1, ContentsSeq
    <3>3. QED
      BY <1>1, <2>1, <3>1, <3>2, CapacityFacts DEF TryEnqueue, Fifo!TryEnqueue, RingOK
  <2>2. CASE size >= QueueCapacity
    <3>1. Len(Contents) = QueueCapacity
      BY <2>2, ContentsSeq, CapacityFacts, SMTT(30) DEF RingOK
    <3>2. answer' = [op |-> "full"] /\ UNCHANGED <<slots, enqueueIndex, dequeueIndex, size>>
      BY <1>1, <2>2, CapacityFacts DEF TryEnqueue, RingOK
    <3>3. Contents' = Contents
      BY <3>2 DEF Contents
    <3>4. QED
      BY <3>1, <3>2, <3>3 DEF Fifo!TryEnqueue
  <2>3. QED
    BY <2>1, <2>2, CapacityFacts DEF RingOK
<1>2. ASSUME TryDequeue PROVE Fifo!TryDequeue
  <2>1. CASE size # 0
    <3>1. Contents # <<>> /\ Contents' = Tail(Contents) /\ Head(Contents) = slots[dequeueIndex]
      BY <1>2, <2>1, DequeueRemovesHead DEF TryDequeue
    <3>2. QED
      BY <1>2, <2>1, <3>1 DEF TryDequeue, Fifo!TryDequeue
  <2>2. CASE size = 0
    <3>1. answer' = [op |-> "empty"] /\ UNCHANGED <<slots, enqueueIndex, dequeueIndex, size>>
      BY <1>2, <2>2 DEF TryDequeue
    <3>2. Contents = <<>>
      BY <2>2, ContentsSeq
    <3>3. Contents' = Contents
      BY <3>1 DEF Contents
    <3>4. QED
      BY <3>1, <3>2, <3>3 DEF Fifo!TryDequeue
  <2>3. QED
    BY <2>1, <2>2
<1>3. ASSUME ApproxDepth PROVE Fifo!ApproxDepth
  <2>1. Len(Contents) = size
    BY ContentsSeq
  <2>2. Contents' = Contents
    BY <1>3 DEF ApproxDepth, Contents
  <2>3. QED
    BY <1>3, <2>1, <2>2 DEF ApproxDepth, Fifo!ApproxDepth
<1>4. ASSUME UNCHANGED vars PROVE UNCHANGED Fifo!fifoVars
  BY <1>4 DEF vars, Fifo!fifoVars, Contents
<1>5. QED
  BY <1>1, <1>2, <1>3, <1>4 DEF Next, Fifo!Next

\* The ring answers every call as a bounded FIFO queue does.
THEOREM RingImplementsFifo == Spec => ImplementsFifo
<1>1. Init => Fifo!Init
  <2> SUFFICES ASSUME Init PROVE Fifo!Init
    OBVIOUS
  <2>1. RingOK
    BY WrapOnce, CapacityFacts DEF Init, RingOK
  <2>2. Contents = <<>>
    BY <2>1, ContentsSeq DEF Init
  <2>3. QED
    BY <2>2 DEF Init, Fifo!Init
<1>2. QED
  BY <1>1, RingInvariant, FifoStep, PTL DEF Spec, ImplementsFifo, Fifo!Spec
=============================================================================
