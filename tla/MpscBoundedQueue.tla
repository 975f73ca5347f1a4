-------------------------- MODULE MpscBoundedQueue --------------------------
(***************************************************************************)
(* AsyncSink::MpscBoundedQueue (include/NGIN/Log/Sinks/AsyncSink.hpp): a   *)
(* ring of QueueCapacity slots.  m_mutex makes every operation atomic;     *)
(* CanEnqueue and IsEmpty are comparisons of ApproxDepth.  A slot keeps    *)
(* its last record after it is dequeued: it is moved from, not cleared.    *)
(***************************************************************************)
EXTENDS Naturals, Sequences

CONSTANTS
    Values,
    NoValue,        \* a default-constructed OwnedLogRecord
    QueueCapacity

\* static_asserts of AsyncSink, lines 61 and 62.
ASSUME QueueAssumption ==
    /\ QueueCapacity \in Nat /\ QueueCapacity > 1
    /\ \E k \in 1 .. QueueCapacity : QueueCapacity = 2 ^ k
    /\ NoValue \notin Values

VARIABLES slots, enqueueIndex, dequeueIndex, size, answer

vars == <<slots, enqueueIndex, dequeueIndex, size, answer>>

Init ==
    /\ slots = [i \in 0 .. QueueCapacity - 1 |-> NoValue]
    /\ enqueueIndex = 0 /\ dequeueIndex = 0 /\ size = 0
    /\ answer = [op |-> "none"]

\* (index + 1) & (QueueCapacity - 1): the remainder, for a power of two.
NextIndexUnwrapped(i) == IF i < QueueCapacity THEN i + 1 ELSE 0
NextIndex(i) == (i + 1) % QueueCapacity

TryEnqueue(v) ==
    \/ /\ size < QueueCapacity
       /\ slots' = [slots EXCEPT ![enqueueIndex] = v]
       /\ enqueueIndex' = NextIndex(enqueueIndex)
       /\ size' = size + 1
       /\ answer' = [op |-> "enqueued", value |-> v]
       /\ UNCHANGED dequeueIndex
    \/ /\ size >= QueueCapacity
       /\ answer' = [op |-> "full"]
       /\ UNCHANGED <<slots, enqueueIndex, dequeueIndex, size>>

TryDequeue ==
    \/ /\ size # 0
       /\ answer' = [op |-> "dequeued", value |-> slots[dequeueIndex]]
       /\ dequeueIndex' = NextIndex(dequeueIndex)
       /\ size' = size - 1
       /\ UNCHANGED <<slots, enqueueIndex>>
    \/ /\ size = 0
       /\ answer' = [op |-> "empty"]
       /\ UNCHANGED <<slots, enqueueIndex, dequeueIndex, size>>

ApproxDepth ==
    /\ answer' = [op |-> "depth", value |-> size]
    /\ UNCHANGED <<slots, enqueueIndex, dequeueIndex, size>>

Next == (\E v \in Values : TryEnqueue(v)) \/ TryDequeue \/ ApproxDepth

Spec == Init /\ [][Next]_vars

-----------------------------------------------------------------------------
\* The two indices stay inside the ring and are size apart.
RingOK ==
    /\ slots \in [0 .. QueueCapacity - 1 -> Values \cup {NoValue}]
    /\ enqueueIndex \in 0 .. QueueCapacity - 1
    /\ dequeueIndex \in 0 .. QueueCapacity - 1
    /\ size \in 0 .. QueueCapacity
    /\ enqueueIndex = (dequeueIndex + size) % QueueCapacity

\* The ring holds, from dequeueIndex on, the items of a bounded FIFO queue.
Contents == [i \in 1 .. size |-> slots[(dequeueIndex + i - 1) % QueueCapacity]]

Fifo == INSTANCE BoundedFifo WITH Capacity <- QueueCapacity, items <- Contents

\* Whatever the sequence of calls, and however often the indices wrap, every answer is
\* the one a bounded FIFO queue gives.
ImplementsFifo == Fifo!Spec
=============================================================================
