----------------------------- MODULE BoundedFifo -----------------------------
(***************************************************************************)
(* A bounded first-in first-out queue whose operations are atomic and      *)
(* answer at once: what AsyncSink expects of its MpscBoundedQueue.         *)
(***************************************************************************)
EXTENDS Naturals, Sequences

CONSTANTS Values, Capacity

VARIABLES
    items,   \* the queue, oldest first
    answer   \* what the last operation returned

fifoVars == <<items, answer>>

Init == items = <<>> /\ answer = [op |-> "none"]

TryEnqueue(v) ==
    \/ /\ Len(items) < Capacity
       /\ items' = Append(items, v)
       /\ answer' = [op |-> "enqueued", value |-> v]
    \/ /\ Len(items) = Capacity
       /\ answer' = [op |-> "full"]
       /\ UNCHANGED items

TryDequeue ==
    \/ /\ items # <<>>
       /\ items' = Tail(items)
       /\ answer' = [op |-> "dequeued", value |-> Head(items)]
    \/ /\ items = <<>>
       /\ answer' = [op |-> "empty"]
       /\ UNCHANGED items

ApproxDepth ==
    /\ answer' = [op |-> "depth", value |-> Len(items)]
    /\ UNCHANGED items

Next == (\E v \in Values : TryEnqueue(v)) \/ TryDequeue \/ ApproxDepth

Spec == Init /\ [][Next]_fifoVars
=============================================================================
