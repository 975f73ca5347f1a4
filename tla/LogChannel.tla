----------------------------- MODULE LogChannel -----------------------------
(***************************************************************************)
(* What an asynchronous sink promises its callers, whatever the threads,   *)
(* mutexes and condition variables behind it do (docs/Architecture.md,     *)
(* "Async Sink Behavior"): a bounded first-in first-out channel between    *)
(* the producers and the wrapped sink, a count of the records it refused,  *)
(* and a Flush that does not end before what was pending when it began has *)
(* been handed to the wrapped sink.  AsyncSink implements it: see          *)
(* AsyncSinkRefinement.                                                    *)
(***************************************************************************)
EXTENDS Naturals, Sequences

CONSTANTS Records, Flushers, Capacity

VARIABLES
    kind,       \* may producers deliver?  is there a sink?  may calls race the close?
    pending,    \* accepted and not delivered, oldest first
    delivered,  \* what the wrapped sink was given, in order
    refused,    \* the number of records dropped
    flushed,    \* the number of records delivered when the sink was last flushed
    due         \* due[f]: what was pending when f began to flush

channelVars == <<kind, pending, delivered, refused, flushed, due>>

Members(s) == {s[i] : i \in 1 .. Len(s)}

Init ==
    /\ kind \in [bypass : BOOLEAN, hasSink : BOOLEAN, raced : BOOLEAN]
    /\ pending = <<>> /\ delivered = <<>>
    /\ refused = 0 /\ flushed = 0
    /\ due = [f \in Flushers |-> {}]

Give(r) == delivered' = IF kind.hasSink THEN Append(delivered, r) ELSE delivered

Accept(r) ==
    /\ Len(pending) < Capacity
    /\ r \notin Members(pending) \cup Members(delivered)
    /\ pending' = Append(pending, r)
    /\ UNCHANGED <<kind, delivered, refused, flushed, due>>

Refuse ==
    /\ refused' = refused + 1
    /\ UNCHANGED <<kind, pending, delivered, flushed, due>>

Deliver ==
    /\ pending # <<>>
    /\ Give(Head(pending))
    /\ pending' = Tail(pending)
    /\ UNCHANGED <<kind, refused, flushed, due>>

Bypass(r) ==
    /\ kind.bypass
    /\ r \notin Members(pending) \cup Members(delivered)
    /\ Give(r)
    /\ UNCHANGED <<kind, pending, refused, flushed, due>>

FlushBegin(f) ==
    /\ due' = [due EXCEPT ![f] = Members(pending)]
    /\ UNCHANGED <<kind, pending, delivered, refused, flushed>>

FlushSink == flushed' = IF kind.hasSink THEN Len(delivered) ELSE flushed

FlushEnd(f) ==
    /\ due[f] \cap Members(pending) = {}
    /\ FlushSink
    /\ due' = [due EXCEPT ![f] = {}]
    /\ UNCHANGED <<kind, pending, delivered, refused>>

\* The sink flushes when it is closed, too; a record that races the close may stay.
Close ==
    /\ kind.raced \/ pending = <<>>
    /\ FlushSink
    /\ UNCHANGED <<kind, pending, delivered, refused, due>>

Next ==
    \/ \E r \in Records : Accept(r) \/ Bypass(r)
    \/ Deliver \/ Refuse \/ Close
    \/ \E f \in Flushers : FlushBegin(f) \/ FlushEnd(f)

Spec == Init /\ [][Next]_channelVars
=============================================================================
