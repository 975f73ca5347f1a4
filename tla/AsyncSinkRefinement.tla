------------------------- MODULE AsyncSinkRefinement -------------------------
(***************************************************************************)
(* AsyncSink implements LogChannel.  The record the worker holds is still  *)
(* pending and ahead of the queue; a thread that only counts, notifies or  *)
(* waits does not move the channel.                                        *)
(***************************************************************************)
EXTENDS AsyncSink

Channel == INSTANCE LogChannel WITH
    Capacity  <- QueueCapacity + 1,
    kind      <- [bypass  |-> options.policy = "SyncFallback",
                  hasSink |-> options.hasSink, raced |-> options.raced],
    pending   <- hand \o queue,
    delivered <- sinkRecords,
    refused   <- stats.dropped,
    flushed   <- sinkFlushed.records,
    due       <- [f \in Flushers |-> due[f].records]

\* Every behaviour of the sink is one of the abstract channel: bounded, first in
\* first out, without duplicates; only a SyncFallback producer overtakes; Flush ends
\* only when what was pending when it began is out; the closing flush finds nothing
\* pending unless a call raced the destructor.
ImplementsLogChannel == Channel!Spec
=============================================================================
