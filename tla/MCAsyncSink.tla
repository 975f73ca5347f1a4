----------------------------- MODULE MCAsyncSink -----------------------------
(***************************************************************************)
(* Instances of AsyncSink for TLC: two slots, batches of two, and enough   *)
(* writes to fill the queue while producers are blocked beside it.         *)
(***************************************************************************)
EXTENDS AsyncSinkRefinement, TLC

CONSTANTS p1, p2

Reporting(p) == [policy |-> p, emitDropReports |-> TRUE, hasSink |-> TRUE, raced |-> FALSE]
Quiet        == [Reporting("DropNewest") EXCEPT !.emitDropReports = FALSE]
Sinkless     == [Reporting("SyncFallback") EXCEPT !.hasSink = FALSE]

\* Every policy; with calls that race the destructor, and the rest of the options, too.
EveryPolicy == {Reporting(p) : p \in Policies}
EveryOwner  ==
    EveryPolicy \cup {Sinkless} \cup
    {[o EXCEPT !.raced = TRUE] : o \in {Reporting("BlockForTimeout"), Quiet}}
BlockOnly   == {Reporting("Block")}

TwoAndOne == p1 :> 2 @@ p2 :> 1
Three     == p1 :> 3
=============================================================================
