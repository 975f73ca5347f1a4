------------------------------ MODULE MCLogger ------------------------------
(***************************************************************************)
(* Instances of Logger for TLC: a plain sink p; asynchronous sinks q and   *)
(* q2 with one slot each; a sink p2 that only a second set holds.          *)
(***************************************************************************)
EXTENDS Logger

CONSTANTS a, b, p, p2, q, q2, t1, t2

Both(first, second) == [l \in {a, b} |-> IF l = a THEN first ELSE second]
W(templates, initial, replaced, second, feeds, policy) ==
    [template |-> templates, initial |-> initial, replaced |-> replaced, second |-> second,
     feeds |-> [s \in Sinks |-> IF s \in DOMAIN feeds THEN feeds[s] ELSE NoLogger],
     policy |-> [s \in AsyncSinks |-> IF s = q THEN policy ELSE "SyncFallback"]]
Same == Both("Info", "Info")
Two  == Both("Info", "Debug")
None == Both(<<>>, <<>>)

\* Nothing feeds, and a sink changes loggers; p feeds its own logger, and is shared by
\* another one; p feeds a logger of another template; the worker of q feeds the other
\* logger: one of plain sinks, or of the asynchronous sink q2, which may be full when it
\* is reached for the second time, and which the worker may come to destroy.
NoFeedback ==
    {W(Same, Both(<<p, q>>, <<Null, p>>), {a}, Both(<<>>, <<p2>>), <<>>, "Block"),
     W(Same, Both(<<p>>, <<p>>), {b}, Both(<<>>, <<p2>>), p :> a, "Block"),
     W(Two, Both(<<p>>, <<q>>), {a}, Both(<<p2>>, <<>>), p :> b, "SyncFallback"),
     W(Same, Both(<<q>>, <<p>>), {b}, Both(<<>>, <<p2>>), q :> b, "DropNewest"),
     W(Same, Both(<<q>>, <<q2, q2>>), {b}, None, q :> b, "Block")}
\* The other logger's sink feeds q again; or q feeds its own logger, and may come to
\* release its own last snapshot.
Feedback ==
    {W(Two, Both(<<q>>, <<p>>), {a}, Both(<<p>>, <<>>), q :> b @@ p :> a, "Block"),
     W(Same, Both(<<q>>, <<p>>), {a}, Both(<<p2>>, <<>>), q :> a, "SyncFallback")}
EveryWiring == NoFeedback \cup Feedback
TwoTemplates == {W(Two, Both(<<p>>, <<p>>), {}, None, p :> b, "Block")}
=============================================================================
