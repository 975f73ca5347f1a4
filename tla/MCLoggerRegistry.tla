--------------------------- MODULE MCLoggerRegistry ---------------------------
(***************************************************************************)
(* Instances of LoggerRegistry for TLC: a logger below another, rules for  *)
(* both of them, a thread that configures, one that creates and logs, and  *)
(* one that does a little of either.                                       *)
(***************************************************************************)
EXTENDS LoggerRegistry

CONSTANTS configurer, user, other, a, b, net, http

TwoNames == {<<net>>, <<net, http>>}

Rule(prefix, level, sinks) == [prefix |-> prefix, runtimeMin |-> level, sinks |-> sinks]

EveryRule ==
    {Rule(<<>>, Inherit, <<b>>), Rule(<<net>>, 1, Inherit), Rule(<<net, http>>, 1, <<a, b>>)}

TwoLevels == {1, 2}
Outputs   == {<<>>, <<a, b>>, <<b>>}

Calls == [t \in Threads |->
    CASE t = configurer -> {"SetDefaultRuntimeMin", "SetDefaultSinks", "UpsertRule", "RemoveRule"}
      [] t = user       -> {"GetOrCreate", "Log"}
      [] OTHER          -> {"GetOrCreate", "SetLoggerRuntimeMin", "ReplaceLoggerSinks"}]

ThreeTwoOne == [t \in Threads |-> CASE t = configurer -> 3 [] t = user -> 2 [] OTHER -> 1]
=============================================================================
