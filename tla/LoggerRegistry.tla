---------------------------- MODULE LoggerRegistry ----------------------------
(***************************************************************************)
(* BasicLoggerRegistry (include/NGIN/Log/LoggerRegistry.hpp) and the part  *)
(* of its loggers it configures (include/NGIN/Log/Logger.hpp): a level and *)
(* a set of sinks, two atomics that any thread reads without the lock of   *)
(* the registry.                                                           *)
(*                                                                         *)
(* m_mutex is held over several steps only by a thread that has changed    *)
(* the configuration and applies it to the loggers one by one; a section   *)
(* that other threads see as one step is one.  SetLoggerRuntimeMin and     *)
(* ReplaceLoggerSinks look the logger up under the lock and store after    *)
(* it; Log takes no lock at all.                                           *)
(*                                                                         *)
(* A name is the sequence of the segments between its dots.                *)
(***************************************************************************)
EXTENDS Naturals, SequencesExt

CONSTANTS
    Threads, NoThread,
    Names,           \* the names of the loggers
    Levels,          \* the LogLevels in use
    SinkSets,        \* the sets of sinks in use, as sequences of sinks
    Rules,           \* the rules given to UpsertRule
    Inherit,         \* std::nullopt, in a rule
    MayCall,         \* MayCall[t]: the operations thread t calls
    MaxCalls         \* MaxCalls[t]: bound on the calls of thread t

Info == 2   \* LogLevel.hpp
Off  == 6

Operations ==
    {"GetOrCreate", "SetDefaultRuntimeMin", "SetDefaultSinks", "UpsertRule", "RemoveRule",
     "SetLoggerRuntimeMin", "ReplaceLoggerSinks", "Log"}

Segments == UNION {ToSet(n) : n \in Names}
Sinks    == UNION {ToSet(s) : s \in SinkSets}

RuleType ==
    [prefix : Seq(Segments), runtimeMin : Levels \cup {Inherit},
     sinks : SinkSets \cup {Inherit}]

ASSUME RegistryAssumption ==
    /\ NoThread \notin Threads
    /\ Levels \subseteq 0 .. Off /\ Info \in Levels
    /\ Names \subseteq Seq(Segments)
    /\ <<>> \in SinkSets /\ SinkSets \subseteq Seq(Sinks)
    /\ Inherit \notin Levels /\ Inherit \notin SinkSets
    /\ Rules \subseteq RuleType
    /\ MayCall \in [Threads -> SUBSET Operations]
    /\ MaxCalls \in [Threads -> Nat]

VARIABLES
    defaultRuntimeMin,  \* m_defaultRuntimeMin
    defaultSinks,       \* m_defaultSinks
    rules,              \* m_rules
    loggers,            \* m_loggers: the number of the object of that name, 0 for none
    objects,            \* the Logger objects in the order of their creation, each with
                        \* the history: was its level, were its sinks set for it alone?
    writer,             \* the thread that holds m_mutex over several steps
    todo,               \* the objects writer has still to update
    pc,                 \* pc[t]: where thread t is in its call
    arg,                \* arg[t]: the arguments and the locals of the call
    handle,             \* handle[t]: the logger t got from GetOrCreate last, 0 for none
    calls,              \* calls[t]: the number of calls t has begun
    seen                \* history: seen[t], the levels and sink sets its logger has had
                        \* since t began to log

configVars == <<defaultRuntimeMin, defaultSinks, rules>>
lockVars   == <<writer, todo>>
registryVars == <<configVars, loggers, objects, lockVars>>
vars == <<registryVars, pc, arg, handle, calls, seen>>

-----------------------------------------------------------------------------
NoArg == [op |-> "none"]
NothingSeen == [levels |-> {}, sinkSets |-> {}]

\* detail::LoggerNameMatchesPrefix: the prefix is empty, the name, or what precedes a dot.
LoggerNameMatchesPrefix(name, prefix) == IsPrefix(prefix, name)

\* ComputeEffectiveConfigLocked: of the rules that match, the first with the longest
\* prefix; what it leaves open comes from the defaults, never from another rule.
MatchingRule(name, best, rule) ==
    IF LoggerNameMatchesPrefix(name, rule.prefix) THEN <<rule>> ELSE best
LongerRule(name, best, rule) ==
    IF LoggerNameMatchesPrefix(name, rule.prefix)
       /\ (best = <<>> \/ Len(rule.prefix) > Len(best[1].prefix))
    THEN <<rule>> ELSE best

BestRule(name) ==
    LET best[n \in 0 .. Len(rules)] ==
            IF n = 0 THEN <<>> ELSE LongerRule(name, best[n - 1], rules[n])
    IN  best[Len(rules)]

Given(value, default) == IF value = Inherit THEN default ELSE value

ComputeEffectiveConfig(name) ==
    LET best == BestRule(name)
    IN  IF best = <<>>
        THEN [runtimeMin |-> defaultRuntimeMin, sinks |-> defaultSinks]
        ELSE [runtimeMin |-> Given(best[1].runtimeMin, defaultRuntimeMin),
              sinks      |-> Given(best[1].sinks, defaultSinks)]

\* Logger::SetRuntimeMin and Logger::SetSinks: one store.  alone says who stores.
StoreRuntimeMin(i, level, alone) ==
    /\ objects' = [objects EXCEPT ![i].runtimeMin = level, ![i].levelAlone = alone]
    /\ seen' = [t \in Threads |->
                   IF pc[t] \in {"snapshot", "dispatch"} /\ handle[t] = i
                   THEN [seen[t] EXCEPT !.levels = @ \cup {level}] ELSE seen[t]]

StoreSinks(i, sinks, alone) ==
    /\ objects' = [objects EXCEPT ![i].sinks = sinks, ![i].sinksAlone = alone]
    /\ seen' = [t \in Threads |->
                   IF pc[t] \in {"snapshot", "dispatch"} /\ handle[t] = i
                   THEN [seen[t] EXCEPT !.sinkSets = @ \cup {sinks}] ELSE seen[t]]

Begin(t, op) ==
    /\ pc[t] = "ready" /\ op \in MayCall[t] /\ calls[t] < MaxCalls[t]
    /\ calls' = [calls EXCEPT ![t] = @ + 1]

Return(t) == pc' = [pc EXCEPT ![t] = "ready"] /\ arg' = [arg EXCEPT ![t] = NoArg]

Unlocked == writer = NoThread

-----------------------------------------------------------------------------
(* GetOrCreate.                                                            *)

\* The look-up under the shared lock, which is then released.
GetOrCreate(t, name, runtimeMin) ==
    /\ Begin(t, "GetOrCreate") /\ Unlocked
    /\ IF loggers[name] # 0
       THEN /\ handle' = [handle EXCEPT ![t] = loggers[name]]
            /\ UNCHANGED <<pc, arg>>
       ELSE /\ pc' = [pc EXCEPT ![t] = "create"]
            /\ arg' = [arg EXCEPT ![t] = [op |-> "GetOrCreate", name |-> name,
                                          runtimeMin |-> runtimeMin]]
            /\ UNCHANGED handle
    /\ UNCHANGED <<registryVars, seen>>

\* The level the caller asks for counts unless it is Info, and unless the configuration
\* of this name gives it another than the default level.
InitialRuntimeMin(config, runtimeMin) ==
    IF config.runtimeMin = defaultRuntimeMin /\ runtimeMin # Info
    THEN runtimeMin ELSE config.runtimeMin

NewLogger(name, runtimeMin) ==
    LET config == ComputeEffectiveConfig(name)
        level  == InitialRuntimeMin(config, runtimeMin)
    IN  [name |-> name, runtimeMin |-> level, sinks |-> config.sinks,
         levelAlone |-> level # config.runtimeMin, sinksAlone |-> FALSE]

\* Under the exclusive lock: look again, and only then create and register.
StillMissingUnchecked(name) == TRUE
StillMissing(name) == loggers[name] = 0

Create(t) ==
    /\ pc[t] = "create" /\ Unlocked
    /\ LET name == arg[t].name
       IN  IF StillMissing(name)
           THEN /\ objects' = Append(objects, NewLogger(name, arg[t].runtimeMin))
                /\ loggers' = [loggers EXCEPT ![name] = Len(objects) + 1]
                /\ handle' = [handle EXCEPT ![t] = Len(objects) + 1]
           ELSE /\ handle' = [handle EXCEPT ![t] = loggers[name]]
                /\ UNCHANGED <<objects, loggers>>
    /\ Return(t)
    /\ UNCHANGED <<configVars, lockVars, calls, seen>>

-----------------------------------------------------------------------------
(* The operations that change the configuration.                           *)

\* Take m_mutex; ApplyConfigUpdatesLocked has every registered logger to visit.
Lock(t) ==
    /\ Unlocked
    /\ writer' = t
    /\ todo' = {loggers[n] : n \in Names} \ {0}
    /\ pc' = [pc EXCEPT ![t] = "apply"]
    /\ UNCHANGED <<loggers, objects, arg, handle, seen>>

SetDefaultRuntimeMin(t, runtimeMin) ==
    /\ Begin(t, "SetDefaultRuntimeMin") /\ Lock(t)
    /\ defaultRuntimeMin' = runtimeMin
    /\ UNCHANGED <<defaultSinks, rules>>

SetDefaultSinks(t, sinks) ==
    /\ Begin(t, "SetDefaultSinks") /\ Lock(t)
    /\ defaultSinks' = sinks
    /\ UNCHANGED <<defaultRuntimeMin, rules>>

\* A rule takes the place of the one with the same prefix, or comes last.
UpsertRule(t, rule) ==
    /\ Begin(t, "UpsertRule") /\ Lock(t)
    /\ LET place == {i \in DOMAIN rules : rules[i].prefix = rule.prefix}
       IN  rules' = IF place = {} THEN Append(rules, rule)
                    ELSE [rules EXCEPT ![CHOOSE i \in place : TRUE] = rule]
    /\ UNCHANGED <<defaultRuntimeMin, defaultSinks>>

\* std::remove_if and erase: the rules of other prefixes stay, in their order.
WithoutPrefix(prefix) ==
    LET kept[n \in 0 .. Len(rules)] ==
            IF n = 0 THEN <<>>
            ELSE IF rules[n].prefix = prefix THEN kept[n - 1] ELSE Append(kept[n - 1], rules[n])
    IN  kept[Len(rules)]

RemoveRule(t, prefix) ==
    /\ Begin(t, "RemoveRule") /\ Lock(t)
    /\ rules' = WithoutPrefix(prefix)
    /\ UNCHANGED <<defaultRuntimeMin, defaultSinks>>

\* ApplyConfigUpdatesLocked, in the order of an unordered_map: the level of a logger...
ApplyRuntimeMin(t) ==
    /\ pc[t] = "apply"
    /\ \E i \in todo :
          /\ StoreRuntimeMin(i, ComputeEffectiveConfig(objects[i].name).runtimeMin, FALSE)
          /\ arg' = [arg EXCEPT ![t] = [op |-> "apply", object |-> i]]
    /\ pc' = [pc EXCEPT ![t] = "apply_sinks"]
    /\ UNCHANGED <<configVars, loggers, lockVars, handle, calls>>

\* ... then its sinks.
ApplySinks(t) ==
    /\ pc[t] = "apply_sinks"
    /\ LET i == arg[t].object
       IN  /\ StoreSinks(i, ComputeEffectiveConfig(objects[i].name).sinks, FALSE)
           /\ todo' = todo \ {i}
    /\ pc' = [pc EXCEPT ![t] = "apply"] /\ arg' = [arg EXCEPT ![t] = NoArg]
    /\ UNCHANGED <<configVars, loggers, writer, handle, calls>>

AllAppliedUnchecked == TRUE
AllApplied == todo = {}

Unlock(t) ==
    /\ pc[t] = "apply" /\ AllApplied
    /\ writer' = NoThread
    /\ pc' = [pc EXCEPT ![t] = "ready"]
    /\ UNCHANGED <<configVars, loggers, objects, todo, arg, handle, calls, seen>>

-----------------------------------------------------------------------------
(* SetLoggerRuntimeMin and ReplaceLoggerSinks: Get under the shared lock,  *)
(* which is released; then the store.                                      *)

SetLogger(t, op, name, value) ==
    /\ Begin(t, op) /\ Unlocked
    /\ IF loggers[name] = 0
       THEN UNCHANGED <<pc, arg>>
       ELSE /\ pc' = [pc EXCEPT ![t] = "store"]
            /\ arg' = [arg EXCEPT ![t] = [op |-> op, object |-> loggers[name],
                                          value |-> value]]
    /\ UNCHANGED <<registryVars, handle, seen>>

SetLoggerRuntimeMin(t, name, level) == SetLogger(t, "SetLoggerRuntimeMin", name, level)
ReplaceLoggerSinks(t, name, sinks)  == SetLogger(t, "ReplaceLoggerSinks", name, sinks)

Store(t) ==
    /\ pc[t] = "store"
    /\ \/ /\ arg[t].op = "SetLoggerRuntimeMin"
          /\ StoreRuntimeMin(arg[t].object, arg[t].value, TRUE)
       \/ /\ arg[t].op = "ReplaceLoggerSinks"
          /\ StoreSinks(arg[t].object, arg[t].value, TRUE)
    /\ Return(t)
    /\ UNCHANGED <<configVars, loggers, lockVars, handle, calls>>

-----------------------------------------------------------------------------
(* Logger::Log.                                                            *)

\* IsRuntimeEnabled.
IsRuntimeEnabled(level, runtimeMin) == level >= runtimeMin /\ level # Off

\* The level is read; a record that is not enabled goes no further than the return.
Log(t, level) ==
    /\ handle[t] # 0 /\ Begin(t, "Log")
    /\ LET logger == objects[handle[t]]
       IN  /\ seen' = [seen EXCEPT ![t] = [levels   |-> {logger.runtimeMin},
                                           sinkSets |-> {logger.sinks}]]
           /\ pc' = [pc EXCEPT ![t] = IF IsRuntimeEnabled(level, logger.runtimeMin)
                                      THEN "snapshot" ELSE "logged"]
    /\ arg' = [arg EXCEPT ![t] = [op |-> "Log", level |-> level, sinks |-> <<>>, given |-> <<>>]]
    /\ UNCHANGED <<registryVars, handle>>

\* The builder has run; Dispatch takes the snapshot of the sinks.
Snapshot(t) ==
    /\ pc[t] = "snapshot"
    /\ LET sinks == objects[handle[t]].sinks
       IN  /\ arg' = [arg EXCEPT ![t].sinks = sinks]
           /\ pc' = [pc EXCEPT ![t] = IF sinks = <<>> THEN "logged" ELSE "dispatch"]
    /\ UNCHANGED <<registryVars, handle, calls, seen>>

\* One call of Write, on the next sink of the snapshot.
DispatchLive(t) ==
    /\ pc[t] = "dispatch"
    /\ LET n    == Len(arg[t].given) + 1
           live == objects[handle[t]].sinks
       IN  /\ arg' = IF n <= Len(live)
                     THEN [arg EXCEPT ![t].given = Append(@, live[n])] ELSE arg
           /\ pc' = [pc EXCEPT ![t] = IF n >= Len(live) THEN "logged" ELSE "dispatch"]
    /\ UNCHANGED <<registryVars, handle, calls, seen>>
Dispatch(t) ==
    /\ pc[t] = "dispatch"
    /\ LET n == Len(arg[t].given) + 1
       IN  /\ arg' = [arg EXCEPT ![t].given = Append(@, arg[t].sinks[n])]
           /\ pc' = [pc EXCEPT ![t] = IF n = Len(arg[t].sinks) THEN "logged" ELSE "dispatch"]
    /\ UNCHANGED <<registryVars, handle, calls, seen>>

LogReturn(t) ==
    /\ pc[t] = "logged"
    /\ Return(t)
    /\ seen' = [seen EXCEPT ![t] = NothingSeen]
    /\ UNCHANGED <<registryVars, handle, calls>>

-----------------------------------------------------------------------------
Init ==
    /\ defaultRuntimeMin = Info /\ defaultSinks = <<>> /\ rules = <<>>
    /\ loggers = [n \in Names |-> 0] /\ objects = <<>>
    /\ writer = NoThread /\ todo = {}
    /\ pc = [t \in Threads |-> "ready"] /\ arg = [t \in Threads |-> NoArg]
    /\ handle = [t \in Threads |-> 0] /\ calls = [t \in Threads |-> 0]
    /\ seen = [t \in Threads |-> NothingSeen]

Configure(t) ==
    \/ \E level \in Levels : SetDefaultRuntimeMin(t, level)
    \/ \E sinks \in SinkSets : SetDefaultSinks(t, sinks)
    \/ \E rule \in Rules : UpsertRule(t, rule) \/ RemoveRule(t, rule.prefix)

Address(t) ==
    \E name \in Names :
        \/ \E level \in Levels : GetOrCreate(t, name, level) \/ SetLoggerRuntimeMin(t, name, level)
        \/ \E sinks \in SinkSets : ReplaceLoggerSinks(t, name, sinks)

Step(t) ==
    \/ Create(t) \/ ApplyRuntimeMin(t) \/ ApplySinks(t) \/ Unlock(t) \/ Store(t)
    \/ Snapshot(t) \/ Dispatch(t) \/ LogReturn(t)

Next == \E t \in Threads :
            Configure(t) \/ Address(t) \/ (\E level \in Levels : Log(t, level)) \/ Step(t)

Spec == Init /\ [][Next]_vars

-----------------------------------------------------------------------------
LoggerType ==
    [name : Names, runtimeMin : Levels, sinks : SinkSets,
     levelAlone : BOOLEAN, sinksAlone : BOOLEAN]

Locations ==
    {"ready", "create", "apply", "apply_sinks", "store", "snapshot", "dispatch", "logged"}

\* Every variable has its type; the lock is held exactly by the thread that applies,
\* until it has visited every logger.
TypeOK ==
    /\ defaultRuntimeMin \in Levels /\ defaultSinks \in SinkSets /\ rules \in Seq(Rules)
    /\ loggers \in [Names -> 0 .. Len(objects)] /\ objects \in Seq(LoggerType)
    /\ writer \in Threads \cup {NoThread} /\ todo \subseteq DOMAIN objects
    /\ Unlocked => todo = {}
    /\ pc \in [Threads -> Locations]
    /\ \A t \in Threads : pc[t] \in {"apply", "apply_sinks"} <=> writer = t
    /\ handle \in [Threads -> 0 .. Len(objects)]
    /\ calls \in [Threads -> Nat] /\ \A t \in Threads : calls[t] <= MaxCalls[t]
    /\ seen \in [Threads -> [levels : SUBSET Levels, sinkSets : SUBSET SinkSets]]

\* Threads that race to create a logger of one name get the same one, and it is the one
\* that the registry updates ("min-level changes should update existing loggers",
\* docs/Production.md:176).
OneLoggerPerName ==
    /\ \A t \in Threads : handle[t] # 0 => loggers[objects[handle[t]].name] = handle[t]
    /\ \A n \in Names : loggers[n] # 0 => objects[loggers[n]].name = n

\* Whenever no change is being applied, every logger has the level and the sinks of the
\* rule with the longest matching prefix, or of the defaults where it gives none ("Rule
\* matching uses the longest dot-delimited prefix", docs/API.md:170), unless its level
\* or its sinks have since been set for it alone.  No logger that is created, or set,
\* while a change is applied misses it.
Matches(rule, name) == LoggerNameMatchesPrefix(name, rule.prefix)
Governs(rule, name) ==
    /\ Matches(rule, name)
    /\ \A other \in ToSet(rules) : Matches(other, name) => Len(other.prefix) <= Len(rule.prefix)

HasConfiguration(logger, runtimeMin, sinks) ==
    /\ logger.levelAlone \/ logger.runtimeMin = Given(runtimeMin, defaultRuntimeMin)
    /\ logger.sinksAlone \/ logger.sinks = Given(sinks, defaultSinks)

ConfigurationApplied ==
    Unlocked =>
        \A i \in DOMAIN objects :
            LET logger == objects[i]
            IN  /\ \A rule \in ToSet(rules) :
                      Governs(rule, logger.name) =>
                          HasConfiguration(logger, rule.runtimeMin, rule.sinks)
                /\ ~(\E rule \in ToSet(rules) : Matches(rule, logger.name)) =>
                       HasConfiguration(logger, Inherit, Inherit)

\* A record goes to all the sinks of one set the logger had during the call, in their
\* order and never to some of one set and some of another ("dispatch one immutable
\* LogRecordView to the active sink snapshot", docs/Architecture.md:13), and only if a
\* level the logger had during the call lets it; it is given up only if another did not,
\* or if the logger had no sinks.
RecordGoesToOneSinkSet ==
    \A t \in Threads : pc[t] = "logged" =>
        \/ /\ arg[t].given \in seen[t].sinkSets
           /\ \E level \in seen[t].levels : IsRuntimeEnabled(arg[t].level, level)
        \/ /\ arg[t].given = <<>>
           /\ \E level \in seen[t].levels : arg[t].level < level \/ arg[t].level = Off
=============================================================================
