---------------------------- MODULE ScopedContext ----------------------------
(***************************************************************************)
(* The log context of one thread (include/NGIN/Log/Context.hpp) and the    *)
(* records that the thread logs under it (Logger::Log and Dispatch).  The  *)
(* storage is thread_local, so one thread is the whole story.              *)
(*                                                                         *)
(* A ScopedLogContext is an automatic object: the thread destroys the last *)
(* one it constructed first.  It remembers how long the storage was when   *)
(* its attributes were pushed, and resizes the storage to that length when *)
(* it is destroyed or assigned to.                                         *)
(***************************************************************************)
EXTENDS RecordFormatter

CONSTANTS
    PushedLists,     \* the attribute lists given to PushLogContext
    BuilderCalls,    \* the sequences of calls a builder function makes
    Sites,           \* the logger's name and the source file of the calls of Log
    Programs,        \* what the thread may do with scopes besides pushing them
    MaxScopes,       \* bound on the scope objects alive at a time
    MaxContext       \* bound on the length of the storage

\* ContextAttribute has a key and a value, and no kind; of whatever it is given,
\* MakeOwnedContextValue makes a number, a bool or a text.
ContextAttribute == {a \in Attribute : a.kind = "Default"}

\* ContextAttribute {} is what vector::resize appends.  Its value is the number 0.
CONSTANT Zero
DefaultAttribute == [key |-> <<>>, value |-> Zero, kind |-> "Default"]

\* The calls a builder function can make.
BuilderCall == [message : Text] \cup Attribute

ASSUME ScopedContextAssumption ==
    /\ MaxScopes \in Nat /\ MaxContext \in Nat /\ Zero \in Scalars
    /\ PushedLists \subseteq Seq(ContextAttribute)
    /\ BuilderCalls \subseteq Seq(BuilderCall)
    /\ Sites \subseteq [loggerName : Text, file : Text]
    /\ Programs \subseteq SUBSET {"move", "default", "assign"}

VARIABLES
    uses,      \* what this thread does with scopes, one of Programs
    storage,   \* GetLogContextStorage()
    scopes,    \* the scope objects alive, in the order of their construction
    held,      \* history: held[i] is the list whose scope object i stands for
    record     \* the last record dispatched, and what was given for it

vars == <<uses, storage, scopes, held, record>>

NoRecord ==
    [dispatched |-> [loggerName |-> <<>>, file |-> <<>>, message |-> <<>>, attributes |-> <<>>,
                     truncatedAttributes |-> 0, truncatedBytes |-> 0],
     loggerName |-> <<>>, message |-> <<>>, attributes |-> <<>>]

ScopeTooEarly(start) == [start |-> start - 1, active |-> TRUE]
Scope(start) == [start |-> start, active |-> TRUE]

-----------------------------------------------------------------------------
(* ScopedLogContext.                                                       *)

\* std::vector::resize: cuts the tail off, or appends default-constructed elements.
Resize(s, n) ==
    IF n <= Len(s) THEN SubSeq(s, 1, n)
    ELSE s \o [i \in 1 .. n - Len(s) |-> DefaultAttribute]

ResetKeepingStorage(s, scope) == s
Reset(s, scope) == IF scope.active THEN Resize(s, scope.start) ELSE s

\* auto scope = PushLogContext(list).
PushLogContext(list) ==
    /\ Len(scopes) < MaxScopes /\ Len(storage \o list) <= MaxContext
    /\ storage' = storage \o list
    /\ scopes' = Append(scopes, Scope(Len(storage)))
    /\ held' = Append(held, list)
    /\ record' = NoRecord
    /\ UNCHANGED uses

\* ScopedLogContext scope; m_start is 0 and m_active is true.
DefaultConstruct ==
    /\ "default" \in uses /\ Len(scopes) < MaxScopes
    /\ scopes' = Append(scopes, Scope(0))
    /\ held' = Append(held, <<>>)
    /\ record' = NoRecord
    /\ UNCHANGED <<uses, storage>>

\* auto scope = std::move(other), other being the innermost scope that is active.
InnermostActive(i) ==
    /\ scopes[i].active
    /\ \A j \in i + 1 .. Len(scopes) : ~scopes[j].active

MoveConstruct(i) ==
    /\ "move" \in uses /\ Len(scopes) < MaxScopes
    /\ InnermostActive(i)
    /\ scopes' = Append([scopes EXCEPT ![i].active = FALSE], scopes[i])
    /\ held' = Append([held EXCEPT ![i] = <<>>], held[i])
    /\ record' = NoRecord
    /\ UNCHANGED <<uses, storage>>

\* scope = PushLogContext(list), scope being the last object constructed: the list is
\* pushed, then the assignment resets scope and takes the start of the temporary.
MoveAssign(list) ==
    /\ "assign" \in uses /\ scopes # <<>> /\ Len(storage \o list) <= MaxContext
    /\ storage' = Reset(storage \o list, Last(scopes))
    /\ scopes' = Append(Front(scopes), Scope(Len(storage)))
    /\ held' = Append(Front(held), list)
    /\ record' = NoRecord
    /\ UNCHANGED uses

Destroy ==
    /\ scopes # <<>>
    /\ storage' = Reset(storage, Last(scopes))
    /\ scopes' = Front(scopes)
    /\ held' = Front(held)
    /\ record' = NoRecord
    /\ UNCHANGED uses

-----------------------------------------------------------------------------
(* Logging.                                                                *)

\* What was given: the last message, and all attributes in the order of the merge.
LastOf(message, call) == IF IsMessage(call) THEN call.message ELSE message
LastMessage(calls, throws) == IF throws THEN BuilderThrew ELSE FoldLeft(LastOf, <<>>, calls)

WithAttribute(list, call) == IF IsMessage(call) THEN list ELSE Append(list, call)
GivenAttributes(calls) == FoldLeft(WithAttribute, <<>>, calls)

\* logger.Info(fn), fn being a function that makes these calls and may then throw.  A
\* record leaves nothing behind for the next one: one between two changes of the context
\* is enough.
Log(site, calls, throws) ==
    /\ record = NoRecord
    /\ record' = [dispatched |-> Merge(site, storage, Build(calls, throws)),
                  loggerName |-> site.loggerName,
                  message    |-> LastMessage(calls, throws),
                  attributes |-> storage \o GivenAttributes(calls)]
    /\ UNCHANGED <<uses, storage, scopes, held>>

-----------------------------------------------------------------------------
Init ==
    /\ uses \in Programs
    /\ storage = <<>> /\ scopes = <<>> /\ held = <<>> /\ record = NoRecord

Next ==
    \/ \E list \in PushedLists : PushLogContext(list) \/ MoveAssign(list)
    \/ DefaultConstruct
    \/ \E i \in 1 .. Len(scopes) : MoveConstruct(i)
    \/ Destroy
    \/ \E site \in Sites, calls \in BuilderCalls, throws \in BOOLEAN : Log(site, calls, throws)

Spec == Init /\ [][Next]_vars

-----------------------------------------------------------------------------
\* Every variable has its type, and there is a list for every scope object.
TypeOK ==
    /\ uses \in Programs
    /\ storage \in Seq(ContextAttribute)
    /\ scopes \in Seq([start : Nat, active : BOOLEAN])
    /\ held \in Seq(Seq(ContextAttribute)) /\ Len(held) = Len(scopes)
    /\ record.dispatched.loggerName \in Text /\ record.dispatched.file \in Text
    /\ record.dispatched.message \in Text /\ Len(record.dispatched.message) <= MaxMessage
    /\ record.dispatched.attributes \in Seq(Attribute)
    /\ Len(record.dispatched.attributes) <= MaxAttributes
    /\ record.dispatched.truncatedAttributes \in Nat
    /\ record.dispatched.truncatedBytes \in Nat

\* The context is exactly the lists of the scopes alive, outer scopes first
\* (docs/API.md:89-92): the end of a scope takes away its own attributes and nothing
\* else.
ContextIsLiveScopes == storage = FlattenSeq(held)

\* It is so for a thread that only pushes scopes and moves the innermost one, as a
\* function that returns its scope does: whichever object stands for a scope by then.
NestedContextIsLiveScopes == uses \subseteq {"move"} => ContextIsLiveScopes

LastGiven(s) ==
    {s[i] : i \in {j \in 1 .. Len(s) : \A k \in j + 1 .. Len(s) : s[k].key # s[j].key}}

\* Nothing is left out in silence ("excess attributes are counted", "excess text bytes
\* are truncated and counted", docs/Architecture.md:50-52): a record whose counters are 0
\* carries the whole name of its logger, the whole of the last message, and of what the
\* context and the builder gave for a key exactly what was given last ("Later duplicate
\* keys win", docs/API.md:94).
\* So it does after AsyncSink has copied it.
UncountedIsComplete ==
    \A r \in {record.dispatched, ToOwned(record.dispatched)} :
        r.truncatedAttributes = 0 /\ r.truncatedBytes = 0 =>
            /\ r.loggerName = record.loggerName /\ r.message = record.message
            /\ ToSet(r.attributes) = LastGiven(record.attributes)
            /\ Len(r.attributes) = Cardinality(LastGiven(record.attributes))

\* A record that an asynchronous sink passes on says at least as much about what is
\* missing as the record it was given, and is that record if it says the same.
AsyncCopyCounts ==
    LET r == record.dispatched  owned == ToOwned(r)
    IN  /\ owned.truncatedAttributes = r.truncatedAttributes
        /\ owned.truncatedBytes >= r.truncatedBytes
        /\ owned.truncatedBytes = r.truncatedBytes => owned = r

\* "Built-in formatters escape control characters so one logical record remains one
\* physical line" (docs/Architecture.md:96), whatever a name, a message, a key or a value
\* holds and wherever it has been cut, by the logger or once more for a queue.
OnePhysicalLine ==
    \A r \in {record.dispatched, ToOwned(record.dispatched)} :
        \A line \in {FormatText(r, FALSE), FormatText(r, TRUE),
                     FormatLogFmt(r, FALSE), FormatLogFmt(r, TRUE), FormatJson(r)} :
            {i \in 1 .. Len(line) : line[i] = Newline} = {Len(line)}

\* "Machine parsing" and "attributes ... preserve[d] exactly" (docs/Production.md:55-57):
\* a reader of JSON strings gets from a line of the JSON formatter the very texts and
\* the very structure that went into it.  Timestamps in epoch style and finite numbers
\* are taken as read: an ISO 8601 timestamp is not quoted, and nan and inf are not JSON.
JsonReadsBack ==
    \A r \in {record.dispatched, ToOwned(record.dispatched)} :
        ReadJson(FormatJson(r)) = JsonItems(r)
=============================================================================
