------------------------------- MODULE Logger -------------------------------
(***************************************************************************)
(* Logger<CompileTimeMin> (include/NGIN/Log/Logger.hpp) and the sinks it   *)
(* fans out to: any number of threads log, flush and exchange the sinks of *)
(* several loggers; a builder function and a sink may log in their turn; a *)
(* sink ends with the last snapshot that holds it.                         *)
(*                                                                         *)
(* What a thread does is a stack of frames, one for every call of Log,     *)
(* Flush or SetSinks, and of AsyncSink::Deliver, that it is in.  Its top   *)
(* frame moves.  A step is one load of the snapshot, one call into a sink, *)
(* or the release of a snapshot.                                           *)
(*                                                                         *)
(* An asynchronous sink is, for the loggers above it, a bounded queue, an  *)
(* overflow policy and a worker thread, named as the sink is; module       *)
(* AsyncSink has the steps in between.  Calls below the runtime minimum,   *)
(* which return at once, are left to module LoggerRegistry.  The           *)
(* application keeps no SinkPtr of a set that it has given to a logger.    *)
(***************************************************************************)
EXTENDS Naturals, Sequences, FiniteSets, SequencesExt

CONSTANTS
    Threads,      \* the threads of the application
    Keepers,      \* those of them that call Flush and SetSinks, too
    Loggers,
    Templates,    \* the values of CompileTimeMin in use
    PlainSinks,   \* sinks that write on the thread of the caller
    AsyncSinks,   \* sinks that enqueue for a worker
    Null,         \* an empty SinkPtr
    NoLogger,     \* where a sink logs to that does not log
    Wirings,      \* what may be instantiated and wired up, see WiringType
    Room,         \* slots of the queue of an asynchronous sink
    MaxRecords,   \* bound on the calls of Log
    MaxDepth,     \* bound on the stack of a thread, for builders that log
    MaxThrows,    \* bound on the builder functions that throw
    MaxFlushes    \* bound on the calls of Flush

Sinks  == PlainSinks \cup AsyncSinks
Actors == Threads \cup AsyncSinks

\* The template argument of each logger; the sinks given to its constructor, and those
\* given to SetSinks; the logger that a sink logs to while it is written to, if any; the
\* overflow policy of each asynchronous sink (of Block with a timeout, what is seen here
\* is a refusal or an acceptance, as with DropNewest).
SinkSet == Seq(Sinks \cup {Null})
WiringType ==
    [template : [Loggers -> Templates],
     initial  : [Loggers -> SinkSet],
     replaced : SUBSET Loggers,
     second   : [Loggers -> SinkSet],
     feeds    : [Sinks -> Loggers \cup {NoLogger}],
     policy   : [AsyncSinks -> {"DropNewest", "Block", "SyncFallback"}]]

ASSUME LoggerAssumption ==
    /\ Keepers \subseteq Threads /\ Threads \cap Sinks = {} /\ PlainSinks \cap AsyncSinks = {} /\ Null \notin Sinks
    /\ NoLogger \notin Loggers
    /\ Wirings \subseteq WiringType
    /\ \A w \in Wirings : \A l \in w.replaced : w.second[l] # w.initial[l]
    /\ Room \in Nat /\ MaxRecords \in Nat /\ MaxDepth \in Nat /\ MaxThrows \in Nat /\ MaxFlushes \in Nat

VARIABLES
    wiring,      \* one of Wirings
    active,      \* active[l]: the snapshot m_activeSinks points to
    spare,       \* the loggers whose second set the application still has
    errors,      \* errors[l]: m_sinkErrorCount
    inDispatch,  \* inDispatch[t]: the templates whose s_inDispatch is true on thread t
    frames,      \* frames[t]: the calls thread t is in, outermost first
    queue,       \* queue[s]: the records in the queue of s
    written,     \* written[s]: what s, or the sink that s wraps, was given to write
    flushed,     \* flushed[s]: how much of written[s] has been flushed
    gone,        \* the sinks that have been destroyed
    flushes,     \* the calls of Flush begun
    log          \* history: what became of every call of Log, see CallType

channels == <<queue, written, flushed, gone>>
vars == <<wiring, active, spare, errors, inDispatch, frames, channels, flushes, log>>

Outcomes == {"open", "dispatched", "recursive", "no sinks"}
CallType ==
    [logger : Loggers, threw : BOOLEAN, outcome : Outcomes, since : SinkSet,
     refusedBy : SUBSET AsyncSinks]
FrameType ==
    {f \in [op : {"Log", "Flush", "SetSinks", "Deliver"}, logger : Loggers \cup {NoLogger},
            at : {"build", "fan", "write", "lock", "release", "destroy"},
            sinks : SinkSet, next : Nat \ {0}, records : SUBSET (1 .. MaxRecords)] :
        /\ f.at = "build" => f.op = "Log"
        /\ f.op = "Log" => f.logger \in Loggers
        /\ f.op \in {"Log", "Deliver"} => f.records # {}}

Top(t) == Last(frames[t])
TopAt(t, at) == frames[t] # <<>> /\ Top(t).at = at
Moved(t, f) == [frames EXCEPT ![t] = Append(Front(@), f)]
Pushed(t, f) == [frames EXCEPT ![t] = Append(@, f)]
Popped(t) == [frames EXCEPT ![t] = Front(@)]

\* The sink that a frame has come to; does the frame run the Write of a plain sink, or of
\* the sink that an asynchronous one wraps?
Current(f) == f.sinks[f.next]
Writing(f) == f.at = "write"

-----------------------------------------------------------------------------
(* Log and Dispatch.                                                       *)

\* A thread logs by itself, from a builder function, or from the Write of a sink.
MayLog(t, l) ==
    \/ t \in Threads /\ frames[t] = <<>>
    \/ TopAt(t, "build") /\ Len(frames[t]) < MaxDepth
    \/ TopAt(t, "write") /\ wiring.feeds[Current(Top(t))] = l

Log(t, l) ==
    /\ MayLog(t, l) /\ Len(log) < MaxRecords
    /\ frames' = Pushed(t, [op |-> "Log", logger |-> l, at |-> "build", sinks |-> <<>>,
                            next |-> 1, records |-> {Len(log) + 1}])
    /\ log' = Append(log, [logger |-> l, threw |-> FALSE, outcome |-> "open",
                           since |-> active[l], refusedBy |-> {}])
    /\ UNCHANGED <<wiring, active, spare, errors, inDispatch, channels, flushes>>

Record(f) == CHOOSE r \in f.records : TRUE

InDispatchNever(t, l) == FALSE
InDispatch(t, l) == wiring.template[l] \in inDispatch[t]

\* The builder function returns or throws, and Dispatch reads the snapshot.  If the call
\* comes to nothing, all that is left to do is to release it.
Dispatch(t, throws) ==
    /\ TopAt(t, "build")
    /\ throws => Cardinality({r \in DOMAIN log : log[r].threw}) < MaxThrows
    /\ LET l == Top(t).logger
           r == Record(Top(t))
           outcome == IF active[l] = <<>> THEN "no sinks"
                      ELSE IF InDispatch(t, l) THEN "recursive" ELSE "open"
       IN  /\ frames' = Moved(t, [Top(t) EXCEPT !.at = IF outcome = "open" THEN "fan" ELSE "release",
                                                !.sinks = active[l]])
           /\ inDispatch' = IF outcome = "open"
                            THEN [inDispatch EXCEPT ![t] = @ \cup {wiring.template[l]}]
                            ELSE inDispatch
           /\ errors' = [errors EXCEPT ![l] = @ + (IF throws THEN 1 ELSE 0)
                                                + (IF outcome = "recursive" THEN 1 ELSE 0)]
           /\ log' = [log EXCEPT ![r].threw = throws, ![r].outcome = outcome]
    /\ UNCHANGED <<wiring, active, spare, channels, flushes>>

\* The loop over the snapshot stands before sink s.
Reaches(t, op, s) ==
    /\ TopAt(t, "fan") /\ Top(t).op = op /\ Top(t).next <= Len(Top(t).sinks)
    /\ Current(Top(t)) = s
BeyondNext(f) == [f EXCEPT !.next = @ + 2]
Beyond(f) == [f EXCEPT !.next = @ + 1]

Skip(t) ==
    /\ \E op \in {"Log", "Flush"} : Reaches(t, op, Null)
    /\ frames' = Moved(t, Beyond(Top(t)))
    /\ UNCHANGED <<wiring, active, spare, errors, inDispatch, channels, flushes, log>>

\* sink->Write(record) begins.  That of a sink that does not log is one step.
Called(t, f) ==
    IF wiring.feeds[Current(f)] # NoLogger THEN Moved(t, [f EXCEPT !.at = "write"])
    ELSE IF f.op = "Deliver" THEN Popped(t) ELSE Moved(t, Beyond(f))

WritePlain(t, s) ==
    /\ Reaches(t, "Log", s)
    /\ frames' = Called(t, Top(t))
    /\ written' = [written EXCEPT ![s] = Append(@, Record(Top(t)))]
    /\ UNCHANGED <<wiring, active, spare, errors, inDispatch, queue, flushed, gone, flushes, log>>

\* It returns: to Dispatch, or to Deliver.
WriteReturns(t) ==
    /\ TopAt(t, "write")
    /\ frames' = IF Top(t).op = "Deliver" THEN Popped(t)
                 ELSE Moved(t, [Beyond(Top(t)) EXCEPT !.at = "fan"])
    /\ UNCHANGED <<wiring, active, spare, errors, inDispatch, channels, flushes, log>>

-----------------------------------------------------------------------------
(* Asynchronous sinks.                                                     *)

DeliverFrame(s, r) ==
    [op |-> "Deliver", logger |-> NoLogger, at |-> "lock", sinks |-> <<s>>, next |-> 1,
     records |-> {r}]

\* Write of AsyncSink: the record is accepted; on a full queue it is dropped, or
\* delivered by the caller, or the caller waits.
HasRoomForOneMore(s) == Len(queue[s]) <= Room
HasRoom(s) == Len(queue[s]) < Room

WriteAsync(t, s) ==
    /\ Reaches(t, "Log", s)
    /\ LET r == Record(Top(t))
           past == Moved(t, Beyond(Top(t)))
       IN  \/ /\ HasRoom(s)
              /\ queue' = [queue EXCEPT ![s] = Append(@, r)]
              /\ frames' = past /\ UNCHANGED log
           \/ /\ ~HasRoom(s) /\ wiring.policy[s] = "DropNewest"
              /\ log' = [log EXCEPT ![r].refusedBy = @ \cup {s}]
              /\ frames' = past /\ UNCHANGED queue
           \/ /\ ~HasRoom(s) /\ wiring.policy[s] = "SyncFallback"
              /\ frames' = [past EXCEPT ![t] = Append(@, DeliverFrame(s, r))]
              /\ UNCHANGED <<queue, log>>
    /\ UNCHANGED <<wiring, active, spare, errors, inDispatch, written, flushed, gone, flushes>>

\* The worker of s takes a record from the queue.
Dequeue(s) ==
    /\ frames[s] = <<>> /\ queue[s] # <<>>
    /\ frames' = Pushed(s, DeliverFrame(s, Head(queue[s])))
    /\ queue' = [queue EXCEPT ![s] = Tail(@)]
    /\ UNCHANGED <<wiring, active, spare, errors, inDispatch, written, flushed, gone, flushes, log>>

Delivers(f, s) == f.op = "Deliver" /\ f.sinks = <<s>>
HoldsMutexOfAnySink(t, s) ==
    \E i \in DOMAIN frames[t] : frames[t][i].op = "Deliver" /\ Writing(frames[t][i])
HoldsDeliveryMutex(t, s) ==
    \E i \in DOMAIN frames[t] : Delivers(frames[t][i], s) /\ Writing(frames[t][i])

\* Deliver gets m_deliveryMutex and calls the wrapped sink.
Deliver(t, s) ==
    /\ TopAt(t, "lock") /\ Delivers(Top(t), s)
    /\ \A u \in Actors : ~HoldsDeliveryMutex(u, s)
    /\ frames' = Called(t, Top(t))
    /\ written' = [written EXCEPT ![s] = Append(@, Record(Top(t)))]
    /\ UNCHANGED <<wiring, active, spare, errors, inDispatch, queue, flushed, gone, flushes, log>>

\* m_outstanding is 0.
Quiescent(s) ==
    /\ queue[s] = <<>> /\ frames[s] = <<>>
    /\ \A u \in Actors : \A i \in DOMAIN frames[u] : ~Delivers(frames[u][i], s)

-----------------------------------------------------------------------------
(* Flush, SetSinks, and the end of a sink.                                 *)

Finished(l) ==
    {r \in DOMAIN log : log[r].logger = l /\ log[r].outcome = "dispatched"}

Flush(t, l) ==
    /\ t \in Keepers /\ frames[t] = <<>> /\ flushes < MaxFlushes
    /\ flushes' = flushes + 1
    /\ frames' = Pushed(t, [op |-> "Flush", logger |-> l, at |-> "fan", sinks |-> active[l],
                            next |-> 1, records |-> Finished(l)])
    /\ UNCHANGED <<wiring, active, spare, errors, inDispatch, channels, log>>

\* sink->Flush(): an asynchronous sink waits for its queue first.
FlushSink(t, s) ==
    /\ Reaches(t, "Flush", s)
    /\ s \in AsyncSinks => Quiescent(s)
    /\ flushed' = [flushed EXCEPT ![s] = Len(written[s])]
    /\ frames' = Moved(t, Beyond(Top(t)))
    /\ UNCHANGED <<wiring, active, spare, errors, inDispatch, queue, written, gone, flushes, log>>

ReleaseFrame(l, sinks) ==
    [op |-> "SetSinks", logger |-> l, at |-> "release", sinks |-> sinks, next |-> 1,
     records |-> {}]

\* SetSinks publishes its argument and releases the old snapshot; if there is no memory
\* for the new one, it releases its argument.
SetSinks(t, l, fails) ==
    /\ t \in Keepers /\ frames[t] = <<>> /\ l \in spare
    /\ spare' = spare \ {l}
    /\ \/ /\ ~fails
          /\ active' = [active EXCEPT ![l] = wiring.second[l]]
          /\ frames' = Pushed(t, ReleaseFrame(l, active[l]))
          /\ UNCHANGED errors
       \/ /\ fails
          /\ errors' = [errors EXCEPT ![l] = @ + 1]
          /\ frames' = Pushed(t, ReleaseFrame(l, wiring.second[l]))
          /\ UNCHANGED active
    /\ UNCHANGED <<wiring, inDispatch, channels, flushes, log>>

\* The sinks that live on when thread t gives up what its top frame holds.
HeldBySetsOnly(t) ==
    (UNION {ToSet(active[l]) : l \in Loggers}) \cup (UNION {ToSet(wiring.second[l]) : l \in spare})
Held(t) ==
    HeldBySetsOnly(t) \cup
    UNION {UNION {IF u = t /\ i = Len(frames[t]) THEN {} ELSE ToSet(frames[u][i].sinks) :
                      i \in {j \in DOMAIN frames[u] : frames[u][j].op # "Deliver"}} : u \in Actors}

\* The end of a call: the recursion guard clears the flag, the snapshot is released, and
\* its sinks with it if nobody else has them, in an order that std::vector leaves open.
AtEnd(t) ==
    \/ TopAt(t, "release")
    \/ TopAt(t, "fan") /\ Top(t).next > Len(Top(t).sinks)
Release(t) ==
    /\ AtEnd(t)
    /\ LET dying == ToSet(Top(t).sinks) \ (Held(t) \cup {Null})
       IN  \/ dying = {} /\ frames' = Popped(t)
           \/ /\ dying # {}
              /\ \E order \in SetToSeqs(dying) :
                    frames' = Moved(t, [Top(t) EXCEPT !.at = "destroy", !.sinks = order, !.next = 1])
    /\ IF Top(t).op = "Log" /\ Top(t).at = "fan"
       THEN /\ inDispatch' = [inDispatch EXCEPT ![t] = @ \ {wiring.template[Top(t).logger]}]
            /\ log' = [log EXCEPT ![Record(Top(t))].outcome = "dispatched"]
       ELSE UNCHANGED <<inDispatch, log>>
    /\ UNCHANGED <<wiring, active, spare, errors, channels, flushes>>

\* The destructor of a sink: that of an asynchronous one joins its worker, who first
\* delivers what is left in the queue.  A worker cannot join itself.
DestroySink(t, s) ==
    /\ TopAt(t, "destroy") /\ Current(Top(t)) = s
    /\ s \in AsyncSinks => Quiescent(s)
    /\ flushed' = [flushed EXCEPT ![s] = Len(written[s])]
    /\ gone' = gone \cup {s}
    /\ frames' = IF Top(t).next = Len(Top(t).sinks) THEN Popped(t)
                 ELSE Moved(t, Beyond(Top(t)))
    /\ UNCHANGED <<wiring, active, spare, errors, inDispatch, queue, written, flushes, log>>

-----------------------------------------------------------------------------
Init ==
    /\ wiring \in Wirings
    /\ active = wiring.initial /\ spare = wiring.replaced /\ gone = {} /\ flushes = 0 /\ log = <<>>
    /\ errors = [l \in Loggers |-> 0]
    /\ inDispatch = [t \in Actors |-> {}] /\ frames = [t \in Actors |-> <<>>]
    /\ queue = [s \in AsyncSinks |-> <<>>]
    /\ written = [s \in Sinks |-> <<>>] /\ flushed = [s \in Sinks |-> 0]

\* What a thread goes on with, in contrast to what it may begin.
Continue(t) ==
    \/ \E throws \in BOOLEAN : Dispatch(t, throws)
    \/ Skip(t) \/ WriteReturns(t) \/ Release(t)
    \/ \E s \in PlainSinks : WritePlain(t, s)
    \/ \E s \in AsyncSinks : WriteAsync(t, s) \/ Deliver(t, s)
    \/ \E s \in Sinks : FlushSink(t, s) \/ DestroySink(t, s)

Next ==
    \/ \E t \in Actors : Continue(t)
    \/ \E s \in AsyncSinks : Dequeue(s)
    \/ \E t \in Actors, l \in Loggers : Log(t, l)
    \/ \E t \in Keepers, l \in Loggers :
           Flush(t, l) \/ \E fails \in BOOLEAN : SetSinks(t, l, fails)

Spec == Init /\ [][Next]_vars

\* While threads that have begun a call, or workers, can go on, one of them does; nobody
\* has to begin a call.  As there is an end to what the calls begun can do, it need not be
\* said that every one of them gets its turn.
SomeoneGoesOn ==
    \/ \E t \in {u \in Actors : frames[u] # <<>>} : Continue(t)
    \/ \E s \in AsyncSinks : Dequeue(s)

FairSpec == Spec /\ WF_vars(SomeoneGoesOn)

-----------------------------------------------------------------------------
\* Every variable has its type, and a queue has no more records than it has room for.
TypeOK ==
    /\ wiring \in Wirings
    /\ active \in [Loggers -> SinkSet] /\ spare \subseteq Loggers
    /\ errors \in [Loggers -> Nat]
    /\ inDispatch \in [Actors -> SUBSET Templates]
    /\ frames \in [Actors -> Seq(FrameType)]
    /\ queue \in [AsyncSinks -> Seq(1 .. MaxRecords)]
    /\ \A s \in AsyncSinks : Len(queue[s]) <= Room
    /\ written \in [Sinks -> Seq(1 .. MaxRecords)] /\ flushed \in [Sinks -> Nat]
    /\ gone \subseteq Sinks /\ flushes \in Nat
    /\ log \in Seq(CallType) /\ Len(log) <= MaxRecords

Dispatching(f) == f.op = "Log" /\ f.at \in {"fan", "write"}
Exact(template, guard, stack) ==
    /\ guard = {template[stack[i].logger] : i \in {j \in DOMAIN stack : Dispatching(stack[j])}}
    /\ \A i, j \in DOMAIN stack :
           /\ Dispatching(stack[i]) /\ Dispatching(stack[j]) /\ i # j
           => template[stack[i].logger] # template[stack[j].logger]

\* s_inDispatch tells, at every moment and however sinks and builder functions nest their
\* calls, whether the thread is inside a dispatch of that template, and it is inside one
\* at most.
GuardExact == \A t \in Actors : Exact(wiring.template, inDispatch[t], frames[t])

Count(r, seq) == Cardinality({i \in DOMAIN seq : seq[i] = r})
InHand(r, s) ==
    Cardinality({t \in Actors : frames[t] # <<>> /\ \E i \in DOMAIN frames[t] :
        Delivers(frames[t][i], s) /\ frames[t][i].at = "lock" /\ frames[t][i].records = {r}})
Copies(r, s) ==
    Count(r, written[s]) +
    (IF s \in AsyncSinks THEN Count(r, queue[s]) + InHand(r, s) ELSE 0)

\* "Dispatch one immutable LogRecordView to the active sink snapshot"
\* (docs/Architecture.md:13): a call of Log ends up, once for each place, in the sinks of
\* one set that was published while it ran, whoever replaces the sets meanwhile; or in
\* none and is counted, unless there was no sink.  The error counter is exactly the
\* builders that threw, the calls refused as recursive, and the sets not published.
RecordsAccounted ==
    /\ \A r \in DOMAIN log :
           LET call == log[r]  now == active[call.logger]
           IN  /\ call.outcome = "dispatched" =>
                      \E set \in {call.since, now} : \A s \in Sinks :
                          \/ Copies(r, s) = Count(s, set)
                          \/ s \in call.refusedBy /\ Copies(r, s) < Count(s, set)
               /\ call.outcome = "no sinks" => <<>> \in {call.since, now}
               /\ call.outcome \in {"no sinks", "recursive"} => \A s \in Sinks : Copies(r, s) = 0
    /\ \A l \in Loggers :
           errors[l] = Cardinality({r \in DOMAIN log : log[r].logger = l /\ log[r].threw})
                     + Cardinality({r \in DOMAIN log :
                                        log[r].logger = l /\ log[r].outcome = "recursive"})
                     + IF l \in wiring.replaced \ spare /\ active[l] = wiring.initial[l] THEN 1 ELSE 0

Behind(s, r) ==
    \/ s \in AsyncSinks /\ Count(r, queue[s]) + InHand(r, s) > 0
    \/ \E i \in flushed[s] + 1 .. Len(written[s]) : written[s][i] = r

\* Nothing is left behind.  When Flush returns, every sink of its snapshot has written and
\* flushed what the logger had dispatched to it before the call.  When the last snapshot
\* that holds a sink is released, by whatever call of whatever thread, nobody uses the
\* sink any more, and all that it ever accepted has been written and flushed.
NothingLeftBehind ==
    /\ \A t \in Threads : frames[t] # <<>> /\ Top(t).op = "Flush" /\ AtEnd(t) =>
           \A s \in ToSet(Top(t).sinks) \ {Null}, r \in Top(t).records : ~Behind(s, r)
    /\ \A s \in gone :
           /\ \A r \in DOMAIN log : ~Behind(s, r)
           /\ \A t \in Actors : \A i \in DOMAIN frames[t] :
                  frames[t][i].at \in {"fan", "write", "lock", "release"}
                      => s \notin ToSet(frames[t][i].sinks)

\* The wirings in which no asynchronous sink feeds itself, through the loggers that it
\* and others log to.
Feeds(w, s, s2) ==
    \E l \in Loggers : w.feeds[s] = l /\ s2 \in ToSet(w.initial[l]) \cup ToSet(w.second[l])
FeedbackFree ==
    {w \in Wirings :
        \E rank \in [Sinks -> 0 .. Cardinality(AsyncSinks)] : \A s, s2 \in Sinks :
            Feeds(w, s, s2) => IF s2 \in AsyncSinks THEN rank[s] > rank[s2]
                               ELSE rank[s] >= rank[s2]}

\* Every call returns, Flush, SetSinks and the destructors it runs included, although the
\* sink behind an asynchronous one may log while the delivery mutex is held: whatever the
\* overflow policies, the queues that its records meet and the producers and flushers that
\* wait for it meanwhile, unless an asynchronous sink feeds itself.
EveryCallReturns ==
    \A t \in Threads :
        wiring \in FeedbackFree /\ frames[t] # <<>> ~> frames[t] = <<>>

\* "Re-entrant dispatch is guarded by a thread-local recursion check" (docs/API.md:209):
\* a thread is not in the Write of a sink twice.
SinkNotReentered ==
    \A t \in Actors : \A i, j \in DOMAIN frames[t] :
        Writing(frames[t][i]) /\ Writing(frames[t][j]) /\ i # j
            => Current(frames[t][i]) # Current(frames[t][j])
=============================================================================
