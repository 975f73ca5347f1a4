# NGIN.Log: TLA+ models, model checking and proofs

This directory holds a formal model of NGIN.Log: loggers with their recursion guard and their
exchangeable sets of sinks, the asynchronous sink with its queue and its worker thread, the scoped
context, the bounded records built under it and their three formats, the console and file sinks,
the rotating file sink, and the logger registry. TLC checks small instances of every component;
TLAPS proves, for all values of their constants, the safety of the queue, the asynchronous sink (with
its refinement), the console and file sinks, the rotating file sink and the registry, and of the logger
the recursion guard, the life of sinks and the whereabouts of records.

Contents: [the system](#the-system) · [hard behaviours](#hard-behaviours) ·
[modules](#modules) · [runs](#runs) · [findings](#findings) · [fairness](#fairness) ·
[proofs](#proofs) · [only model-checked, not modelled](#only-model-checked-and-not-modelled) ·
[plan](#plan)

## The system

| component | state | operations | interacts with |
| --- | --- | --- | --- |
| `Logger` (`Logger.hpp`) | two atomics: `m_runtimeMin`, `m_activeSinks`; the thread-local `s_inDispatch`, one for each `CompileTimeMin`; an error counter | `Log` (filter, build, merge, dispatch), `SetRuntimeMin`, `SetSinks`, `Flush` | reads the thread's context, calls `Write`/`Flush` of each sink of a snapshot, destroys the sinks of the last snapshot that holds them; called again by builders and sinks that log |
| `BasicLoggerRegistry` (`LoggerRegistry.hpp`) | under a `shared_mutex`: loggers by name, defaults, rules | `GetOrCreate`, `SetDefault…`, `UpsertRule`, `RemoveRule`, `SetLoggerRuntimeMin`, `ReplaceLoggerSinks`, getters | stores into live loggers that other threads use without the lock |
| `ScopedLogContext`, `PushLogContext` (`Context.hpp`) | a thread-local vector; start and active flag per scope object | push, default construction, moves, destruction | `Logger::Dispatch` reads the vector |
| `RecordBuilder` (`RecordBuilder.hpp`) | bounded message, attributes, text pool, truncation counters | `Message`, `Attr` | handed to `Dispatch` |
| `AsyncSink` (`AsyncSink.hpp`) | bounded queue, `m_outstanding`, `m_running`, counters, three condition variables, four mutexes, a worker thread | `Write` with four overflow policies, `Flush`, destruction, `GetStats` | owns and calls the wrapped sink, from the worker, from flushers and from fallback producers |
| `AsyncSink::MpscBoundedQueue` | ring of slots, two indices, a size, a mutex | `TryEnqueue`, `TryDequeue`, `ApproxDepth`, `CanEnqueue`, `IsEmpty` | producers and the worker |
| `RotatingFileSink` (`RotatingFileSink.cpp`) | open file with its stdio buffer, byte count, last day, file identity, under one mutex | `Write` with rotation by size and by day, `Flush`, `Reopen`, `ForceRotate`, start and end | the file system, shared with other processes |
| `FileSink`, `ConsoleSink` | a stream under one mutex | `Write`, `Flush`, `Reopen` | the file system, stdout and stderr |
| formatters (`RecordFormatter.cpp`, `FormattingUtilities.hpp`) | in the text format a cached second under a mutex | `Format` | called by the transport sinks, which may share one |
| types, levels, `Sink.hpp`, `Config.hpp` | none | | |

What makes each correct:

- **Logger**: the recursion guard is up exactly while a thread is in a dispatch; a record goes to the
  sinks of one published set or is counted; the last user of a sink leaves nothing in it; every call
  returns.
- **AsyncSink**: no record is lost in silence or delivered twice; each producer's order is kept
  unless it falls back; `Flush` covers what was accepted before it; drops are counted and reported
  once; destruction drains and flushes; nobody waits for ever but a producer under `Block` while the
  queue is full.
- **queue**: answers as a bounded FIFO queue, however often its indices wrap.
- **context and record**: the storage is exactly the attributes of the scopes alive; what is not
  counted as truncated is complete; the asynchronous copy counts no less.
- **formatters**: one record is one line, and a line of JSON reads back as the record.
- **console and file sinks**: lines stay whole whoever writes; what was flushed survives a crash.
- **RotatingFileSink**: the numbered files read back in the order of writing, bounded in size, each
  of one day; only the oldest expires; what is flushed survives a crash.
- **registry**: one logger per name; no logger misses a change; the longest prefix governs; a record
  goes to one published set of sinks.

## Hard behaviours

`PROJECT.json` lists them with their lines under `hazards`. In short: condition variables notified
without their mutex (`AsyncSink.hpp:327`, `488`); a `Flush` that decides on two reads while counts
are taken and given back; a deadline that passes as space is freed; calls that overlap the
destructor; sinks and builders that log while they are called, on the thread of the caller or on a
worker; sinks exchanged under a dispatch, whose last user joins their worker; a destructor that
resizes a thread-local vector to a remembered length; limits of bytes and of attributes that use one
another up; a timestamp cache that sinks share; crashes and other processes between the renames of a
rotation; two tests joined by `||` one of which has a side effect; a registry that stores into live
loggers piece by piece.

## Modules

### AsyncSink.tla, LogChannel.tla, AsyncSinkRefinement.tla

`AsyncSink` models threads that call `Write` and `Flush`, the worker in `ConsumeLoop`, and the
destroying thread in `Shutdown`. A step is one access to shared memory: an atomic operation, one
critical section of the queue's or the delivery mutex, one operation on a condition variable. The
location of thread `t` is `pc[t]`, of the worker `wpc`, of the destroying thread `shutdown`.

| code | model |
| --- | --- |
| `Write`: test of `m_running`, branch on the policy | `BeginWrite` |
| loops of `EnqueueBlocking…` | `Enter`, `SpaceRunning`, `SpaceFull`, `SpaceSleep`, `Timeout`, `Expired` |
| `TryEnqueueOwned` | `Reserve`, `TryEnqueue`, then `CountEnqueued`, `Publish` or `Unreserve`, `Refused` |
| `RecordDrop`, `RecordTimeoutDrop` | `RecordDrop`, `RecordUnreported` |
| `EnqueueWithSyncFallback` | `Fallback`, `FallbackDeliver`, `FallbackRelease`, `FallbackNotify` |
| `Flush` | `BeginFlush`, `FlushCheck`, `FlushSleep`, `FlushReport`, `FlushReturn` |
| `ConsumeLoop` | `Worker…`, in the order of the code |
| `Shutdown` | `StartShutdown`, `ShutdownWake`, `ShutdownSpace`, `ShutdownJoin` |

A condition variable is the set of threads asleep on it. `notify_all` empties the set; a thread that
has left it takes the mutex and evaluates its predicate again; `SpuriousWake` may take any thread out
at any time. The predicate of a producer and its going to sleep are separate steps under
`m_spaceMutex`, which is what lets a notification made without that mutex fall in between. A mutex
whose critical section is longer than a step is seen in the program counters of its holder.

Records are `<<t, n>>`, the n-th `Write` of `t`: their contents play no part. Some accesses are merged
into their neighbours, each for a reason given beside it: counters that only `GetStats` reads, the
two reads of a predicate, the mutex and the `notify_all` of `NotifyFlushWaiters`.

`due` is a history variable: what had been accepted, and the drops counted, when a thread began to
flush. `options.raced` says whether calls may overlap the destructor: the owner of a C++ object has
to prevent that, but the sink's tests of `m_running` are there for it, so both cases are checked.
What makes sense only of a sink that is not raced (`ShutdownDrains`, the refinement) says so.

`LogChannel` is the abstract specification: a bounded FIFO channel, a count of refused records, a
`Flush` that ends only when what was pending when it began is out. `AsyncSinkRefinement` gives the
mapping: the record in the worker's hand is pending ahead of the queue, so the channel has one place
more than the queue.

### MpscBoundedQueue.tla, BoundedFifo.tla

The ring as it is written, and a FIFO queue over a plain sequence. `answer` records what an operation
returned, so that the refinement compares answers and not only states.

### Logger.tla

Threads that log, flush and exchange sinks, and the workers of asynchronous sinks. What a thread does
is a stack of frames (`frames[t]`), one for each call of `Log`, `Flush`, `SetSinks` or
`AsyncSink::Deliver` that it is in; a builder function or a sink that logs pushes another one. A
frame knows where it is (`at`), the snapshot it holds (`sinks`) and the place in it (`next`).

| code | model |
| --- | --- |
| `Logger::Log`; the builder function; `Dispatch` up to its loop | `Log`, then `Dispatch` |
| the loop over the snapshot, `sink->Write` | `Skip` (a null sink), `WritePlain`, `WriteReturns`, `WriteAsync` |
| `~DispatchRecursionGuard`, release of the snapshot | `Release`, `DestroySink` |
| `Flush` | `Flush`, `FlushSink`, `Release` |
| `SetSinks`, `PublishSinkSnapshot` | `SetSinks`, `Release` |
| `AsyncSink` as seen from above: `ConsumeLoop`, `Deliver`, destructor | `Dequeue`, `Deliver`, `DestroySink` |

`wiring` says which logger is an instance of which template, which sinks they have, which logger a
sink logs to, and the overflow policies. A snapshot is alive while `m_activeSinks` points to it, a
frame holds it, or the application has yet to give it to `SetSinks` (`Held`); the frame that gives up
the last one runs the destructors of its sinks, and that of an asynchronous sink waits for its queue.
The asynchronous sink is reduced to a bounded queue, a policy and a worker, which is what module
`AsyncSink` shows of it; its delivery mutex matters here, because a wrapped sink may log while it is
held. `log` is history: what became of each call of `Log` and which set was published when it began.

### RecordBuilder.tla, RecordFormatter.tla, ScopedContext.tla

`RecordBuilder` has the bounded records as operators: `Message` and `Attr` of the builder, the merge of
`Dispatch`, the copy `ToOwned` of the asynchronous sink, each with its limits and its counters.
A *holder* is any record that counts the bytes it cuts; `AfterCopy` takes room from its pool and never
gives any back. `RecordFormatter` has the text, logfmt and JSON formats as functions from such a record
to a sequence of characters: the logger's name, the message, the keys and values of the attributes and the
name of the source file, escaped as `AppendEscapedText` or `AppendJsonEscapedText` does, with all their
kinds of escapes. As a reference it has a reader of JSON (`ReadJson`), a recursive function that goes
through the line and knows nothing of the writer but the escapes. The name of a logger is not cut when
it is dispatched, but it is, and counted, when the record is copied for a queue.

`ScopedContext` is one thread, for the vector is thread-local. `storage` is the vector, `scopes` the scope
objects alive in the order of their construction, `held` a history variable with the list each object
stands for. `Resize` does what `std::vector::resize` does, growing included. `uses` says what the thread
does besides pushing scopes: moving the innermost one (as a function that returns its scope), default
construction, assignment. `Log` builds a record under the context with any of the sequences of builder
calls, a throw included, at any of the `Sites` (a logger's name and a source file), and keeps it, with all that was given for it, in `record`: the properties of
records, copies and formats are about what that variable may hold, and about the copy for a queue.

What its assumption asks of the constants is what the code's types give: `PushedLists` are lists of
`ContextAttribute`, which `MakeOwnedContextValue` makes of anything it is given, `BuilderCalls` lists of
messages and attributes, and `Sites` pairs of texts. The loops of the code (over the calls of a builder, the context, the attributes)
are folds, whose steps (`Call`, `MergeContextAttribute`, `AppendOrReplace`, `OwnAttribute`) are operators of
their own, so that a proof can go through a loop step by step.

### TransportSinks.tla

A `ConsoleSink` and a `FileSink` that share a text formatter, and several threads. A `Write` takes the
sink's mutex, then the formatter's cache mutex, brings the cached second up to date (`Fill`), appends the
parts (`Stamp`), and hands the line to stdio (`Put`), the file being opened first if need be
(`OpenToWrite`). A line is two halves, so that a crash, or stdio when its buffer is full (`Spill`), may
divide it. `files` are the files the log has been in, `atPath` the one its path names, `handle` the one
that is open; `Reopen`, `MoveAway`, `Crash`, `Start` and `Stop` come in between. `given`, `safe`, `lost` and
`cut` are history: what each stream was given, what a flush has covered, what a crash took from a
buffer, what an `fopen` without append has cut off.

The properties are about the texts of a stream (`Texts`): the files in the order of their creation, or the
console, each with the stdio buffer behind it. `Heads` are the places where a line begins and `Torn`
those whose line does not go on. `LinesWhole` bounds the torn ones by the crashes; `GivenSurvive`
compares the records of the heads with those given, as sets and in their order.

### RotatingFileSink.tla

`m_mutex` serialises operations, so one is under way at a time; `pc` is its next call into the file
system, because a crash (`Crash`) or another process (`MoveAway`, `CreateAgain`) can come between two of
them. `fopen` and the queries that follow it in `OpenFileLocked` (`exists`, `file_size`, `fstat`) are
one step: a tool that moves the file away between them leaves `m_currentFileBytes` 0 for a file that the
path no longer names, and whose length no property is about. Slot 0 is the path, slot k is `path.k`.
`buffer` is the stdio buffer, lost by a crash, written out by `fflush` or, at any time, by stdio itself
(`StdioFlush`). `handle` says whether the open file is still the one the path names.

| code | model |
| --- | --- |
| constructor, destructor | `Start`, `Stop` |
| `Reopen`, `Flush`, `ForceRotate` | `Reopen`, `ReopenOpen`, `Flush`, `ForceRotate` |
| `Write` | `BeginWrite`, `DetectExternalRotation`, `DetectOpen`, `Decide`, `AppendOpen`, `AppendRecord`, `AutoFlush` |
| `RotateLocked` | `RotateClose`, `RotateRemove`, `RotateShift`, `RotateMove`, `RotateOpen` |

`fopen` may fail, and so may `rename` and `remove` (`Stays`), whose errors `RotateLocked` drops: the
file stays under its name, the rotation goes on, and the next rename replaces it or, when it is the
path, the sink goes on filling it. `kept` holds the records of such files. `exists` that fails answers
false, which has the effect of a rename that fails. Assumed: the days of records do not decrease.

What the failures do to the promises is part of the properties: the order of the files holds all the
same (`FilesInOrder`); the size, and the day, of a file that stayed are not bounded (`SizeBounded`,
`OneDayPerFileWithoutLimit`); and no file but the oldest and one that stayed is ever replaced
(`OnlyOldestExpires`).

### LoggerRegistry.tla

Threads call the operations of the registry and log through a logger they got from it. `writer` is
the thread that holds `m_mutex` while it applies a change to the loggers of `todo`, level and sinks
in separate stores; sections of the lock that others see as one step are one step. `Get` followed by
a store outside the lock is two steps. `Log` reads the level, then the snapshot, then writes to one
sink after another. Names are sequences of their dot-separated segments. `levelAlone`, `sinksAlone`
and `seen` are history: was a logger set for it alone since the last change, and which levels and sets
it has had since a thread began to log. The loop that looks for the longest prefix, `BestRule`, is a
recursive function on the rules gone through, so that it can be proved about.

### MC modules and .cfg files

`MCAsyncSink`, `MCLogger`, `MCScopedContext`, `MCTransportSinks`, `MCRotatingFileSink` and
`MCLoggerRegistry` define the sets that the `.cfg` files give to the constants. Definitions beside an action that no action uses
(`UnreserveNothing` before `Unreserve`, for instance) are deliberate mistakes: putting one in place of
its neighbour must break the property that `PROJECT.json` names under `mutants`.

## Runs

| run | checks | bounds, and why they are enough |
| --- | --- | --- |
| `async_safety` | types, exact count, accounting, drop reports, order, draining, `FlushPromise`, `FlushCovers`, refinement of `LogChannel` | 2 slots and batches of 2; one thread writes 2 records and flushes once, the other writes 1: the queue fills, the policies that wait do wait, a flush runs beside a producer. All four policies; no sink; calls that overlap the destructor, with drop reports on and off. 1.6 million states |
| `async_liveness` | four liveness properties | one producer of 3 records, one flusher, all policies |
| `async_stall` | `StallsOnlyWhenFull`, violated | `Block`, one producer |
| `ring_queue` | `RingOK`, refinement of `BoundedFifo` | four slots, three values: both indices wrap in every position |
| `logger` | types, the guard, accounting, nothing left behind, every call returns | two threads, one of which also flushes (once) and sets sinks, two loggers, a plain sink, asynchronous sinks `q` and `q2` of one slot and a plain sink that only `SetSinks` brings; two records, nested to a depth of two, one builder that throws. Seven wirings: no feeding; a sink that feeds its own logger and is shared with another of the same template; one that feeds a logger of a second template; `q` feeding a logger of plain sinks, or of `q2`, which stands there twice, so that it may be full, and which the worker of `q` may come to destroy; and two in which `q` feeds itself, through the other logger or directly. 215,000 states |
| `logger_reentry` | `SinkNotReentered`, violated | a sink shared by two loggers of two templates |
| `context` | types, storage, truncation counted, the copy, lines, JSON | two scopes alive, lists that override each other, up to three builder calls from five, two attributes to a record, messages of 2 bytes, a pool of 3 and one of 6: keys are cut to other keys, pools run dry, attributes are refused, and the copy cuts again. Two sites, one with a name the copy cuts; every kind of escape in a name, a value or a message. 183,000 states |
| `context_misuse` | `ContextIsLiveScopes`, violated | a scope declared first and assigned to |
| `transport` | types, whole lines, survival | two threads, three records of two seconds, one of them severe; one crash, one file moved away, three `fopen`s that may fail; three sets of options (append, autoFlush, stderr) |
| `rotation` | types, order, size, accounting, days, expiry, flush | five sets of options that between them use every option; three records of 1 or 3 units against a limit of 2, so that one is longer than the limit; three numbered files; two runs, `fopen` failing any number of times, and one mishap, a file moved away or a `rename` or `remove` that fails. 2.6 million states |
| `rotation_days` | `OneDayPerFile`, violated | size limit and daily rotation together |
| `registry` | types, one logger per name, configuration, whole sink sets | three configuration changes, a thread that creates and logs, one that creates or sets; two names, one below the other; rules for both and for all. 1.0 million states |

Deadlock is checked in `ring_queue` and the context runs. In the others it is not: the calls are
bounded, a sink ends, and a process may stop. In `logger` the two wirings in which an asynchronous sink
feeds itself do stop, see below; `EveryCallReturns` is about the five others, in two of which the
wrapped sink logs while a worker holds the delivery mutex, and must enqueue, deliver or destroy as it does.

`RecordsAccounted` of `Logger` and `UncountedIsComplete` of `ScopedContext` are the pair that says no
record and no part of one is lost unseen: the first follows a call of `Log` to the sinks, the second its
content into the record.

## Findings

- **Lost wakeup under `Block`** (`AsyncSink.hpp:488`, run `async_stall`). The worker notifies
  `m_spaceCondition` without `m_spaceMutex`. Between the predicate of a producer that saw a full queue
  and its sleep the worker may drain the whole queue; nothing notifies again, and the producer sleeps
  beside an empty queue until another producer writes or the sink is destroyed. `BlockForTimeout`
  turns the same window into a timeout.
- **A scope declared first** (`Context.hpp:161`, `190-191`, run `context_misuse`) is active with start 0,
  and assignment pushes the new attributes before it resets the old scope: `ScopedLogContext scope;
  scope = PushLogContext({...});` takes the new attributes away again, and what the scopes around it
  had pushed with them. Its destructor alone would do the latter.
- **One recursion guard for each `CompileTimeMin`** (`Logger.hpp:397`, run `logger_reentry`).
  `s_inDispatch` is a static member of a class template. A sink that logs to a logger of another
  `CompileTimeMin`, which has it too, is called again before it has returned; the built-in sinks would
  lock their mutex twice.
- **Rotation by size hides the date** (`RotatingFileSink.cpp:127`, run `rotation_days`). The remembered
  day is set, and compared, in the second operand of `||`. While rotations by size follow one another it
  stays unset, and the next day's first record that is short enough finds no day to compare with and goes
  into a file with records of the day before.

A limit of the design, which no document denies and so no run claims: an asynchronous sink whose
wrapped sink logs to a logger that holds it, at once or through others, can stop for good. Under
`Block` the worker waits for room in its own queue; under `SyncFallback` it locks its own delivery mutex
again; with the last snapshot in its hands it joins itself. `FeedbackFree` describes the wirings in which
none of this happens: no asynchronous sink comes after itself along the loggers it and others log to.
`EveryCallReturns` is stated for those, the ones in which a worker feeds another sink's logger included.

## Fairness

`FairSpec` of `AsyncSink` gives weak fairness to the steps inside a call of each thread, to the worker and to the
destroying thread once it has begun. It says that the operating system schedules threads and that
mutexes held for one step are handed on; the timeouts (`WorkerTimeout` after 2 ms, `Timeout` at the
deadline) are steps of their threads. Nobody has to begin a call or destroy the sink, and spurious
wakeups are not fair: no property holds thanks to one. `FlushReturns` holds because producers make
finitely many calls: `Flush` waits for a moment with nothing outstanding, and producers that never
pause could keep it waiting, as the code and `docs/Architecture.md:80-83` say.

`FairSpec` of `Logger` asks less: while threads in the middle of a call (`Continue`), or workers with a
record in their queue (`Dequeue`), can go on, one of them does; `Log`, `Flush` and `SetSinks` need not be
called. That each of them gets its turn need not be asked, although a mutex and a queue are contended:
calls are finitely many, and so are the steps of each, so that nobody can be passed over for ever.

## Proofs

Seven proof modules extend their specification or one another, an eighth holds lemmas; `tlapm` proves
every obligation. Between them they state every invariant and every action property that the passing runs
check, and the two refinements; the runs alone show liveness.
No theorem rests on the bounds (of calls, crashes, records, depth) but for their being natural numbers.

`MpscBoundedQueueProofs`, from `QueueAssumption` (a capacity that is a power of two, a placeholder that
is not a value): `RingInvariant`, that `RingOK` is inductive, and `RingImplementsFifo`, step simulation
by the mapping `Contents`. The lemmas are about remainders: the wrapped index of the n-th item, and
that the enqueue index names the slot after the last item.

`AsyncSinkProofs`, from `AsyncSinkAssumption`:

- `TypesAndCount`: `TypeOK /\ OutstandingExact` is inductive. The two need each other: that
  `outstanding' = outstanding - 1` stays in `Nat` follows from the count, and that the set of holders
  is finite from the types. `Move`, `HoldingFinite` and `CanRelease` say how the cardinality of
  `Holding` changes when one thread moves. `TypeCorrect` and `OutstandingIsExact` are its two halves.
- `FlushKeepsPromise`: with the count exact, `Quiescent` means that neither the queue nor the hand of
  the worker holds a record, so a flusher that passes its wait has everything it has to cover in
  `sinkRecords` (`PromiseMade`); and no step takes a record off the way but by delivering it, nor lowers
  `sinkReported + unreported` (`WayOnlyGrows`, `DropsOnlyGrow`, `OthersKeepPromise`).
- `FlushCoversAccepted`: the action property `FlushCovers` follows, for the only step that returns from
  `Flush` is `FlushReturn`.

`LoggerProofs`, from `LoggerAssumption`, for any threads, loggers, templates, sinks, wirings and bounds:

- `TypeCorrect`: `TypeOK` is inductive. It says of a frame what the steps need: one that builds is a call
  of `Log`, one of `Log` or `Deliver` has its record.
- `GuardIsExact`: `TypeOK /\ GuardExact` is inductive. `Exact` relates one thread's guard to its stack;
  `ExactPush`, `ExactEnter`, `ExactPop` and `ExactMove` say what a call, a dispatch, a return and a step
  within a call do to it, and each action is one or two of these. The proof rests on the second half of
  `Exact`, that a thread is in one dispatch of a template at most: without it the end of the inner one
  would take the flag of the outer one away. TLC checks two threads and a depth of two; here depth,
  number and nesting through workers are arbitrary.

- `StacksInvariant`, which is not a property of a run but what the theorems below rest on: a frame only
  stands where its operation can stand, a call of `Log` in progress has its record for itself, and what a
  flush has to cover was dispatched before it (`StacksOK`). A frame is known by its place, a thread and a
  depth; the lemmas `...Effect` say of each action which places it takes away and fills.

From there it goes on to the sinks and the records:

- `NothingIsLeftBehind`. Three invariants build on one another. `UseOK`: a sink that is being destroyed
  belongs to one frame and to no set, so the release that took it had the last snapshot. `Waits`: what a
  sink has accepted is in front of a flush of it, begun or to come, its destructor included. `GoneOK` and
  `FlushOK`: what is gone has nothing left and gets nothing more, and what a flush has passed stays
  written and flushed.
- `EveryCallAccounted`, that is `RecordsAccounted`, by `RecordsInv`. `FramesOK` says what a call in
  progress is entitled to: its set is one published since it began, and each sink has one copy of the
  record for each place before the one the loop stands at, or fewer if it refused some. `CallsOK` says the
  same of the calls that are over, `PublishOK` that the calls of a logger whose set was not yet replaced
  began with its first, so no replacement takes from a call the set it was promised, and `FreshOK` that
  a record to come is nowhere. `HandsOK` counts the threads that hold a record before they get the mutex of a
  delivery: it lets a record move from the queue to a hand and into the sink without being counted twice
  or not at all. `ErrorsOK` relates the counter to the history.

The second half of `AsyncSinkProofs` is about the records of the sink. `StepEffect` says what a step does to them, in ten cases (accept, refuse, take, deliver, ...); everything else is
proved from the cases and not from the code's steps.

- `RecordsInvariant`: the records written so far are divided among the queue, the hand of the worker,
  the wrapped sink, the dropped ones and those still in a call, and each place is in order. From it,
  `RecordsAccounted` (nothing lost, nothing twice) and `ProducersInOrder`.
- `DropsAddUp`: counted drops are those reported, those taken by a thread that is about to report them,
  and `unreported`.
- `DrainInvariant`: the worker has stopped only after the destructor began, and if no call races it, only
  with nothing left. From it, `ShutdownLeavesNothing`.
- `DueInvariant`: what a flusher has to cover is, at each of its locations, out or on its way; with it,
  `SinkImplementsChannel`: initial states map to initial states, each step to a step of `LogChannel` or a
  stutter.

Both halves hold for any finite sets of producers and flushers, any capacity above 1, any batch size, any
number of calls, any options, and whether or not calls overlap the destructor.

`LoggerRegistryProofs`, from `RegistryAssumption`, for any threads, names, levels and rules:

- `TypeCorrect`, of which the inductive form also says that no two rules have one prefix and what is in
  the arguments of a thread at each of its locations.
- `OneLogger`: names and objects correspond one to one (`Registered`).
- `NoLoggerMissesAChange`: while a change is being applied, a logger has its configuration, was set
  alone, or is still in `todo` (`ConfigInv`, for the level and the sinks apart, as they are stored apart).
  `BestFound` proves of `BestRule` that it finds the longest prefix, `RemovedFacts` that removal leaves
  the other rules, both by induction on the list of rules.
- `OneSinkSet`: at each step of `Log`, the level that let the record pass and the set being written to
  are ones the logger has had since the call began (`LogInv`).

`RotatingFileSinkProofs`, from `RotatingFileSinkAssumption`, for any number of files, any options, and
any number of crashes, failed calls and moved files. `StepEffect` and `FilesConserved` say what a step
does to the files; the invariants build on one another:

- `TypeCorrect`, with what each location of `Write` and `RotateLocked` knows (`Control`) and which files
  may hold records (`FilesOK`); from it `EveryRecordAccounted`.
- `FilesStayInOrder`: the files, the buffer and the record in `Write` are in the order of issue, and no
  later record precedes an issued one (`OrderInv`). A rotation cut short anywhere keeps it.
- `FlushedRecordsSurvive`: what is not written out came after the last flush (`DurableInv`).
- `OldestExpires`: the next rename of a rotation replaces nothing, or a file that had to stay
  (`RotationInv`).
- `FilesStayBounded`: `m_currentBytes` is the length of the open file with its buffer, and wherever the
  code is about to append it has checked for room or stands before a fresh file (`SizeInv`). That the
  lengths of two sequences add up is proved by induction (`LengthConcat`).
- `OneDayPerFileHolds`: records of the running process in the open file are of the remembered day, except
  in the window between the change of that day and the rotation it causes (`DayInv`).

`TransportSinksProofs`, from `TransportSinksAssumption`, for any threads, records and options, and any number
of crashes, failed opens and moved files:

- `ControlHolds`: `TypesHold` with the mutexes (`LocksOK`), the file that is named and open, always the
  last one or none, with nothing buffered while it is closed (`FileOK`), and the timestamp cache, whose
  parts are of its second whenever a thread appends them, so that the scratch buffer of a sink holds the
  line of the thread about to write it (`StampOK`).
- `StreamEffect`: a step changes the texts of a stream in one of five ways. It leaves them (whatever it
  moves from a buffer to a file), puts one line at the end of the last text, begins a file, cuts the last
  file to nothing, or takes an end of the last text away. All that follows is proved from these five.
- `LinesStayWhole`: the invariants are that a record is given once and to one stream (`GivenOK`), that
  the texts are made of lines given to their stream (`TextsOK`), and that the torn lines are finite in
  number and no more than the crashes (`TornOK`): an end taken away tears at most the line it cuts.
- `GivenRecordsSurvive`: the records with a head in the texts are those given, but for the lost and the cut
  off, and heads stand in the order of the giving (`SurviveOK`). The order is needed for the first part: it
  says that no record has two heads, so what an `fopen` cuts off is not in another file as well.
  `SafeOK` adds that no buffer holds what a flush has covered, which is why a crash cannot take it.

`ScopedContextProofs`, from `RecordBuilderAssumption` and `ScopedContextAssumption`, for any alphabet, any
scalars, any limits of a record (with room for one attribute at least), any lists pushed and any calls of
builders:

- The folds. A fold of the community modules is a `CHOOSE` of a function on sets of indices; the provers
  cannot use its operator parameter, but they can use the definition once the operator is a given one. If
  the operation keeps a type, the function exists (`SetFoldExists`, from `RecursionLemmas`), so the fold
  of a sequence with one more element is one step from the fold of the sequence (`CallFold`,
  `AppendOrReplaceFold`, `OwnAttributeFold`, ...; `FlattenFacts` for `FlattenSeq`). `SeqInduction` does the
  rest: induction on sequences with a set in place of a predicate.
- `TypeCorrect`, by `ScopesOK` (storage, scopes and their lists) and `RecordInv` (the record).
- `NestedContext`. `NestedContextIsLiveScopes` is not inductive: `NestedInv` adds that an active scope starts
  where the lists of the objects before it end, and that an object whose scope was moved away stands for
  nothing. The second makes the first survive a move: what lies between the old place of a scope and
  its new one is empty. It is also what fails for `default` and `assign`, see the findings.
- `Complete`, by `RecordInv`: keys of a dispatched record are distinct, and if nothing is counted, the record
  is what was given. The steps: a builder that counted nothing has copied every call (`CallsKept`); a merge
  that counted nothing since has cut no key, so what replaces an attribute is what `LastGiven` lets replace it
  (`MergeOne`, `ContextMerged`, `AttributesMerged`); the counters never fall, so counters of 0 at the end
  were 0 throughout (`CountersTransitive`). `CopyCounts` says the same of the copy (`AttributesOwned`).
- `OneLine`: `EscapedChar` and `JsonEscapedChar` put out no newline whatever they are given, hence no part of a line has one
  (`LineChars`, `Parts`), and what ends with the only newline still does with a part before it (`LineAfterPart`).
- `JsonIsReadBack`: `Reads(p, items)` says that the reader gets these items from `p` wherever it is between
  strings. The recursive function of the reader exists as those of the folds do (`ReadRecurs`), and reading
  goes on from one part to the next (`ReadOn`). `Reads` holds of a quoted text (`EscapedRead`, by induction
  on the text: no escape is read as another character, nor ends the string), and if it holds of two parts, then of both in a row (`ReadsConcat`), so
  of the whole line.

`RecursionLemmas`: `NatSetInduction`, induction with the set of numbers a property holds of in place of an
operator, and `RecursionExists`, that a function defined by steps along an interval exists, with the step
itself given as a function. They follow from the well-foundedness of inclusion among finite sets. What
the library's induction theorems need an operator for is done with these two.

## Only model-checked, and not modelled

Only model-checked: the liveness properties (`AcceptedDelivered`, `FlushReturns`, `WriteReturns`,
`ShutdownJoins` of `AsyncSink`, `EveryCallReturns` of `Logger`), which are out of the prover's reach, and the
four violations.

Not modelled:

- scopes that end out of order or on another thread; records whose days go backwards; a formatter that could not be allocated;
- the digits of numbers and dates, the ISO 8601 styles of the JSON formatter (which writes them without
  quotes) and nan and inf (which are not JSON); texts of several bytes to a character, which a cut may
  divide;
- `GetSinksSnapshot` and an application that keeps a `SinkPtr` of a set it has given away: both only
  prolong the life of a sink;
- `GetStats`, which reads counters one by one and promises nothing about their being of one moment, and
  the high-water mark it shows;
- exceptions of a sink, which leave a `noexcept` function; memory orders weaker than sequential
  consistency (every decision the model is about reads atomics with acquire and release on one variable,
  or under a mutex);
- `RecordLine`, which nothing calls, levels, configuration macros, benchmarks and examples.

## Plan

Done: all components with state of their own; every safety property of the runs checked and proved, and
both refinements. What could come next:

1. `RotatingFileSink`: records of two threads out of the order of their days.
2. `ScopedContext`: scopes that outlive those around them, once the documentation says what they promise.
