------------------------------ MODULE AsyncSink ------------------------------
(***************************************************************************)
(* AsyncSink<TSink, QueueCapacity, BatchSize>                              *)
(* (include/NGIN/Log/Sinks/AsyncSink.hpp): any number of threads call      *)
(* Write and Flush, one worker thread drains a bounded queue into the      *)
(* wrapped sink, and the destructor calls Shutdown.                        *)
(*                                                                         *)
(* A step is one access to shared memory: an atomic load, a fetch_add, one *)
(* critical section of the queue's or the delivery mutex, one operation on *)
(* a condition variable.  Three mutexes whose critical sections are longer *)
(* than one such step are seen in the program counters of their holders    *)
(* (SpaceMutexFree, FlushMutexFree); m_wakeMutex is only taken by the      *)
(* worker.  A condition variable is the set of the threads asleep on it:   *)
(* notify_all empties the set, and a thread that is no longer in it takes  *)
(* the mutex again and evaluates its predicate again.                      *)
(*                                                                         *)
(* Three kinds of accesses are merged into the step next to them: the      *)
(* counters that only GetStats reads; the predicate, the mutex and the     *)
(* notify_all of NotifyFlushWaiters, whose later wakeups are among the     *)
(* spurious ones; and the two reads of a predicate where no step in        *)
(* between could change what the thread does next.                         *)
(*                                                                         *)
(* A record is <<t, n>>, the n-th Write of thread t: its content plays no  *)
(* part in what the sink does with it.  Deliver and EmitDropReport call    *)
(* the wrapped sink, whose Write is noexcept: they do not fail.            *)
(***************************************************************************)
EXTENDS Naturals, Sequences, FiniteSets

CONSTANTS
    Producers,       \* the threads that call Write
    Flushers,        \* the threads that call Flush; a thread may do both
    QueueCapacity,   \* template parameter: slots of m_queue
    BatchSize,       \* template parameter: records the worker drains at a time
    Configurations,  \* the AsyncSinkOptions, the sink and the owner it may have
    MaxWrites,       \* MaxWrites[t]: bound on the Write calls of producer t
    MaxFlushes       \* bound on the Flush calls of a flusher

Policies == {"DropNewest", "Block", "BlockForTimeout", "SyncFallback"}

ConfigurationType ==
    [policy : Policies, emitDropReports : BOOLEAN, hasSink : BOOLEAN, raced : BOOLEAN]

ASSUME AsyncSinkAssumption ==
    /\ IsFiniteSet(Producers) /\ IsFiniteSet(Flushers)
    /\ QueueCapacity \in Nat /\ QueueCapacity > 1   \* static_assert, line 61
    /\ BatchSize \in Nat /\ BatchSize > 0           \* static_assert, line 63
    /\ Configurations \subseteq ConfigurationType
    /\ MaxWrites \in [Producers -> Nat] /\ MaxFlushes \in Nat

Threads == Producers \cup Flushers
Records == UNION {{t} \X (1 .. MaxWrites[t]) : t \in Producers}

VARIABLES
    options,       \* m_options, is m_sink not null, do calls race Shutdown; set once
    queue,         \* m_queue
    outstanding,   \* m_outstanding
    running,       \* m_running
    stats,         \* the counters GetStats reads
    unreported,    \* m_unreportedDropped
    spaceWaiters,  \* the threads asleep on m_spaceCondition
    flushWaiters,  \* the threads asleep on m_flushCondition
    workerAsleep,  \* is the worker asleep on m_wakeCondition?
    pc,            \* pc[t]: where thread t is in Write or Flush
    depth,         \* depth[t]: the depth t sampled, for UpdateHighWatermark
    issued,        \* issued[t]: the Write calls t has begun
    flushes,       \* flushes[t]: the Flush calls t has begun
    wpc,           \* where the worker is in ConsumeLoop
    hand,          \* the record the worker holds, as a sequence of at most one
    drained,       \* drained, the local variable of ConsumeLoop
    shutdown,      \* where the destroying thread is in Shutdown
    sinkRecords,   \* the wrapped sink: the records written to it, in order
    sinkReported,  \* the wrapped sink: the drops its drop reports add up to
    sinkFlushed,   \* the wrapped sink: what its last Flush covered
    due            \* history: due[t] is what had been accepted when t began to flush

localVars    == <<depth, issued, flushes, due>>
callVars     == <<pc, localVars>>
countVars    == <<stats, unreported>>
sleepVars    == <<spaceWaiters, flushWaiters, workerAsleep>>
workerVars   == <<wpc, hand, drained>>
sinkVars     == <<sinkRecords, sinkReported, sinkFlushed>>
channelVars  == <<queue, outstanding>>
lifeVars     == <<options, running, shutdown>>
vars == <<callVars, countVars, sleepVars, workerVars, sinkVars, channelVars, lifeVars>>

-----------------------------------------------------------------------------
Members(s) == {s[i] : i \in 1 .. Len(s)}

NothingDue == [records |-> {}, drops |-> 0]

Blocking   == options.policy \in {"Block", "BlockForTimeout"}
Current(t) == <<t, issued[t]>>

SpaceMutexFree == \A t \in Threads : pc[t] \notin {"space_full", "space_sleep"}
FlushMutexFree == \A t \in Threads : pc[t] # "flush_sleep"

\* CanEnqueue of the queue, and the test of its TryEnqueue.
HasRoomForOneMore == Len(queue) <= QueueCapacity
HasRoom == Len(queue) < QueueCapacity

\* Quiescent is the predicate of Flush and of NotifyFlushWaiters.  The code reads
\* m_outstanding, then the queue; since the queue never holds more than
\* m_outstanding counts (OutstandingExact), each outcome of the two reads is the
\* outcome of one read of both at one of the two moments.
QuiescentQueueOnly == queue = <<>>
Quiescent == outstanding = 0 /\ queue = <<>>

\* A step of a call moves its thread, and leaves the worker and the life of the sink
\* alone; a step of the worker moves the worker, and leaves the calls alone.
Goto(t, from, to) ==
    pc[t] = from /\ pc' = [pc EXCEPT ![t] = to] /\ UNCHANGED <<workerVars, lifeVars>>
WorkerGoto(from, to) ==
    wpc = from /\ wpc' = to /\ UNCHANGED <<callVars, lifeVars>>

-----------------------------------------------------------------------------
(* Helpers called by the producers, the flushers and the worker.           *)

\* NotifyFlushWaiters, whose notify_all is made under m_flushMutex.
NotifyNoFlushWaiter == UNCHANGED flushWaiters
NotifyFlushWaiters ==
    IF Quiescent THEN FlushMutexFree /\ flushWaiters' = {}
                 ELSE UNCHANGED flushWaiters

\* Deliver: the wrapped sink's Write and m_totalDelivered, under m_deliveryMutex.
\* A null sink swallows the record.
Deliver(r) ==
    IF options.hasSink
    THEN /\ sinkRecords' = Append(sinkRecords, r)
         /\ stats' = [stats EXCEPT !.delivered = @ + 1]
    ELSE UNCHANGED <<sinkRecords, stats>>

\* EmitDropReportIfNeededLocked, under m_deliveryMutex when the options ask for it.
EmitDropReportKeepingCount ==
    /\ sinkReported' = sinkReported + unreported
    /\ UNCHANGED unreported
EmitDropReport ==
    IF options.emitDropReports
    THEN /\ unreported' = 0
         /\ sinkReported' = IF options.hasSink THEN sinkReported + unreported
                                               ELSE sinkReported
    ELSE UNCHANGED <<unreported, sinkReported>>

\* FlushWrappedSink.
FlushWrappedSink ==
    IF options.hasSink
    THEN sinkFlushed' = [records |-> Len(sinkRecords), drops |-> sinkReported]
    ELSE UNCHANGED sinkFlushed

\* UpdateHighWatermark: the compare-exchange loop stores the larger of the two.
UpdateHighWatermark(d) ==
    stats' = [stats EXCEPT !.highWatermark = IF d > @ THEN d ELSE @]

-----------------------------------------------------------------------------
(* Write.                                                                  *)

\* Calls begin while the sink lives.  Its owner should destroy it only when every call
\* has returned and no other follows, but the tests of m_running are there for owners
\* who do not.
MayRaceShutdown == options.raced
Alive == shutdown = "no" \/ (MayRaceShutdown /\ shutdown # "joined")

\* Write reads m_running, converts the record and branches on the policy.
BeginWrite(t) ==
    /\ Alive /\ t \in Producers /\ issued[t] < MaxWrites[t]
    /\ Goto(t, "ready", IF ~running THEN "drop"
                        ELSE IF Blocking THEN "enter" ELSE "reserve")
    /\ issued' = [issued EXCEPT ![t] = @ + 1]
    /\ UNCHANGED <<depth, flushes, due, countVars, sleepVars, sinkVars, channelVars>>

\* The condition of the loops of EnqueueBlocking and EnqueueBlockingWithTimeout.
Enter(t) ==
    /\ Goto(t, "enter", IF running THEN "reserve"
                        ELSE IF options.policy = "Block" THEN "drop" ELSE "timeout_drop")
    /\ UNCHANGED <<localVars, countVars, sleepVars, sinkVars, channelVars>>

\* TryEnqueueOwned counts the record before it tries to enqueue it.
Reserve(t) ==
    /\ Goto(t, "reserve", "try")
    /\ outstanding' = outstanding + 1
    /\ UNCHANGED <<localVars, countVars, sleepVars, sinkVars, queue>>

\* MpscBoundedQueue::TryEnqueue (module MpscBoundedQueue).
TryEnqueue(t) ==
    /\ IF HasRoom
       THEN /\ Goto(t, "try", "count")
            /\ queue' = Append(queue, Current(t))
       ELSE /\ Goto(t, "try", "unreserve")
            /\ UNCHANGED queue
    /\ UNCHANGED <<localVars, countVars, sleepVars, sinkVars, outstanding>>

\* On success: m_totalEnqueued, then a sample of the depth for the high watermark.
CountEnqueued(t) ==
    /\ Goto(t, "count", "publish")
    /\ stats' = [stats EXCEPT !.enqueued = @ + 1]
    /\ depth' = [depth EXCEPT ![t] = Len(queue)]
    /\ UNCHANGED <<issued, flushes, due, unreported, sleepVars, sinkVars, channelVars>>

\* UpdateHighWatermark with that sample; then notify_one on m_wakeCondition, made
\* without m_wakeMutex.
Publish(t) ==
    /\ Goto(t, "publish", "ready")
    /\ UpdateHighWatermark(depth[t])
    /\ depth' = [depth EXCEPT ![t] = 0]
    /\ workerAsleep' = FALSE
    /\ UNCHANGED <<issued, flushes, due, unreported, spaceWaiters, flushWaiters,
                   sinkVars, channelVars>>

\* On failure: the count is taken back...
UnreserveNothing(t) ==
    /\ Goto(t, "unreserve", "refused")
    /\ UNCHANGED <<localVars, countVars, sleepVars, sinkVars, channelVars>>
Unreserve(t) ==
    /\ Goto(t, "unreserve", "refused")
    /\ outstanding' = outstanding - 1
    /\ UNCHANGED <<localVars, countVars, sleepVars, sinkVars, queue>>

\* ... NotifyFlushWaiters is called and the caller goes on by its policy.
AfterRefusalFallsThrough ==
    [DropNewest |-> "fallback", Block |-> "space", BlockForTimeout |-> "space",
     SyncFallback |-> "fallback"]
AfterRefusal ==
    [DropNewest |-> "drop", Block |-> "space", BlockForTimeout |-> "space",
     SyncFallback |-> "fallback"]

Refused(t) ==
    /\ Goto(t, "refused", AfterRefusal[options.policy])
    /\ NotifyFlushWaiters
    /\ UNCHANGED <<localVars, countVars, spaceWaiters, workerAsleep, sinkVars,
                   channelVars>>

\* The wait for space: m_spaceMutex is taken and the predicate read, first
\* m_running...
SpaceRunning(t) ==
    /\ t \notin spaceWaiters /\ SpaceMutexFree
    /\ Goto(t, "space", IF running THEN "space_full" ELSE "enter")
    /\ UNCHANGED <<localVars, countVars, sleepVars, sinkVars, channelVars>>

\* ... then CanEnqueue.
SpaceFull(t) ==
    /\ Goto(t, "space_full", IF HasRoom THEN "enter" ELSE "space_sleep")
    /\ UNCHANGED <<localVars, countVars, sleepVars, sinkVars, channelVars>>

\* The predicate was false: release m_spaceMutex and sleep, in one step.  No
\* notify_all on m_spaceCondition is made under m_spaceMutex, so one made between
\* the predicate and this step wakes nobody.
SpaceSleep(t) ==
    /\ Goto(t, "space_sleep", "space")
    /\ spaceWaiters' = spaceWaiters \cup {t}
    /\ UNCHANGED <<localVars, countVars, flushWaiters, workerAsleep, sinkVars,
                   channelVars>>

\* The deadline of wait_until passes.
TimeoutNever(t) == FALSE /\ UNCHANGED vars
Timeout(t) ==
    /\ options.policy = "BlockForTimeout" /\ t \in spaceWaiters
    /\ Goto(t, "space", "expired")
    /\ spaceWaiters' = spaceWaiters \ {t}
    /\ UNCHANGED <<localVars, countVars, flushWaiters, workerAsleep, sinkVars,
                   channelVars>>

\* wait_until then takes the mutex and returns what the predicate says.  Its two reads
\* are one step: if either finds a reason to go on, the loop looks at both again.
AfterExpiryForgotten == "ready"
AfterExpiry == IF ~running \/ HasRoom THEN "enter" ELSE "timeout_drop"

Expired(t) ==
    /\ SpaceMutexFree
    /\ Goto(t, "expired", AfterExpiry)
    /\ UNCHANGED <<localVars, countVars, sleepVars, sinkVars, channelVars>>

\* RecordDrop and RecordTimeoutDrop: m_totalDropped...
RecordDrop(t) ==
    /\ \/ Goto(t, "drop", "dropped")
       \/ Goto(t, "timeout_drop", "timeout_dropped")
    /\ stats' = [stats EXCEPT !.dropped = @ + 1]
    /\ UNCHANGED <<localVars, unreported, sleepVars, sinkVars, channelVars>>

\* ... then m_unreportedDropped, then m_timeoutDropped.
RecordUnreported(t) ==
    /\ \/ /\ Goto(t, "dropped", "ready")
          /\ UNCHANGED stats
       \/ /\ Goto(t, "timeout_dropped", "ready")
          /\ stats' = [stats EXCEPT !.timeoutDropped = @ + 1]
    /\ unreported' = unreported + 1
    /\ UNCHANGED <<localVars, sleepVars, sinkVars, channelVars>>

\* EnqueueWithSyncFallback when the queue is full: the producer delivers the record
\* itself, past the records that are queued.
Fallback(t) ==
    /\ Goto(t, "fallback", "fallback_deliver")
    /\ outstanding' = outstanding + 1
    /\ stats' = [stats EXCEPT !.fallbackWrites = @ + 1]
    /\ UNCHANGED <<localVars, unreported, sleepVars, sinkVars, queue>>

FallbackDeliver(t) ==
    /\ Goto(t, "fallback_deliver", "fallback_release")
    /\ Deliver(Current(t))
    /\ UNCHANGED <<localVars, unreported, sleepVars, sinkReported, sinkFlushed,
                   channelVars>>

FallbackRelease(t) ==
    /\ Goto(t, "fallback_release", "fallback_notify")
    /\ outstanding' = outstanding - 1
    /\ UNCHANGED <<localVars, countVars, sleepVars, sinkVars, queue>>

FallbackNotify(t) ==
    /\ Goto(t, "fallback_notify", "ready")
    /\ NotifyFlushWaiters
    /\ UNCHANGED <<localVars, countVars, spaceWaiters, workerAsleep, sinkVars,
                   channelVars>>

WriteStep(t) ==
    \/ Enter(t) \/ Reserve(t) \/ TryEnqueue(t) \/ CountEnqueued(t) \/ Publish(t)
    \/ Unreserve(t) \/ Refused(t)
    \/ SpaceRunning(t) \/ SpaceFull(t) \/ SpaceSleep(t) \/ Timeout(t) \/ Expired(t)
    \/ RecordDrop(t) \/ RecordUnreported(t)
    \/ Fallback(t) \/ FallbackDeliver(t) \/ FallbackRelease(t) \/ FallbackNotify(t)

-----------------------------------------------------------------------------
(* Flush.                                                                  *)

\* What is on its way to the wrapped sink, and the drops counted: what a Flush that
\* begins now has to cover.
AcceptedSoFar ==
    [records |-> Members(hand) \cup Members(queue), drops |-> sinkReported + unreported]

BeginFlush(t) ==
    /\ Alive /\ t \in Flushers /\ flushes[t] < MaxFlushes
    /\ Goto(t, "ready", "flush")
    /\ flushes' = [flushes EXCEPT ![t] = @ + 1]
    /\ due' = [due EXCEPT ![t] = AcceptedSoFar]
    /\ UNCHANGED <<depth, issued, countVars, sleepVars, sinkVars, channelVars>>

\* m_flushMutex is taken and the predicate of the wait evaluated.
FlushCheck(t) ==
    /\ t \notin flushWaiters /\ FlushMutexFree
    /\ Goto(t, "flush", IF Quiescent THEN "flush_report" ELSE "flush_sleep")
    /\ UNCHANGED <<localVars, countVars, sleepVars, sinkVars, channelVars>>

FlushSleep(t) ==
    /\ Goto(t, "flush_sleep", "flush")
    /\ flushWaiters' = flushWaiters \cup {t}
    /\ UNCHANGED <<localVars, countVars, spaceWaiters, workerAsleep, sinkVars,
                   channelVars>>

FlushReport(t) ==
    /\ Goto(t, "flush_report", "flush_sink")
    /\ EmitDropReport
    /\ UNCHANGED <<localVars, stats, sleepVars, sinkRecords, sinkFlushed, channelVars>>

\* The wrapped sink is flushed and Flush returns.
FlushReturn(t) ==
    /\ Goto(t, "flush_sink", "ready")
    /\ FlushWrappedSink
    /\ due' = [due EXCEPT ![t] = NothingDue]
    /\ UNCHANGED <<depth, issued, flushes, countVars, sleepVars, sinkRecords,
                   sinkReported, channelVars>>

FlushStep(t) ==
    FlushCheck(t) \/ FlushSleep(t) \/ FlushReport(t) \/ FlushReturn(t)

\* A condition variable may wake a thread that nobody notified.
SpuriousWake(t) ==
    /\ t \in spaceWaiters \cup flushWaiters
    /\ spaceWaiters' = spaceWaiters \ {t}
    /\ flushWaiters' = flushWaiters \ {t}
    /\ UNCHANGED <<callVars, countVars, workerAsleep, workerVars, sinkVars,
                   channelVars, lifeVars>>

-----------------------------------------------------------------------------
(* ConsumeLoop, the worker.                                                *)

\* The loop's condition reads m_running, then the queue.  m_running never becomes
\* true again, so the two reads are one read at the later moment.
KeepsOnWhileRunning == running
KeepsOn == running \/ queue # <<>>

WorkerLoop ==
    /\ WorkerGoto("loop", IF KeepsOn THEN "drain" ELSE "exit_report")
    /\ drained' = 0
    /\ UNCHANGED <<countVars, sleepVars, hand, sinkVars, channelVars>>

\* MpscBoundedQueue::TryDequeue, up to BatchSize times.
WorkerDrain ==
    /\ IF drained < BatchSize /\ queue # <<>>
       THEN /\ WorkerGoto("drain", "deliver")
            /\ hand' = <<Head(queue)>>
            /\ queue' = Tail(queue)
       ELSE /\ WorkerGoto("drain", "report")
            /\ UNCHANGED <<hand, queue>>
    /\ UNCHANGED <<countVars, sleepVars, drained, sinkVars, outstanding>>

WorkerDeliver ==
    /\ WorkerGoto("deliver", "release")
    /\ Deliver(hand[1])
    /\ hand' = <<>>
    /\ UNCHANGED <<unreported, sleepVars, drained, sinkReported, sinkFlushed,
                   channelVars>>

WorkerRelease ==
    /\ WorkerGoto("release", "space_notify")
    /\ outstanding' = outstanding - 1
    /\ UNCHANGED <<countVars, sleepVars, hand, drained, sinkVars, queue>>

\* notify_all on m_spaceCondition, made without m_spaceMutex.
WorkerSpaceNotify ==
    /\ WorkerGoto("space_notify", "drain")
    /\ spaceWaiters' = {}
    /\ drained' = drained + 1
    /\ UNCHANGED <<countVars, flushWaiters, workerAsleep, hand, sinkVars, channelVars>>

WorkerReport ==
    /\ WorkerGoto("report", "notify")
    /\ EmitDropReport
    /\ UNCHANGED <<stats, sleepVars, hand, drained, sinkRecords, sinkFlushed,
                   channelVars>>

WorkerNotify ==
    /\ WorkerGoto("notify", IF drained = 0 THEN "idle" ELSE "loop")
    /\ NotifyFlushWaiters
    /\ UNCHANGED <<countVars, spaceWaiters, workerAsleep, hand, drained, sinkVars,
                   channelVars>>

\* wait_for on m_wakeCondition: the predicate, of which only m_running and the
\* arrival of records can change...
WorkerIdle ==
    /\ ~workerAsleep
    /\ WorkerGoto("idle", IF ~running \/ queue # <<>> THEN "loop" ELSE "doze")
    /\ UNCHANGED <<countVars, sleepVars, hand, drained, sinkVars, channelVars>>

\* ... was false: sleep.  A notify_one made in between is lost.
WorkerDoze ==
    /\ WorkerGoto("doze", "idle")
    /\ workerAsleep' = TRUE
    /\ UNCHANGED <<countVars, spaceWaiters, flushWaiters, hand, drained, sinkVars,
                   channelVars>>

\* The 2 milliseconds are over: wait_for returns, whatever the predicate.
WorkerNeverTimesOut == FALSE /\ UNCHANGED vars
WorkerTimeout ==
    /\ workerAsleep
    /\ WorkerGoto("idle", "loop")
    /\ workerAsleep' = FALSE
    /\ UNCHANGED <<countVars, spaceWaiters, flushWaiters, hand, drained, sinkVars,
                   channelVars>>

\* After the loop: a last drop report, a last flush, a last notification.
WorkerExitReport ==
    /\ WorkerGoto("exit_report", "exit_flush")
    /\ EmitDropReport
    /\ UNCHANGED <<stats, sleepVars, hand, drained, sinkRecords, sinkFlushed,
                   channelVars>>

WorkerExitFlush ==
    /\ WorkerGoto("exit_flush", "exit_notify")
    /\ FlushWrappedSink
    /\ UNCHANGED <<countVars, sleepVars, hand, drained, sinkRecords, sinkReported,
                   channelVars>>

WorkerExitNotify ==
    /\ WorkerGoto("exit_notify", "done")
    /\ NotifyFlushWaiters
    /\ UNCHANGED <<countVars, spaceWaiters, workerAsleep, hand, drained, sinkVars,
                   channelVars>>

WorkerStep ==
    \/ WorkerLoop \/ WorkerDrain \/ WorkerDeliver \/ WorkerRelease \/ WorkerSpaceNotify
    \/ WorkerReport \/ WorkerNotify \/ WorkerIdle \/ WorkerDoze \/ WorkerTimeout
    \/ WorkerExitReport \/ WorkerExitFlush \/ WorkerExitNotify

-----------------------------------------------------------------------------
(* ~AsyncSink, which calls Shutdown.  Nobody else can: a second call, for  *)
(* which Shutdown looks at wasRunning, does not happen.                    *)

StartShutdown ==
    /\ shutdown = "no"
    /\ MayRaceShutdown \/ \A t \in Threads : pc[t] = "ready"
    /\ shutdown' = "wake"
    /\ running' = FALSE
    /\ UNCHANGED <<options, callVars, countVars, sleepVars, workerVars, sinkVars,
                   channelVars>>

ShutdownWake ==
    /\ shutdown = "wake" /\ shutdown' = "space"
    /\ workerAsleep' = FALSE
    /\ UNCHANGED <<options, running, callVars, countVars, spaceWaiters, flushWaiters,
                   workerVars, sinkVars, channelVars>>

ShutdownSpace ==
    /\ shutdown = "space" /\ shutdown' = "join"
    /\ spaceWaiters' = {}
    /\ UNCHANGED <<options, running, callVars, countVars, flushWaiters, workerAsleep,
                   workerVars, sinkVars, channelVars>>

ShutdownJoin ==
    /\ shutdown = "join" /\ wpc = "done" /\ shutdown' = "joined"
    /\ UNCHANGED <<options, running, callVars, countVars, sleepVars, workerVars,
                   sinkVars, channelVars>>

ShutdownStep == ShutdownWake \/ ShutdownSpace \/ ShutdownJoin

-----------------------------------------------------------------------------
Init ==
    /\ options \in Configurations
    /\ queue = <<>> /\ outstanding = 0
    /\ running = TRUE /\ shutdown = "no"
    /\ stats = [enqueued |-> 0, delivered |-> 0, dropped |-> 0, timeoutDropped |-> 0,
                fallbackWrites |-> 0, highWatermark |-> 0]
    /\ unreported = 0
    /\ spaceWaiters = {} /\ flushWaiters = {} /\ workerAsleep = FALSE
    /\ pc = [t \in Threads |-> "ready"]
    /\ depth = [t \in Threads |-> 0]
    /\ issued = [t \in Threads |-> 0]
    /\ flushes = [t \in Threads |-> 0]
    /\ due = [t \in Threads |-> NothingDue]
    /\ wpc = "loop" /\ hand = <<>> /\ drained = 0
    /\ sinkRecords = <<>> /\ sinkReported = 0
    /\ sinkFlushed = [records |-> 0, drops |-> 0]

CallStep(t) == WriteStep(t) \/ FlushStep(t)

Next ==
    \/ \E t \in Threads : BeginWrite(t) \/ BeginFlush(t) \/ CallStep(t) \/ SpuriousWake(t)
    \/ WorkerStep
    \/ StartShutdown \/ ShutdownStep

Spec == Init /\ [][Next]_vars

\* Threads that can take a step of a call, the worker and the destroying thread
\* are scheduled.  Nobody has to begin a call or to destroy the sink.
Fairness ==
    /\ \A t \in Threads : WF_vars(CallStep(t))
    /\ WF_vars(WorkerStep)
    /\ WF_vars(ShutdownStep)

FairSpec == Spec /\ Fairness

-----------------------------------------------------------------------------
(* Invariants.                                                             *)

\* Program locations between taking m_outstanding and handing the record over or
\* giving the count back.
HoldingLocations == {"try", "unreserve", "fallback_deliver", "fallback_release"}

WriteLocations ==
    {"enter", "reserve", "try", "count", "publish", "unreserve", "refused",
     "space", "space_full", "space_sleep", "expired", "drop", "timeout_drop",
     "dropped", "timeout_dropped",
     "fallback", "fallback_deliver", "fallback_release", "fallback_notify"}
FlushLocations == {"flush", "flush_sleep", "flush_report", "flush_sink"}
WorkerLocations ==
    {"loop", "drain", "deliver", "release", "space_notify", "report", "notify",
     "idle", "doze", "exit_report", "exit_flush", "exit_notify", "done"}

StatsType == [enqueued : Nat, delivered : Nat, dropped : Nat, timeoutDropped : Nat,
              fallbackWrites : Nat, highWatermark : Nat]

LifeOK ==
    /\ options \in ConfigurationType
    /\ running \in BOOLEAN
    /\ shutdown \in {"no", "wake", "space", "join", "joined"}
ChannelOK ==
    /\ queue \in Seq(Records) /\ Len(queue) <= QueueCapacity
    /\ outstanding \in Nat
CountsOK == stats \in StatsType /\ unreported \in Nat
CallsOK ==
    /\ pc \in [Threads -> {"ready"} \cup WriteLocations \cup FlushLocations]
    /\ depth \in [Threads -> Nat]
    /\ issued \in [Threads -> Nat]
    /\ flushes \in [Threads -> Nat]
    /\ due \in [Threads -> [records : SUBSET Records, drops : Nat]]
    /\ \A t \in Threads : pc[t] \in WriteLocations => Current(t) \in Records
SleepersOK ==
    /\ spaceWaiters \subseteq {t \in Threads : pc[t] = "space"}
    /\ flushWaiters \subseteq {t \in Threads : pc[t] = "flush"}
    /\ workerAsleep \in BOOLEAN
WorkerOK ==
    /\ wpc \in WorkerLocations
    /\ hand \in Seq(Records) /\ Len(hand) = (IF wpc = "deliver" THEN 1 ELSE 0)
    /\ drained \in Nat
SinkOK ==
    /\ sinkRecords \in Seq(Records) /\ sinkReported \in Nat
    /\ sinkFlushed \in [records : Nat, drops : Nat]

\* Every variable has its type; the queue never exceeds its slots, the worker holds a
\* record exactly between TryDequeue and Deliver, and only a thread that waits is in a
\* wait set.
TypeOK ==
    LifeOK /\ ChannelOK /\ CountsOK /\ CallsOK /\ SleepersOK /\ WorkerOK /\ SinkOK

\* m_outstanding counts exactly the queued records, the record the worker has taken
\* and not released, and the threads that have reserved and not yet handed over.
\* Flush relies on it, and an unsigned counter must never be decremented below 0.
Holding == {t \in Threads : pc[t] \in HoldingLocations}
OutstandingExact ==
    outstanding = Len(queue) + Cardinality(Holding)
                  + (IF wpc \in {"deliver", "release"} THEN 1 ELSE 0)

\* The records on their way, in the order the wrapped sink gets them.
InOrder == sinkRecords \o hand \o queue

\* The records whose Write has put them in the channel or counted them as dropped.
SettledLocations == {"count", "publish", "dropped", "timeout_dropped",
                     "fallback_release", "fallback_notify"} \cup FlushLocations \cup {"ready"}
Settled == {r \in Records : \/ r[2] < issued[r[1]]
                            \/ r[2] = issued[r[1]] /\ pc[r[1]] \in SettledLocations}

\* Nothing is lost in silence and nothing is delivered twice: a settled record is in
\* the channel once or is one of the counted drops, whoever delivers it and however
\* Write, the worker and Shutdown interleave.
Accounted ==
    options.hasSink =>
        /\ Members(InOrder) \subseteq Settled
        /\ Cardinality(Members(InOrder)) = Len(InOrder)
        /\ Cardinality(Settled \ Members(InOrder)) = stats.dropped

\* Drop reports add up: every counted drop is reported once, is still to be
\* reported, or is between the two fetch_adds of RecordDrop.
DropsReportedOnce ==
    options.hasSink =>
        stats.dropped = sinkReported + unreported
            + Cardinality({t \in Threads : pc[t] \in {"dropped", "timeout_dropped"}})

\* Without synchronous fallback the records of one producer reach the wrapped sink
\* in the order it wrote them.
ProducerOrder ==
    options.policy # "SyncFallback" =>
        \A i, j \in 1 .. Len(InOrder) :
            i < j /\ InOrder[i][1] = InOrder[j][1] => InOrder[i][2] < InOrder[j][2]

\* When the destructor of an idle sink returns, everything accepted has been
\* delivered and flushed, and so has the report of the last drop.
ShutdownDrains ==
    shutdown = "joined" /\ ~MayRaceShutdown =>
        /\ queue = <<>> /\ hand = <<>> /\ outstanding = 0
        /\ options.hasSink => sinkFlushed.records = Len(sinkRecords)
        /\ options.hasSink /\ options.emitDropReports => sinkFlushed.drops = stats.dropped

\* What makes Flush safe, as an invariant: nothing it has to cover leaves the way to
\* the wrapped sink but by being delivered, and once the wait is over it has all been;
\* a drop it has to cover is reported by its own report at the latest.
FlushPromise ==
    options.hasSink =>
        \A t \in Threads :
            /\ due[t].records \subseteq Members(sinkRecords) \cup Members(hand) \cup Members(queue)
            /\ pc[t] \in {"flush_report", "flush_sink"} =>
                   due[t].records \subseteq Members(sinkRecords)
            /\ due[t].drops <= sinkReported + unreported
            /\ options.emitDropReports /\ pc[t] = "flush_sink" =>
                   due[t].drops <= sinkReported

(* Action properties.                                                      *)

\* When Flush returns, the wrapped sink has been given, and has flushed, every record
\* that was accepted before Flush was called, and, if drops are reported, every
\* drop counted before.
FlushCovers ==
    [][\A t \in Flushers :
         pc[t] = "flush_sink" /\ pc'[t] = "ready" /\ options.hasSink =>
            /\ due[t].records \subseteq Members(SubSeq(sinkRecords', 1, sinkFlushed'.records))
            /\ options.emitDropReports => sinkFlushed'.drops >= due[t].drops]_vars

(* Liveness, under FairSpec.                                               *)

\* A record that is in the queue reaches the wrapped sink, although notify_one on
\* m_wakeCondition may be lost.
AcceptedDelivered ==
    \A r \in Records :
        (options.hasSink /\ r \in Members(queue)) ~> (r \in Members(sinkRecords))

\* Flush returns once the producers pause.
FlushReturns == \A t \in Flushers : (pc[t] \in FlushLocations) ~> (pc[t] = "ready")

\* Write returns under every policy but Block.
WriteReturns ==
    \A t \in Producers :
        (options.policy # "Block" /\ pc[t] \in WriteLocations) ~> (pc[t] = "ready")

\* Shutdown joins the worker, although both its notifications may be lost.
ShutdownJoins == (shutdown # "no") ~> (shutdown = "joined")

\* Block: a producer asleep beside a queue that has room wakes up, or the queue fills
\* up again (docs/Production.md:103: "producers can stall when the queue is full").
StallsOnlyWhenFull ==
    \A t \in Producers :
        (t \in spaceWaiters /\ Len(queue) < QueueCapacity)
            ~> (t \notin spaceWaiters \/ Len(queue) = QueueCapacity)
=============================================================================
