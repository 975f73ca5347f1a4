--------------------------- MODULE AsyncSinkProofs ---------------------------
(***************************************************************************)
(* Theorems of AsyncSink, for every set of threads, capacity, batch size   *)
(* and configuration.  First its types, that m_outstanding is exact, that  *)
(* Flush covers what was accepted before it.  Then its records: where they *)
(* are, in which order, which are dropped, and that the sink implements    *)
(* LogChannel; StepEffect says what any step does to the records, in ten   *)
(* cases, and the rest is proved from these cases.                         *)
(***************************************************************************)
EXTENDS AsyncSinkRefinement, FiniteSetTheorems, SequenceTheorems, TLAPS


Locations == {"ready"} \cup WriteLocations \cup FlushLocations

-----------------------------------------------------------------------------
(* Types.                                                                  *)

\* A group of variables keeps its type while nobody touches it.
LEMMA Untouched ==
    /\ LifeOK /\ UNCHANGED lifeVars => LifeOK'
    /\ ChannelOK /\ UNCHANGED channelVars => ChannelOK'
    /\ CountsOK /\ UNCHANGED countVars => CountsOK'
    /\ WorkerOK /\ UNCHANGED workerVars => WorkerOK'
    /\ SinkOK /\ UNCHANGED sinkVars => SinkOK'
    /\ CallsOK /\ UNCHANGED callVars => CallsOK'
    /\ SleepersOK /\ UNCHANGED <<pc, sleepVars>> => SleepersOK'
<1>1. LifeOK /\ UNCHANGED lifeVars => LifeOK'
  BY DEF LifeOK, lifeVars
<1>2. ChannelOK /\ UNCHANGED channelVars => ChannelOK'
  BY DEF ChannelOK, channelVars
<1>3. CountsOK /\ UNCHANGED countVars => CountsOK'
  BY DEF CountsOK, countVars
<1>4. WorkerOK /\ UNCHANGED workerVars => WorkerOK'
  BY DEF WorkerOK, workerVars
<1>5. SinkOK /\ UNCHANGED sinkVars => SinkOK'
  BY DEF SinkOK, sinkVars
<1>6. CallsOK /\ UNCHANGED callVars => CallsOK'
  BY DEF CallsOK, callVars, Current, localVars
<1>7. SleepersOK /\ UNCHANGED <<pc, sleepVars>> => SleepersOK'
  BY DEF SleepersOK, sleepVars
<1>8. QED
  BY <1>1, <1>2, <1>3, <1>4, <1>5, <1>6, <1>7

\* Thread t moves inside a call or out of it; others may be woken.
LEMMA Move ==
    ASSUME CallsOK, SleepersOK, NEW t \in Threads, NEW from, NEW to \in Locations,
           Goto(t, from, to), to \in WriteLocations => from \in WriteLocations,
           depth' \in [Threads -> Nat], flushes' \in [Threads -> Nat],
           due' \in [Threads -> [records : SUBSET Records, drops : Nat]],
           UNCHANGED issued,
           spaceWaiters' \subseteq spaceWaiters \cup {t}, t \in spaceWaiters' => to = "space",
           flushWaiters' \subseteq flushWaiters \cup {t}, t \in flushWaiters' => to = "flush",
           workerAsleep' \in BOOLEAN
    PROVE  CallsOK' /\ SleepersOK'
<1>1. /\ pc' = [pc EXCEPT ![t] = to] /\ pc[t] = from
      /\ pc' \in [Threads -> Locations]
  BY DEF Goto, CallsOK, Locations
<1>2. pc'[t] = to /\ \A u \in Threads \ {t} : pc'[u] = pc[u]
  BY <1>1 DEF CallsOK
<1>3. \A u \in Threads : pc'[u] \in WriteLocations => Current(u)' \in Records
  <2> SUFFICES ASSUME NEW u \in Threads, pc'[u] \in WriteLocations
               PROVE  Current(u)' \in Records
    OBVIOUS
  <2>1. pc[u] \in WriteLocations
    BY <1>1, <1>2
  <2>2. Current(u)' = Current(u)
    BY DEF Current
  <2>3. QED
    BY <2>1, <2>2 DEF CallsOK
<1>4. CallsOK'
  BY <1>1, <1>3 DEF CallsOK, Locations
<1>5. SleepersOK'
  BY <1>2 DEF SleepersOK
<1>6. QED
  BY <1>4, <1>5

\* The threads that hold a count of m_outstanding are finitely many.
LEMMA HoldingFinite ==
    IsFiniteSet(Holding) /\ Cardinality(Holding) \in Nat
<1>1. IsFiniteSet(Threads)
  BY AsyncSinkAssumption, FS_Union DEF Threads
<1>2. Holding \subseteq Threads
  BY DEF Holding
<1>3. QED
  BY <1>1, <1>2, FS_Subset, FS_CardinalityType

\* A thread that holds a count can give it back.
LEMMA CanRelease ==
    ASSUME TypeOK, OutstandingExact,
           (\E t \in Threads : pc[t] \in HoldingLocations) \/ wpc \in {"deliver", "release"}
    PROVE  outstanding - 1 \in Nat
<1>1. Len(queue) \in Nat /\ outstanding \in Nat /\ Cardinality(Holding) \in Nat
  BY HoldingFinite DEF TypeOK, ChannelOK
<1>2. CASE \E t \in Threads : pc[t] \in HoldingLocations
  <2>1. Holding # {}
    BY <1>2 DEF Holding
  <2>2. Cardinality(Holding) # 0
    BY <2>1, HoldingFinite, FS_EmptySet
  <2>3. QED
    BY <1>1, <2>2 DEF OutstandingExact
<1>3. CASE wpc \in {"deliver", "release"}
  BY <1>1, <1>3 DEF OutstandingExact
<1>4. QED
  BY <1>2, <1>3

\* Beginning a Write: the new record is one of the producer's.
LEMMA TypeBeginWrite ==
    ASSUME TypeOK, NEW t \in Threads, BeginWrite(t)
    PROVE  TypeOK'
<1> DEFINE to == IF ~running THEN "drop" ELSE IF Blocking THEN "enter" ELSE "reserve"
<1>1. /\ t \in Producers /\ issued[t] < MaxWrites[t]
      /\ pc[t] = "ready" /\ pc' = [pc EXCEPT ![t] = to]
      /\ issued' = [issued EXCEPT ![t] = @ + 1]
      /\ UNCHANGED <<depth, flushes, due>>
  BY DEF BeginWrite, Goto
<1>2. to \in WriteLocations
  BY DEF WriteLocations
<1>3. pc' \in [Threads -> Locations] /\ issued' \in [Threads -> Nat]
  BY <1>1, <1>2 DEF TypeOK, CallsOK, Locations
<1>4. \A u \in Threads : pc'[u] \in WriteLocations => Current(u)' \in Records
  <2> SUFFICES ASSUME NEW u \in Threads, pc'[u] \in WriteLocations
               PROVE  Current(u)' \in Records
    OBVIOUS
  <2>1. CASE u = t
    <3>1. issued'[t] \in 1 .. MaxWrites[t]
      BY <1>1, AsyncSinkAssumption DEF TypeOK, CallsOK
    <3>2. Current(t)' = <<t, issued'[t]>>
      BY DEF Current
    <3>3. QED
      BY <1>1, <2>1, <3>1, <3>2 DEF Records
  <2>2. CASE u # t
    <3>1. pc'[u] = pc[u] /\ issued'[u] = issued[u]
      BY <1>1, <2>2 DEF TypeOK, CallsOK
    <3>2. QED
      BY <3>1 DEF TypeOK, CallsOK, Current
  <2>3. QED
    BY <2>1, <2>2
<1>5. CallsOK'
  BY <1>1, <1>3, <1>4 DEF TypeOK, CallsOK, Locations
<1>6. SleepersOK'
  BY <1>1 DEF TypeOK, CallsOK, SleepersOK, BeginWrite, sleepVars
<1>7. QED
  BY <1>5, <1>6, Untouched DEF TypeOK, BeginWrite, Goto

\* A step of Write.
LEMMA TypeWriteStep ==
    ASSUME TypeOK, OutstandingExact, NEW t \in Threads, WriteStep(t)
    PROVE  TypeOK'
<1> USE DEF TypeOK
<1>0. /\ depth \in [Threads -> Nat] /\ flushes \in [Threads -> Nat]
      /\ due \in [Threads -> [records : SUBSET Records, drops : Nat]]
      /\ workerAsleep \in BOOLEAN
      /\ t \in spaceWaiters => pc[t] = "space"
      /\ t \in flushWaiters => pc[t] = "flush"
  BY DEF CallsOK, SleepersOK
<1>1. CASE Enter(t)
  <2>1. CallsOK' /\ SleepersOK'
    BY <1>0, <1>1, Move
    DEF Enter, Goto, sleepVars, WriteLocations, Locations, localVars
  <2>2. QED
    BY <1>1, <2>1, Untouched DEF Enter, Goto
<1>2. CASE Reserve(t)
  <2>1. CallsOK' /\ SleepersOK'
    BY <1>0, <1>2, Move
    DEF Reserve, Goto, sleepVars, WriteLocations, Locations, localVars
  <2>2. ChannelOK'
    BY <1>2 DEF Reserve, ChannelOK
  <2>3. QED
    BY <1>2, <2>1, <2>2, Untouched DEF Reserve, Goto
<1>3. CASE TryEnqueue(t)
  <2>1. CallsOK' /\ SleepersOK'
    BY <1>0, <1>3, Move
    DEF TryEnqueue, Goto, sleepVars, WriteLocations, Locations, localVars
  <2>2. Current(t) \in Records
    BY <1>3 DEF TryEnqueue, Goto, CallsOK, WriteLocations
  <2>3. ChannelOK'
    BY <1>3, <2>2, AsyncSinkAssumption, SMTT(30) DEF TryEnqueue, HasRoom, ChannelOK
  <2>4. QED
    BY <1>3, <2>1, <2>3, Untouched DEF TryEnqueue, Goto
<1>4. CASE CountEnqueued(t)
  <2>0. depth' \in [Threads -> Nat]
    BY <1>0, <1>4 DEF CountEnqueued, ChannelOK
  <2>1. CallsOK' /\ SleepersOK'
    BY <1>0, <1>4, Move, <2>0
    DEF CountEnqueued, Goto, sleepVars, WriteLocations, Locations
  <2>2. CountsOK'
    BY <1>4 DEF CountEnqueued, CountsOK, StatsType
  <2>3. QED
    BY <1>4, <2>1, <2>2, Untouched DEF CountEnqueued, Goto
<1>5. CASE Publish(t)
  <2>1. CallsOK' /\ SleepersOK'
    BY <1>0, <1>5, Move
    DEF Publish, Goto, sleepVars, WriteLocations, Locations
  <2>2. CountsOK'
    BY <1>5, <1>0 DEF Publish, CountsOK, StatsType, UpdateHighWatermark
  <2>3. QED
    BY <1>5, <2>1, <2>2, Untouched DEF Publish, Goto
<1>6. CASE Unreserve(t)
  <2>1. CallsOK' /\ SleepersOK'
    BY <1>0, <1>6, Move
    DEF Unreserve, Goto, sleepVars, WriteLocations, Locations, localVars
  <2>2. outstanding - 1 \in Nat
    BY <1>6, CanRelease DEF Unreserve, Goto, HoldingLocations
  <2>3. ChannelOK'
    BY <1>6, <2>2 DEF Unreserve, ChannelOK
  <2>4. QED
    BY <1>6, <2>1, <2>3, Untouched DEF Unreserve, Goto
<1>7. CASE Refused(t)
  <2>0. AfterRefusal[options.policy] \in {"drop", "space", "fallback"}
    <3>1. options.policy \in {"DropNewest", "Block", "BlockForTimeout", "SyncFallback"}
      BY DEF LifeOK, ConfigurationType, Policies
    <3>2. QED
      BY <3>1 DEF AfterRefusal
  <2>1. CallsOK' /\ SleepersOK'
    BY <1>0, <1>7, Move, <2>0
    DEF Refused, Goto, sleepVars, WriteLocations, Locations, NotifyFlushWaiters, localVars
  <2>2. QED
    BY <1>7, <2>1, Untouched DEF Refused, Goto
<1>8. CASE SpaceRunning(t)
  <2>1. CallsOK' /\ SleepersOK'
    BY <1>0, <1>8, Move
    DEF SpaceRunning, Goto, sleepVars, WriteLocations, Locations, localVars
  <2>2. QED
    BY <1>8, <2>1, Untouched DEF SpaceRunning, Goto
<1>9. CASE SpaceFull(t)
  <2>1. CallsOK' /\ SleepersOK'
    BY <1>0, <1>9, Move
    DEF SpaceFull, Goto, sleepVars, WriteLocations, Locations, localVars
  <2>2. QED
    BY <1>9, <2>1, Untouched DEF SpaceFull, Goto
<1>10. CASE SpaceSleep(t)
  <2>1. CallsOK' /\ SleepersOK'
    BY <1>0, <1>10, Move
    DEF SpaceSleep, Goto, sleepVars, WriteLocations, Locations, localVars
  <2>2. QED
    BY <1>10, <2>1, Untouched DEF SpaceSleep, Goto
<1>11. CASE Timeout(t)
  <2>1. CallsOK' /\ SleepersOK'
    BY <1>0, <1>11, Move
    DEF Timeout, Goto, sleepVars, WriteLocations, Locations, localVars
  <2>2. QED
    BY <1>11, <2>1, Untouched DEF Timeout, Goto
<1>12. CASE Expired(t)
  <2>1. CallsOK' /\ SleepersOK'
    BY <1>0, <1>12, Move
    DEF Expired, Goto, sleepVars, WriteLocations, Locations, localVars, AfterExpiry
  <2>2. QED
    BY <1>12, <2>1, Untouched DEF Expired, Goto, localVars, AfterExpiry
<1>13. CASE RecordDrop(t)
  <2>1. CallsOK' /\ SleepersOK'
    BY <1>0, <1>13, Move
    DEF RecordDrop, Goto, sleepVars, WriteLocations, Locations, localVars
  <2>2. CountsOK'
    BY <1>13 DEF RecordDrop, CountsOK, StatsType
  <2>3. QED
    BY <1>13, <2>1, <2>2, Untouched DEF RecordDrop, Goto
<1>14. CASE RecordUnreported(t)
  <2>1. CallsOK' /\ SleepersOK'
    BY <1>0, <1>14, Move
    DEF RecordUnreported, Goto, sleepVars, WriteLocations, Locations, localVars
  <2>2. CountsOK'
    BY <1>14 DEF RecordUnreported, CountsOK, StatsType
  <2>3. QED
    BY <1>14, <2>1, <2>2, Untouched DEF RecordUnreported, Goto
<1>15. CASE Fallback(t)
  <2>1. CallsOK' /\ SleepersOK'
    BY <1>0, <1>15, Move
    DEF Fallback, Goto, sleepVars, WriteLocations, Locations, localVars
  <2>2. ChannelOK'
    BY <1>15 DEF Fallback, ChannelOK
  <2>3. CountsOK'
    BY <1>15 DEF Fallback, CountsOK, StatsType
  <2>4. QED
    BY <1>15, <2>1, <2>2, <2>3, Untouched DEF Fallback, Goto
<1>16. CASE FallbackDeliver(t)
  <2>1. CallsOK' /\ SleepersOK'
    BY <1>0, <1>16, Move
    DEF FallbackDeliver, Goto, sleepVars, WriteLocations, Locations, localVars
  <2>2. Current(t) \in Records
    BY <1>16 DEF FallbackDeliver, Goto, CallsOK, WriteLocations
  <2>3. SinkOK'
    BY <1>16, <2>2 DEF FallbackDeliver, SinkOK, Deliver
  <2>4. CountsOK'
    BY <1>16 DEF FallbackDeliver, CountsOK, StatsType, Deliver
  <2>5. QED
    BY <1>16, <2>1, <2>3, <2>4, Untouched DEF FallbackDeliver, Goto
<1>17. CASE FallbackRelease(t)
  <2>1. CallsOK' /\ SleepersOK'
    BY <1>0, <1>17, Move
    DEF FallbackRelease, Goto, sleepVars, WriteLocations, Locations, localVars
  <2>2. outstanding - 1 \in Nat
    BY <1>17, CanRelease DEF FallbackRelease, Goto, HoldingLocations
  <2>3. ChannelOK'
    BY <1>17, <2>2 DEF FallbackRelease, ChannelOK
  <2>4. QED
    BY <1>17, <2>1, <2>3, Untouched DEF FallbackRelease, Goto
<1>18. CASE FallbackNotify(t)
  <2>1. CallsOK' /\ SleepersOK'
    BY <1>0, <1>18, Move
    DEF FallbackNotify, Goto, sleepVars, WriteLocations, Locations, NotifyFlushWaiters,
        localVars
  <2>2. QED
    BY <1>18, <2>1, Untouched DEF FallbackNotify, Goto
<1>19. QED
  BY <1>1, <1>2, <1>3, <1>4, <1>5, <1>6, <1>7, <1>8, <1>9, <1>10, <1>11, <1>12, <1>13, <1>14, <1>15, <1>16, <1>17, <1>18 DEF WriteStep

\* What a Flush has to cover is a set of records and a number.
LEMMA AcceptedType ==
    ASSUME TypeOK
    PROVE  AcceptedSoFar \in [records : SUBSET Records, drops : Nat]
<1>1. Members(hand) \subseteq Records /\ Members(queue) \subseteq Records
  BY DEF TypeOK, WorkerOK, ChannelOK, Members
<1>2. sinkReported + unreported \in Nat
  BY DEF TypeOK, SinkOK, CountsOK
<1> DEFINE r == Members(hand) \cup Members(queue)
           d == sinkReported + unreported
<1>3. r \in SUBSET Records /\ d \in Nat
  BY <1>1, <1>2
<1>4. AcceptedSoFar = [records |-> r, drops |-> d]
  BY DEF AcceptedSoFar
<1> HIDE DEF r, d
<1>5. QED
  BY <1>3, <1>4

\* A step of Flush, and a spurious wakeup.
LEMMA TypeFlushStep ==
    ASSUME TypeOK, NEW t \in Threads,
           BeginFlush(t) \/ FlushStep(t) \/ SpuriousWake(t)
    PROVE  TypeOK'
<1> USE DEF TypeOK
<1>0. /\ depth \in [Threads -> Nat] /\ flushes \in [Threads -> Nat]
      /\ due \in [Threads -> [records : SUBSET Records, drops : Nat]]
      /\ workerAsleep \in BOOLEAN
      /\ t \in spaceWaiters => pc[t] = "space"
      /\ t \in flushWaiters => pc[t] = "flush"
  BY DEF CallsOK, SleepersOK
<1>1. CASE BeginFlush(t)
  <2> DEFINE to == "flush"
  <2>a. to \in Locations /\ to \notin WriteLocations
    BY DEF Locations, FlushLocations, WriteLocations
  <2>b. Goto(t, "ready", to)
    BY <1>1 DEF BeginFlush
  <2>1. /\ flushes' \in [Threads -> Nat]
        /\ due' \in [Threads -> [records : SUBSET Records, drops : Nat]]
    BY <1>0, <1>1, AcceptedType DEF BeginFlush
  <2>2. CallsOK' /\ SleepersOK'
    BY <1>0, <1>1, <2>1, <2>a, <2>b, Move
    DEF BeginFlush, Goto, sleepVars
  <2>3. QED
    BY <1>1, <2>2, Untouched DEF BeginFlush, Goto
<1>2. CASE FlushCheck(t)
  <2> DEFINE to == IF Quiescent THEN "flush_report" ELSE "flush_sleep"
  <2>a. to \in Locations /\ to \notin WriteLocations
    BY DEF Locations, FlushLocations, WriteLocations
  <2>b. Goto(t, "flush", to)
    BY <1>2 DEF FlushCheck
  <2>1. CallsOK' /\ SleepersOK'
    BY <1>0, <1>2, <2>a, <2>b, Move
    DEF FlushCheck, Goto, sleepVars, localVars
  <2>2. QED
    BY <1>2, <2>1, Untouched DEF FlushCheck, Goto
<1>3. CASE FlushSleep(t)
  <2> DEFINE to == "flush"
  <2>a. to \in Locations /\ to \notin WriteLocations
    BY DEF Locations, FlushLocations, WriteLocations
  <2>b. Goto(t, "flush_sleep", to)
    BY <1>3 DEF FlushSleep
  <2>1. CallsOK' /\ SleepersOK'
    BY <1>0, <1>3, <2>a, <2>b, Move
    DEF FlushSleep, Goto, sleepVars, localVars
  <2>2. QED
    BY <1>3, <2>1, Untouched DEF FlushSleep, Goto
<1>4. CASE FlushReport(t)
  <2> DEFINE to == "flush_sink"
  <2>a. to \in Locations /\ to \notin WriteLocations
    BY DEF Locations, FlushLocations, WriteLocations
  <2>b. Goto(t, "flush_report", to)
    BY <1>4 DEF FlushReport
  <2>1. CallsOK' /\ SleepersOK'
    BY <1>0, <1>4, <2>a, <2>b, Move
    DEF FlushReport, Goto, sleepVars, localVars
  <2>2. CountsOK' /\ SinkOK'
    BY <1>4 DEF FlushReport, EmitDropReport, CountsOK, SinkOK
  <2>3. QED
    BY <1>4, <2>1, <2>2, Untouched DEF FlushReport, Goto
<1>5. CASE FlushReturn(t)
  <2> DEFINE to == "ready"
  <2>a. to \in Locations /\ to \notin WriteLocations
    BY DEF Locations, FlushLocations, WriteLocations
  <2>b. Goto(t, "flush_sink", to)
    BY <1>5 DEF FlushReturn
  <2>1. due' \in [Threads -> [records : SUBSET Records, drops : Nat]]
    BY <1>0, <1>5 DEF FlushReturn, NothingDue
  <2>2. CallsOK' /\ SleepersOK'
    BY <1>0, <1>5, <2>1, <2>a, <2>b, Move
    DEF FlushReturn, Goto, sleepVars
  <2>3. SinkOK'
    BY <1>5 DEF FlushReturn, FlushWrappedSink, SinkOK
  <2>4. QED
    BY <1>5, <2>2, <2>3, Untouched DEF FlushReturn, Goto
<1>6. CASE SpuriousWake(t)
  <2>1. SleepersOK'
    BY <1>6 DEF SpuriousWake, SleepersOK, callVars
  <2>2. QED
    BY <1>6, <2>1, Untouched DEF SpuriousWake
<1>7. QED
  BY <1>1, <1>2, <1>3, <1>4, <1>5, <1>6 DEF FlushStep

\* A step of the worker leaves the calls alone and wakes threads at most.
LEMMA TypeWorkerStep ==
    ASSUME TypeOK, OutstandingExact, WorkerStep
    PROVE  TypeOK'
<1> USE DEF TypeOK
<1>1. SleepersOK'
  <2>1. UNCHANGED callVars /\ workerAsleep' \in BOOLEAN
        /\ spaceWaiters' \subseteq spaceWaiters /\ flushWaiters' \subseteq flushWaiters
    BY DEF WorkerStep, WorkerLoop, WorkerDrain, WorkerDeliver, WorkerRelease,
           WorkerSpaceNotify, WorkerReport, WorkerNotify, WorkerIdle, WorkerDoze,
           WorkerTimeout, WorkerExitReport, WorkerExitFlush, WorkerExitNotify,
           NotifyFlushWaiters, sleepVars, SleepersOK, WorkerGoto
  <2>2. QED
    BY <2>1 DEF SleepersOK, callVars
<1>2. CASE WorkerLoop
  <2>1. WorkerOK'
    BY <1>2 DEF WorkerLoop, WorkerGoto, WorkerOK, WorkerLocations
  <2>2. QED
    BY <1>1, <1>2, <2>1, Untouched DEF WorkerLoop, WorkerGoto
<1>3. CASE WorkerDrain
  <2>1. ASSUME drained < BatchSize, queue # <<>> PROVE WorkerOK' /\ ChannelOK'
    <3>1. /\ hand' = <<Head(queue)>> /\ queue' = Tail(queue)
          /\ wpc' = "deliver" /\ UNCHANGED <<drained, outstanding>>
      BY <1>3, <2>1 DEF WorkerDrain, WorkerGoto
    <3>2. Head(queue) \in Records /\ queue' \in Seq(Records) /\ Len(queue') <= QueueCapacity
      BY <2>1, <3>1, AsyncSinkAssumption DEF ChannelOK
    <3>3. QED
      BY <3>1, <3>2 DEF ChannelOK, WorkerOK, WorkerLocations
  <2>2. ASSUME ~(drained < BatchSize /\ queue # <<>>) PROVE WorkerOK' /\ ChannelOK'
    BY <1>3, <2>2 DEF WorkerDrain, WorkerGoto, ChannelOK, WorkerOK, WorkerLocations
  <2>3. WorkerOK' /\ ChannelOK'
    BY <2>1, <2>2
  <2>4. QED
    BY <1>1, <1>3, <2>3, Untouched DEF WorkerDrain, WorkerGoto
<1>4. CASE WorkerDeliver
  <2>1. WorkerOK'
    BY <1>4 DEF WorkerDeliver, WorkerGoto, WorkerOK, WorkerLocations
  <2>2. CountsOK'
    <3>1. stats' = stats \/ stats' = [stats EXCEPT !.delivered = @ + 1]
      BY <1>4 DEF WorkerDeliver, Deliver
    <3>2. unreported' = unreported
      BY <1>4 DEF WorkerDeliver
    <3>3. QED
      BY <3>1, <3>2 DEF CountsOK, StatsType
  <2>3. hand[1] \in Records
    BY <1>4 DEF WorkerDeliver, WorkerGoto, WorkerOK
  <2>4. SinkOK'
    BY <1>4, <2>3 DEF WorkerDeliver, SinkOK, Deliver
  <2>5. QED
    BY <1>1, <1>4, <2>1, <2>2, <2>4, Untouched DEF WorkerDeliver, WorkerGoto
<1>5. CASE WorkerRelease
  <2>1. outstanding - 1 \in Nat
    BY <1>5, CanRelease DEF WorkerRelease, WorkerGoto
  <2>2. WorkerOK'
    BY <1>5 DEF WorkerRelease, WorkerGoto, WorkerOK, WorkerLocations
  <2>3. ChannelOK'
    BY <1>5, <2>1 DEF WorkerRelease, ChannelOK
  <2>4. QED
    BY <1>1, <1>5, <2>2, <2>3, Untouched DEF WorkerRelease, WorkerGoto
<1>6. CASE WorkerSpaceNotify
  <2>1. WorkerOK'
    BY <1>6 DEF WorkerSpaceNotify, WorkerGoto, WorkerOK, WorkerLocations
  <2>2. QED
    BY <1>1, <1>6, <2>1, Untouched DEF WorkerSpaceNotify, WorkerGoto
<1>7. CASE WorkerReport
  <2>1. WorkerOK'
    BY <1>7 DEF WorkerReport, WorkerGoto, WorkerOK, WorkerLocations
  <2>2. CountsOK'
    BY <1>7 DEF WorkerReport, CountsOK, EmitDropReport
  <2>3. SinkOK'
    BY <1>7 DEF WorkerReport, SinkOK, CountsOK, EmitDropReport
  <2>4. QED
    BY <1>1, <1>7, <2>1, <2>2, <2>3, Untouched DEF WorkerReport, WorkerGoto
<1>8. CASE WorkerNotify
  <2>1. WorkerOK'
    BY <1>8 DEF WorkerNotify, WorkerGoto, WorkerOK, WorkerLocations
  <2>2. QED
    BY <1>1, <1>8, <2>1, Untouched DEF WorkerNotify, WorkerGoto
<1>9. CASE WorkerIdle
  <2>1. WorkerOK'
    BY <1>9 DEF WorkerIdle, WorkerGoto, WorkerOK, WorkerLocations
  <2>2. QED
    BY <1>1, <1>9, <2>1, Untouched DEF WorkerIdle, WorkerGoto
<1>10. CASE WorkerDoze
  <2>1. WorkerOK'
    BY <1>10 DEF WorkerDoze, WorkerGoto, WorkerOK, WorkerLocations
  <2>2. QED
    BY <1>1, <1>10, <2>1, Untouched DEF WorkerDoze, WorkerGoto
<1>11. CASE WorkerTimeout
  <2>1. WorkerOK'
    BY <1>11 DEF WorkerTimeout, WorkerGoto, WorkerOK, WorkerLocations
  <2>2. QED
    BY <1>1, <1>11, <2>1, Untouched DEF WorkerTimeout, WorkerGoto
<1>12. CASE WorkerExitReport
  <2>1. WorkerOK'
    BY <1>12 DEF WorkerExitReport, WorkerGoto, WorkerOK, WorkerLocations
  <2>2. CountsOK'
    BY <1>12 DEF WorkerExitReport, CountsOK, EmitDropReport
  <2>3. SinkOK'
    BY <1>12 DEF WorkerExitReport, SinkOK, CountsOK, EmitDropReport
  <2>4. QED
    BY <1>1, <1>12, <2>1, <2>2, <2>3, Untouched DEF WorkerExitReport, WorkerGoto
<1>13. CASE WorkerExitFlush
  <2>1. WorkerOK'
    BY <1>13 DEF WorkerExitFlush, WorkerGoto, WorkerOK, WorkerLocations
  <2>2. SinkOK'
    BY <1>13 DEF WorkerExitFlush, SinkOK, FlushWrappedSink
  <2>3. QED
    BY <1>1, <1>13, <2>1, <2>2, Untouched DEF WorkerExitFlush, WorkerGoto
<1>14. CASE WorkerExitNotify
  <2>1. WorkerOK'
    BY <1>14 DEF WorkerExitNotify, WorkerGoto, WorkerOK, WorkerLocations
  <2>2. QED
    BY <1>1, <1>14, <2>1, Untouched DEF WorkerExitNotify, WorkerGoto
<1>15. QED
  BY <1>2, <1>3, <1>4, <1>5, <1>6, <1>7, <1>8, <1>9, <1>10, <1>11, <1>12, <1>13, <1>14 DEF WorkerStep

\* A step of the destructor.
LEMMA TypeShutdownStep ==
    ASSUME TypeOK, StartShutdown \/ ShutdownStep
    PROVE  TypeOK'
<1> USE DEF TypeOK
<1>1. LifeOK'
  BY DEF StartShutdown, ShutdownStep, ShutdownWake, ShutdownSpace, ShutdownJoin, LifeOK
<1>2. SleepersOK'
  BY DEF StartShutdown, ShutdownStep, ShutdownWake, ShutdownSpace, ShutdownJoin,
         SleepersOK, callVars, sleepVars
<1>3. QED
  BY <1>1, <1>2, Untouched
  DEF StartShutdown, ShutdownStep, ShutdownWake, ShutdownSpace, ShutdownJoin

\* The initial states.
LEMMA TypeInit == Init => TypeOK
<1> SUFFICES ASSUME Init PROVE TypeOK
  OBVIOUS
<1>1. LifeOK
  BY AsyncSinkAssumption DEF Init, LifeOK
<1>2. ChannelOK
  BY AsyncSinkAssumption DEF Init, ChannelOK
<1>3. CountsOK
  BY DEF Init, CountsOK, StatsType
<1>4. NothingDue \in [records : SUBSET Records, drops : Nat]
  BY DEF NothingDue
<1>5. CallsOK
  BY <1>4 DEF Init, CallsOK, WriteLocations
<1>6. SleepersOK
  BY DEF Init, SleepersOK
<1>7. WorkerOK
  BY DEF Init, WorkerOK, WorkerLocations
<1>8. SinkOK
  BY DEF Init, SinkOK
<1>9. QED
  BY <1>1, <1>2, <1>3, <1>5, <1>6, <1>7, <1>8 DEF TypeOK

-----------------------------------------------------------------------------
(* m_outstanding.                                                          *)

\* Thread t moves between two locations that do not hold a count, or two that do.
LEMMA HoldingKept ==
    ASSUME TypeOK, NEW t \in Threads, NEW from, NEW to, Goto(t, from, to),
           from \in HoldingLocations <=> to \in HoldingLocations
    PROVE  Holding' = Holding
<1>1. \A u \in Threads : pc'[u] = IF u = t THEN to ELSE pc[u]
  BY DEF TypeOK, CallsOK, Goto
<1>2. pc[t] = from
  BY DEF Goto
<1>3. QED
  BY <1>1, <1>2 DEF Holding

\* Thread t takes a count.
LEMMA HoldingGained ==
    ASSUME TypeOK, NEW t \in Threads, NEW from, NEW to, Goto(t, from, to),
           from \notin HoldingLocations, to \in HoldingLocations
    PROVE  Cardinality(Holding') = Cardinality(Holding) + 1
<1>1. \A u \in Threads : pc'[u] = IF u = t THEN to ELSE pc[u]
  BY DEF TypeOK, CallsOK, Goto
<1>2. t \notin Holding /\ Holding' = Holding \cup {t}
  BY <1>1 DEF Holding, Goto
<1>3. QED
  BY <1>2, HoldingFinite, FS_AddElement

\* Thread t gives a count back, or hands it over with the record.
LEMMA HoldingLost ==
    ASSUME TypeOK, NEW t \in Threads, NEW from, NEW to, Goto(t, from, to),
           from \in HoldingLocations, to \notin HoldingLocations
    PROVE  Cardinality(Holding') = Cardinality(Holding) - 1
<1>1. \A u \in Threads : pc'[u] = IF u = t THEN to ELSE pc[u]
  BY DEF TypeOK, CallsOK, Goto
<1>2. t \in Holding /\ Holding' = Holding \ {t}
  BY <1>1 DEF Holding, Goto
<1>3. QED
  BY <1>2, HoldingFinite, FS_RemoveElement

\* A step of Write keeps the count exact.
LEMMA CountWriteStep ==
    ASSUME TypeOK, OutstandingExact, NEW t \in Threads, BeginWrite(t) \/ WriteStep(t)
    PROVE  OutstandingExact'
<1>0. Len(queue) \in Nat /\ outstanding \in Nat /\ Cardinality(Holding) \in Nat
  BY HoldingFinite DEF TypeOK, ChannelOK
<1> USE DEF OutstandingExact
<1>1. CASE \/ BeginWrite(t) \/ Enter(t) \/ CountEnqueued(t) \/ Publish(t) \/ Refused(t)
           \/ SpaceRunning(t) \/ SpaceFull(t) \/ SpaceSleep(t) \/ Timeout(t) \/ Expired(t)
           \/ RecordDrop(t) \/ RecordUnreported(t) \/ FallbackNotify(t)
  <2>1. AfterRefusal[options.policy] \notin HoldingLocations
    <3>1. options.policy \in {"DropNewest", "Block", "BlockForTimeout", "SyncFallback"}
      BY DEF TypeOK, LifeOK, ConfigurationType, Policies
    <3>2. QED
      BY <3>1 DEF AfterRefusal, HoldingLocations
  <2>2. \E from, to : /\ Goto(t, from, to)
                      /\ from \notin HoldingLocations /\ to \notin HoldingLocations
    <3>1. CASE BeginWrite(t)
      BY <3>1 DEF BeginWrite, HoldingLocations
    <3>2. CASE Enter(t)
      BY <3>2 DEF Enter, HoldingLocations
    <3>3. CASE Refused(t)
      BY <2>1, <3>3 DEF Refused, HoldingLocations
    <3>4. CASE SpaceRunning(t) \/ SpaceFull(t) \/ Expired(t)
      BY <3>4 DEF SpaceRunning, SpaceFull, Expired, AfterExpiry, HoldingLocations
    <3>5. CASE \/ CountEnqueued(t) \/ Publish(t) \/ SpaceSleep(t) \/ Timeout(t)
               \/ RecordDrop(t) \/ RecordUnreported(t) \/ FallbackNotify(t)
      BY <3>5 DEF CountEnqueued, Publish, SpaceSleep, Timeout, RecordDrop,
                  RecordUnreported, FallbackNotify, HoldingLocations
    <3>6. QED
      BY <1>1, <3>1, <3>2, <3>3, <3>4, <3>5
  <2>3. Holding' = Holding
    BY <2>2, HoldingKept
  <2>4. UNCHANGED <<queue, outstanding, wpc>>
    BY <1>1 DEF BeginWrite, Enter, CountEnqueued, Publish, Refused, SpaceRunning, SpaceFull,
                SpaceSleep, Timeout, Expired, RecordDrop, RecordUnreported, FallbackNotify,
                Goto, channelVars, workerVars
  <2>5. QED
    BY <2>3, <2>4
<1>2. CASE Reserve(t)
  <2>1. Goto(t, "reserve", "try")
    BY <1>2 DEF Reserve
  <2>2. Cardinality(Holding') = Cardinality(Holding) + 1
    BY <2>1, HoldingGained DEF HoldingLocations
  <2>3. QED
    BY <1>0, <1>2, <2>2 DEF Reserve, workerVars, Goto, localVars
<1>3. CASE TryEnqueue(t)
  <2>1. CASE HasRoom
    <3>1. Goto(t, "try", "count") /\ queue' = Append(queue, Current(t))
      BY <1>3, <2>1 DEF TryEnqueue
    <3>2. Cardinality(Holding') = Cardinality(Holding) - 1
      BY <3>1, HoldingLost DEF HoldingLocations
    <3>3. Len(queue') = Len(queue) + 1
      BY <3>1 DEF TypeOK, ChannelOK
    <3>4. QED
      BY <1>0, <1>3, <3>2, <3>3 DEF TryEnqueue, workerVars, Goto, localVars
  <2>2. CASE ~HasRoom
    <3>1. Goto(t, "try", "unreserve") /\ queue' = queue
      BY <1>3, <2>2 DEF TryEnqueue
    <3>2. Holding' = Holding
      BY <3>1, HoldingKept DEF HoldingLocations
    <3>3. QED
      BY <1>3, <3>1, <3>2 DEF TryEnqueue, workerVars, Goto, localVars
  <2>3. QED
    BY <2>1, <2>2
<1>4. CASE Unreserve(t)
  <2>1. Goto(t, "unreserve", "refused")
    BY <1>4 DEF Unreserve
  <2>2. Cardinality(Holding') = Cardinality(Holding) - 1
    BY <2>1, HoldingLost DEF HoldingLocations
  <2>3. QED
    BY <1>0, <1>4, <2>2 DEF Unreserve, workerVars, Goto, localVars
<1>5. CASE Fallback(t)
  <2>1. Goto(t, "fallback", "fallback_deliver")
    BY <1>5 DEF Fallback
  <2>2. Cardinality(Holding') = Cardinality(Holding) + 1
    BY <2>1, HoldingGained DEF HoldingLocations
  <2>3. QED
    BY <1>0, <1>5, <2>2 DEF Fallback, workerVars, Goto, localVars
<1>6. CASE FallbackDeliver(t)
  <2> DEFINE to == "fallback_release"
  <2>1. "fallback_deliver" \in HoldingLocations <=> to \in HoldingLocations
    BY DEF HoldingLocations
  <2>2. Goto(t, "fallback_deliver", to)
    BY <1>6 DEF FallbackDeliver
  <2>3. Holding' = Holding
    BY <2>1, <2>2, HoldingKept
  <2>4. QED
    BY <1>6, <2>3 DEF FallbackDeliver, channelVars, workerVars, Goto, localVars
<1>7. CASE FallbackRelease(t)
  <2>1. Goto(t, "fallback_release", "fallback_notify")
    BY <1>7 DEF FallbackRelease
  <2>2. Cardinality(Holding') = Cardinality(Holding) - 1
    BY <2>1, HoldingLost DEF HoldingLocations
  <2>3. QED
    BY <1>0, <1>7, <2>2 DEF FallbackRelease, workerVars, Goto, localVars
<1>8. QED
  BY <1>1, <1>2, <1>3, <1>4, <1>5, <1>6, <1>7 DEF WriteStep

\* A step of Flush, of the worker or of the destructor keeps it exact.
LEMMA CountOtherStep ==
    ASSUME TypeOK, OutstandingExact,
           \/ \E t \in Threads : BeginFlush(t) \/ FlushStep(t) \/ SpuriousWake(t)
           \/ WorkerStep \/ StartShutdown \/ ShutdownStep
    PROVE  OutstandingExact'
<1>0. Len(queue) \in Nat /\ outstanding \in Nat /\ Cardinality(Holding) \in Nat
  BY HoldingFinite DEF TypeOK, ChannelOK
<1> USE DEF OutstandingExact
<1>1. ASSUME NEW t \in Threads, BeginFlush(t) \/ FlushStep(t) PROVE OutstandingExact'
  <2>1. PICK from \in {"ready", "flush", "flush_sleep", "flush_report", "flush_sink"},
             to \in {"ready", "flush", "flush_sleep", "flush_report", "flush_sink"} :
                Goto(t, from, to)
    BY <1>1 DEF BeginFlush, FlushStep, FlushCheck, FlushSleep, FlushReport, FlushReturn
  <2>2. Holding' = Holding
    BY <2>1, HoldingKept DEF HoldingLocations
  <2>3. UNCHANGED <<queue, outstanding, wpc>>
    BY <1>1 DEF BeginFlush, FlushStep, FlushCheck, FlushSleep, FlushReport, FlushReturn,
                channelVars, workerVars, Goto, localVars
  <2>4. QED
    BY <2>2, <2>3
<1>2. ASSUME NEW t \in Threads, SpuriousWake(t) PROVE OutstandingExact'
  <2>1. UNCHANGED <<pc, queue, outstanding, wpc>>
    BY <1>2 DEF SpuriousWake, channelVars, workerVars, callVars
  <2>2. Holding' = Holding
    BY <2>1 DEF Holding
  <2>3. QED
    BY <2>1, <2>2
<1>3. CASE StartShutdown \/ ShutdownStep
  BY <1>3 DEF StartShutdown, ShutdownStep, ShutdownWake, ShutdownSpace, ShutdownJoin,
              channelVars, workerVars, callVars, Holding
<1>4. CASE WorkerStep
  <2>0. Holding' = Holding
    BY <1>4 DEF WorkerStep, WorkerLoop, WorkerDrain, WorkerDeliver, WorkerRelease,
                WorkerSpaceNotify, WorkerReport, WorkerNotify, WorkerIdle, WorkerDoze,
                WorkerTimeout, WorkerExitReport, WorkerExitFlush, WorkerExitNotify,
                callVars, Holding, WorkerGoto, localVars
  <2>1. CASE WorkerDrain
    <3>1. CASE drained < BatchSize /\ queue # <<>>
      <4>1. queue' = Tail(queue)
        BY <2>1, <3>1 DEF WorkerDrain
      <4>2. outstanding' = outstanding /\ wpc = "drain" /\ wpc' = "deliver"
        BY <2>1, <3>1 DEF WorkerDrain, WorkerGoto
      <4>3. Len(queue') = Len(queue) - 1
        BY <3>1, <4>1 DEF TypeOK, ChannelOK
      <4>4. QED
        BY <1>0, <2>0, <4>2, <4>3
    <3>2. CASE ~(drained < BatchSize /\ queue # <<>>)
      <4>1. /\ queue' = queue /\ outstanding' = outstanding
            /\ wpc = "drain" /\ wpc' = "report"
        BY <2>1, <3>2 DEF WorkerDrain, WorkerGoto
      <4>2. QED
        BY <2>0, <4>1
    <3>3. QED
      BY <3>1, <3>2
  <2>2. CASE WorkerRelease
    BY <1>0, <2>0, <2>2 DEF WorkerRelease, WorkerGoto
  <2>3. CASE WorkerLoop \/ WorkerDeliver \/ WorkerSpaceNotify \/ WorkerReport \/ WorkerNotify
             \/ WorkerIdle \/ WorkerDoze \/ WorkerTimeout
             \/ WorkerExitReport \/ WorkerExitFlush \/ WorkerExitNotify
    BY <2>0, <2>3 DEF WorkerLoop, WorkerDeliver, WorkerSpaceNotify, WorkerReport,
           WorkerNotify, WorkerIdle, WorkerDoze, WorkerTimeout, WorkerExitReport,
           WorkerExitFlush, WorkerExitNotify, WorkerGoto, channelVars
  <2>4. QED
    BY <1>4, <2>1, <2>2, <2>3 DEF WorkerStep
<1>5. QED
  BY <1>1, <1>2, <1>3, <1>4

\* Types and the count together are inductive: m_outstanding stays a natural number
\* because it is exact, and Flush may rely on it whatever the threads do.
THEOREM TypesAndCount == Spec => [](TypeOK /\ OutstandingExact)
<1>1. Init => TypeOK /\ OutstandingExact
  <2> SUFFICES ASSUME Init PROVE OutstandingExact
    BY TypeInit
  <2>1. Holding = {}
    BY DEF Init, Holding, HoldingLocations
  <2>2. Cardinality(Holding) = 0
    BY <2>1, FS_EmptySet
  <2>3. QED
    BY <2>2 DEF Init, OutstandingExact
<1>2. TypeOK /\ OutstandingExact /\ [Next]_vars => (TypeOK /\ OutstandingExact)'
  <2> SUFFICES ASSUME TypeOK, OutstandingExact, [Next]_vars
               PROVE  TypeOK' /\ OutstandingExact'
    OBVIOUS
  <2>1. ASSUME NEW t \in Threads, BeginWrite(t) PROVE TypeOK' /\ OutstandingExact'
    BY <2>1, TypeBeginWrite, CountWriteStep
  <2>2. ASSUME NEW t \in Threads, WriteStep(t) PROVE TypeOK' /\ OutstandingExact'
    BY <2>2, TypeWriteStep, CountWriteStep
  <2>3. ASSUME NEW t \in Threads, BeginFlush(t) \/ FlushStep(t) \/ SpuriousWake(t)
        PROVE  TypeOK' /\ OutstandingExact'
    BY <2>3, TypeFlushStep, CountOtherStep
  <2>4. CASE WorkerStep
    BY <2>4, TypeWorkerStep, CountOtherStep
  <2>5. CASE StartShutdown \/ ShutdownStep
    BY <2>5, TypeShutdownStep, CountOtherStep
  <2>6. CASE UNCHANGED vars
    <3>1. TypeOK'
      BY <2>6, Untouched DEF TypeOK, vars, callVars
    <3>2. UNCHANGED <<pc, queue, outstanding, wpc>>
      BY <2>6 DEF vars, callVars, channelVars, workerVars
    <3>3. Holding' = Holding
      BY <3>2 DEF Holding
    <3>4. OutstandingExact'
      BY <3>2, <3>3 DEF OutstandingExact
    <3>5. QED
      BY <3>1, <3>4
  <2>7. QED
    BY <2>1, <2>2, <2>3, <2>4, <2>5, <2>6 DEF Next, CallStep
<1>3. QED
  BY <1>1, <1>2, PTL DEF Spec

\* The two parts by the names the runs check.
COROLLARY TypeCorrect == Spec => []TypeOK
BY TypesAndCount, PTL

COROLLARY OutstandingIsExact == Spec => []OutstandingExact
BY TypesAndCount, PTL

-----------------------------------------------------------------------------
(* Flush.                                                                  *)

\* Members of the sequences the steps build.
LEMMA MembersFacts ==
    ASSUME NEW S, NEW s \in Seq(S), NEW e
    PROVE  /\ Members(<<>>) = {} /\ Members(<<e>>) = {e}
           /\ Members(s) \cup {e} \subseteq Members(Append(s, e))
           /\ s # <<>> => Members(s) \subseteq {Head(s)} \cup Members(Tail(s))
<1>1. Members(<<>>) = {} /\ Members(<<e>>) = {e}
  BY DEF Members
<1>2. Members(s) \cup {e} \subseteq Members(Append(s, e))
  <2>1. /\ Len(Append(s, e)) = Len(s) + 1 /\ Len(s) \in Nat
        /\ Append(s, e)[Len(s) + 1] = e
        /\ \A i \in 1 .. Len(s) : Append(s, e)[i] = s[i]
    OBVIOUS
  <2>2. Len(s) + 1 \in 1 .. Len(Append(s, e))
        /\ \A i \in 1 .. Len(s) : i \in 1 .. Len(Append(s, e))
    BY <2>1
  <2>3. QED
    BY <2>1, <2>2 DEF Members
<1>3. ASSUME s # <<>> PROVE Members(s) \subseteq {Head(s)} \cup Members(Tail(s))
  <2> SUFFICES ASSUME NEW i \in 1 .. Len(s) PROVE s[i] \in {Head(s)} \cup Members(Tail(s))
    BY DEF Members
  <2>1. CASE i = 1
    BY <1>3, <2>1
  <2>2. CASE i # 1
    <3>1. i - 1 \in 1 .. Len(Tail(s)) /\ Tail(s)[i - 1] = s[i]
      BY <1>3, <2>2
    <3>2. QED
      BY <3>1 DEF Members
  <2>3. QED
    BY <2>1, <2>2
<1>4. QED
  BY <1>1, <1>2, <1>3

OnTheWay == Members(sinkRecords) \cup Members(hand) \cup Members(queue)

\* What a step may do to the records on their way and to the drops counted.
WayGrows ==
    /\ OnTheWay \subseteq OnTheWay'
    /\ Members(sinkRecords) \subseteq Members(sinkRecords')
DropsGrow ==
    /\ sinkReported + unreported <= sinkReported' + unreported'
    /\ sinkReported <= sinkReported'

\* No step takes a record off its way to the wrapped sink.
LEMMA WayOnlyGrows ==
    ASSUME TypeOK, options.hasSink, [Next]_vars
    PROVE  WayGrows
<1> USE DEF WayGrows, OnTheWay
<1>1. /\ queue \in Seq(Records) /\ hand \in Seq(Records) /\ sinkRecords \in Seq(Records)
      /\ Len(hand) = (IF wpc = "deliver" THEN 1 ELSE 0)
  BY DEF TypeOK, ChannelOK, WorkerOK, SinkOK
<1>2. ASSUME NEW t \in Threads, TryEnqueue(t) PROVE WayGrows
  <2>1. /\ hand' = hand /\ sinkRecords' = sinkRecords
        /\ queue' = queue \/ queue' = Append(queue, Current(t))
    BY <1>2 DEF TryEnqueue, workerVars, sinkVars, Goto, localVars
  <2>2. Members(queue) \subseteq Members(Append(queue, Current(t)))
    BY <1>1, MembersFacts
  <2>3. QED
    BY <2>1, <2>2
<1>3. ASSUME NEW t \in Threads, FallbackDeliver(t) PROVE WayGrows
  <2>1. /\ hand' = hand /\ queue' = queue
        /\ sinkRecords' = Append(sinkRecords, Current(t))
    BY <1>3 DEF FallbackDeliver, Deliver, workerVars, channelVars, Goto, localVars
  <2>2. Members(sinkRecords) \subseteq Members(sinkRecords')
    BY <1>1, <2>1, MembersFacts
  <2>3. QED
    BY <2>1, <2>2
<1>4. CASE WorkerDrain
  <2>1. CASE drained < BatchSize /\ queue # <<>>
    <3>1. /\ hand' = <<Head(queue)>> /\ queue' = Tail(queue)
          /\ sinkRecords' = sinkRecords /\ Len(hand) = 0
      BY <1>1, <1>4, <2>1 DEF WorkerDrain, WorkerGoto, sinkVars
    <3>2. Members(queue) \subseteq Members(hand') \cup Members(queue')
      BY <1>1, <2>1, <3>1, MembersFacts
    <3>3. Members(hand) = {}
      BY <3>1 DEF Members
    <3>4. QED
      BY <3>1, <3>2, <3>3
  <2>2. CASE ~(drained < BatchSize /\ queue # <<>>)
    BY <1>4, <2>2 DEF WorkerDrain, sinkVars
  <2>3. QED
    BY <2>1, <2>2
<1>5. CASE WorkerDeliver
  <2>1. /\ queue' = queue /\ sinkRecords' = Append(sinkRecords, hand[1]) /\ Len(hand) = 1
    BY <1>1, <1>5 DEF WorkerDeliver, WorkerGoto, Deliver, channelVars
  <2>2. Members(sinkRecords) \cup {hand[1]} \subseteq Members(sinkRecords')
    BY <1>1, <2>1, MembersFacts
  <2>3. Members(hand) = {hand[1]}
    BY <2>1 DEF Members
  <2>4. QED
    BY <2>1, <2>2, <2>3
<1>6. CASE UNCHANGED <<queue, hand, sinkRecords>>
  BY <1>6
<1>7. ASSUME NEW t \in Threads, BeginWrite(t) \/ BeginFlush(t) \/ FlushStep(t) \/ SpuriousWake(t)
      PROVE  UNCHANGED <<queue, hand, sinkRecords>>
  BY <1>7 DEF BeginWrite, BeginFlush, FlushStep, FlushCheck, FlushSleep, FlushReport,
              FlushReturn, SpuriousWake, channelVars, workerVars, sinkVars, Goto, localVars
<1>8. ASSUME NEW t \in Threads, WriteStep(t), ~TryEnqueue(t), ~FallbackDeliver(t)
      PROVE  UNCHANGED <<queue, hand, sinkRecords>>
  BY <1>8 DEF WriteStep, Enter, Reserve, CountEnqueued, Publish, Unreserve, Refused,
              SpaceRunning, SpaceFull, SpaceSleep, Timeout, Expired, RecordDrop,
              RecordUnreported, Fallback, FallbackRelease, FallbackNotify, channelVars,
              workerVars, sinkVars, Goto, localVars, AfterExpiry
<1>9. ASSUME WorkerStep, ~WorkerDrain, ~WorkerDeliver
      PROVE  UNCHANGED <<queue, hand, sinkRecords>>
  BY <1>9 DEF WorkerStep, WorkerLoop, WorkerRelease, WorkerSpaceNotify, WorkerReport,
              WorkerNotify, WorkerIdle, WorkerDoze, WorkerTimeout, WorkerExitReport,
              WorkerExitFlush, WorkerExitNotify, channelVars, sinkVars
<1>10. ASSUME StartShutdown \/ ShutdownStep \/ UNCHANGED vars
       PROVE  UNCHANGED <<queue, hand, sinkRecords>>
  BY <1>10 DEF StartShutdown, ShutdownStep, ShutdownWake, ShutdownSpace, ShutdownJoin,
               vars, channelVars, workerVars, sinkVars
<1> HIDE DEF WayGrows
<1>11. QED
  BY <1>2, <1>3, <1>4, <1>5, <1>6, <1>7, <1>8, <1>9, <1>10 DEF Next, CallStep

\* No step takes a drop back from the drop reports and the count still to report.
LEMMA DropsOnlyGrow ==
    ASSUME TypeOK, options.hasSink, [Next]_vars
    PROVE  DropsGrow
<1> USE DEF DropsGrow
<1>1. sinkReported \in Nat /\ unreported \in Nat
  BY DEF TypeOK, SinkOK, CountsOK
<1>2. ASSUME EmitDropReport PROVE DropsGrow
  BY <1>1, <1>2 DEF EmitDropReport
<1>3. ASSUME NEW t \in Threads, RecordUnreported(t) PROVE DropsGrow
  BY <1>1, <1>3 DEF RecordUnreported, sinkVars
<1>4. CASE UNCHANGED <<unreported, sinkReported>>
  BY <1>1, <1>4
<1>5. ASSUME NEW t \in Threads,
             BeginWrite(t) \/ BeginFlush(t) \/ SpuriousWake(t) \/ (FlushStep(t) /\ ~FlushReport(t))
      PROVE  UNCHANGED <<unreported, sinkReported>>
  BY <1>5 DEF BeginWrite, BeginFlush, FlushStep, FlushCheck, FlushSleep,
              FlushReturn, SpuriousWake, countVars, sinkVars
<1>6. ASSUME NEW t \in Threads, WriteStep(t), ~RecordUnreported(t)
      PROVE  UNCHANGED <<unreported, sinkReported>>
  BY <1>6 DEF WriteStep, Enter, Reserve, TryEnqueue, CountEnqueued, Publish, Unreserve,
              Refused, SpaceRunning, SpaceFull, SpaceSleep, Timeout, Expired, RecordDrop,
              Fallback, FallbackDeliver, FallbackRelease, FallbackNotify,
              countVars, sinkVars
<1>7. ASSUME WorkerStep, ~WorkerReport, ~WorkerExitReport
      PROVE  UNCHANGED <<unreported, sinkReported>>
  BY <1>7 DEF WorkerStep, WorkerLoop, WorkerDrain, WorkerDeliver, WorkerRelease,
              WorkerSpaceNotify, WorkerNotify, WorkerIdle, WorkerDoze, WorkerTimeout,
              WorkerExitFlush, WorkerExitNotify, countVars, sinkVars
<1>8. ASSUME StartShutdown \/ ShutdownStep \/ UNCHANGED vars
      PROVE  UNCHANGED <<unreported, sinkReported>>
  BY <1>8 DEF StartShutdown, ShutdownStep, ShutdownWake, ShutdownSpace, ShutdownJoin,
              vars, countVars, sinkVars
<1>9. \A t \in Threads : FlushReport(t) => EmitDropReport
  BY DEF FlushReport
<1>10. WorkerReport \/ WorkerExitReport => EmitDropReport
  BY DEF WorkerReport, WorkerExitReport
<1> HIDE DEF DropsGrow
<1>11. QED
  BY <1>2, <1>3, <1>4, <1>5, <1>6, <1>7, <1>8, <1>9, <1>10 DEF Next, CallStep

\* What FlushPromise says of one thread.
Promise(t) ==
    /\ due[t].records \subseteq OnTheWay
    /\ pc[t] \in {"flush_report", "flush_sink"} => due[t].records \subseteq Members(sinkRecords)
    /\ due[t].drops <= sinkReported + unreported
    /\ options.emitDropReports /\ pc[t] = "flush_sink" => due[t].drops <= sinkReported

\* A step that neither changes what a thread has to cover nor ends one of its waits
\* keeps the promise made to it.
LEMMA PromiseKept ==
    ASSUME TypeOK, NEW t \in Threads, Promise(t), WayGrows, DropsGrow,
           TypeOK', UNCHANGED options, due'[t] = due[t],
           pc'[t] \in {"flush_report", "flush_sink"} => pc'[t] = pc[t]
    PROVE  Promise(t)'
<1>0. /\ sinkReported \in Nat /\ unreported \in Nat
      /\ sinkReported' \in Nat /\ unreported' \in Nat
  BY DEF TypeOK, SinkOK, CountsOK
<1>1. due[t].drops \in Nat
  BY DEF TypeOK, CallsOK
<1>2. (due[t].records \subseteq OnTheWay)'
  BY DEF Promise, WayGrows
<1>3. pc'[t] \in {"flush_report", "flush_sink"} => due'[t].records \subseteq Members(sinkRecords')
  BY DEF Promise, WayGrows
<1>4. due'[t].drops <= sinkReported' + unreported'
  <2>1. due[t].drops <= sinkReported + unreported
    BY DEF Promise
  <2>2. sinkReported + unreported <= sinkReported' + unreported'
    BY DEF DropsGrow
  <2>3. \A d, m, n \in Nat : d <= m /\ m <= n => d <= n
    OBVIOUS
  <2>4. \A m, n \in Nat : m + n \in Nat
    OBVIOUS
  <2>5. sinkReported + unreported \in Nat
    BY <1>0, <2>4
  <2>6. sinkReported' + unreported' \in Nat
    BY <1>0, <2>4
  <2>7. QED
    BY <1>1, <2>1, <2>2, <2>3, <2>5, <2>6
<1>5. options'.emitDropReports /\ pc'[t] = "flush_sink" => due'[t].drops <= sinkReported'
  <2>1. options.emitDropReports /\ pc[t] = "flush_sink" => due[t].drops <= sinkReported
    BY DEF Promise
  <2>2. \A d, m, n \in Nat : d <= m /\ m <= n => d <= n
    OBVIOUS
  <2>3. QED
    BY <1>0, <1>1, <2>1, <2>2 DEF DropsGrow
<1>6. QED
  BY <1>2, <1>3, <1>4, <1>5 DEF Promise

\* The three steps that change what a Flush has to cover or end one of its waits.
LEMMA PromiseMade ==
    ASSUME TypeOK, OutstandingExact, NEW t \in Threads, Promise(t), options.hasSink,
           BeginFlush(t) \/ FlushStep(t)
    PROVE  Promise(t)'
<1>1. /\ due \in [Threads -> [records : SUBSET Records, drops : Nat]]
      /\ pc \in [Threads -> Locations]
      /\ due[t].drops \in Nat /\ sinkReported \in Nat /\ unreported \in Nat
  BY DEF TypeOK, CallsOK, SinkOK, CountsOK, Locations
<1>2. CASE BeginFlush(t)
  <2>1. /\ due'[t] = AcceptedSoFar /\ pc'[t] = "flush"
        /\ UNCHANGED <<sinkRecords, hand, queue, sinkReported, unreported, options>>
    BY <1>1, <1>2 DEF BeginFlush, Goto, sinkVars, workerVars, channelVars, countVars, lifeVars
  <2>2. due'[t].records \subseteq OnTheWay /\ due'[t].drops = sinkReported + unreported
    BY <2>1 DEF AcceptedSoFar, OnTheWay
  <2>3. QED
    BY <1>1, <2>1, <2>2 DEF Promise, OnTheWay
<1>3. CASE FlushCheck(t)
  <2>1. /\ pc'[t] = IF Quiescent THEN "flush_report" ELSE "flush_sleep"
        /\ UNCHANGED <<due, sinkRecords, hand, queue, sinkReported, unreported, options>>
    BY <1>1, <1>3 DEF FlushCheck, Goto, sinkVars, workerVars, channelVars, countVars,
                      lifeVars, localVars
  <2>2. Quiescent => OnTheWay = Members(sinkRecords)
    <3> SUFFICES ASSUME Quiescent PROVE Members(hand) = {} /\ Members(queue) = {}
      BY DEF OnTheWay
    <3>1. Cardinality(Holding) \in Nat /\ queue = <<>> /\ outstanding = 0
      BY HoldingFinite DEF Quiescent
    <3>2. wpc # "deliver"
      BY <3>1 DEF OutstandingExact
    <3>3. Len(hand) = 0
      BY <3>2 DEF TypeOK, WorkerOK
    <3>4. QED
      BY <3>1, <3>3 DEF Members
  <2>3. QED
    BY <2>1, <2>2 DEF Promise, OnTheWay
<1>4. CASE FlushSleep(t)
  BY <1>1, <1>4 DEF FlushSleep, Goto, Promise, OnTheWay, sinkVars, workerVars, channelVars,
                    countVars, lifeVars, localVars
<1>5. CASE FlushReport(t)
  <2>1. /\ pc[t] = "flush_report" /\ pc'[t] = "flush_sink"
        /\ UNCHANGED <<due, sinkRecords, hand, queue, options>>
    BY <1>1, <1>5 DEF FlushReport, Goto, workerVars, channelVars, lifeVars, localVars
  <2>2. due[t].records \subseteq OnTheWay /\ due[t].records \subseteq Members(sinkRecords)
        /\ due[t].drops <= sinkReported + unreported
    BY <2>1 DEF Promise
  <2>3. CASE options.emitDropReports
    <3>1. unreported' = 0 /\ sinkReported' = sinkReported + unreported
      BY <1>5, <2>3 DEF FlushReport, EmitDropReport
    <3>2. due'[t].drops <= sinkReported' /\ sinkReported' + unreported' = sinkReported'
      BY <1>1, <2>1, <2>2, <3>1
    <3>3. QED
      BY <2>1, <2>2, <3>2 DEF Promise, OnTheWay
  <2>4. CASE ~options.emitDropReports
    <3>1. UNCHANGED <<sinkReported, unreported>>
      BY <1>5, <2>4 DEF FlushReport, EmitDropReport
    <3>2. QED
      BY <2>1, <2>2, <2>4, <3>1 DEF Promise, OnTheWay
  <2>5. QED
    BY <2>3, <2>4
<1>6. CASE FlushReturn(t)
  <2>1. /\ pc'[t] = "ready" /\ due'[t] = NothingDue
        /\ UNCHANGED <<sinkReported, unreported>>
    BY <1>1, <1>6 DEF FlushReturn, Goto, countVars
  <2>2. QED
    BY <1>1, <2>1 DEF Promise, NothingDue
<1>7. QED
  BY <1>2, <1>3, <1>4, <1>5, <1>6 DEF FlushStep

\* No other step of any thread changes what a Flush has to cover, or ends its wait.
LEMMA OthersKeepPromise ==
    ASSUME TypeOK, NEW t \in Threads, [Next]_vars, ~BeginFlush(t), ~FlushStep(t)
    PROVE  /\ due'[t] = due[t]
           /\ pc'[t] \in FlushLocations => pc'[t] = pc[t]
<1>1. due \in [Threads -> [records : SUBSET Records, drops : Nat]]
      /\ pc \in [Threads -> Locations]
  BY DEF TypeOK, CallsOK, Locations
<1>2. ASSUME NEW u \in Threads, BeginFlush(u) \/ FlushStep(u), u # t
      PROVE  due'[t] = due[t] /\ pc'[t] = pc[t]
  BY <1>1, <1>2 DEF BeginFlush, FlushStep, FlushCheck, FlushSleep, FlushReport, FlushReturn,
                    Goto, localVars
<1>3. ASSUME NEW u \in Threads, WriteStep(u) \/ BeginWrite(u)
      PROVE  due' = due /\ \E to \in {"ready"} \cup WriteLocations : pc' = [pc EXCEPT ![u] = to]
  <2>1. due' = due
    BY <1>3 DEF BeginWrite, WriteStep, Enter, Reserve, TryEnqueue, CountEnqueued, Publish,
                Unreserve, Refused, SpaceRunning, SpaceFull, SpaceSleep, Timeout, Expired,
                RecordDrop, RecordUnreported, Fallback, FallbackDeliver, FallbackRelease,
                FallbackNotify, Goto, localVars, AfterExpiry
  <2>2. AfterRefusal[options.policy] \in WriteLocations
    BY DEF AfterRefusal, WriteLocations, TypeOK, LifeOK, ConfigurationType, Policies
  <2>3. QED
    BY <1>3, <2>1, <2>2
    DEF BeginWrite, WriteStep, Enter, Reserve, TryEnqueue, CountEnqueued, Publish,
        Unreserve, Refused, SpaceRunning, SpaceFull, SpaceSleep, Timeout, Expired,
        RecordDrop, RecordUnreported, Fallback, FallbackDeliver, FallbackRelease,
        FallbackNotify, Goto, WriteLocations, localVars, AfterExpiry
<1>4. ASSUME NEW u \in Threads, SpuriousWake(u) PROVE UNCHANGED <<due, pc>>
  BY <1>4 DEF SpuriousWake, callVars, localVars
<1>5. ASSUME WorkerStep \/ StartShutdown \/ ShutdownStep \/ UNCHANGED vars
      PROVE  UNCHANGED <<due, pc>>
  BY <1>5 DEF WorkerStep, WorkerLoop, WorkerDrain, WorkerDeliver, WorkerRelease,
              WorkerSpaceNotify, WorkerReport, WorkerNotify, WorkerIdle, WorkerDoze,
              WorkerTimeout, WorkerExitReport, WorkerExitFlush, WorkerExitNotify,
              StartShutdown, ShutdownStep, ShutdownWake, ShutdownSpace, ShutdownJoin, vars,
              callVars, WorkerGoto, localVars
<1>6. ASSUME NEW u \in Threads, NEW to \in {"ready"} \cup WriteLocations,
             pc' = [pc EXCEPT ![u] = to]
      PROVE  pc'[t] \in FlushLocations => pc'[t] = pc[t]
  BY <1>1, <1>6 DEF WriteLocations, FlushLocations
<1>7. QED
  BY <1>2, <1>3, <1>4, <1>5, <1>6 DEF Next, CallStep

\* Flush keeps its promise, for any number of threads, capacity, batch size and
\* options, and although calls may race the destructor.
THEOREM FlushKeepsPromise == Spec => []FlushPromise
<1> DEFINE Inv == TypeOK /\ OutstandingExact
           Promises == options.hasSink => \A t \in Threads : Promise(t)
<1>1. Init => Promises
  BY DEF Init, Promise, NothingDue, Members, OnTheWay
<1>2. Inv /\ Inv' /\ Promises /\ [Next]_vars => Promises'
  <2> SUFFICES ASSUME Inv, Inv', Promises, [Next]_vars, options'.hasSink, NEW t \in Threads
               PROVE  Promise(t)'
    OBVIOUS
  <2>1. UNCHANGED options
    BY DEF Next, CallStep, BeginWrite, BeginFlush, SpuriousWake, FlushStep, FlushCheck,
           FlushSleep, FlushReport, FlushReturn, WriteStep, Enter, Reserve, TryEnqueue,
           CountEnqueued, Publish, Unreserve, Refused, SpaceRunning, SpaceFull, SpaceSleep,
           Timeout, Expired, RecordDrop, RecordUnreported, Fallback, FallbackDeliver,
           FallbackRelease, FallbackNotify, WorkerStep, WorkerLoop, WorkerDrain,
           WorkerDeliver, WorkerRelease, WorkerSpaceNotify, WorkerReport, WorkerNotify,
           WorkerIdle, WorkerDoze, WorkerTimeout, WorkerExitReport, WorkerExitFlush,
           WorkerExitNotify, StartShutdown, ShutdownStep, ShutdownWake, ShutdownSpace,
           ShutdownJoin, vars, lifeVars, Goto, WorkerGoto, localVars, AfterExpiry
  <2>2. options.hasSink /\ Promise(t)
    BY <2>1
  <2>3. CASE BeginFlush(t) \/ FlushStep(t)
    BY <2>2, <2>3, PromiseMade
  <2>4. CASE ~BeginFlush(t) /\ ~FlushStep(t)
    <3>1. WayGrows /\ DropsGrow
      BY <2>2, WayOnlyGrows, DropsOnlyGrow
    <3>2. QED
      BY <2>1, <2>2, <2>4, <3>1, OthersKeepPromise, PromiseKept DEF FlushLocations
  <2>5. QED
    BY <2>3, <2>4
<1>3. Promises <=> FlushPromise
  BY DEF Promise, FlushPromise, OnTheWay
<1>4. QED
  BY <1>1, <1>2, <1>3, TypesAndCount, PTL DEF Spec

\* When Flush returns, the wrapped sink has been flushed behind all it had to cover.
THEOREM FlushCoversAccepted == Spec => FlushCovers
<1>1. /\ TypeOK /\ FlushPromise /\ [Next]_vars
      => [\A t \in Flushers :
            pc[t] = "flush_sink" /\ pc'[t] = "ready" /\ options.hasSink =>
               /\ due[t].records \subseteq Members(SubSeq(sinkRecords', 1, sinkFlushed'.records))
               /\ options.emitDropReports => sinkFlushed'.drops >= due[t].drops]_vars
  <2> SUFFICES ASSUME TypeOK, FlushPromise, [Next]_vars, NEW t \in Flushers,
                      pc[t] = "flush_sink", pc'[t] = "ready", options.hasSink
               PROVE  /\ due[t].records \subseteq
                            Members(SubSeq(sinkRecords', 1, sinkFlushed'.records))
                      /\ options.emitDropReports => sinkFlushed'.drops >= due[t].drops
    OBVIOUS
  <2>0. /\ t \in Threads /\ pc \in [Threads -> Locations]
        /\ sinkRecords \in Seq(Records) /\ sinkReported \in Nat /\ due[t].drops \in Nat
    BY DEF Threads, TypeOK, CallsOK, SinkOK, Locations
  <2>1. FlushReturn(t)
    <3>1. ASSUME NEW u \in Threads, NEW from, NEW to, Goto(u, from, to)
          PROVE  u = t /\ from = "flush_sink"
      BY <2>0, <3>1 DEF Goto
    <3>2. ~UNCHANGED pc
      OBVIOUS
    <3>3. PICK u \in Threads : BeginWrite(u) \/ BeginFlush(u) \/ CallStep(u)
      BY <3>2
      DEF Next, SpuriousWake, WorkerStep, WorkerLoop, WorkerDrain, WorkerDeliver,
          WorkerRelease, WorkerSpaceNotify, WorkerReport, WorkerNotify, WorkerIdle,
          WorkerDoze, WorkerTimeout, WorkerExitReport, WorkerExitFlush, WorkerExitNotify,
          StartShutdown, ShutdownStep, ShutdownWake, ShutdownSpace, ShutdownJoin, vars,
          callVars, WorkerGoto, localVars
    <3>4. ~BeginWrite(u) /\ ~BeginFlush(u) /\ ~WriteStep(u)
      BY <3>1
         DEF BeginWrite, BeginFlush, WriteStep, Enter, Reserve, TryEnqueue, CountEnqueued,
             Publish, Unreserve, Refused, SpaceRunning, SpaceFull, SpaceSleep, Timeout,
             Expired, RecordDrop, RecordUnreported, Fallback, FallbackDeliver,
             FallbackRelease, FallbackNotify
    <3>5. ~FlushCheck(u) /\ ~FlushSleep(u) /\ ~FlushReport(u)
      BY <3>1 DEF FlushCheck, FlushSleep, FlushReport
    <3>6. FlushReturn(u)
      BY <3>3, <3>4, <3>5 DEF CallStep, FlushStep
    <3>7. u = t
      BY <3>1, <3>6 DEF FlushReturn
    <3>8. QED
      BY <3>6, <3>7
  <2>2. /\ sinkRecords' = sinkRecords
        /\ sinkFlushed' = [records |-> Len(sinkRecords), drops |-> sinkReported]
    BY <2>1 DEF FlushReturn, FlushWrappedSink
  <2>3. SubSeq(sinkRecords', 1, sinkFlushed'.records) = sinkRecords
    BY <2>0, <2>2
  <2>4. /\ due[t].records \subseteq Members(sinkRecords)
        /\ options.emitDropReports => due[t].drops <= sinkReported
    BY <2>0 DEF FlushPromise
  <2>5. QED
    BY <2>0, <2>2, <2>3, <2>4
<1>2. QED
  BY <1>1, TypeCorrect, FlushKeepsPromise, PTL DEF Spec, FlushCovers


-----------------------------------------------------------------------------
(* Sequences of records.                                                   *)

Distinct(s) == \A i, j \in 1 .. Len(s) : i # j => s[i] # s[j]

\* Two records of one producer in the order it wrote them.
Older(r, q)   == r[1] = q[1] => r[2] < q[2]
Ordered(s)    == \A i, j \in 1 .. Len(s) : i < j => Older(s[i], s[j])
AllOlder(A, B) == \A r \in A, q \in B : Older(r, q)

\* A record at the end of a sequence: what becomes of its members,
LEMMA AppendMembers ==
    ASSUME NEW S, NEW s \in Seq(S), NEW e \in S
    PROVE  Members(Append(s, e)) = Members(s) \cup {e}
<1>1. /\ Len(Append(s, e)) = Len(s) + 1 /\ Len(s) \in Nat
      /\ Append(s, e)[Len(s) + 1] = e
      /\ \A i \in 1 .. Len(s) : Append(s, e)[i] = s[i]
  OBVIOUS
<1>2. \A i \in 1 .. Len(Append(s, e)) :
          i \in 1 .. Len(s) \/ i = Len(s) + 1
  BY <1>1
<1>3. Members(Append(s, e)) \subseteq Members(s) \cup {e}
  BY <1>1, <1>2 DEF Members
<1>4. QED
  BY <1>3, MembersFacts

\* and of its distinctness and its order.
LEMMA AppendParts ==
    ASSUME NEW S, NEW s \in Seq(S), NEW e \in S
    PROVE  /\ Members(Append(s, e)) = Members(s) \cup {e}
           /\ Distinct(s) /\ e \notin Members(s) => Distinct(Append(s, e))
           /\ Ordered(s) /\ AllOlder(Members(s), {e}) => Ordered(Append(s, e))
<1>1. /\ Len(Append(s, e)) = Len(s) + 1 /\ Len(s) \in Nat
      /\ Append(s, e)[Len(s) + 1] = e
      /\ \A i \in 1 .. Len(s) : Append(s, e)[i] = s[i]
  OBVIOUS
<1>2. \A i \in 1 .. Len(Append(s, e)) :
          i \in 1 .. Len(s) \/ i = Len(s) + 1
  BY <1>1
<1>3. Members(Append(s, e)) = Members(s) \cup {e}
  BY AppendMembers
<1>4. ASSUME Distinct(s), e \notin Members(s) PROVE Distinct(Append(s, e))
  <2> SUFFICES ASSUME NEW i \in 1 .. Len(Append(s, e)), NEW j \in 1 .. Len(Append(s, e)), i # j
               PROVE  Append(s, e)[i] # Append(s, e)[j]
    BY DEF Distinct
  <2>1. \A k \in 1 .. Len(s) : s[k] # e
    BY <1>4 DEF Members
  <2>2. QED
    BY <1>1, <1>2, <1>4, <2>1 DEF Distinct
<1>5. ASSUME Ordered(s), AllOlder(Members(s), {e}) PROVE Ordered(Append(s, e))
  <2> SUFFICES ASSUME NEW i \in 1 .. Len(Append(s, e)), NEW j \in 1 .. Len(Append(s, e)), i < j
               PROVE  Older(Append(s, e)[i], Append(s, e)[j])
    BY DEF Ordered
  <2>1. i \in 1 .. Len(s)
    BY <1>1, <1>2
  <2>2. \A k \in 1 .. Len(s) : Older(s[k], e)
    BY <1>5 DEF Members, AllOlder
  <2>3. QED
    BY <1>1, <1>2, <1>5, <2>1, <2>2 DEF Ordered
<1>6. QED
  BY <1>3, <1>4, <1>5

\* The first record of a sequence and the others.
LEMMA HeadTailParts ==
    ASSUME NEW S, NEW s \in Seq(S), s # <<>>
    PROVE  /\ Members(s) = {Head(s)} \cup Members(Tail(s))
           /\ Distinct(s) => Distinct(Tail(s)) /\ Head(s) \notin Members(Tail(s))
           /\ Ordered(s) => Ordered(Tail(s)) /\ AllOlder({Head(s)}, Members(Tail(s)))
<1>1. /\ Len(s) \in Nat \ {0} /\ Len(Tail(s)) = Len(s) - 1 /\ Head(s) = s[1]
      /\ \A i \in 1 .. Len(Tail(s)) : Tail(s)[i] = s[i + 1]
  BY EmptySeq, HeadTailProperties
<1>2. \A i \in 1 .. Len(Tail(s)) : i + 1 \in 1 .. Len(s) /\ i + 1 # 1 /\ 1 < i + 1
  BY <1>1
<1>3. Members(s) = {Head(s)} \cup Members(Tail(s))
  <2>1. Members(Tail(s)) \subseteq Members(s) /\ Head(s) \in Members(s)
    BY <1>1, <1>2 DEF Members
  <2>2. QED
    BY <2>1, MembersFacts
<1>4. ASSUME Distinct(s) PROVE Distinct(Tail(s)) /\ Head(s) \notin Members(Tail(s))
  BY <1>1, <1>2, <1>4 DEF Distinct, Members
<1>5. ASSUME Ordered(s) PROVE Ordered(Tail(s)) /\ AllOlder({Head(s)}, Members(Tail(s)))
  <2>1. Ordered(Tail(s))
    BY <1>1, <1>2, <1>5 DEF Ordered
  <2>2. \A i \in 1 .. Len(Tail(s)) : Older(s[1], Tail(s)[i])
    BY <1>1, <1>2, <1>5 DEF Ordered
  <2>3. QED
    BY <1>1, <2>1, <2>2 DEF AllOlder, Members
<1>6. QED
  BY <1>3, <1>4, <1>5

\* Two sequences one after the other.
LEMMA ConcatParts ==
    ASSUME NEW S, NEW s \in Seq(S), NEW u \in Seq(S)
    PROVE  /\ Members(s \o u) = Members(s) \cup Members(u)
           /\ Distinct(s) /\ Distinct(u) /\ Members(s) \cap Members(u) = {} => Distinct(s \o u)
           /\ Ordered(s) /\ Ordered(u) /\ AllOlder(Members(s), Members(u)) => Ordered(s \o u)
<1>1. /\ Len(s) \in Nat /\ Len(u) \in Nat /\ Len(s \o u) = Len(s) + Len(u)
      /\ \A i \in 1 .. Len(s) : (s \o u)[i] = s[i]
      /\ \A i \in 1 .. Len(u) : (s \o u)[Len(s) + i] = u[i]
  BY ConcatProperties
<1>2. \A i \in 1 .. Len(s \o u) :
          i \in 1 .. Len(s) \/ (i > Len(s) /\ \E k \in 1 .. Len(u) : i = Len(s) + k)
  <2>1. ASSUME NEW i \in 1 .. Len(s \o u), i \notin 1 .. Len(s)
        PROVE  i > Len(s) /\ \E k \in 1 .. Len(u) : i = Len(s) + k
    <3>1. i - Len(s) \in 1 .. Len(u) /\ i = Len(s) + (i - Len(s)) /\ i > Len(s)
      BY <1>1, <2>1
    <3>2. QED
      BY <3>1
  <2>2. QED
    BY <2>1
<1>3. Members(s \o u) = Members(s) \cup Members(u)
  <2>1. Members(s) \subseteq Members(s \o u)
    BY <1>1 DEF Members
  <2>2. Members(u) \subseteq Members(s \o u)
    <3>1. \A k \in 1 .. Len(u) : Len(s) + k \in 1 .. Len(s \o u)
      BY <1>1
    <3>2. QED
      BY <1>1, <3>1 DEF Members
  <2>3. Members(s \o u) \subseteq Members(s) \cup Members(u)
    BY <1>1, <1>2 DEF Members
  <2>4. QED
    BY <2>1, <2>2, <2>3
<1>4. ASSUME Distinct(s), Distinct(u), Members(s) \cap Members(u) = {} PROVE Distinct(s \o u)
  <2>1. \A i \in 1 .. Len(s), k \in 1 .. Len(u) : s[i] # u[k]
    BY <1>4 DEF Members
  <2> SUFFICES ASSUME NEW i \in 1 .. Len(s \o u), NEW j \in 1 .. Len(s \o u), i # j
               PROVE  (s \o u)[i] # (s \o u)[j]
    BY DEF Distinct
  <2>2. CASE i \in 1 .. Len(s) /\ j \in 1 .. Len(s)
    BY <1>1, <1>4, <2>2 DEF Distinct
  <2>3. CASE i \in 1 .. Len(s) /\ j \notin 1 .. Len(s)
    <3>1. PICK l \in 1 .. Len(u) : j = Len(s) + l
      BY <1>2, <2>3
    <3>2. QED
      BY <1>1, <2>1, <2>3, <3>1
  <2>4. CASE i \notin 1 .. Len(s) /\ j \in 1 .. Len(s)
    <3>1. PICK k \in 1 .. Len(u) : i = Len(s) + k
      BY <1>2, <2>4
    <3>2. QED
      BY <1>1, <2>1, <2>4, <3>1
  <2>5. CASE i \notin 1 .. Len(s) /\ j \notin 1 .. Len(s)
    <3>1. PICK k \in 1 .. Len(u) : i = Len(s) + k
      BY <1>2, <2>5
    <3>2. PICK l \in 1 .. Len(u) : j = Len(s) + l
      BY <1>2, <2>5
    <3>3. QED
      BY <1>1, <1>4, <3>1, <3>2 DEF Distinct
  <2>6. QED
    BY <2>2, <2>3, <2>4, <2>5
<1>5. ASSUME Ordered(s), Ordered(u), AllOlder(Members(s), Members(u)) PROVE Ordered(s \o u)
  <2>1. \A i \in 1 .. Len(s), k \in 1 .. Len(u) : Older(s[i], u[k])
    BY <1>5 DEF Members, AllOlder
  <2> SUFFICES ASSUME NEW i \in 1 .. Len(s \o u), NEW j \in 1 .. Len(s \o u), i < j
               PROVE  Older((s \o u)[i], (s \o u)[j])
    BY DEF Ordered
  <2>2. CASE i \in 1 .. Len(s) /\ j \in 1 .. Len(s)
    BY <1>1, <1>5, <2>2 DEF Ordered
  <2>3. CASE i \in 1 .. Len(s) /\ j \notin 1 .. Len(s)
    BY <1>1, <1>2, <2>1, <2>3
  <2>4. CASE i \notin 1 .. Len(s)
    <3>1. PICK k \in 1 .. Len(u) : i = Len(s) + k
      BY <1>2, <2>4
    <3>2. j \notin 1 .. Len(s)
      BY <1>1, <2>4
    <3>3. PICK l \in 1 .. Len(u) : j = Len(s) + l
      BY <1>2, <3>2
    <3>4. k < l
      BY <1>1, <3>1, <3>3
    <3>5. QED
      BY <1>1, <1>5, <3>1, <3>3, <3>4 DEF Ordered
  <2>5. QED
    BY <2>2, <2>3, <2>4
<1>6. QED
  BY <1>3, <1>4, <1>5

\* A sequence of distinct records is as long as the set of them is large.
LEMMA DistinctCardinality ==
    ASSUME NEW S, NEW s \in Seq(S), Distinct(s)
    PROVE  Cardinality(Members(s)) = Len(s)
<1>1. Len(s) \in Nat /\ DOMAIN s = 1 .. Len(s) /\ s = [i \in 1 .. Len(s) |-> s[i]]
  OBVIOUS
<1>2. s \in Bijection(1 .. Len(s), Members(s))
  <2>1. s \in [1 .. Len(s) -> Members(s)]
    BY <1>1 DEF Members
  <2>2. QED
    BY <1>1, <2>1 DEF Bijection, Injection, Surjection, Members, Distinct, IsInjective
<1>3. QED
  BY <1>1, <1>2, FS_CountingElements DEF ExistsBijection
-----------------------------------------------------------------------------
(* What a step does to the records.                                        *)

\* Thread t settles the record it is writing.
Settles(t) ==
    /\ Current(t) \in Records /\ Current(t) \notin Settled
    /\ Settled' = Settled \cup {Current(t)}
    /\ \A r \in Settled : Older(r, Current(t))

channel == <<hand, queue, sinkRecords>>
dues    == [f \in Flushers |-> due[f].records]

Enqueued(t) ==
    /\ Settles(t) /\ Len(queue) < QueueCapacity
    /\ queue' = Append(queue, Current(t))
    /\ UNCHANGED <<hand, sinkRecords, stats.dropped, sinkFlushed, dues>>

Bypassed(t) ==
    /\ Settles(t) /\ pc[t] = "fallback_deliver"
    /\ sinkRecords' = IF options.hasSink THEN Append(sinkRecords, Current(t)) ELSE sinkRecords
    /\ UNCHANGED <<hand, queue, stats.dropped, sinkFlushed, dues>>

Refuses(t) ==
    /\ Settles(t)
    /\ stats'.dropped = stats.dropped + 1
    /\ UNCHANGED <<channel, sinkFlushed, dues>>

Taken ==
    /\ hand = <<>> /\ queue # <<>>
    /\ hand' = <<Head(queue)>> /\ queue' = Tail(queue)
    /\ Settled' = Settled
    /\ UNCHANGED <<sinkRecords, stats.dropped, sinkFlushed, dues>>

Delivered ==
    /\ Len(hand) = 1 /\ hand' = <<>>
    /\ sinkRecords' = IF options.hasSink THEN Append(sinkRecords, hand[1]) ELSE sinkRecords
    /\ Settled' = Settled
    /\ UNCHANGED <<queue, stats.dropped, sinkFlushed, dues>>

FlushesSink ==
    sinkFlushed'.records = IF options.hasSink THEN Len(sinkRecords) ELSE sinkFlushed.records

FlushBegun(t) ==
    /\ t \in Flushers /\ due' = [due EXCEPT ![t] = AcceptedSoFar]
    /\ Settled' = Settled
    /\ UNCHANGED <<channel, stats.dropped, sinkFlushed>>

FlushEnded(t) ==
    /\ pc[t] = "flush_sink" /\ FlushesSink /\ due' = [due EXCEPT ![t] = NothingDue]
    /\ Settled' = Settled
    /\ UNCHANGED <<channel, stats.dropped>>

Closed ==
    /\ wpc = "exit_flush" /\ FlushesSink
    /\ Settled' = Settled
    /\ UNCHANGED <<channel, stats.dropped, dues>>

Otherwise ==
    /\ Settled' = Settled
    /\ UNCHANGED <<channel, stats.dropped, sinkFlushed, dues>>

\* Thread t moves between two locations that settle its record, or two that do not.
LEMMA SettledKept ==
    ASSUME TypeOK, NEW t \in Threads, NEW from, NEW to, Goto(t, from, to), UNCHANGED issued,
           from \in SettledLocations <=> to \in SettledLocations
    PROVE  Settled' = Settled
<1>1. \A u \in Threads : pc'[u] = IF u = t THEN to ELSE pc[u]
  BY DEF TypeOK, CallsOK, Goto
<1>2. pc[t] = from
  BY DEF Goto
<1>3. \A r \in Records : r[1] \in Threads
  BY DEF Records, Threads
<1>4. QED
  BY <1>1, <1>2, <1>3 DEF Settled

\* Thread t moves to a location that settles its record.
LEMMA SettledGained ==
    ASSUME TypeOK, NEW t \in Threads, NEW from \in WriteLocations, NEW to, Goto(t, from, to),
           UNCHANGED issued, from \notin SettledLocations, to \in SettledLocations
    PROVE  Settles(t)
<1>1. \A u \in Threads : pc'[u] = IF u = t THEN to ELSE pc[u]
  BY DEF TypeOK, CallsOK, Goto
<1>2. pc[t] = from
  BY DEF Goto
<1>3. \A r \in Records : r[1] \in Threads /\ r[2] \in Nat /\ r = <<r[1], r[2]>>
  BY AsyncSinkAssumption DEF Records, Threads
<1>4. Current(t) \in Records /\ issued[t] \in Nat
  BY <1>2 DEF TypeOK, CallsOK
<1>5. Current(t)[1] = t /\ Current(t)[2] = issued[t]
  BY DEF Current
<1>6. Current(t) \notin Settled
  BY <1>2, <1>4, <1>5 DEF Settled
<1>7. \A r \in Settled : Older(r, Current(t))
  BY <1>2, <1>3, <1>4, <1>5 DEF Settled, Older
<1>8. \A r \in Records : r[1] = t /\ r[2] = issued[t] => r = Current(t)
  BY <1>3 DEF Current
<1>9. Settled' = Settled \cup {Current(t)}
  <2>1. \A r \in Records : r \in Settled' <=>
            \/ r[2] < issued[r[1]]
            \/ r[2] = issued[r[1]] /\ (r[1] = t \/ pc[r[1]] \in SettledLocations)
    BY <1>1, <1>3 DEF Settled
  <2>2. \A r \in Records : r \in Settled' <=> r \in Settled \cup {Current(t)}
    BY <1>2, <1>4, <1>5, <1>8, <2>1 DEF Settled
  <2>3. Settled \subseteq Records /\ Settled' \subseteq Records
    BY DEF Settled
  <2>4. QED
    BY <1>4, <2>2, <2>3
<1>10. QED
  BY <1>4, <1>6, <1>7, <1>9 DEF Settles

\* A new Write settles nothing.
LEMMA EffectBeginWrite ==
    ASSUME TypeOK, NEW t \in Threads, BeginWrite(t)
    PROVE  Otherwise
<1>1. PICK to \in {"drop", "enter", "reserve"} : Goto(t, "ready", to)
  BY DEF BeginWrite
<1>2. /\ issued' = [issued EXCEPT ![t] = issued[t] + 1]
      /\ UNCHANGED <<channel, stats, sinkFlushed, due>>
  BY DEF BeginWrite, Goto, channel, workerVars, sinkVars, channelVars, countVars
<1>3. /\ \A u \in Threads : pc'[u] = IF u = t THEN to ELSE pc[u]
      /\ \A u \in Threads : issued'[u] = IF u = t THEN issued[t] + 1 ELSE issued[u]
      /\ \A u \in Threads : issued[u] \in Nat
      /\ pc[t] = "ready"
  BY <1>1, <1>2 DEF TypeOK, CallsOK, Goto
<1>4. \A r \in Records : r[1] \in Threads /\ r[2] \in Nat
  BY AsyncSinkAssumption DEF Records, Threads
<1>5. to \notin SettledLocations /\ "ready" \in SettledLocations
  BY DEF SettledLocations, FlushLocations
<1>6. \A r \in Records :
          (r[2] < issued'[r[1]] \/ (r[2] = issued'[r[1]] /\ pc'[r[1]] \in SettledLocations))
          <=> (r[2] < issued[r[1]] \/ (r[2] = issued[r[1]] /\ pc[r[1]] \in SettledLocations))
  <2> SUFFICES ASSUME NEW r \in Records
               PROVE  (r[2] < issued'[r[1]] \/ (r[2] = issued'[r[1]] /\ pc'[r[1]] \in SettledLocations))
                      <=> (r[2] < issued[r[1]] \/ (r[2] = issued[r[1]] /\ pc[r[1]] \in SettledLocations))
    OBVIOUS
  <2>1. CASE r[1] = t
    <3>1. r[2] < issued[t] + 1 <=> r[2] < issued[t] \/ r[2] = issued[t]
      BY <1>3, <1>4
    <3>2. QED
      BY <1>3, <1>5, <2>1, <3>1
  <2>2. CASE r[1] # t
    BY <1>3, <1>4, <2>2
  <2>3. QED
    BY <2>1, <2>2
<1>7. Settled' = Settled
  BY <1>6 DEF Settled
<1>8. QED
  BY <1>2, <1>7 DEF Otherwise, dues

\* A step of Write enqueues, delivers or refuses the record, or does none of the three.
LEMMA EffectWriteStep ==
    ASSUME TypeOK, NEW t \in Threads, WriteStep(t)
    PROVE  Enqueued(t) \/ Bypassed(t) \/ Refuses(t) \/ Otherwise
<1>1. stats \in StatsType
  BY DEF TypeOK, CountsOK
<1>2. CASE TryEnqueue(t) /\ HasRoom
  <2>1. Goto(t, "try", "count") /\ queue' = Append(queue, Current(t))
        /\ UNCHANGED <<issued, due, hand, sinkRecords, stats, sinkFlushed>>
    BY <1>2 DEF TryEnqueue, Goto, localVars, countVars, sinkVars, workerVars
  <2>2. Settles(t)
    BY <2>1, SettledGained DEF WriteLocations, SettledLocations, FlushLocations
  <2>3. QED
    BY <1>2, <2>1, <2>2 DEF Enqueued, HasRoom, dues
<1>3. CASE FallbackDeliver(t)
  <2> DEFINE to == "fallback_release"
  <2>1. Goto(t, "fallback_deliver", to)
        /\ UNCHANGED <<issued, due, hand, queue, sinkFlushed>>
    BY <1>3 DEF FallbackDeliver, Goto, localVars, channelVars, workerVars
  <2>2. to \in SettledLocations /\ "fallback_deliver" \notin SettledLocations
        /\ "fallback_deliver" \in WriteLocations
    BY DEF SettledLocations, FlushLocations, WriteLocations
  <2>3. Settles(t)
    BY <2>1, <2>2, SettledGained
  <2>4. /\ stats'.dropped = stats.dropped
        /\ sinkRecords' = IF options.hasSink THEN Append(sinkRecords, Current(t)) ELSE sinkRecords
    BY <1>1, <1>3 DEF FallbackDeliver, Deliver, StatsType
  <2>5. QED
    BY <2>1, <2>3, <2>4 DEF Bypassed, dues, Goto
<1>4. CASE RecordDrop(t)
  <2>1. \/ Goto(t, "drop", "dropped")
        \/ Goto(t, "timeout_drop", "timeout_dropped")
    BY <1>4 DEF RecordDrop
  <2>2. UNCHANGED <<issued, due, hand, queue, sinkRecords, sinkFlushed>>
    BY <1>4, <2>1 DEF RecordDrop, Goto, localVars, channelVars, workerVars, sinkVars
  <2>3. Settles(t)
    BY <2>1, <2>2, SettledGained DEF WriteLocations, SettledLocations, FlushLocations
  <2>4. stats'.dropped = stats.dropped + 1
    BY <1>1, <1>4 DEF RecordDrop, StatsType
  <2>5. QED
    BY <2>2, <2>3, <2>4 DEF Refuses, channel, dues
<1>5. CASE \/ Enter(t) \/ Reserve(t) \/ (TryEnqueue(t) /\ ~HasRoom) \/ Unreserve(t) \/ Refused(t)
           \/ SpaceRunning(t) \/ SpaceFull(t) \/ SpaceSleep(t) \/ Timeout(t) \/ Expired(t)
           \/ Fallback(t)
  <2>1. AfterRefusal[options.policy] \in {"drop", "space", "fallback"}
    <3>1. options.policy \in {"DropNewest", "Block", "BlockForTimeout", "SyncFallback"}
      BY DEF TypeOK, LifeOK, ConfigurationType, Policies
    <3>2. QED
      BY <3>1 DEF AfterRefusal
  <2>2. \E from, to : /\ Goto(t, from, to)
                      /\ from \notin SettledLocations /\ to \notin SettledLocations
    <3>1. CASE Enter(t) \/ Reserve(t) \/ (TryEnqueue(t) /\ ~HasRoom) \/ Unreserve(t)
      BY <3>1 DEF Enter, Reserve, TryEnqueue, Unreserve, SettledLocations, FlushLocations
    <3>2. CASE Refused(t)
      BY <2>1, <3>2 DEF Refused, SettledLocations, FlushLocations
    <3>3. CASE SpaceRunning(t) \/ SpaceFull(t) \/ Expired(t)
      BY <3>3 DEF SpaceRunning, SpaceFull, Expired, AfterExpiry, SettledLocations, FlushLocations
    <3>4. CASE SpaceSleep(t) \/ Timeout(t) \/ Fallback(t)
      BY <3>4 DEF SpaceSleep, Timeout, Fallback, SettledLocations, FlushLocations
    <3>5. QED
      BY <1>5, <3>1, <3>2, <3>3, <3>4
  <2>3. UNCHANGED <<issued, due, hand, queue, sinkRecords, sinkFlushed>>
    BY <1>5
    DEF Enter, Reserve, TryEnqueue, Unreserve, Refused, SpaceRunning, SpaceFull, SpaceSleep,
        Timeout, Expired, Fallback, Goto, localVars, channelVars, workerVars, sinkVars
  <2>4. stats'.dropped = stats.dropped
    BY <1>1, <1>5
    DEF Enter, Reserve, TryEnqueue, Unreserve, Refused, SpaceRunning, SpaceFull, SpaceSleep,
        Timeout, Expired, Fallback, countVars, StatsType
  <2>5. Settled' = Settled
    BY <2>2, <2>3, SettledKept
  <2>6. QED
    BY <2>3, <2>4, <2>5 DEF Otherwise, channel, dues
<1>6. CASE \/ CountEnqueued(t) \/ Publish(t) \/ RecordUnreported(t) \/ FallbackRelease(t)
           \/ FallbackNotify(t)
  <2>1. \E from, to : /\ Goto(t, from, to)
                      /\ from \in SettledLocations /\ to \in SettledLocations
    BY <1>6 DEF CountEnqueued, Publish, RecordUnreported, FallbackRelease, FallbackNotify,
                SettledLocations, FlushLocations
  <2>2. UNCHANGED <<issued, due, hand, queue, sinkRecords, sinkFlushed>>
    BY <1>6 DEF CountEnqueued, Publish, RecordUnreported, FallbackRelease, FallbackNotify,
                Goto, localVars, channelVars, workerVars, sinkVars
  <2>3. stats'.dropped = stats.dropped
    BY <1>1, <1>6
    DEF CountEnqueued, Publish, RecordUnreported, FallbackRelease, FallbackNotify,
        UpdateHighWatermark, countVars, StatsType
  <2>4. Settled' = Settled
    BY <2>1, <2>2, SettledKept
  <2>5. QED
    BY <2>2, <2>3, <2>4 DEF Otherwise, channel, dues
<1>7. QED
  BY <1>2, <1>3, <1>4, <1>5, <1>6 DEF WriteStep

\* A step of Flush begins or ends it, or moves no record.
LEMMA EffectFlushStep ==
    ASSUME TypeOK, NEW t \in Threads, BeginFlush(t) \/ FlushStep(t)
    PROVE  FlushBegun(t) \/ FlushEnded(t) \/ Otherwise
<1>1. \E from, to : /\ Goto(t, from, to)
                    /\ from \in SettledLocations /\ to \in SettledLocations
  BY DEF BeginFlush, FlushStep, FlushCheck, FlushSleep, FlushReport, FlushReturn,
         SettledLocations, FlushLocations
<1>2. UNCHANGED <<issued, channel, stats>>
  BY DEF BeginFlush, FlushStep, FlushCheck, FlushSleep, FlushReport, FlushReturn, channel,
         Goto, localVars, channelVars, workerVars, sinkVars, countVars
<1>3. Settled' = Settled
  BY <1>1, <1>2, SettledKept
<1>4. CASE BeginFlush(t)
  BY <1>2, <1>3, <1>4 DEF BeginFlush, FlushBegun, sinkVars
<1>5. CASE FlushCheck(t) \/ FlushSleep(t) \/ FlushReport(t)
  <2>1. UNCHANGED <<due, sinkFlushed>>
    BY <1>5 DEF FlushCheck, FlushSleep, FlushReport, localVars, sinkVars
  <2>2. QED
    BY <1>2, <1>3, <2>1 DEF Otherwise, dues
<1>6. CASE FlushReturn(t)
  <2>1. FlushesSink
    BY <1>6 DEF FlushReturn, FlushWrappedSink, FlushesSink
  <2>2. QED
    BY <1>2, <1>3, <1>6, <2>1 DEF FlushReturn, FlushEnded, Goto
<1>7. QED
  BY <1>4, <1>5, <1>6 DEF FlushStep

\* A step of the worker takes or delivers a record, closes, or moves no record.
LEMMA EffectWorkerStep ==
    ASSUME TypeOK, WorkerStep
    PROVE  Taken \/ Delivered \/ Closed \/ Otherwise
<1>1. stats \in StatsType /\ hand \in Seq(Records)
      /\ Len(hand) = (IF wpc = "deliver" THEN 1 ELSE 0)
  BY DEF TypeOK, CountsOK, WorkerOK
<1>2. UNCHANGED <<pc, issued, due>>
  BY DEF WorkerStep, WorkerLoop, WorkerDrain, WorkerDeliver, WorkerRelease,
         WorkerSpaceNotify, WorkerReport, WorkerNotify, WorkerIdle, WorkerDoze,
         WorkerTimeout, WorkerExitReport, WorkerExitFlush, WorkerExitNotify,
         callVars, WorkerGoto, localVars
<1>3. Settled' = Settled /\ UNCHANGED dues
  BY <1>2 DEF Settled, dues
<1>4. CASE WorkerDrain
  <2>1. CASE drained < BatchSize /\ queue # <<>>
    <3>1. /\ hand' = <<Head(queue)>> /\ queue' = Tail(queue) /\ wpc = "drain"
          /\ UNCHANGED <<sinkRecords, stats, sinkFlushed>>
      BY <1>4, <2>1 DEF WorkerDrain, WorkerGoto, countVars, sinkVars
    <3>2. hand = <<>>
      BY <1>1, <3>1
    <3>3. QED
      BY <1>3, <2>1, <3>1, <3>2 DEF Taken
  <2>2. CASE ~(drained < BatchSize /\ queue # <<>>)
    <3>1. UNCHANGED <<channel, stats, sinkFlushed>>
      BY <1>4, <2>2 DEF WorkerDrain, countVars, sinkVars, channel
    <3>2. QED
      BY <1>3, <3>1 DEF Otherwise
  <2>3. QED
    BY <2>1, <2>2
<1>5. CASE WorkerDeliver
  <2>1. /\ Len(hand) = 1 /\ hand' = <<>>
        /\ sinkRecords' = IF options.hasSink THEN Append(sinkRecords, hand[1]) ELSE sinkRecords
        /\ UNCHANGED <<queue, sinkFlushed>> /\ stats'.dropped = stats.dropped
    BY <1>1, <1>5 DEF WorkerDeliver, WorkerGoto, Deliver, channelVars, StatsType
  <2>2. QED
    BY <1>3, <2>1 DEF Delivered
<1>6. CASE WorkerExitFlush
  <2>1. FlushesSink /\ wpc = "exit_flush" /\ UNCHANGED <<channel, stats>>
    BY <1>6 DEF WorkerExitFlush, WorkerGoto, FlushWrappedSink, FlushesSink, channel,
                channelVars, countVars
  <2>2. QED
    BY <1>3, <2>1 DEF Closed
<1>7. CASE \/ WorkerLoop \/ WorkerRelease \/ WorkerSpaceNotify \/ WorkerReport \/ WorkerNotify
           \/ WorkerIdle \/ WorkerDoze \/ WorkerTimeout \/ WorkerExitReport \/ WorkerExitNotify
  <2>1. UNCHANGED <<channel, stats, sinkFlushed>>
    BY <1>7 DEF WorkerLoop, WorkerRelease, WorkerSpaceNotify, WorkerReport, WorkerNotify,
                WorkerIdle, WorkerDoze, WorkerTimeout, WorkerExitReport, WorkerExitNotify,
                channel, channelVars, countVars, sinkVars
  <2>2. QED
    BY <1>3, <2>1 DEF Otherwise
<1>8. QED
  BY <1>4, <1>5, <1>6, <1>7 DEF WorkerStep

\* Every step, in ten cases; no step changes the configuration.
LEMMA StepEffect ==
    ASSUME TypeOK, [Next]_vars
    PROVE  /\ \/ \E t \in Threads : Enqueued(t) \/ Bypassed(t) \/ Refuses(t)
              \/ \E t \in Threads : FlushBegun(t) \/ FlushEnded(t)
              \/ Taken \/ Delivered \/ Closed \/ Otherwise
           /\ UNCHANGED options
<1>1. ASSUME \/ \E t \in Threads : SpuriousWake(t)
             \/ StartShutdown \/ ShutdownStep \/ UNCHANGED vars
      PROVE  Otherwise
  <2>1. UNCHANGED <<pc, issued, due, channel, stats, sinkFlushed>>
    BY <1>1 DEF SpuriousWake, StartShutdown, ShutdownStep, ShutdownWake, ShutdownSpace,
                ShutdownJoin, vars, channel, channelVars, workerVars, sinkVars, callVars,
                localVars, countVars
  <2>2. QED
    BY <2>1 DEF Otherwise, Settled, dues
<1>2. UNCHANGED options
  BY DEF Next, CallStep, BeginWrite, BeginFlush, SpuriousWake, FlushStep, FlushCheck,
         FlushSleep, FlushReport, FlushReturn, WriteStep, Enter, Reserve, TryEnqueue,
         CountEnqueued, Publish, Unreserve, Refused, SpaceRunning, SpaceFull, SpaceSleep,
         Timeout, Expired, RecordDrop, RecordUnreported, Fallback, FallbackDeliver,
         FallbackRelease, FallbackNotify, WorkerStep, WorkerLoop, WorkerDrain,
         WorkerDeliver, WorkerRelease, WorkerSpaceNotify, WorkerReport, WorkerNotify,
         WorkerIdle, WorkerDoze, WorkerTimeout, WorkerExitReport, WorkerExitFlush,
         WorkerExitNotify, StartShutdown, ShutdownStep, ShutdownWake, ShutdownSpace,
         ShutdownJoin, vars, lifeVars, Goto, WorkerGoto
<1>3. QED
  BY <1>1, <1>2, EffectBeginWrite, EffectWriteStep, EffectFlushStep, EffectWorkerStep
  DEF Next, CallStep

-----------------------------------------------------------------------------
(* Where the records are.                                                  *)

\* The records on their way are settled, and each is in one place only; without a
\* wrapped sink, the worker swallows them.
WayOK ==
    /\ OnTheWay \subseteq Settled
    /\ Distinct(sinkRecords) /\ Distinct(hand) /\ Distinct(queue)
    /\ Members(sinkRecords) \cap Members(hand) = {}
    /\ Members(sinkRecords) \cap Members(queue) = {}
    /\ Members(hand) \cap Members(queue) = {}
    /\ ~options.hasSink => sinkRecords = <<>>

\* The settled records that are not on their way are the drops that are counted.
Lost == Settled \ OnTheWay
LostOK == options.hasSink => IsFiniteSet(Lost) /\ Cardinality(Lost) = stats.dropped

\* The worker's record is older than the queue, and both are younger than what the
\* wrapped sink has.
OrderOK ==
    options.policy # "SyncFallback" =>
        /\ Ordered(sinkRecords) /\ Ordered(hand) /\ Ordered(queue)
        /\ AllOlder(Members(sinkRecords), Members(hand))
        /\ AllOlder(Members(sinkRecords), Members(queue))
        /\ AllOlder(Members(hand), Members(queue))

\* Only synchronous fallback brings a producer to deliver its own record.
FallbackOnly ==
    \A t \in Threads : pc[t] \in {"fallback", "fallback_deliver"} => options.policy = "SyncFallback"

LEMMA FallbackOnlyKept ==
    ASSUME TypeOK, FallbackOnly, [Next]_vars
    PROVE  FallbackOnly'
<1> DEFINE Fall == {"fallback", "fallback_deliver"}
<1>0. pc \in [Threads -> Locations] /\ options.policy \in Policies
  BY DEF TypeOK, CallsOK, Locations, LifeOK, ConfigurationType
<1>1. UNCHANGED options
  BY StepEffect
<1>2. ASSUME NEW t \in Threads, BeginWrite(t) \/ BeginFlush(t) \/ CallStep(t)
      PROVE  \E from, to : /\ Goto(t, from, to)
                           /\ to \in Fall => from \in Fall \/ options.policy = "SyncFallback"
  <2>1. CASE Refused(t)
    <3>1. AfterRefusal[options.policy] = "fallback" => options.policy = "SyncFallback"
      BY <1>0 DEF AfterRefusal, Policies
    <3>2. AfterRefusal[options.policy] # "fallback_deliver"
      BY <1>0 DEF AfterRefusal, Policies
    <3>3. QED
      BY <2>1, <3>1, <3>2 DEF Refused
  <2>2. CASE \/ BeginWrite(t) \/ Enter(t) \/ SpaceRunning(t) \/ SpaceFull(t) \/ Expired(t)
             \/ TryEnqueue(t)
    BY <2>2 DEF BeginWrite, Enter, SpaceRunning, SpaceFull, Expired, AfterExpiry, TryEnqueue
  <2>3. CASE \/ Reserve(t) \/ CountEnqueued(t) \/ Publish(t) \/ Unreserve(t) \/ SpaceSleep(t)
             \/ Timeout(t) \/ RecordDrop(t) \/ RecordUnreported(t) \/ Fallback(t)
             \/ FallbackDeliver(t) \/ FallbackRelease(t) \/ FallbackNotify(t)
    BY <2>3 DEF Reserve, CountEnqueued, Publish, Unreserve, SpaceSleep, Timeout, RecordDrop,
                RecordUnreported, Fallback, FallbackDeliver, FallbackRelease, FallbackNotify
  <2>4. CASE BeginFlush(t) \/ FlushStep(t)
    BY <2>4 DEF BeginFlush, FlushStep, FlushCheck, FlushSleep, FlushReport, FlushReturn
  <2>5. QED
    BY <1>2, <2>1, <2>2, <2>3, <2>4 DEF CallStep, WriteStep
<1>3. ASSUME NEW t \in Threads, NEW from, NEW to, Goto(t, from, to),
             to \in Fall => from \in Fall \/ options.policy = "SyncFallback"
      PROVE  FallbackOnly'
  <2>1. \A u \in Threads : pc'[u] = IF u = t THEN to ELSE pc[u]
    BY <1>0, <1>3 DEF Goto
  <2>2. pc[t] = from
    BY <1>3 DEF Goto
  <2>3. QED
    BY <1>1, <1>3, <2>1, <2>2 DEF FallbackOnly
<1>4. CASE UNCHANGED pc
  BY <1>1, <1>4 DEF FallbackOnly
<1>5. ASSUME \/ \E t \in Threads : SpuriousWake(t)
             \/ WorkerStep \/ StartShutdown \/ ShutdownStep \/ UNCHANGED vars
      PROVE  UNCHANGED pc
  BY <1>5 DEF SpuriousWake, WorkerStep, WorkerLoop, WorkerDrain, WorkerDeliver, WorkerRelease,
              WorkerSpaceNotify, WorkerReport, WorkerNotify, WorkerIdle, WorkerDoze,
              WorkerTimeout, WorkerExitReport, WorkerExitFlush, WorkerExitNotify,
              StartShutdown, ShutdownStep, ShutdownWake, ShutdownSpace, ShutdownJoin, vars,
              callVars, WorkerGoto
<1>6. QED
  BY <1>2, <1>3, <1>4, <1>5 DEF Next

\* What the record types are before and after a step.
LEMMA RecordTypes ==
    ASSUME TypeOK
    PROVE  /\ queue \in Seq(Records) /\ hand \in Seq(Records) /\ sinkRecords \in Seq(Records)
           /\ stats.dropped \in Nat /\ Settled \subseteq Records
           /\ options.hasSink \in BOOLEAN
BY DEF TypeOK, ChannelOK, WorkerOK, SinkOK, CountsOK, StatsType, Settled, LifeOK,
       ConfigurationType

\* AppendParts for any record of the model.
LEMMA AppendedTo ==
    \A s \in Seq(Records) : \A e \in Records :
        /\ Members(Append(s, e)) = Members(s) \cup {e}
        /\ Distinct(s) /\ e \notin Members(s) => Distinct(Append(s, e))
<1> SUFFICES ASSUME NEW s \in Seq(Records), NEW e \in Records
             PROVE  /\ Members(Append(s, e)) = Members(s) \cup {e}
                    /\ Distinct(s) /\ e \notin Members(s) => Distinct(Append(s, e))
  OBVIOUS
<1>1. Members(Append(s, e)) = Members(s) \cup {e}
  BY AppendMembers
<1>2. Distinct(s) /\ e \notin Members(s) => Distinct(Append(s, e))
  BY AppendParts
<1>3. QED
  BY <1>1, <1>2

\* A record in hand, as a set.
LEMMA InHand ==
    ASSUME TypeOK, Len(hand) = 1
    PROVE  hand[1] \in Records /\ hand = <<hand[1]>> /\ Members(hand) = {hand[1]}
<1>1. hand \in Seq(Records)
  BY RecordTypes
<1>2. 1 .. Len(hand) = {1}
  OBVIOUS
<1>3. hand[1] \in Records /\ hand = <<hand[1]>>
  BY <1>1
<1>4. Members(hand) = {hand[1]}
  BY <1>2 DEF Members
<1>5. QED
  BY <1>3, <1>4

LEMMA WayKept ==
    ASSUME TypeOK, WayOK, [Next]_vars
    PROVE  WayOK'
<1> USE DEF OnTheWay
<1>0. UNCHANGED options
  BY StepEffect
<1>1. /\ Members(<<>>) = {} /\ \A e : Members(<<e>>) = {e} /\ Distinct(<<e>>)
      /\ Distinct(<<>>)
  BY DEF Members, Distinct
<1>2. ASSUME NEW t \in Threads, Enqueued(t) PROVE WayOK'
  <2>1. /\ Members(queue') = Members(queue) \cup {Current(t)}
        /\ Current(t) \notin Members(queue) => Distinct(queue')
    BY <1>2, RecordTypes, AppendParts DEF Enqueued, Settles, WayOK
  <2>2. QED
    BY <1>0, <1>2, <2>1 DEF Enqueued, Settles, WayOK
<1>3. ASSUME NEW t \in Threads, Bypassed(t) PROVE WayOK'
  <2>1. CASE options.hasSink
    <3>1. sinkRecords' = Append(sinkRecords, Current(t))
      BY <1>3, <2>1 DEF Bypassed
    <3>2. /\ Members(sinkRecords') = Members(sinkRecords) \cup {Current(t)}
          /\ Current(t) \notin Members(sinkRecords) => Distinct(sinkRecords')
      <4>1. Distinct(sinkRecords) /\ Current(t) \in Records /\ sinkRecords \in Seq(Records)
        BY <1>3, RecordTypes DEF Bypassed, Settles, WayOK
      <4>2. QED
        BY <3>1, <4>1, AppendParts, ZenonT(60)
    <3>3. QED
      BY <1>0, <1>3, <2>1, <3>2 DEF Bypassed, Settles, WayOK
  <2>2. CASE ~options.hasSink
    BY <1>0, <1>3, <2>2 DEF Bypassed, Settles, WayOK
  <2>3. QED
    BY <2>1, <2>2
<1>4. ASSUME NEW t \in Threads, Refuses(t) PROVE WayOK'
  BY <1>0, <1>4 DEF Refuses, Settles, WayOK, channel
<1>5. CASE Taken
  <2>1. /\ Members(queue) = {Head(queue)} \cup Members(Tail(queue))
        /\ Distinct(Tail(queue)) /\ Head(queue) \notin Members(Tail(queue))
    BY <1>5, RecordTypes, HeadTailParts DEF Taken, WayOK
  <2>2. Members(hand') = {Head(queue)} /\ Distinct(hand')
    BY <1>1, <1>5 DEF Taken
  <2>3. QED
    BY <1>0, <1>5, <2>1, <2>2 DEF Taken, WayOK
<1>6. CASE Delivered
  <2>0. Members(hand) = {hand[1]} /\ hand[1] \in Records /\ Members(hand') = {} /\ Distinct(hand')
    BY <1>1, <1>6, InHand DEF Delivered
  <2>1. CASE options.hasSink
    <3>1. sinkRecords' = Append(sinkRecords, hand[1])
      BY <1>6, <2>1 DEF Delivered
    <3>2. /\ Members(sinkRecords') = Members(sinkRecords) \cup {hand[1]}
          /\ hand[1] \notin Members(sinkRecords) => Distinct(sinkRecords')
      <4>1. Distinct(sinkRecords) /\ sinkRecords \in Seq(Records)
        BY RecordTypes DEF WayOK
      <4>2. QED
        BY <2>0, <3>1, <4>1, AppendedTo
    <3>3. QED
      BY <1>0, <1>6, <2>0, <2>1, <3>2 DEF Delivered, WayOK
  <2>2. CASE ~options.hasSink
    BY <1>0, <1>6, <2>0, <2>2 DEF Delivered, WayOK
  <2>3. QED
    BY <2>1, <2>2
<1>7. CASE Settled' = Settled /\ UNCHANGED channel
  BY <1>0, <1>7 DEF WayOK, channel
<1>8. QED
  BY <1>2, <1>3, <1>4, <1>5, <1>6, <1>7, StepEffect
  DEF FlushBegun, FlushEnded, Closed, Otherwise

LEMMA LostKept ==
    ASSUME TypeOK, WayOK, LostOK, [Next]_vars
    PROVE  LostOK'
<1> USE DEF OnTheWay
<1> SUFFICES ASSUME options'.hasSink PROVE IsFiniteSet(Lost') /\ Cardinality(Lost') = stats'.dropped
  BY DEF LostOK
<1>0. UNCHANGED options /\ options.hasSink /\ IsFiniteSet(Lost) /\ Cardinality(Lost) = stats.dropped
  BY StepEffect DEF LostOK
<1>1. Members(<<>>) = {} /\ \A e : Members(<<e>>) = {e}
  BY DEF Members
<1>2. ASSUME NEW t \in Threads, Enqueued(t) PROVE Lost' = Lost /\ stats'.dropped = stats.dropped
  <2>1. Members(queue') = Members(queue) \cup {Current(t)}
    BY <1>2, RecordTypes, AppendParts, ZenonT(60) DEF Enqueued, Settles
  <2>2. QED
    BY <1>2, <2>1 DEF Enqueued, Settles, Lost
<1>3. ASSUME NEW t \in Threads, Bypassed(t) PROVE Lost' = Lost /\ stats'.dropped = stats.dropped
  <2>1. Members(sinkRecords') = Members(sinkRecords) \cup {Current(t)}
    BY <1>0, <1>3, RecordTypes, AppendParts DEF Bypassed, Settles
  <2>2. QED
    BY <1>3, <2>1 DEF Bypassed, Settles, Lost
<1>4. ASSUME NEW t \in Threads, Refuses(t)
      PROVE  IsFiniteSet(Lost') /\ Cardinality(Lost') = stats'.dropped
  <2>1. Lost' = Lost \cup {Current(t)} /\ Current(t) \notin Lost
    BY <1>4 DEF Refuses, Settles, Lost, WayOK, channel
  <2>2. QED
    BY <1>0, <1>4, <2>1, FS_AddElement DEF Refuses
<1>5. ASSUME Taken PROVE Lost' = Lost /\ stats'.dropped = stats.dropped
  <2>1. Members(queue) = {Head(queue)} \cup Members(Tail(queue))
    BY <1>5, RecordTypes, HeadTailParts DEF Taken
  <2>2. Members(hand') = {Head(queue)} /\ Members(hand) = {}
    BY <1>1, <1>5 DEF Taken
  <2>3. QED
    BY <1>5, <2>1, <2>2 DEF Taken, Lost
<1>6. ASSUME Delivered PROVE Lost' = Lost /\ stats'.dropped = stats.dropped
  <2>1. Members(hand) = {hand[1]} /\ hand[1] \in Records /\ Members(hand') = {}
    BY <1>1, <1>6, InHand DEF Delivered
  <2>2. Members(sinkRecords') = Members(sinkRecords) \cup {hand[1]}
    <3>1. sinkRecords' = Append(sinkRecords, hand[1])
      BY <1>0, <1>6 DEF Delivered
    <3>2. QED
      BY <2>1, <3>1, RecordTypes, AppendedTo
  <2>3. QED
    BY <1>6, <2>1, <2>2 DEF Delivered, Lost
<1>7. CASE Settled' = Settled /\ UNCHANGED channel /\ UNCHANGED stats.dropped
  BY <1>0, <1>7 DEF Lost, channel
<1>8. QED
  BY <1>0, <1>2, <1>3, <1>4, <1>5, <1>6, <1>7, StepEffect
  DEF FlushBegun, FlushEnded, Closed, Otherwise

LEMMA OrderKept ==
    ASSUME TypeOK, WayOK, OrderOK, FallbackOnly, [Next]_vars
    PROVE  OrderOK'
<1> USE DEF OnTheWay
<1> SUFFICES ASSUME options'.policy # "SyncFallback" PROVE OrderOK'
  BY DEF OrderOK
<1>0. UNCHANGED options /\ options.policy # "SyncFallback"
  BY StepEffect
<1>1. /\ Members(<<>>) = {} /\ \A e : Members(<<e>>) = {e} /\ Ordered(<<e>>)
      /\ Ordered(<<>>)
  BY DEF Members, Ordered
<1>2. ASSUME NEW t \in Threads, Enqueued(t) PROVE OrderOK'
  <2>1. AllOlder(OnTheWay, {Current(t)})
    BY <1>2 DEF Enqueued, Settles, WayOK, AllOlder
  <2>2. /\ Members(queue') = Members(queue) \cup {Current(t)}
        /\ Ordered(queue')
    <3>1. AllOlder(Members(queue), {Current(t)}) /\ Ordered(queue)
      BY <1>0, <2>1 DEF AllOlder, OrderOK
    <3>2. QED
      BY <1>2, <3>1, RecordTypes, AppendParts DEF Enqueued, Settles
  <2>3. QED
    BY <1>0, <1>2, <2>1, <2>2 DEF Enqueued, OrderOK, AllOlder
<1>3. ASSUME NEW t \in Threads, Bypassed(t) PROVE FALSE
  BY <1>0, <1>3 DEF Bypassed, FallbackOnly
<1>5. CASE Taken
  <2>1. /\ Members(queue) = {Head(queue)} \cup Members(Tail(queue))
        /\ Ordered(Tail(queue)) /\ AllOlder({Head(queue)}, Members(Tail(queue)))
    BY <1>0, <1>5, RecordTypes, HeadTailParts DEF Taken, OrderOK
  <2>2. Members(hand') = {Head(queue)} /\ Ordered(hand')
    BY <1>1, <1>5 DEF Taken
  <2>3. QED
    BY <1>0, <1>5, <2>1, <2>2 DEF Taken, OrderOK, AllOlder
<1>6. CASE Delivered
  <2>0. Members(hand) = {hand[1]} /\ hand[1] \in Records /\ Members(hand') = {} /\ Ordered(hand')
    BY <1>1, <1>6, InHand DEF Delivered
  <2>1. CASE options.hasSink
    <3>1. sinkRecords' = Append(sinkRecords, hand[1])
      BY <1>6, <2>1 DEF Delivered
    <3>2. /\ Members(sinkRecords') = Members(sinkRecords) \cup {hand[1]}
          /\ Ordered(sinkRecords')
      BY <1>0, <2>0, <3>1, RecordTypes, AppendParts, SMTT(30) DEF OrderOK
    <3>3. QED
      BY <1>0, <1>6, <2>0, <3>2 DEF Delivered, OrderOK, AllOlder
  <2>2. CASE ~options.hasSink
    BY <1>0, <1>6, <2>0, <2>2 DEF Delivered, OrderOK, AllOlder
  <2>3. QED
    BY <2>1, <2>2
<1>7. CASE UNCHANGED channel
  BY <1>0, <1>7 DEF OrderOK, channel
<1>8. QED
  BY <1>2, <1>3, <1>5, <1>6, <1>7, StepEffect
  DEF FlushBegun, FlushEnded, Closed, Otherwise, Refuses

RecordsInv == WayOK /\ LostOK /\ OrderOK /\ FallbackOnly

\* Where the records are is inductive once the types are known.
THEOREM RecordsInvariant == Spec => []RecordsInv
<1>1. Init => RecordsInv
  <2> SUFFICES ASSUME Init PROVE RecordsInv
    OBVIOUS
  <2>1. Settled = {}
    <3>1. \A r \in Records : r[1] \in Threads /\ r[2] \in Nat /\ r[2] > 0
      BY AsyncSinkAssumption DEF Records, Threads
    <3>2. QED
      BY <3>1 DEF Init, Settled
  <2>2. Members(<<>>) = {} /\ Distinct(<<>>) /\ Ordered(<<>>)
    BY DEF Members, Distinct, Ordered
  <2>3. WayOK
    BY <2>1, <2>2 DEF Init, WayOK, OnTheWay
  <2>4. LostOK
    BY <2>1, FS_EmptySet DEF Init, LostOK, Lost
  <2>5. OrderOK /\ FallbackOnly
    BY <2>2 DEF Init, OrderOK, AllOlder, FallbackOnly
  <2>6. QED
    BY <2>3, <2>4, <2>5 DEF RecordsInv
<1>2. TypeOK /\ RecordsInv /\ [Next]_vars => RecordsInv'
  BY WayKept, LostKept, OrderKept, FallbackOnlyKept DEF RecordsInv
<1>3. QED
  BY <1>1, <1>2, TypeCorrect, PTL DEF Spec

\* The three places as one sequence.
LEMMA InOrderParts ==
    ASSUME TypeOK, WayOK
    PROVE  /\ InOrder \in Seq(Records) /\ Members(InOrder) = OnTheWay /\ Distinct(InOrder)
           /\ OrderOK /\ options.policy # "SyncFallback" => Ordered(InOrder)
<1> DEFINE first == sinkRecords \o hand
<1>1. first \in Seq(Records) /\ InOrder = first \o queue /\ InOrder \in Seq(Records)
  BY RecordTypes DEF InOrder
<1>2. Members(first) = Members(sinkRecords) \cup Members(hand) /\ Distinct(first)
  BY RecordTypes, ConcatParts DEF WayOK
<1>3. ASSUME OrderOK, options.policy # "SyncFallback" PROVE Ordered(first)
  BY <1>3, RecordTypes, ConcatParts DEF OrderOK
<1> HIDE DEF first
<1>4. Members(InOrder) = OnTheWay /\ Distinct(InOrder)
  BY <1>1, <1>2, RecordTypes, ConcatParts DEF WayOK, OnTheWay
<1>5. ASSUME OrderOK, options.policy # "SyncFallback" PROVE Ordered(InOrder)
  <2>1. AllOlder(Members(first), Members(queue))
    BY <1>2, <1>5 DEF OrderOK, AllOlder
  <2>2. QED
    BY <1>1, <1>3, <1>5, <2>1, RecordTypes, ConcatParts DEF OrderOK
<1>6. QED
  BY <1>1, <1>4, <1>5

\* Nothing is lost in silence and nothing is delivered twice, for any number of
\* producers and under every policy.
THEOREM RecordsAccounted == Spec => []Accounted
<1>1. TypeOK /\ RecordsInv => Accounted
  <2> SUFFICES ASSUME TypeOK, RecordsInv, options.hasSink
               PROVE  /\ Members(InOrder) \subseteq Settled
                      /\ Cardinality(Members(InOrder)) = Len(InOrder)
                      /\ Cardinality(Settled \ Members(InOrder)) = stats.dropped
    BY DEF Accounted
  <2>1. InOrder \in Seq(Records) /\ Members(InOrder) = OnTheWay /\ Distinct(InOrder)
    BY InOrderParts DEF RecordsInv
  <2>2. Cardinality(Members(InOrder)) = Len(InOrder)
    BY <2>1, DistinctCardinality
  <2>3. QED
    BY <2>1, <2>2 DEF RecordsInv, WayOK, LostOK, Lost
<1>2. QED
  BY <1>1, TypeCorrect, RecordsInvariant, PTL

\* Without synchronous fallback each producer's records stay in order.
THEOREM ProducersInOrder == Spec => []ProducerOrder
<1>1. TypeOK /\ RecordsInv => ProducerOrder
  <2> SUFFICES ASSUME TypeOK, RecordsInv, options.policy # "SyncFallback"
               PROVE  \A i, j \in 1 .. Len(InOrder) :
                          i < j /\ InOrder[i][1] = InOrder[j][1] => InOrder[i][2] < InOrder[j][2]
    BY DEF ProducerOrder
  <2>1. Ordered(InOrder)
    BY InOrderParts DEF RecordsInv
  <2>2. QED
    BY <2>1 DEF Ordered, Older
<1>2. QED
  BY <1>1, TypeCorrect, RecordsInvariant, PTL

-----------------------------------------------------------------------------
(* Drop reports.                                                           *)

\* The threads between the two fetch_adds of RecordDrop.
MidDrop == {"dropped", "timeout_dropped"}
Dropping == {t \in Threads : pc[t] \in MidDrop}

LEMMA DroppingFinite ==
    IsFiniteSet(Dropping) /\ Cardinality(Dropping) \in Nat
<1>1. IsFiniteSet(Threads)
  BY AsyncSinkAssumption, FS_Union DEF Threads
<1>2. Dropping \subseteq Threads
  BY DEF Dropping
<1>3. QED
  BY <1>1, <1>2, FS_Subset, FS_CardinalityType

\* How a move of thread t changes their number.
LEMMA DroppingMoves ==
    ASSUME TypeOK, NEW t \in Threads, NEW from, NEW to, Goto(t, from, to)
    PROVE  /\ from \notin MidDrop /\ to \notin MidDrop => Dropping' = Dropping
           /\ from \notin MidDrop /\ to \in MidDrop =>
                  Cardinality(Dropping') = Cardinality(Dropping) + 1
           /\ from \in MidDrop /\ to \notin MidDrop =>
                  Cardinality(Dropping') = Cardinality(Dropping) - 1
<1>1. /\ \A u \in Threads : pc'[u] = IF u = t THEN to ELSE pc[u]
      /\ pc[t] = from
  BY DEF TypeOK, CallsOK, Goto
<1>2. from \notin MidDrop /\ to \notin MidDrop => Dropping' = Dropping
  BY <1>1 DEF Dropping
<1>3. ASSUME from \notin MidDrop, to \in MidDrop
      PROVE  Cardinality(Dropping') = Cardinality(Dropping) + 1
  <2>1. t \notin Dropping /\ Dropping' = Dropping \cup {t}
    BY <1>1, <1>3 DEF Dropping
  <2>2. QED
    BY <2>1, DroppingFinite, FS_AddElement
<1>4. ASSUME from \in MidDrop, to \notin MidDrop
      PROVE  Cardinality(Dropping') = Cardinality(Dropping) - 1
  <2>1. t \in Dropping /\ Dropping' = Dropping \ {t}
    BY <1>1, <1>4 DEF Dropping
  <2>2. QED
    BY <2>1, DroppingFinite, FS_RemoveElement
<1>5. QED
  BY <1>2, <1>3, <1>4

DropsBalance == stats.dropped = sinkReported + unreported + Cardinality(Dropping)

LEMMA DropsBalanced ==
    ASSUME TypeOK, TypeOK', options.hasSink, DropsBalance, [Next]_vars
    PROVE  DropsBalance'
<1> USE DEF DropsBalance
<1>1. /\ stats \in StatsType /\ unreported \in Nat /\ sinkReported \in Nat
      /\ Cardinality(Dropping) \in Nat /\ stats.dropped \in Nat
  BY DroppingFinite DEF TypeOK, CountsOK, SinkOK, StatsType
<1>2. ASSUME NEW t \in Threads, RecordDrop(t) PROVE DropsBalance'
  <2>1. \/ Goto(t, "drop", "dropped")
        \/ Goto(t, "timeout_drop", "timeout_dropped")
    BY <1>2 DEF RecordDrop
  <2>2. Cardinality(Dropping') = Cardinality(Dropping) + 1
    BY <2>1, DroppingMoves DEF MidDrop
  <2>3. stats'.dropped = stats.dropped + 1 /\ UNCHANGED <<unreported, sinkReported>>
    BY <1>1, <1>2 DEF RecordDrop, StatsType, sinkVars
  <2>4. QED
    BY <1>1, <2>2, <2>3
<1>3. ASSUME NEW t \in Threads, RecordUnreported(t) PROVE DropsBalance'
  <2>1. \/ Goto(t, "dropped", "ready")
        \/ Goto(t, "timeout_dropped", "ready")
    BY <1>3 DEF RecordUnreported
  <2>2. Cardinality(Dropping') = Cardinality(Dropping) - 1
    BY <2>1, DroppingMoves DEF MidDrop
  <2>3. /\ stats'.dropped = stats.dropped /\ unreported' = unreported + 1
        /\ UNCHANGED sinkReported
    BY <1>1, <1>3 DEF RecordUnreported, StatsType, sinkVars
  <2>4. QED
    BY <1>1, <2>2, <2>3
<1>4. ASSUME NEW t \in Threads,
             \/ BeginWrite(t) \/ BeginFlush(t) \/ FlushStep(t)
             \/ (WriteStep(t) /\ ~RecordDrop(t) /\ ~RecordUnreported(t))
      PROVE  Dropping' = Dropping /\ stats'.dropped = stats.dropped
  <2>1. AfterRefusal[options.policy] \notin MidDrop
    BY DEF AfterRefusal, MidDrop, TypeOK, LifeOK, ConfigurationType, Policies
  <2>2. \E from, to : Goto(t, from, to) /\ from \notin MidDrop /\ to \notin MidDrop
    <3>1. CASE Refused(t)
      BY <2>1, <3>1 DEF Refused, MidDrop
    <3>2. CASE \/ BeginWrite(t) \/ Enter(t) \/ SpaceRunning(t) \/ SpaceFull(t) \/ Expired(t)
               \/ TryEnqueue(t)
      BY <3>2 DEF BeginWrite, Enter, SpaceRunning, SpaceFull, Expired, AfterExpiry,
                  TryEnqueue, MidDrop
    <3>3. CASE \/ Reserve(t) \/ CountEnqueued(t) \/ Publish(t) \/ Unreserve(t) \/ SpaceSleep(t)
               \/ Timeout(t) \/ Fallback(t)
               \/ FallbackDeliver(t) \/ FallbackRelease(t) \/ FallbackNotify(t)
      BY <3>3 DEF Reserve, CountEnqueued, Publish, Unreserve, SpaceSleep, Timeout, Fallback,
                  FallbackDeliver, FallbackRelease, FallbackNotify, MidDrop
    <3>4. CASE BeginFlush(t) \/ FlushStep(t)
      BY <3>4 DEF BeginFlush, FlushStep, FlushCheck, FlushSleep, FlushReport, FlushReturn,
                  MidDrop
    <3>5. QED
      BY <1>4, <3>1, <3>2, <3>3, <3>4 DEF WriteStep
  <2>3. stats'.dropped = stats.dropped
    <3>1. CASE BeginWrite(t) \/ BeginFlush(t) \/ FlushStep(t)
      BY <1>1, <3>1 DEF BeginWrite, BeginFlush, FlushStep, FlushCheck, FlushSleep, FlushReport,
                        FlushReturn, countVars
    <3>2. CASE WriteStep(t) /\ ~RecordDrop(t) /\ ~RecordUnreported(t)
      BY <1>1, <3>2
      DEF WriteStep, Enter, Reserve, TryEnqueue, CountEnqueued, Publish, Unreserve, Refused,
          SpaceRunning, SpaceFull, SpaceSleep, Timeout, Expired, Fallback, FallbackDeliver,
          FallbackRelease, FallbackNotify, Deliver, UpdateHighWatermark, countVars, StatsType
    <3>3. QED
      BY <1>4, <3>1, <3>2
  <2>4. QED
    BY <2>2, <2>3, DroppingMoves
<1>5. ASSUME \/ \E t \in Threads : SpuriousWake(t)
             \/ WorkerStep \/ StartShutdown \/ ShutdownStep \/ UNCHANGED vars
      PROVE  Dropping' = Dropping /\ stats'.dropped = stats.dropped
  <2>1. UNCHANGED pc
    BY <1>5 DEF SpuriousWake, WorkerStep, WorkerLoop, WorkerDrain, WorkerDeliver,
                WorkerRelease, WorkerSpaceNotify, WorkerReport, WorkerNotify, WorkerIdle,
                WorkerDoze, WorkerTimeout, WorkerExitReport, WorkerExitFlush,
                WorkerExitNotify, StartShutdown, ShutdownStep, ShutdownWake, ShutdownSpace,
                ShutdownJoin, vars, callVars, WorkerGoto
  <2>2. stats'.dropped = stats.dropped
    BY <1>1, <1>5
    DEF SpuriousWake, WorkerStep, WorkerLoop, WorkerDrain, WorkerDeliver, WorkerRelease,
        WorkerSpaceNotify, WorkerReport, WorkerNotify, WorkerIdle, WorkerDoze, WorkerTimeout,
        WorkerExitReport, WorkerExitFlush, WorkerExitNotify, StartShutdown, ShutdownStep,
        ShutdownWake, ShutdownSpace, ShutdownJoin, vars, Deliver, countVars, StatsType
  <2>3. QED
    BY <2>1, <2>2 DEF Dropping
<1>6. ASSUME NEW t \in Threads, RecordDrop(t) \/ RecordUnreported(t) PROVE WriteStep(t)
  BY <1>6 DEF WriteStep
<1>7. sinkReported' + unreported' = sinkReported + unreported
      \/ \E t \in Threads : RecordUnreported(t)
  <2>1. ASSUME EmitDropReport PROVE sinkReported' + unreported' = sinkReported + unreported
    BY <1>1, <2>1 DEF EmitDropReport
  <2>2. ASSUME UNCHANGED <<unreported, sinkReported>>
        PROVE  sinkReported' + unreported' = sinkReported + unreported
    BY <2>2
  <2>3. ASSUME NEW t \in Threads, BeginWrite(t) \/ WriteStep(t), ~RecordUnreported(t)
        PROVE  UNCHANGED <<unreported, sinkReported>>
    BY <2>3 DEF BeginWrite, WriteStep, Enter, Reserve, TryEnqueue, CountEnqueued, Publish,
                Unreserve, Refused, SpaceRunning, SpaceFull, SpaceSleep, Timeout, Expired,
                RecordDrop, Fallback, FallbackDeliver, FallbackRelease, FallbackNotify,
                countVars, sinkVars
  <2>4. ASSUME NEW t \in Threads, BeginFlush(t) \/ FlushStep(t) \/ SpuriousWake(t)
        PROVE  EmitDropReport \/ UNCHANGED <<unreported, sinkReported>>
    BY <2>4 DEF BeginFlush, FlushStep, FlushCheck, FlushSleep, FlushReport, FlushReturn,
                SpuriousWake, countVars, sinkVars
  <2>5. ASSUME WorkerStep \/ StartShutdown \/ ShutdownStep \/ UNCHANGED vars
        PROVE  EmitDropReport \/ UNCHANGED <<unreported, sinkReported>>
    BY <2>5 DEF WorkerStep, WorkerLoop, WorkerDrain, WorkerDeliver, WorkerRelease,
                WorkerSpaceNotify, WorkerReport, WorkerNotify, WorkerIdle, WorkerDoze,
                WorkerTimeout, WorkerExitReport, WorkerExitFlush, WorkerExitNotify,
                StartShutdown, ShutdownStep, ShutdownWake, ShutdownSpace, ShutdownJoin, vars,
                countVars, sinkVars
  <2>6. QED
    BY <2>1, <2>2, <2>3, <2>4, <2>5 DEF Next, CallStep
<1>8. ASSUME Dropping' = Dropping, stats'.dropped = stats.dropped,
             sinkReported' + unreported' = sinkReported + unreported
      PROVE  DropsBalance'
  <2>1. sinkReported' \in Nat /\ unreported' \in Nat
    BY DEF TypeOK, SinkOK, CountsOK
  <2>2. QED
    BY <1>1, <1>8, <2>1
<1> HIDE DEF DropsBalance
<1>9. QED
  BY <1>2, <1>3, <1>4, <1>5, <1>7, <1>8 DEF Next, CallStep

\* Every counted drop is reported exactly once, or on its way into a report.
THEOREM DropsAddUp == Spec => []DropsReportedOnce
<1> DEFINE Balanced == options.hasSink => DropsBalance
<1>1. Init => Balanced
  <2> SUFFICES ASSUME Init PROVE DropsBalance
    OBVIOUS
  <2>1. Dropping = {}
    BY DEF Init, Dropping, MidDrop
  <2>2. QED
    BY <2>1, FS_EmptySet DEF Init, DropsBalance
<1>2. TypeOK /\ TypeOK' /\ Balanced /\ [Next]_vars => Balanced'
  BY DropsBalanced, StepEffect
<1>3. Balanced <=> DropsReportedOnce
  BY DEF DropsReportedOnce, DropsBalance, Dropping, MidDrop
<1>4. QED
  BY <1>1, <1>2, <1>3, TypeCorrect, PTL DEF Spec

-----------------------------------------------------------------------------
(* Shutdown.                                                               *)

Exiting == {"exit_report", "exit_flush", "exit_notify", "done"}

\* The order in which the destructor and the worker stop.
LifeOrder ==
    /\ running <=> shutdown = "no"
    /\ wpc \in Exiting => ~running
    /\ shutdown = "joined" => wpc = "done"

\* If no call races the destructor, none is under way once it has begun, so what the
\* worker finds after its loop stays as it is: nothing queued, nothing left to report,
\* and at last nothing left to flush.
Drained ==
    ~options.raced =>
        /\ shutdown # "no" => \A t \in Threads : pc[t] = "ready"
        /\ wpc \in Exiting => queue = <<>>
        /\ wpc \in Exiting \ {"exit_report"} /\ options.hasSink /\ options.emitDropReports =>
               unreported = 0
        /\ wpc \in {"exit_notify", "done"} /\ options.hasSink =>
               sinkFlushed = [records |-> Len(sinkRecords), drops |-> sinkReported]

DrainInv == LifeOrder /\ Drained

\* A step of a call leaves the life of the sink and the worker alone, and makes no
\* progress that an idle sink's destructor could miss.
LEMMA DrainCallStep ==
    ASSUME TypeOK, DrainInv, NEW t \in Threads, BeginWrite(t) \/ BeginFlush(t) \/ CallStep(t)
    PROVE  DrainInv'
<1>1. UNCHANGED <<options, running, shutdown, wpc>>
  BY DEF CallStep, BeginWrite, BeginFlush, FlushStep, FlushCheck, FlushSleep, FlushReport,
         FlushReturn, WriteStep, Enter, Reserve, TryEnqueue, CountEnqueued, Publish,
         Unreserve, Refused, SpaceRunning, SpaceFull, SpaceSleep, Timeout, Expired,
         RecordDrop, RecordUnreported, Fallback, FallbackDeliver, FallbackRelease,
         FallbackNotify, Goto, workerVars, lifeVars
<1>2. CASE options.raced
  BY <1>1, <1>2 DEF DrainInv, LifeOrder, Drained
<1>3. CASE ~options.raced
  <2>1. CallStep(t) => pc[t] # "ready"
    BY DEF CallStep, FlushStep, FlushCheck, FlushSleep, FlushReport,
           FlushReturn, WriteStep, Enter, Reserve, TryEnqueue, CountEnqueued, Publish,
           Unreserve, Refused, SpaceRunning, SpaceFull, SpaceSleep, Timeout, Expired,
           RecordDrop, RecordUnreported, Fallback, FallbackDeliver, FallbackRelease,
           FallbackNotify, Goto
  <2>2. BeginWrite(t) \/ BeginFlush(t) => shutdown = "no"
    BY <1>3 DEF BeginWrite, BeginFlush, Alive, MayRaceShutdown
  <2>3. shutdown = "no"
    BY <1>3, <2>1, <2>2 DEF DrainInv, Drained
  <2>4. wpc \notin Exiting
    BY <2>3 DEF DrainInv, LifeOrder
  <2>5. QED
    BY <1>1, <2>3, <2>4 DEF DrainInv, LifeOrder, Drained, Exiting
<1>4. QED
  BY <1>2, <1>3

\* A step of the worker: it leaves its loop when the sink has stopped and the queue is
\* empty, and from there does one thing after the other.
LEMMA DrainWorkerStep ==
    ASSUME TypeOK, DrainInv, WorkerStep
    PROVE  DrainInv'
<1>1. UNCHANGED <<options, running, shutdown, pc>>
  BY DEF WorkerStep, WorkerLoop, WorkerDrain, WorkerDeliver, WorkerRelease,
         WorkerSpaceNotify, WorkerReport, WorkerNotify, WorkerIdle, WorkerDoze,
         WorkerTimeout, WorkerExitReport, WorkerExitFlush, WorkerExitNotify,
         callVars, WorkerGoto, lifeVars
<1>2. CASE \/ WorkerDrain \/ WorkerDeliver \/ WorkerRelease \/ WorkerSpaceNotify
           \/ WorkerReport \/ WorkerNotify \/ WorkerIdle \/ WorkerDoze \/ WorkerTimeout
  <2>1. wpc # "done" /\ wpc' \notin Exiting
    BY <1>2 DEF WorkerDrain, WorkerDeliver, WorkerRelease, WorkerSpaceNotify, WorkerReport,
                WorkerNotify, WorkerIdle, WorkerDoze, WorkerTimeout, WorkerGoto, Exiting
  <2>2. QED
    BY <1>1, <2>1 DEF DrainInv, LifeOrder, Drained, Exiting
<1>3. CASE WorkerLoop
  <2>1. /\ wpc = "loop" /\ queue' = queue
        /\ wpc' = "drain" \/ (wpc' = "exit_report" /\ ~running /\ queue = <<>>)
    BY <1>3 DEF WorkerLoop, WorkerGoto, KeepsOn, channelVars
  <2>2. QED
    BY <1>1, <2>1 DEF DrainInv, LifeOrder, Drained, Exiting
<1>4. CASE WorkerExitReport
  <2>1. /\ wpc = "exit_report" /\ wpc' = "exit_flush" /\ queue' = queue
        /\ options.emitDropReports => unreported' = 0
    BY <1>4 DEF WorkerExitReport, WorkerGoto, EmitDropReport, channelVars
  <2>2. QED
    BY <1>1, <2>1 DEF DrainInv, LifeOrder, Drained, Exiting
<1>5. CASE WorkerExitFlush
  <2>1. /\ wpc = "exit_flush" /\ wpc' = "exit_notify"
        /\ UNCHANGED <<queue, unreported, sinkRecords, sinkReported>>
        /\ options.hasSink =>
               sinkFlushed' = [records |-> Len(sinkRecords), drops |-> sinkReported]
    BY <1>5 DEF WorkerExitFlush, WorkerGoto, FlushWrappedSink, channelVars, countVars
  <2>2. QED
    BY <1>1, <2>1 DEF DrainInv, LifeOrder, Drained, Exiting
<1>6. CASE WorkerExitNotify
  <2>1. /\ wpc = "exit_notify" /\ wpc' = "done"
        /\ UNCHANGED <<queue, unreported, sinkRecords, sinkReported, sinkFlushed>>
    BY <1>6 DEF WorkerExitNotify, WorkerGoto, channelVars, countVars, sinkVars
  <2>2. QED
    BY <1>1, <2>1 DEF DrainInv, LifeOrder, Drained, Exiting
<1>7. QED
  BY <1>2, <1>3, <1>4, <1>5, <1>6 DEF WorkerStep

\* A step of the destructor, a spurious wakeup, a stutter.
LEMMA DrainOtherStep ==
    ASSUME TypeOK, DrainInv,
           \/ \E t \in Threads : SpuriousWake(t)
           \/ StartShutdown \/ ShutdownStep \/ UNCHANGED vars
    PROVE  DrainInv'
<1>1. UNCHANGED <<options, pc, wpc, queue, unreported, sinkVars>>
  BY DEF SpuriousWake, StartShutdown, ShutdownStep, ShutdownWake, ShutdownSpace, ShutdownJoin,
         vars, callVars, workerVars, channelVars, countVars, sinkVars, lifeVars
<1>2. ASSUME UNCHANGED <<running, shutdown>> PROVE DrainInv'
  BY <1>1, <1>2 DEF DrainInv, LifeOrder, Drained, sinkVars
<1>3. ASSUME (\E t \in Threads : SpuriousWake(t)) \/ UNCHANGED vars
      PROVE  UNCHANGED <<running, shutdown>>
  BY <1>3 DEF SpuriousWake, vars, lifeVars
<1>4. CASE StartShutdown
  <2>1. /\ shutdown = "no" /\ shutdown' = "wake" /\ running' = FALSE
        /\ options.raced \/ \A t \in Threads : pc[t] = "ready"
    BY <1>4 DEF StartShutdown, MayRaceShutdown
  <2>2. QED
    BY <1>1, <2>1 DEF DrainInv, LifeOrder, Drained, sinkVars
<1>5. CASE ShutdownStep
  <2>1. /\ running' = running /\ shutdown # "no" /\ shutdown' # "no"
        /\ shutdown' = "joined" => wpc = "done"
    BY <1>5 DEF ShutdownStep, ShutdownWake, ShutdownSpace, ShutdownJoin
  <2>2. QED
    BY <1>1, <2>1 DEF DrainInv, LifeOrder, Drained, sinkVars
<1>6. QED
  BY <1>2, <1>3, <1>4, <1>5

\* The worker stops after the destructor has begun, and with it, when no call races
\* the destructor, everything there was to deliver, to report and to flush.
THEOREM DrainInvariant == Spec => []DrainInv
<1>1. Init => DrainInv
  BY DEF Init, DrainInv, LifeOrder, Drained, Exiting
<1>2. TypeOK /\ DrainInv /\ [Next]_vars => DrainInv'
  BY DrainCallStep, DrainWorkerStep, DrainOtherStep DEF Next
<1>3. QED
  BY <1>1, <1>2, TypeCorrect, PTL DEF Spec

\* When the destructor of an idle sink returns, nothing is left behind.
THEOREM ShutdownLeavesNothing == Spec => []ShutdownDrains
<1>1. TypeOK /\ OutstandingExact /\ DrainInv /\ DropsReportedOnce => ShutdownDrains
  <2> SUFFICES ASSUME TypeOK, OutstandingExact, DrainInv, DropsReportedOnce,
                      shutdown = "joined", ~options.raced
               PROVE  /\ queue = <<>> /\ hand = <<>> /\ outstanding = 0
                      /\ options.hasSink => sinkFlushed.records = Len(sinkRecords)
                      /\ options.hasSink /\ options.emitDropReports =>
                             sinkFlushed.drops = stats.dropped
    BY DEF ShutdownDrains, MayRaceShutdown
  <2>1. wpc = "done" /\ queue = <<>> /\ \A t \in Threads : pc[t] = "ready"
    BY DEF DrainInv, LifeOrder, Drained, Exiting
  <2>2. hand = <<>>
    BY <2>1 DEF TypeOK, WorkerOK
  <2>3. outstanding = 0
    <3>1. Holding = {}
      BY <2>1 DEF Holding, HoldingLocations
    <3>2. Cardinality(Holding) = 0
      BY <3>1, FS_EmptySet
    <3>3. QED
      BY <2>1, <3>2 DEF OutstandingExact
  <2>4. ASSUME options.hasSink
        PROVE  sinkFlushed = [records |-> Len(sinkRecords), drops |-> sinkReported]
    BY <2>1, <2>4 DEF DrainInv, Drained
  <2>5. ASSUME options.hasSink, options.emitDropReports PROVE stats.dropped = sinkReported
    <3>1. {t \in Threads : pc[t] \in {"dropped", "timeout_dropped"}} = {}
      BY <2>1
    <3>2. Cardinality({t \in Threads : pc[t] \in {"dropped", "timeout_dropped"}}) = 0
      BY <3>1, FS_EmptySet
    <3>3. unreported = 0
      BY <2>1, <2>5 DEF DrainInv, Drained, Exiting
    <3>4. sinkReported \in Nat
      BY DEF TypeOK, SinkOK
    <3>5. QED
      BY <2>5, <3>2, <3>3, <3>4 DEF DropsReportedOnce
  <2>6. QED
    BY <2>1, <2>2, <2>3, <2>4, <2>5
<1>2. QED
  BY <1>1, TypesAndCount, DrainInvariant, DropsAddUp, PTL

-----------------------------------------------------------------------------
(* The sink implements LogChannel.                                         *)

\* The records that are accepted and not delivered.
Waiting == Members(hand) \cup Members(queue)

\* What a Flush has to cover is settled, so what is accepted later is not part of it;
\* and once its wait is over, none of it is waiting.
DueOK ==
    \A t \in Threads :
        /\ due[t].records \subseteq Settled
        /\ pc[t] \in {"flush_report", "flush_sink"} => due[t].records \cap Waiting = {}
        /\ pc[t] \in FlushLocations => t \in Flushers

\* Settled records stay settled, and none comes to wait a second time.
LEMMA WaitingEffect ==
    ASSUME TypeOK, WayOK, [Next]_vars
    PROVE  Settled \subseteq Settled' /\ Waiting' \cap Settled \subseteq Waiting
<1> USE DEF Waiting
<1>1. ASSUME NEW t \in Threads, Enqueued(t)
      PROVE  Settled \subseteq Settled' /\ Waiting' \cap Settled \subseteq Waiting
  <2>1. Members(queue') = Members(queue) \cup {Current(t)}
    BY <1>1, RecordTypes, AppendParts, ZenonT(60) DEF Enqueued, Settles
  <2>2. QED
    BY <1>1, <2>1 DEF Enqueued, Settles
<1>2. CASE Taken
  <2>1. Members(queue) = {Head(queue)} \cup Members(Tail(queue))
    BY <1>2, RecordTypes, HeadTailParts DEF Taken
  <2>2. Members(hand') = {Head(queue)}
    BY <1>2 DEF Taken, Members
  <2>3. QED
    BY <1>2, <2>1, <2>2 DEF Taken
<1>3. CASE Delivered
  <2>1. Members(hand') = {}
    BY <1>3 DEF Delivered, Members
  <2>2. QED
    BY <1>3, <2>1 DEF Delivered
<1>4. CASE Settled \subseteq Settled' /\ UNCHANGED <<hand, queue>>
  BY <1>4
<1>5. QED
  BY <1>1, <1>2, <1>3, <1>4, StepEffect
  DEF Bypassed, Refuses, Settles, FlushBegun, FlushEnded, Closed, Otherwise, channel

LEMMA DueKept ==
    ASSUME TypeOK, OutstandingExact, WayOK, DueOK, [Next]_vars
    PROVE  DueOK'
<1> SUFFICES ASSUME NEW t \in Threads
             PROVE  /\ due'[t].records \subseteq Settled'
                    /\ pc'[t] \in {"flush_report", "flush_sink"} => due'[t].records \cap Waiting' = {}
                    /\ pc'[t] \in FlushLocations => t \in Flushers
  BY DEF DueOK
<1>1. Settled \subseteq Settled' /\ Waiting' \cap Settled \subseteq Waiting
  BY WaitingEffect
<1>2. /\ due[t].records \subseteq Settled
      /\ pc[t] \in {"flush_report", "flush_sink"} => due[t].records \cap Waiting = {}
      /\ pc[t] \in FlushLocations => t \in Flushers
  BY DEF DueOK
<1>3. /\ due \in [Threads -> [records : SUBSET Records, drops : Nat]]
      /\ pc \in [Threads -> Locations]
  BY DEF TypeOK, CallsOK, Locations
<1>4. CASE ~BeginFlush(t) /\ ~FlushStep(t)
  <2>1. due'[t] = due[t] /\ (pc'[t] \in FlushLocations => pc'[t] = pc[t])
    BY <1>4, OthersKeepPromise
  <2>2. QED
    BY <1>1, <1>2, <2>1 DEF FlushLocations
<1>5. CASE BeginFlush(t)
  <2>1. due'[t].records = Waiting /\ pc'[t] = "flush" /\ t \in Flushers
    BY <1>3, <1>5 DEF BeginFlush, Goto, AcceptedSoFar, Waiting
  <2>2. Waiting \subseteq Settled
    BY DEF Waiting, WayOK, OnTheWay
  <2>3. QED
    BY <1>1, <2>1, <2>2
<1>6. CASE FlushCheck(t)
  <2>1. /\ pc'[t] = IF Quiescent THEN "flush_report" ELSE "flush_sleep"
        /\ pc[t] = "flush" /\ UNCHANGED <<due, hand, queue>>
    BY <1>3, <1>6 DEF FlushCheck, Goto, workerVars, channelVars, localVars
  <2>2. Quiescent => Waiting = {}
    <3> SUFFICES ASSUME Quiescent PROVE Members(hand) = {} /\ Members(queue) = {}
      BY DEF Waiting
    <3>1. Cardinality(Holding) \in Nat /\ queue = <<>> /\ outstanding = 0
      BY HoldingFinite DEF Quiescent
    <3>2. wpc # "deliver"
      BY <3>1 DEF OutstandingExact
    <3>3. Len(hand) = 0
      BY <3>2 DEF TypeOK, WorkerOK
    <3>4. QED
      BY <3>1, <3>3 DEF Members
  <2>3. Waiting' = Waiting
    BY <2>1 DEF Waiting
  <2>4. QED
    BY <1>1, <1>2, <2>1, <2>2, <2>3 DEF FlushLocations
<1>7. CASE FlushSleep(t)
  <2>1. pc'[t] = "flush" /\ pc[t] = "flush_sleep" /\ UNCHANGED due
    BY <1>3, <1>7 DEF FlushSleep, Goto, localVars
  <2>2. QED
    BY <1>1, <1>2, <2>1 DEF FlushLocations
<1>8. CASE FlushReport(t)
  <2>1. pc'[t] = "flush_sink" /\ pc[t] = "flush_report" /\ UNCHANGED due
    BY <1>3, <1>8 DEF FlushReport, Goto, localVars
  <2>2. QED
    BY <1>1, <1>2, <2>1 DEF FlushLocations
<1>9. CASE FlushReturn(t)
  <2>1. pc'[t] = "ready" /\ due'[t].records = {}
    BY <1>3, <1>9 DEF FlushReturn, Goto, NothingDue
  <2>2. QED
    BY <2>1 DEF FlushLocations
<1>10. QED
  BY <1>4, <1>5, <1>6, <1>7, <1>8, <1>9 DEF FlushStep

\* What a Flush has to cover, in every state.
THEOREM DueInvariant == Spec => []DueOK
<1>1. Init => DueOK
  BY DEF Init, DueOK, NothingDue, FlushLocations
<1>2. TypeOK /\ OutstandingExact /\ RecordsInv /\ DueOK /\ [Next]_vars => DueOK'
  BY DueKept DEF RecordsInv
<1>3. QED
  BY <1>1, <1>2, TypesAndCount, RecordsInvariant, PTL DEF Spec

pending == hand \o queue

\* The pending records, and how the steps change them.
LEMMA PendingFacts ==
    ASSUME TypeOK
    PROVE  /\ pending \in Seq(Records) /\ Members(pending) = Waiting
           /\ Len(pending) = Len(hand) + Len(queue) /\ Len(hand) \in {0, 1}
           /\ Len(queue) \in Nat
           /\ \A r \in Records : hand \o Append(queue, r) = Append(pending, r)
           /\ hand = <<>> => pending = queue
           /\ Len(hand) = 1 => /\ pending # <<>> /\ Head(pending) = hand[1]
                               /\ Tail(pending) = queue
<1>1. hand \in Seq(Records) /\ queue \in Seq(Records)
  BY RecordTypes
<1>2. pending \in Seq(Records) /\ Members(pending) = Waiting
  BY <1>1, ConcatParts DEF pending, Waiting
<1>3. Len(pending) = Len(hand) + Len(queue) /\ Len(hand) \in {0, 1} /\ Len(queue) \in Nat
  <2>1. Len(hand \o queue) = Len(hand) + Len(queue) /\ Len(queue) \in Nat
    BY <1>1
  <2>2. Len(hand) \in {0, 1}
    BY DEF TypeOK, WorkerOK
  <2>3. QED
    BY <2>1, <2>2 DEF pending
<1>4. ASSUME NEW r \in Records PROVE hand \o Append(queue, r) = Append(pending, r)
  BY <1>1 DEF pending
<1>5. hand = <<>> => pending = queue
  BY <1>1 DEF pending
<1>6. ASSUME Len(hand) = 1
      PROVE  pending # <<>> /\ Head(pending) = hand[1] /\ Tail(pending) = queue
  <2>1. PICK h \in Records : hand = <<h>>
    BY <1>6, InHand
  <2>2. <<h>> \o queue # <<>> /\ Head(<<h>> \o queue) = h /\ Tail(<<h>> \o queue) = queue
    BY <1>1
  <2>3. QED
    BY <2>1, <2>2 DEF pending
<1>7. QED
  BY <1>2, <1>3, <1>4, <1>5, <1>6

\* Channel's Members is AsyncSink's.
LEMMA ChannelMembers == \A s : Channel!Members(s) = Members(s)
BY DEF Channel!Members, Members

kind == [bypass  |-> options.policy = "SyncFallback",
         hasSink |-> options.hasSink, raced |-> options.raced]

\* Every step of the sink is a step of the channel or leaves it as it is.
LEMMA ChannelStep ==
    ASSUME TypeOK, DrainInv, RecordsInv, DueOK, [Next]_vars
    PROVE  [Channel!Next]_(Channel!channelVars)
<1> USE DEF RecordsInv
<1>0. UNCHANGED kind /\ kind.hasSink = options.hasSink /\ kind.raced = options.raced
      /\ kind.bypass = (options.policy = "SyncFallback")
  BY StepEffect DEF kind
<1>1. ASSUME NEW t \in Threads, Enqueued(t) PROVE Channel!Accept(Current(t)) /\ Current(t) \in Records
  <2>1. /\ Current(t) \in Records /\ Current(t) \notin Waiting \cup Members(sinkRecords)
    BY <1>1 DEF Enqueued, Settles, WayOK, OnTheWay, Waiting
  <2>2. Len(pending) < QueueCapacity + 1
    BY <1>1, PendingFacts, AsyncSinkAssumption DEF Enqueued
  <2>3. pending' = Append(pending, Current(t))
    BY <1>1, <2>1, PendingFacts DEF Enqueued, pending
  <2>4. QED
    BY <1>0, <1>1, <2>1, <2>2, <2>3, PendingFacts, ChannelMembers
    DEF Channel!Accept, Enqueued, kind, pending, dues
<1>2. ASSUME NEW t \in Threads, Bypassed(t) PROVE Channel!Bypass(Current(t)) /\ Current(t) \in Records
  <2>1. /\ Current(t) \in Records /\ Current(t) \notin Waiting \cup Members(sinkRecords)
    BY <1>2 DEF Bypassed, Settles, WayOK, OnTheWay, Waiting
  <2>2. options.policy = "SyncFallback"
    BY <1>2 DEF Bypassed, FallbackOnly
  <2>3. QED
    BY <1>0, <1>2, <2>1, <2>2, PendingFacts, ChannelMembers
    DEF Channel!Bypass, Channel!Give, Bypassed, kind, pending, dues
<1>3. ASSUME NEW t \in Threads, Refuses(t) PROVE Channel!Refuse
  BY <1>0, <1>3 DEF Channel!Refuse, Refuses, kind, dues, channel
<1>4. CASE Taken
  <2>1. hand' \o queue' = hand \o queue
    <3>1. queue \in Seq(Records) /\ queue # <<>>
      BY <1>4, RecordTypes DEF Taken
    <3>2. <<Head(queue)>> \o Tail(queue) = queue
      BY <3>1
    <3>3. QED
      BY <1>4, <3>1, <3>2 DEF Taken
  <2>2. QED
    BY <1>0, <1>4, <2>1 DEF Channel!channelVars, Taken, kind, dues
<1>5. CASE Delivered
  <2>1. hand' \o queue' = queue
    BY <1>5, RecordTypes DEF Delivered
  <2>2. /\ pending # <<>> /\ Head(pending) = hand[1] /\ Tail(pending) = queue
    BY <1>5, PendingFacts DEF Delivered
  <2>3. Channel!Deliver
    BY <1>0, <1>5, <2>1, <2>2 DEF Channel!Deliver, Channel!Give, Delivered, kind, pending, dues
  <2>4. QED
    BY <2>3 DEF Channel!Next
<1>6. ASSUME NEW t \in Threads, FlushBegun(t) PROVE t \in Flushers /\ Channel!FlushBegin(t)
  <2>1. t \in Flushers /\ \A f \in Flushers : f \in Threads
    BY <1>6 DEF FlushBegun, Threads
  <2>2. due \in [Threads -> [records : SUBSET Records, drops : Nat]]
    BY DEF TypeOK, CallsOK
  <2>3. AcceptedSoFar.records = Members(pending)
    BY PendingFacts DEF AcceptedSoFar, Waiting
  <2>4. [f \in Flushers |-> due'[f].records]
        = [[f \in Flushers |-> due[f].records] EXCEPT ![t] = Members(pending)]
    BY <1>6, <2>1, <2>2, <2>3 DEF FlushBegun
  <2>5. QED
    BY <1>0, <1>6, <2>1, <2>4, ChannelMembers
    DEF Channel!FlushBegin, FlushBegun, kind, pending, channel
<1>7. ASSUME FlushesSink PROVE Channel!FlushSink
  BY <1>7 DEF FlushesSink, Channel!FlushSink
<1>8. ASSUME NEW t \in Threads, FlushEnded(t) PROVE t \in Flushers /\ Channel!FlushEnd(t)
  <2>1. t \in Flushers /\ \A f \in Flushers : f \in Threads
    BY <1>8 DEF FlushEnded, DueOK, FlushLocations, Threads
  <2>2. due \in [Threads -> [records : SUBSET Records, drops : Nat]]
    BY DEF TypeOK, CallsOK
  <2>3. due[t].records \cap Members(pending) = {}
    BY <1>8, PendingFacts DEF DueOK, FlushEnded
  <2>4. [f \in Flushers |-> due'[f].records]
        = [[f \in Flushers |-> due[f].records] EXCEPT ![t] = {}]
    BY <1>8, <2>1, <2>2 DEF FlushEnded, NothingDue
  <2>5. QED
    BY <1>0, <1>7, <1>8, <2>1, <2>3, <2>4, ChannelMembers
    DEF Channel!FlushEnd, FlushEnded, kind, pending, channel
<1>9. CASE Closed
  <2>1. options.raced \/ pending = <<>>
    <3> SUFFICES ASSUME ~options.raced PROVE pending = <<>>
      OBVIOUS
    <3>1. hand = <<>>
      BY <1>9 DEF Closed, TypeOK, WorkerOK
    <3>2. queue = <<>>
      BY <1>9 DEF Closed, DrainInv, Drained, Exiting
    <3>3. QED
      BY <3>1, <3>2, PendingFacts
  <2>2. Channel!Close
    BY <1>0, <1>7, <1>9, <2>1 DEF Channel!Close, Closed, kind, pending, channel, dues
  <2>3. QED
    BY <2>2 DEF Channel!Next
<1>10. CASE Otherwise
  BY <1>0, <1>10 DEF Channel!channelVars, Otherwise, kind, channel, dues
<1>11. QED
  BY <1>1, <1>2, <1>3, <1>4, <1>5, <1>6, <1>8, <1>9, <1>10, StepEffect DEF Channel!Next

\* The sink keeps the abstract channel's promises, whatever the threads, the mutexes
\* and the condition variables do.
THEOREM SinkImplementsChannel == Spec => ImplementsLogChannel
<1>1. Init => Channel!Init
  <2> SUFFICES ASSUME Init PROVE Channel!Init
    OBVIOUS
  <2>1. kind \in [bypass : BOOLEAN, hasSink : BOOLEAN, raced : BOOLEAN]
    BY AsyncSinkAssumption DEF Init, kind, ConfigurationType
  <2>2. [f \in Flushers |-> due[f].records] = [f \in Flushers |-> {}]
    BY DEF Init, NothingDue, Threads
  <2>3. hand \o queue = <<>> /\ sinkRecords = <<>> /\ stats.dropped = 0
        /\ sinkFlushed.records = 0
    BY DEF Init
  <2>4. QED
    BY <2>1, <2>2, <2>3 DEF Channel!Init, kind
<1>2. QED
  BY <1>1, ChannelStep, TypeCorrect, DrainInvariant, RecordsInvariant, DueInvariant, PTL
  DEF Spec, ImplementsLogChannel, Channel!Spec
=============================================================================
