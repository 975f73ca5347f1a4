---------------------------- MODULE LoggerProofs ----------------------------
(***************************************************************************)
(* Theorems of Logger, for every set of threads, loggers, templates and    *)
(* sinks, every wiring and every bound: the types, that the recursion      *)
(* guard is exact, who may still use a sink, what a flush and the end of a *)
(* sink leave behind, in which sinks a record is, and what the error       *)
(* counters tell.                                                          *)
(*                                                                         *)
(* A frame is known by its place, a thread and a depth.  The lemmas named  *)
(* ...Effect say, for each action, which places it takes away, which it    *)
(* fills, and with what.                                                   *)
(***************************************************************************)
EXTENDS Logger, FiniteSetTheorems, SequenceTheorems, TLAPS

-----------------------------------------------------------------------------
(* Stacks of frames.                                                       *)

\* The last element of a sequence, and what is before it.
LEMMA LastAndFront ==
    ASSUME NEW S, NEW s \in Seq(S), s # <<>>
    PROVE  /\ Len(s) \in Nat \ {0} /\ Last(s) = s[Len(s)] /\ Last(s) \in S
           /\ Front(s) \in Seq(S) /\ Len(Front(s)) = Len(s) - 1
           /\ \A i \in 1 .. Len(s) - 1 : Front(s)[i] = s[i]
<1>1. Len(s) \in Nat \ {0}
  OBVIOUS
<1>2. Last(s) = s[Len(s)] /\ Last(s) \in S
  BY <1>1 DEF Last
<1>3. Front(s) = SubSeq(s, 1, Len(s) - 1)
  BY DEF Front
<1>4. /\ Front(s) \in Seq(S) /\ Len(Front(s)) = Len(s) - 1
      /\ \A i \in 1 .. Len(s) - 1 : Front(s)[i] = s[i]
  <2> DEFINE n == Len(s) - 1
  <2>1. n \in Nat /\ n - 1 + 1 = n /\ \A i \in 1 .. n : s[i] \in S /\ 1 + i - 1 = i
    BY <1>1
  <2> HIDE DEF n
  <2>2. /\ SubSeq(s, 1, n) \in Seq(S)
        /\ Len(SubSeq(s, 1, n)) = IF 1 <= n THEN n - 1 + 1 ELSE 0
        /\ \A i \in 1 .. n - 1 + 1 : SubSeq(s, 1, n)[i] = s[1 + i - 1]
    BY <2>1, SubSeqProperties
  <2>3. Len(SubSeq(s, 1, n)) = n /\ \A i \in 1 .. n : SubSeq(s, 1, n)[i] = s[i]
    BY <2>1, <2>2
  <2>4. QED
    BY <1>3, <2>2, <2>3 DEF n
<1>5. QED
  BY <1>1, <1>2, <1>4

\* A frame keeps its type when it moves on, or to another place than the builder.
LEMMA FrameMoves ==
    ASSUME NEW f \in FrameType
    PROVE  /\ Beyond(f) \in FrameType
           /\ \A at \in {"fan", "write"} : [f EXCEPT !.at = at] \in FrameType
           /\ \A at \in {"fan", "release", "destroy"}, sinks \in SinkSet :
                  /\ [f EXCEPT !.at = at, !.sinks = sinks] \in FrameType
                  /\ [f EXCEPT !.at = at, !.sinks = sinks, !.next = 1] \in FrameType
<1>1. Beyond(f) \in FrameType
  BY DEF FrameType, Beyond
<1>2. \A at \in {"fan", "write"} : [f EXCEPT !.at = at] \in FrameType
  BY DEF FrameType
<1>3. \A at \in {"fan", "release", "destroy"}, sinks \in SinkSet :
          /\ [f EXCEPT !.at = at, !.sinks = sinks] \in FrameType
          /\ [f EXCEPT !.at = at, !.sinks = sinks, !.next = 1] \in FrameType
  <2> TAKE at \in {"fan", "release", "destroy"}, sinks \in SinkSet
  <2>1. [f EXCEPT !.at = at, !.sinks = sinks] \in FrameType
    BY DEF FrameType
  <2>2. [f EXCEPT !.at = at, !.sinks = sinks, !.next = 1] \in FrameType
    <3>1. ASSUME NEW g \in FrameType  PROVE [g EXCEPT !.next = 1] \in FrameType
      BY DEF FrameType
    <3>2. QED
      BY <2>1, <3>1
  <2>3. QED
    BY <2>1, <2>2
<1>4. QED
  BY <1>1, <1>2, <1>3

\* The frames of a thread that calls, goes on or returns have their type.
LEMMA StackMoves ==
    ASSUME frames \in [Actors -> Seq(FrameType)], NEW t \in Actors
    PROVE  /\ \A f \in FrameType : Pushed(t, f) \in [Actors -> Seq(FrameType)]
           /\ frames[t] # <<>> =>
                  /\ Top(t) \in FrameType
                  /\ Popped(t) \in [Actors -> Seq(FrameType)]
                  /\ \A f \in FrameType : Moved(t, f) \in [Actors -> Seq(FrameType)]
<1>1. \A f \in FrameType : Pushed(t, f) \in [Actors -> Seq(FrameType)]
  BY DEF Pushed
<1>2. ASSUME frames[t] # <<>>
      PROVE  /\ Top(t) \in FrameType
             /\ Popped(t) \in [Actors -> Seq(FrameType)]
             /\ \A f \in FrameType : Moved(t, f) \in [Actors -> Seq(FrameType)]
  <2>1. Last(frames[t]) \in FrameType /\ Front(frames[t]) \in Seq(FrameType)
    BY <1>2, LastAndFront
  <2>2. Popped(t) = [frames EXCEPT ![t] = Front(frames[t])]
    BY DEF Popped
  <2>3. \A f : Moved(t, f) = [frames EXCEPT ![t] = Append(Front(frames[t]), f)]
    BY DEF Moved
  <2>4. Popped(t) \in [Actors -> Seq(FrameType)]
    BY <2>1, <2>2
  <2>5. ASSUME NEW f \in FrameType
        PROVE  Moved(t, f) \in [Actors -> Seq(FrameType)]
    <3>1. Append(Front(frames[t]), f) \in Seq(FrameType)
      BY <2>1
    <3>2. QED
      BY <3>1, <2>3
  <2>6. QED
    BY <2>1, <2>4, <2>5 DEF Top
<1>3. QED
  BY <1>1, <1>2

-----------------------------------------------------------------------------
(* The guard and one stack.                                                *)

\* A call that is not a dispatch leaves the guard alone.
LEMMA ExactPush ==
    ASSUME NEW T, NEW guard, NEW stack \in Seq(FrameType), NEW f \in FrameType,
           Exact(T, guard, stack), ~Dispatching(f)
    PROVE  Exact(T, guard, Append(stack, f))
<1> DEFINE longer == Append(stack, f)
<1>1. /\ DOMAIN longer = DOMAIN stack \cup {Len(stack) + 1}
      /\ longer[Len(stack) + 1] = f
      /\ \A i \in DOMAIN stack : longer[i] = stack[i]
  OBVIOUS
<1> HIDE DEF longer
<1>2. {j \in DOMAIN longer : Dispatching(longer[j])} = {j \in DOMAIN stack : Dispatching(stack[j])}
  BY <1>1
<1>3. QED
  BY <1>1, <1>2 DEF Exact, longer

\* A dispatch that begins raises the flag of its template, which was not up.
LEMMA ExactEnter ==
    ASSUME NEW T, NEW guard, NEW stack \in Seq(FrameType), NEW f \in FrameType,
           Exact(T, guard, stack), Dispatching(f), T[f.logger] \notin guard
    PROVE  Exact(T, guard \cup {T[f.logger]}, Append(stack, f))
<1> DEFINE longer == Append(stack, f)
           inside == {j \in DOMAIN stack : Dispatching(stack[j])}
<1>1. /\ DOMAIN longer = DOMAIN stack \cup {Len(stack) + 1} /\ Len(stack) + 1 \notin DOMAIN stack
      /\ longer[Len(stack) + 1] = f
      /\ \A i \in DOMAIN stack : longer[i] = stack[i]
  OBVIOUS
<1> HIDE DEF longer
<1>2. {j \in DOMAIN longer : Dispatching(longer[j])} = inside \cup {Len(stack) + 1}
  BY <1>1
<1>3. {T[longer[i].logger] : i \in inside \cup {Len(stack) + 1}} = guard \cup {T[f.logger]}
  BY <1>1 DEF Exact
<1>4. \A i \in inside : T[stack[i].logger] \in guard
  BY DEF Exact
<1>5. \A i, j \in DOMAIN longer :
          /\ Dispatching(longer[i]) /\ Dispatching(longer[j]) /\ i # j
          => T[longer[i].logger] # T[longer[j].logger]
  BY <1>1, <1>4 DEF Exact
<1>6. QED
  BY <1>2, <1>3, <1>5 DEF Exact, longer

\* A call that ends takes the flag of its template with it, if it is a dispatch.
LEMMA ExactPop ==
    ASSUME NEW T, NEW guard, NEW stack \in Seq(FrameType), stack # <<>>,
           Exact(T, guard, stack)
    PROVE  LET f == Last(stack)
           IN  IF Dispatching(f)
               THEN Exact(T, guard \ {T[f.logger]}, Front(stack)) /\ T[f.logger] \in guard
               ELSE Exact(T, guard, Front(stack))
<1> DEFINE f == Last(stack)
           front == Front(stack)
           inside == {j \in DOMAIN front : Dispatching(front[j])}
<1>1. /\ front \in Seq(FrameType) /\ Len(stack) \in DOMAIN stack
      /\ DOMAIN front = DOMAIN stack \ {Len(stack)}
      /\ stack[Len(stack)] = f
      /\ \A i \in DOMAIN front : stack[i] = front[i]
  <2>1. /\ Len(stack) \in Nat \ {0} /\ f = stack[Len(stack)]
        /\ front \in Seq(FrameType) /\ Len(front) = Len(stack) - 1
        /\ \A i \in 1 .. Len(stack) - 1 : front[i] = stack[i]
    BY LastAndFront
  <2>2. DOMAIN front = 1 .. Len(stack) - 1 /\ DOMAIN stack = 1 .. Len(stack)
    BY <2>1
  <2>3. QED
    BY <2>1, <2>2
<1> HIDE DEF f, front
<1>2. \A i, j \in DOMAIN front :
          /\ Dispatching(front[i]) /\ Dispatching(front[j]) /\ i # j
          => T[front[i].logger] # T[front[j].logger]
  BY <1>1 DEF Exact
<1>3. ASSUME Dispatching(f)
      PROVE  guard \ {T[f.logger]} = {T[front[i].logger] : i \in inside} /\ T[f.logger] \in guard
  <2>1. {j \in DOMAIN stack : Dispatching(stack[j])} = inside \cup {Len(stack)}
    BY <1>1, <1>3
  <2>2. guard = {T[stack[i].logger] : i \in inside \cup {Len(stack)}}
    BY <2>1 DEF Exact
  <2>3. \A i \in inside : T[stack[i].logger] # T[f.logger] /\ stack[i] = front[i]
    BY <1>1, <1>3 DEF Exact
  <2>4. QED
    BY <1>1, <2>2, <2>3
<1>4. ASSUME ~Dispatching(f)
      PROVE  guard = {T[front[i].logger] : i \in inside}
  <2>1. {j \in DOMAIN stack : Dispatching(stack[j])} = inside
    BY <1>1, <1>4
  <2>2. QED
    BY <1>1, <2>1 DEF Exact
<1>5. QED
  BY <1>2, <1>3, <1>4 DEF Exact, f, front

\* A call that goes on and is a dispatch, of the same logger, as it was before or was not.
LEMMA ExactMove ==
    ASSUME NEW T, NEW guard, NEW stack \in Seq(FrameType), stack # <<>>, NEW f \in FrameType,
           Exact(T, guard, stack), Dispatching(f) <=> Dispatching(Last(stack)),
           f.logger = Last(stack).logger
    PROVE  Exact(T, guard, Append(Front(stack), f))
<1>1. Front(stack) \in Seq(FrameType)
  BY LastAndFront
<1>2. CASE Dispatching(f)
  <2>1. /\ Exact(T, guard \ {T[f.logger]}, Front(stack)) /\ T[f.logger] \in guard
    BY <1>2, ExactPop
  <2>2. Exact(T, (guard \ {T[f.logger]}) \cup {T[f.logger]}, Append(Front(stack), f))
    BY <1>1, <1>2, <2>1, ExactEnter
  <2>3. (guard \ {T[f.logger]}) \cup {T[f.logger]} = guard
    BY <2>1
  <2>4. QED
    BY <2>2, <2>3
<1>3. CASE ~Dispatching(f)
  <2>1. Exact(T, guard, Front(stack))
    BY <1>3, ExactPop
  <2>2. QED
    BY <1>1, <1>3, <2>1, ExactPush
<1>4. QED
  BY <1>2, <1>3

-----------------------------------------------------------------------------
(* Types.                                                                  *)

\* The constants of a wiring have the types that LoggerAssumption gives them.
LEMMA WiringTyped ==
    ASSUME TypeOK
    PROVE  /\ wiring.template \in [Loggers -> Templates]
           /\ wiring.second \in [Loggers -> SinkSet] /\ wiring.initial \in [Loggers -> SinkSet]
           /\ wiring.replaced \subseteq Loggers
BY LoggerAssumption DEF TypeOK, WiringType

\* The record of a call of Log or Deliver.
LEMMA RecordTyped ==
    ASSUME NEW f \in FrameType, f.op \in {"Log", "Deliver"}
    PROVE  Record(f) \in f.records /\ Record(f) \in 1 .. MaxRecords
<1>1. f.records # {} /\ f.records \subseteq 1 .. MaxRecords
  BY DEF FrameType
<1>2. QED
  BY <1>1 DEF Record

\* The history of calls keeps its type when one call is brought up to date.
LEMMA LogTyped ==
    ASSUME NEW s \in Seq(CallType), NEW r, NEW call, r \in DOMAIN s => call \in CallType
    PROVE  [s EXCEPT ![r] = call] \in Seq(CallType) /\ Len([s EXCEPT ![r] = call]) = Len(s)
<1>1. CASE r \in DOMAIN s
  BY <1>1, ExceptSeq
<1>2. CASE r \notin DOMAIN s
  <2>1. [s EXCEPT ![r] = call] = s
    BY <1>2
  <2>2. QED
    BY <2>1
<1>3. QED
  BY <1>1, <1>2

\* Dispatch: the top frame goes to the loop, or to its end.
LEMMA DispatchTyped ==
    ASSUME TypeOK, NEW t \in Actors, NEW throws \in BOOLEAN, Dispatch(t, throws)
    PROVE  TypeOK'
<1> DEFINE l == Top(t).logger
           r == Record(Top(t))
           outcome == IF active[l] = <<>> THEN "no sinks"
                      ELSE IF InDispatch(t, l) THEN "recursive" ELSE "open"
<1>1. frames[t] # <<>> /\ Top(t) \in FrameType /\ Top(t).at = "build"
  BY StackMoves DEF TypeOK, Dispatch, TopAt
<1>2. l \in Loggers /\ active[l] \in SinkSet /\ wiring.template[l] \in Templates
  BY <1>1, WiringTyped DEF FrameType, TypeOK
<1>3. frames' \in [Actors -> Seq(FrameType)]
  <2>1. \A at \in {"fan", "release"} : [Top(t) EXCEPT !.at = at, !.sinks = active[l]] \in FrameType
    BY <1>1, <1>2, FrameMoves
  <2>2. frames' = Moved(t, [Top(t) EXCEPT !.at = IF outcome = "open" THEN "fan" ELSE "release",
                                          !.sinks = active[l]])
    BY DEF Dispatch
  <2>3. QED
    BY <1>1, <2>1, <2>2, StackMoves DEF TypeOK
<1>4. inDispatch' \in [Actors -> SUBSET Templates]
  BY <1>2 DEF TypeOK, Dispatch
<1>5. errors' \in [Loggers -> Nat]
  <2>1. errors' = [errors EXCEPT ![l] = @ + (IF throws THEN 1 ELSE 0)
                                          + (IF outcome = "recursive" THEN 1 ELSE 0)]
    BY DEF Dispatch
  <2>2. (IF throws THEN 1 ELSE 0) \in Nat /\ (IF outcome = "recursive" THEN 1 ELSE 0) \in Nat
    OBVIOUS
  <2> HIDE DEF outcome, l
  <2>3. QED
    BY <1>2, <2>1, <2>2 DEF TypeOK
<1>6. log' \in Seq(CallType) /\ Len(log') <= MaxRecords
  <2>1. log' = [log EXCEPT ![r].threw = throws, ![r].outcome = outcome]
    BY DEF Dispatch
  <2>2. outcome \in Outcomes
    BY DEF Outcomes
  <2> HIDE DEF outcome, r
  <2> DEFINE call == [log[r] EXCEPT !.threw = throws, !.outcome = outcome]
  <2>3. r \in DOMAIN log => call \in CallType
    <3> SUFFICES ASSUME r \in DOMAIN log  PROVE call \in CallType
      OBVIOUS
    <3>1. log[r] \in CallType
      BY DEF TypeOK
    <3>2. QED
      BY <2>2, <3>1 DEF CallType
  <2>4. log' = [log EXCEPT ![r] = call]
    BY <2>1
  <2> HIDE DEF call
  <2>5. QED
    BY <2>3, <2>4, LogTyped DEF TypeOK
<1>7. UNCHANGED <<wiring, active, spare, queue, written, flushed, gone, flushes>>
  BY DEF Dispatch, channels
<1>8. QED
  BY <1>3, <1>4, <1>5, <1>6, <1>7 DEF TypeOK

\* A call goes into a sink and comes back: WritePlain, Deliver and WriteReturns.
LEMMA CalledTyped ==
    ASSUME TypeOK, NEW t \in Actors, frames[t] # <<>>
    PROVE  Called(t, Top(t)) \in [Actors -> Seq(FrameType)]
BY FrameMoves, StackMoves DEF TypeOK, Called

LEMMA WrittenTyped ==
    ASSUME TypeOK, NEW s \in Sinks, NEW r \in 1 .. MaxRecords
    PROVE  [written EXCEPT ![s] = Append(@, r)] \in [Sinks -> Seq(1 .. MaxRecords)]
BY DEF TypeOK

LEMMA SinkCallsTyped ==
    ASSUME TypeOK, NEW t \in Actors,
           \/ \E s \in PlainSinks : WritePlain(t, s)
           \/ \E s \in AsyncSinks : Deliver(t, s)
           \/ WriteReturns(t)
           \/ Skip(t)
    PROVE  TypeOK'
<1>1. ASSUME NEW s \in PlainSinks, WritePlain(t, s)
      PROVE  TypeOK'
  <2>1. frames[t] # <<>> /\ Top(t).op = "Log" /\ Top(t) \in FrameType
    BY <1>1, StackMoves DEF TypeOK, WritePlain, Reaches, TopAt
  <2>2. frames' \in [Actors -> Seq(FrameType)]
    BY <1>1, <2>1, CalledTyped DEF WritePlain
  <2>3. written' \in [Sinks -> Seq(1 .. MaxRecords)]
    BY <1>1, <2>1, RecordTyped, WrittenTyped DEF WritePlain, Sinks
  <2>4. QED
    BY <1>1, <2>2, <2>3 DEF TypeOK, WritePlain
<1>2. ASSUME NEW s \in AsyncSinks, Deliver(t, s)
      PROVE  TypeOK'
  <2>1. frames[t] # <<>> /\ Top(t).op = "Deliver" /\ Top(t) \in FrameType
    BY <1>2, StackMoves DEF TypeOK, Deliver, Delivers, TopAt
  <2>2. frames' \in [Actors -> Seq(FrameType)]
    BY <1>2, <2>1, CalledTyped DEF Deliver
  <2>3. written' \in [Sinks -> Seq(1 .. MaxRecords)]
    BY <1>2, <2>1, RecordTyped, WrittenTyped DEF Deliver, Sinks
  <2>4. QED
    BY <1>2, <2>2, <2>3 DEF TypeOK, Deliver
<1>3. ASSUME WriteReturns(t)
      PROVE  TypeOK'
  <2>1. frames[t] # <<>> /\ Top(t) \in FrameType
    BY <1>3, StackMoves DEF TypeOK, WriteReturns, TopAt
  <2>2. [Beyond(Top(t)) EXCEPT !.at = "fan"] \in FrameType
    BY <2>1, FrameMoves
  <2>3. frames' \in [Actors -> Seq(FrameType)]
    BY <1>3, <2>1, <2>2, StackMoves DEF TypeOK, WriteReturns
  <2>4. QED
    BY <1>3, <2>3 DEF TypeOK, WriteReturns, channels
<1>4. ASSUME Skip(t)
      PROVE  TypeOK'
  <2>1. frames[t] # <<>> /\ Top(t) \in FrameType
    BY <1>4, StackMoves DEF TypeOK, Skip, Reaches, TopAt
  <2>2. frames' \in [Actors -> Seq(FrameType)]
    BY <1>4, <2>1, FrameMoves, StackMoves DEF TypeOK, Skip
  <2>3. QED
    BY <1>4, <2>2 DEF TypeOK, Skip, channels
<1>5. QED
  BY <1>1, <1>2, <1>3, <1>4

\* The queue of an asynchronous sink: WriteAsync and Dequeue.
LEMMA DeliverFrameTyped ==
    ASSUME NEW s \in AsyncSinks, NEW r \in 1 .. MaxRecords
    PROVE  DeliverFrame(s, r) \in FrameType
<1>1. <<s>> \in SinkSet
  BY DEF SinkSet, Sinks
<1>2. QED
  BY <1>1 DEF DeliverFrame, FrameType

LEMMA QueueTyped ==
    ASSUME TypeOK, NEW t \in Actors, NEW s \in AsyncSinks,
           WriteAsync(t, s) \/ (t = s /\ Dequeue(s))
    PROVE  TypeOK'
<1>1. CASE WriteAsync(t, s)
  <2> DEFINE r == Record(Top(t))
             past == Moved(t, Beyond(Top(t)))
  <2>1. frames[t] # <<>> /\ Top(t) \in FrameType /\ r \in 1 .. MaxRecords
    BY <1>1, StackMoves, RecordTyped DEF TypeOK, WriteAsync, Reaches, TopAt
  <2>2. past \in [Actors -> Seq(FrameType)]
    BY <2>1, FrameMoves, StackMoves DEF TypeOK
  <2>3. [past EXCEPT ![t] = Append(@, DeliverFrame(s, r))] \in [Actors -> Seq(FrameType)]
    BY <2>1, <2>2, DeliverFrameTyped
  <2>4. [queue EXCEPT ![s] = Append(@, r)] \in [AsyncSinks -> Seq(1 .. MaxRecords)]
    BY <2>1 DEF TypeOK
  <2>5. LET l == [log EXCEPT ![r].refusedBy = @ \cup {s}]
        IN  l \in Seq(CallType) /\ Len(l) = Len(log)
    <3> DEFINE call == [log[r] EXCEPT !.refusedBy = @ \cup {s}]
    <3>1. r \in DOMAIN log => call \in CallType
      <4> SUFFICES ASSUME r \in DOMAIN log  PROVE call \in CallType
        OBVIOUS
      <4>1. log[r] \in CallType
        BY DEF TypeOK
      <4>2. QED
        BY <4>1 DEF CallType
    <3>2. [log EXCEPT ![r].refusedBy = @ \cup {s}] = [log EXCEPT ![r] = call]
      OBVIOUS
    <3> HIDE DEF call
    <3>3. QED
      BY <3>1, <3>2, LogTyped DEF TypeOK
  <2>6. frames' \in {past, [past EXCEPT ![t] = Append(@, DeliverFrame(s, r))]}
    BY <1>1 DEF WriteAsync
  <2>7. /\ queue' \in {queue, [queue EXCEPT ![s] = Append(@, r)]}
        /\ queue' # queue => Len(queue[s]) < Room
    BY <1>1 DEF WriteAsync, HasRoom
  <2>8. log' \in {log, [log EXCEPT ![r].refusedBy = @ \cup {s}]}
    BY <1>1 DEF WriteAsync
  <2>9. UNCHANGED <<wiring, active, spare, errors, inDispatch, written, flushed, gone, flushes>>
    BY <1>1 DEF WriteAsync
  <2> HIDE DEF past, r
  <2>10. \A z \in AsyncSinks : Len(queue'[z]) <= Room
    <3>1. CASE queue' = queue
      BY <3>1 DEF TypeOK
    <3>2. CASE queue' # queue
      <4>1. /\ queue' = [queue EXCEPT ![s] = Append(@, r)]
            /\ queue[s] \in Seq(1 .. MaxRecords) /\ Len(queue[s]) < Room
        BY <2>7, <3>2 DEF TypeOK
      <4>2. Len(Append(queue[s], r)) = Len(queue[s]) + 1
        BY <2>1, <4>1, AppendProperties
      <4>3. Len(queue[s]) + 1 <= Room
        BY <4>1, LenProperties, LoggerAssumption
      <4>4. \A z \in AsyncSinks : queue'[z] = IF z = s THEN Append(queue[s], r) ELSE queue[z]
        BY <4>1 DEF TypeOK
      <4>5. QED
        BY <4>2, <4>3, <4>4 DEF TypeOK
    <3>3. QED
      BY <3>1, <3>2
  <2>11. QED
    BY <2>2, <2>3, <2>4, <2>5, <2>6, <2>7, <2>8, <2>9, <2>10 DEF TypeOK
<1>2. CASE t = s /\ Dequeue(s)
  <2>1. /\ Head(queue[s]) \in 1 .. MaxRecords
        /\ [queue EXCEPT ![s] = Tail(@)] \in [AsyncSinks -> Seq(1 .. MaxRecords)]
    <3>1. queue[s] \in Seq(1 .. MaxRecords) /\ queue[s] # <<>>
      BY <1>2 DEF TypeOK, Dequeue
    <3>2. Head(queue[s]) \in 1 .. MaxRecords /\ Tail(queue[s]) \in Seq(1 .. MaxRecords)
      BY <3>1, HeadTailProperties
    <3>3. QED
      BY <3>2 DEF TypeOK
  <2>2. frames' \in [Actors -> Seq(FrameType)]
    BY <1>2, <2>1, DeliverFrameTyped, StackMoves DEF TypeOK, Dequeue
  <2>3. \A z \in AsyncSinks : Len(queue'[z]) <= Room
    <3>1. queue[s] \in Seq(1 .. MaxRecords) /\ queue[s] # <<>> /\ Len(queue[s]) <= Room
      BY <1>2 DEF TypeOK, Dequeue
    <3>2. Len(Tail(queue[s])) = Len(queue[s]) - 1 /\ Len(queue[s]) \in Nat
      BY <3>1, HeadTailProperties
    <3>3. \A z \in AsyncSinks : queue'[z] = IF z = s THEN Tail(queue[s]) ELSE queue[z]
      BY <1>2 DEF TypeOK, Dequeue
    <3>4. Len(Tail(queue[s])) <= Room
      BY <3>1, <3>2, LoggerAssumption
    <3>5. QED
      BY <3>3, <3>4 DEF TypeOK
  <2>4. QED
    BY <1>2, <2>1, <2>2, <2>3 DEF TypeOK, Dequeue
<1>3. QED
  BY <1>1, <1>2

\* A destroying frame has the sinks that die in some order.
LEMMA OrderTyped ==
    ASSUME NEW sinks \in SinkSet, NEW dying \in SUBSET ToSet(sinks), NEW order \in SetToSeqs(dying)
    PROVE  order \in SinkSet
<1>1. sinks \in [1 .. Len(sinks) -> Sinks \cup {Null}] /\ Len(sinks) \in Nat
  BY DEF SinkSet
<1>2. sinks \in Surjection(1 .. Len(sinks), ToSet(sinks)) /\ ToSet(sinks) \subseteq Sinks \cup {Null}
  BY <1>1 DEF Surjection, ToSet
<1>3. IsFiniteSet(ToSet(sinks))
  BY <1>1, <1>2, FS_Interval, FS_Surjection
<1>4. Cardinality(dying) \in Nat
  BY <1>3, FS_Subset, FS_CardinalityType
<1>5. order \in [1 .. Cardinality(dying) -> Sinks \cup {Null}]
  BY <1>2 DEF SetToSeqs
<1>6. QED
  BY <1>4, <1>5 DEF SinkSet

\* The end of a call, and of a sink: Release and DestroySink.
LEMMA EndTyped ==
    ASSUME TypeOK, NEW t \in Actors, Release(t) \/ \E s \in Sinks : DestroySink(t, s)
    PROVE  TypeOK'
<1>1. CASE Release(t)
  <2> DEFINE dying == ToSet(Top(t).sinks) \ (Held(t) \cup {Null})
             r == Record(Top(t))
  <2>1. frames[t] # <<>> /\ Top(t) \in FrameType /\ Top(t).sinks \in SinkSet
    BY <1>1, StackMoves DEF TypeOK, Release, AtEnd, TopAt, FrameType
  <2>2. ASSUME NEW order \in SetToSeqs(dying)
        PROVE  Moved(t, [Top(t) EXCEPT !.at = "destroy", !.sinks = order, !.next = 1])
                   \in [Actors -> Seq(FrameType)]
    <3>1. order \in SinkSet
      BY <2>1, OrderTyped
    <3>2. QED
      BY <2>1, <3>1, FrameMoves, StackMoves DEF TypeOK
  <2>3. frames' \in [Actors -> Seq(FrameType)]
    <3>1. \/ frames' = Popped(t)
          \/ \E order \in SetToSeqs(dying) :
                frames' = Moved(t, [Top(t) EXCEPT !.at = "destroy", !.sinks = order, !.next = 1])
      BY <1>1 DEF Release
    <3>2. QED
      BY <2>1, <2>2, <3>1, StackMoves DEF TypeOK
  <2>4. inDispatch' \in [Actors -> SUBSET Templates]
    BY <1>1 DEF TypeOK, Release
  <2>5. log' \in Seq(CallType) /\ Len(log') <= MaxRecords
    <3> DEFINE call == [log[r] EXCEPT !.outcome = "dispatched"]
    <3>1. r \in DOMAIN log => call \in CallType
      <4> SUFFICES ASSUME r \in DOMAIN log  PROVE call \in CallType
        OBVIOUS
      <4>1. log[r] \in CallType
        BY DEF TypeOK
      <4>2. QED
        BY <4>1 DEF CallType, Outcomes
    <3>2. log' = log \/ log' = [log EXCEPT ![r] = call]
      BY <1>1 DEF Release
    <3> HIDE DEF call, r
    <3>3. CASE log' = log
      BY <3>3 DEF TypeOK
    <3>4. CASE log' = [log EXCEPT ![r] = call]
      BY <3>1, <3>4, LogTyped DEF TypeOK
    <3>5. QED
      BY <3>2, <3>3, <3>4
  <2>6. UNCHANGED <<wiring, active, spare, errors, queue, written, flushed, gone, flushes>>
    BY <1>1 DEF Release, channels
  <2>7. QED
    BY <2>3, <2>4, <2>5, <2>6 DEF TypeOK
<1>2. ASSUME NEW s \in Sinks, DestroySink(t, s)
      PROVE  TypeOK'
  <2>1. frames[t] # <<>> /\ Top(t) \in FrameType
    BY <1>2, StackMoves DEF TypeOK, DestroySink, TopAt
  <2>2. frames' \in [Actors -> Seq(FrameType)]
    BY <1>2, <2>1, FrameMoves, StackMoves DEF TypeOK, DestroySink
  <2>3. Len(written[s]) \in Nat
    BY DEF TypeOK
  <2>4. QED
    BY <1>2, <2>2, <2>3 DEF TypeOK, DestroySink
<1>3. QED
  BY <1>1, <1>2

\* Calls of the application: Log, Flush and SetSinks, and the flush of one sink.
LEMMA LogCallTyped ==
    ASSUME TypeOK, NEW t \in Actors, NEW l \in Loggers, Log(t, l)
    PROVE  TypeOK'
<1> DEFINE f == [op |-> "Log", logger |-> l, at |-> "build", sinks |-> <<>>,
                 next |-> 1, records |-> {Len(log) + 1}]
           call == [logger |-> l, threw |-> FALSE, outcome |-> "open",
                    since |-> active[l], refusedBy |-> {}]
<1>1. Len(log) \in Nat /\ Len(log) < MaxRecords
  BY DEF TypeOK, Log
<1>2. <<>> \in SinkSet /\ active[l] \in SinkSet
  BY DEF TypeOK, SinkSet
<1>3. f \in FrameType
  <2>1. {Len(log) + 1} \in SUBSET (1 .. MaxRecords) /\ {Len(log) + 1} # {}
    BY <1>1, LoggerAssumption
  <2>2. QED
    BY <1>2, <2>1 DEF FrameType
<1>4. call \in CallType
  BY <1>2 DEF CallType, Outcomes
<1>5. frames' = Pushed(t, f) /\ log' = Append(log, call)
  BY DEF Log
<1> HIDE DEF f, call
<1>6. frames' \in [Actors -> Seq(FrameType)]
  BY <1>3, <1>5, StackMoves DEF TypeOK
<1>7. log' \in Seq(CallType) /\ Len(log') <= MaxRecords
  BY <1>1, <1>4, <1>5, LoggerAssumption DEF TypeOK
<1>8. QED
  BY <1>6, <1>7 DEF TypeOK, Log, channels

LEMMA KeeperCallsTyped ==
    ASSUME TypeOK, NEW t \in Actors, NEW l \in Loggers,
           Flush(t, l) \/ \E fails \in BOOLEAN : SetSinks(t, l, fails)
    PROVE  TypeOK'
<1>1. active[l] \in SinkSet /\ wiring.second[l] \in SinkSet
  BY WiringTyped DEF TypeOK
<1>2. CASE Flush(t, l)
  <2> DEFINE f == [op |-> "Flush", logger |-> l, at |-> "fan", sinks |-> active[l],
                   next |-> 1, records |-> Finished(l)]
  <2>1. Finished(l) \subseteq 1 .. MaxRecords
    BY LoggerAssumption DEF TypeOK, Finished
  <2>2. f \in FrameType
    BY <1>1, <2>1 DEF FrameType
  <2>3. frames' = Pushed(t, f)
    BY <1>2 DEF Flush
  <2> HIDE DEF f
  <2>4. frames' \in [Actors -> Seq(FrameType)]
    BY <2>2, <2>3, StackMoves DEF TypeOK
  <2>5. QED
    BY <1>2, <2>4 DEF TypeOK, Flush, channels
<1>3. ASSUME NEW fails \in BOOLEAN, SetSinks(t, l, fails)
      PROVE  TypeOK'
  <2>1. \A sinks \in SinkSet : ReleaseFrame(l, sinks) \in FrameType
    BY DEF ReleaseFrame, FrameType
  <2>2. frames' \in [Actors -> Seq(FrameType)]
    BY <1>1, <1>3, <2>1, StackMoves DEF TypeOK, SetSinks
  <2>3. active' \in [Loggers -> SinkSet] /\ errors' \in [Loggers -> Nat]
    <3>1. active' = active \/ active' = [active EXCEPT ![l] = wiring.second[l]]
      BY <1>3 DEF SetSinks
    <3>2. errors' = errors \/ errors' = [errors EXCEPT ![l] = @ + 1]
      BY <1>3 DEF SetSinks
    <3>3. active' \in [Loggers -> SinkSet]
      BY <1>1, <3>1 DEF TypeOK
    <3>4. errors' \in [Loggers -> Nat]
      <4>1. errors \in [Loggers -> Nat] /\ errors[l] + 1 \in Nat
        BY DEF TypeOK
      <4>2. QED
        BY <3>2, <4>1
    <3>5. QED
      BY <3>3, <3>4
  <2>4. QED
    BY <1>3, <2>2, <2>3 DEF TypeOK, SetSinks, channels
<1>4. QED
  BY <1>2, <1>3

LEMMA FlushSinkTyped ==
    ASSUME TypeOK, NEW t \in Actors, NEW s \in Sinks, FlushSink(t, s)
    PROVE  TypeOK'
<1>1. frames[t] # <<>> /\ Top(t) \in FrameType
  BY StackMoves DEF TypeOK, FlushSink, Reaches, TopAt
<1>2. frames' \in [Actors -> Seq(FrameType)]
  BY <1>1, FrameMoves, StackMoves DEF TypeOK, FlushSink
<1>3. Len(written[s]) \in Nat
  BY DEF TypeOK
<1>4. QED
  BY <1>2, <1>3 DEF TypeOK, FlushSink

\* Every step keeps the types.
LEMMA TypeStep ==
    ASSUME TypeOK, [Next]_vars
    PROVE  TypeOK'
<1>1. ASSUME NEW t \in Actors, Continue(t)
      PROVE  TypeOK'
  BY <1>1, DispatchTyped, SinkCallsTyped, QueueTyped, EndTyped, FlushSinkTyped DEF Continue
<1>2. ASSUME NEW s \in AsyncSinks, Dequeue(s)
      PROVE  TypeOK'
  BY <1>2, QueueTyped DEF Actors
<1>3. ASSUME NEW t \in Actors, NEW l \in Loggers, Log(t, l)
      PROVE  TypeOK'
  BY <1>3, LogCallTyped
<1>4. ASSUME NEW t \in Keepers, NEW l \in Loggers,
             Flush(t, l) \/ \E fails \in BOOLEAN : SetSinks(t, l, fails)
      PROVE  TypeOK'
  BY <1>4, KeeperCallsTyped, LoggerAssumption DEF Actors
<1>5. CASE UNCHANGED vars
  BY <1>5 DEF TypeOK, vars, channels
<1>6. QED
  BY <1>1, <1>2, <1>3, <1>4, <1>5 DEF Next

LEMMA TypeInit == Init => TypeOK
<1> SUFFICES ASSUME Init  PROVE TypeOK
  OBVIOUS
<1>1. wiring \in Wirings /\ wiring \in WiringType
  BY LoggerAssumption DEF Init
<1>2. active \in [Loggers -> SinkSet] /\ spare \subseteq Loggers
  BY <1>1 DEF Init, WiringType
<1>3. frames \in [Actors -> Seq(FrameType)] /\ log \in Seq(CallType) /\ Len(log) <= MaxRecords
  BY LoggerAssumption DEF Init
<1>4. /\ queue \in [AsyncSinks -> Seq(1 .. MaxRecords)] /\ written \in [Sinks -> Seq(1 .. MaxRecords)]
      /\ \A s \in AsyncSinks : Len(queue[s]) <= Room
  BY LoggerAssumption DEF Init
<1>5. QED
  BY <1>1, <1>2, <1>3, <1>4 DEF Init, TypeOK

\* Every variable has its type at all times: a frame that builds is a call of Log, a
\* call of Log or Deliver has its record, every index and record is in range, no queue overflows.
THEOREM TypeCorrect == Spec => []TypeOK
<1>1. TypeOK /\ [Next]_vars => TypeOK'
  BY TypeStep
<1>2. QED
  BY <1>1, TypeInit, PTL DEF Spec

-----------------------------------------------------------------------------
(* The guard.                                                              *)

\* Only thread t moves, and its guard fits its new stack.
LEMMA OneThread ==
    ASSUME TypeOK, GuardExact, wiring' = wiring, NEW t \in Actors, NEW stack, NEW guard,
           frames' = [frames EXCEPT ![t] = stack],
           inDispatch' = [inDispatch EXCEPT ![t] = guard],
           Exact(wiring.template, guard, stack)
    PROVE  GuardExact'
<1>1. frames'[t] = stack /\ inDispatch'[t] = guard
  BY DEF TypeOK
<1>2. \A u \in Actors \ {t} : frames'[u] = frames[u] /\ inDispatch'[u] = inDispatch[u]
  BY DEF TypeOK
<1>3. QED
  BY <1>1, <1>2 DEF GuardExact

\* Thread t makes a call that is not a dispatch, ...
LEMMA QuietCall ==
    ASSUME TypeOK, GuardExact, UNCHANGED <<wiring, inDispatch>>, NEW t \in Actors,
           NEW f \in FrameType, ~Dispatching(f), frames' = Pushed(t, f)
    PROVE  GuardExact'
<1>1. frames[t] \in Seq(FrameType) /\ Exact(wiring.template, inDispatch[t], frames[t])
  BY DEF TypeOK, GuardExact
<1>2. Exact(wiring.template, inDispatch[t], Append(frames[t], f))
  BY <1>1, ExactPush
<1>3. inDispatch' = [inDispatch EXCEPT ![t] = inDispatch[t]]
  BY DEF TypeOK
<1>4. frames' = [frames EXCEPT ![t] = Append(frames[t], f)]
  BY DEF Pushed
<1>5. QED
  BY <1>2, <1>3, <1>4, OneThread

\* ... returns from one, ...
LEMMA QuietReturn ==
    ASSUME TypeOK, GuardExact, UNCHANGED <<wiring, inDispatch>>, NEW t \in Actors,
           frames[t] # <<>>, ~Dispatching(Top(t)), frames' = Popped(t)
    PROVE  GuardExact'
<1>1. frames[t] \in Seq(FrameType) /\ Exact(wiring.template, inDispatch[t], frames[t])
  BY DEF TypeOK, GuardExact
<1>2. Exact(wiring.template, inDispatch[t], Front(frames[t]))
  BY <1>1, ExactPop DEF Top
<1>3. inDispatch' = [inDispatch EXCEPT ![t] = inDispatch[t]]
  BY DEF TypeOK
<1>4. frames' = [frames EXCEPT ![t] = Front(frames[t])]
  BY DEF Popped
<1>5. QED
  BY <1>2, <1>3, <1>4, OneThread

\* ... or goes on in a call without entering or leaving a dispatch.
LEMMA QuietMove ==
    ASSUME TypeOK, GuardExact, UNCHANGED <<wiring, inDispatch>>, NEW t \in Actors,
           frames[t] # <<>>, NEW f \in FrameType, f.logger = Top(t).logger,
           Dispatching(f) <=> Dispatching(Top(t)), frames' = Moved(t, f)
    PROVE  GuardExact'
<1>1. frames[t] \in Seq(FrameType) /\ Exact(wiring.template, inDispatch[t], frames[t])
  BY DEF TypeOK, GuardExact
<1>2. Exact(wiring.template, inDispatch[t], Append(Front(frames[t]), f))
  BY <1>1, ExactMove DEF Top
<1>3. inDispatch' = [inDispatch EXCEPT ![t] = inDispatch[t]]
  BY DEF TypeOK
<1>4. frames' = [frames EXCEPT ![t] = Append(Front(frames[t]), f)]
  BY DEF Moved
<1>5. wiring' = wiring
  OBVIOUS
<1>6. QED
  BY <1>2, <1>3, <1>4, <1>5, OneThread DEF Dispatching

\* A dispatch that begins: the frame that built the record is none, so that the flag of
\* the template is up only if another one is; or the record is refused.
LEMMA DispatchGuard ==
    ASSUME TypeOK, GuardExact, NEW t \in Actors, NEW throws \in BOOLEAN, Dispatch(t, throws)
    PROVE  GuardExact'
<1> DEFINE l == Top(t).logger
           outcome == IF active[l] = <<>> THEN "no sinks"
                      ELSE IF InDispatch(t, l) THEN "recursive" ELSE "open"
           f == [Top(t) EXCEPT !.at = IF outcome = "open" THEN "fan" ELSE "release",
                               !.sinks = active[l]]
<1>1. /\ frames[t] # <<>> /\ Top(t) \in FrameType /\ Top(t).at = "build" /\ Top(t).op = "Log"
      /\ ~Dispatching(Top(t))
  BY StackMoves DEF TypeOK, Dispatch, TopAt, FrameType, Dispatching
<1>2. active[l] \in SinkSet
  BY <1>1 DEF TypeOK, FrameType
<1>3. f \in FrameType
  BY <1>1, <1>2, FrameMoves
<1>4. f.logger = l /\ (Dispatching(f) <=> outcome = "open")
  BY <1>1 DEF FrameType, Dispatching
<1>5. wiring' = wiring /\ frames' = Moved(t, f)
  BY DEF Dispatch
<1>6. /\ outcome = "open" => inDispatch' = [inDispatch EXCEPT ![t] = @ \cup {wiring.template[l]}]
      /\ outcome # "open" => inDispatch' = inDispatch
  BY DEF Dispatch
<1>7. outcome = "open" => wiring.template[l] \notin inDispatch[t]
  BY DEF InDispatch
<1> HIDE DEF f, outcome
<1>8. CASE outcome = "open"
  <2>1. frames[t] \in Seq(FrameType) /\ Exact(wiring.template, inDispatch[t], frames[t])
    BY DEF TypeOK, GuardExact
  <2>2. Exact(wiring.template, inDispatch[t], Front(frames[t])) /\ Front(frames[t]) \in Seq(FrameType)
    BY <1>1, <2>1, ExactPop, LastAndFront DEF Top
  <2>3. Exact(wiring.template, inDispatch[t] \cup {wiring.template[l]}, Append(Front(frames[t]), f))
    BY <1>3, <1>4, <1>7, <1>8, <2>2, ExactEnter
  <2>4. frames' = [frames EXCEPT ![t] = Append(Front(frames[t]), f)]
    BY <1>5 DEF Moved
  <2>5. QED
    BY <1>5, <1>6, <1>8, <2>3, <2>4, OneThread
<1>9. CASE outcome # "open"
  <2>1. f.logger = Top(t).logger /\ (Dispatching(f) <=> Dispatching(Top(t)))
    BY <1>1, <1>4, <1>9
  <2>2. UNCHANGED <<wiring, inDispatch>>
    BY <1>5, <1>6, <1>9
  <2>3. QED
    BY <1>1, <1>3, <1>5, <2>1, <2>2, QuietMove
<1>10. QED
  BY <1>8, <1>9

\* A call ends: the guard object takes the flag of a dispatch with it.
LEMMA ReleaseGuard ==
    ASSUME TypeOK, GuardExact, NEW t \in Actors, Release(t)
    PROVE  GuardExact'
<1> DEFINE f == Top(t)
           guard == IF Dispatching(f) THEN inDispatch[t] \ {wiring.template[f.logger]}
                    ELSE inDispatch[t]
<1>1. /\ frames[t] # <<>> /\ f \in FrameType /\ f.sinks \in SinkSet
      /\ Dispatching(f) <=> f.op = "Log" /\ f.at = "fan"
  BY StackMoves DEF TypeOK, Release, AtEnd, TopAt, FrameType, Dispatching
<1>2. frames[t] \in Seq(FrameType) /\ Exact(wiring.template, inDispatch[t], frames[t])
  BY DEF TypeOK, GuardExact
<1>3. Exact(wiring.template, guard, Front(frames[t])) /\ Front(frames[t]) \in Seq(FrameType)
  BY <1>1, <1>2, ExactPop, LastAndFront DEF Top
<1>4. wiring' = wiring /\ inDispatch' = [inDispatch EXCEPT ![t] = guard]
  BY <1>1 DEF Release, TypeOK
<1>5. \E stack : /\ frames' = [frames EXCEPT ![t] = stack]
                 /\ Exact(wiring.template, guard, stack)
  <2> DEFINE dying == ToSet(Top(t).sinks) \ (Held(t) \cup {Null})
  <2>1. CASE frames' = Popped(t)
    BY <1>3, <2>1 DEF Popped
  <2>2. ASSUME NEW order \in SetToSeqs(dying),
               frames' = Moved(t, [f EXCEPT !.at = "destroy", !.sinks = order, !.next = 1])
        PROVE  \E stack : /\ frames' = [frames EXCEPT ![t] = stack]
                          /\ Exact(wiring.template, guard, stack)
    <3> DEFINE g == [f EXCEPT !.at = "destroy", !.sinks = order, !.next = 1]
    <3>1. order \in SinkSet
      BY <1>1, OrderTyped
    <3>2. g \in FrameType
      BY <1>1, <3>1, FrameMoves
    <3>3. ~Dispatching(g)
      BY <1>1 DEF FrameType, Dispatching
    <3> HIDE DEF g, guard
    <3>4. Exact(wiring.template, guard, Append(Front(frames[t]), g))
      BY <1>3, <3>2, <3>3, ExactPush
    <3>5. frames' = [frames EXCEPT ![t] = Append(Front(frames[t]), g)]
      BY <2>2 DEF Moved, g
    <3>6. QED
      BY <3>4, <3>5
  <2>3. QED
    BY <2>1, <2>2 DEF Release
<1> HIDE DEF guard
<1>6. QED
  BY <1>4, <1>5, OneThread

\* In the loop over the snapshot, and in a sink, a dispatch stays one.
LEMMA LoopStays ==
    ASSUME NEW f \in FrameType, f.at \in {"fan", "write"}
    PROVE  \A g \in {Beyond(f), [f EXCEPT !.at = "write"], [Beyond(f) EXCEPT !.at = "fan"]} :
               g \in FrameType /\ g.logger = f.logger /\ (Dispatching(g) <=> Dispatching(f))
<1>1. \A g \in {Beyond(f), [f EXCEPT !.at = "write"], [Beyond(f) EXCEPT !.at = "fan"]} :
          g \in FrameType
  BY FrameMoves
<1>2. \A g \in {Beyond(f), [f EXCEPT !.at = "write"], [Beyond(f) EXCEPT !.at = "fan"]} :
          g.logger = f.logger /\ g.op = f.op /\ g.at \in {"fan", "write"}
  BY DEF FrameType, Beyond
<1>3. QED
  BY <1>1, <1>2 DEF Dispatching

\* The steps of the loop, and of the sinks in it.
LEMMA SinkCallsGuard ==
    ASSUME TypeOK, GuardExact, NEW t \in Actors,
           \/ \E s \in PlainSinks : WritePlain(t, s)
           \/ \E s \in Sinks : FlushSink(t, s)
           \/ WriteReturns(t)
           \/ Skip(t)
    PROVE  GuardExact'
<1>1. frames[t] # <<>> /\ Top(t) \in FrameType /\ Top(t).at \in {"fan", "write"}
  BY StackMoves DEF TypeOK, WritePlain, FlushSink, WriteReturns, Skip, Reaches, TopAt
<1>2. UNCHANGED <<wiring, inDispatch>>
  BY DEF WritePlain, FlushSink, WriteReturns, Skip
<1>3. \/ \E g \in {Beyond(Top(t)), [Top(t) EXCEPT !.at = "write"], [Beyond(Top(t)) EXCEPT !.at = "fan"]} :
            frames' = Moved(t, g)
      \/ Top(t).op = "Deliver" /\ frames' = Popped(t)
  BY DEF WritePlain, FlushSink, WriteReturns, Skip, Called
<1>4. CASE Top(t).op = "Deliver" /\ frames' = Popped(t)
  <2>1. ~Dispatching(Top(t))
    BY <1>4 DEF Dispatching
  <2>2. QED
    BY <1>1, <1>2, <1>4, <2>1, QuietReturn
<1>5. ASSUME NEW g \in {Beyond(Top(t)), [Top(t) EXCEPT !.at = "write"], [Beyond(Top(t)) EXCEPT !.at = "fan"]},
             frames' = Moved(t, g)
      PROVE  GuardExact'
  <2>1. g \in FrameType /\ g.logger = Top(t).logger /\ (Dispatching(g) <=> Dispatching(Top(t)))
    BY <1>1, LoopStays
  <2>2. QED
    BY <1>1, <1>2, <1>5, <2>1, QuietMove
<1>6. QED
  BY <1>3, <1>4, <1>5

\* The steps of Deliver, whoever calls it; none of them is a dispatch.
LEMMA DeliverGuard ==
    ASSUME TypeOK, GuardExact, NEW t \in Actors, NEW s \in AsyncSinks,
           Deliver(t, s) \/ (t = s /\ Dequeue(s))
    PROVE  GuardExact'
<1>1. CASE Deliver(t, s)
  <2>1. /\ frames[t] # <<>> /\ Top(t) \in FrameType /\ Top(t).op = "Deliver"
        /\ ~Dispatching(Top(t)) /\ UNCHANGED <<wiring, inDispatch>>
    BY <1>1, StackMoves DEF TypeOK, Deliver, Delivers, TopAt, Dispatching
  <2> DEFINE g == [Top(t) EXCEPT !.at = "write"]
  <2>2. frames' = Popped(t) \/ frames' = Moved(t, g)
    BY <1>1, <2>1 DEF Deliver, Called
  <2>3. g \in FrameType /\ g.logger = Top(t).logger /\ g.op = "Deliver"
    <3>1. g \in FrameType
      BY <2>1, FrameMoves
    <3>2. g.logger = Top(t).logger /\ g.op = "Deliver"
      BY <2>1 DEF FrameType
    <3>3. QED
      BY <3>1, <3>2
  <2>4. ~Dispatching(g)
    BY <2>3 DEF Dispatching
  <2> HIDE DEF g
  <2>5. QED
    BY <2>1, <2>2, <2>3, <2>4, QuietReturn, QuietMove
<1>2. CASE t = s /\ Dequeue(s)
  <2> DEFINE f == DeliverFrame(s, Head(queue[s]))
  <2>1. Head(queue[s]) \in 1 .. MaxRecords
    BY <1>2, HeadTailProperties DEF TypeOK, Dequeue
  <2>2. f \in FrameType
    BY <2>1, DeliverFrameTyped
  <2>3. ~Dispatching(f)
    BY DEF Dispatching, DeliverFrame
  <2>4. frames' = Pushed(t, f) /\ UNCHANGED <<wiring, inDispatch>>
    BY <1>2 DEF Dequeue
  <2> HIDE DEF f
  <2>5. QED
    BY <2>2, <2>3, <2>4, QuietCall
<1>3. QED
  BY <1>1, <1>2

\* Write of an asynchronous sink goes on in the loop, and calls Deliver if it falls back.
LEMMA WriteAsyncGuard ==
    ASSUME TypeOK, GuardExact, NEW t \in Actors, NEW s \in AsyncSinks, WriteAsync(t, s)
    PROVE  GuardExact'
<1> DEFINE r == Record(Top(t))
           past == Append(Front(frames[t]), Beyond(Top(t)))
           f == DeliverFrame(s, r)
<1>1. /\ frames[t] # <<>> /\ Top(t) \in FrameType /\ Top(t).at = "fan"
      /\ r \in 1 .. MaxRecords /\ UNCHANGED <<wiring, inDispatch>>
  BY StackMoves, RecordTyped DEF TypeOK, WriteAsync, Reaches, TopAt
<1>2. frames[t] \in Seq(FrameType) /\ Exact(wiring.template, inDispatch[t], frames[t])
  BY DEF TypeOK, GuardExact
<1>3. /\ Beyond(Top(t)) \in FrameType /\ Beyond(Top(t)).logger = Top(t).logger
      /\ Dispatching(Beyond(Top(t))) <=> Dispatching(Top(t))
  BY <1>1, LoopStays
<1>4. past \in Seq(FrameType) /\ Exact(wiring.template, inDispatch[t], past)
  BY <1>1, <1>2, <1>3, ExactMove, LastAndFront DEF Top
<1>5. f \in FrameType /\ ~Dispatching(f)
  BY <1>1, DeliverFrameTyped DEF Dispatching, DeliverFrame
<1>6. Moved(t, Beyond(Top(t))) = [frames EXCEPT ![t] = past]
  BY DEF Moved
<1>7. \/ frames' = [frames EXCEPT ![t] = past]
      \/ frames' = [[frames EXCEPT ![t] = past] EXCEPT ![t] = Append(@, f)]
  BY <1>6 DEF WriteAsync
<1>8. [[frames EXCEPT ![t] = past] EXCEPT ![t] = Append(@, f)] = [frames EXCEPT ![t] = Append(past, f)]
  BY DEF TypeOK
<1> HIDE DEF past, f
<1>9. Exact(wiring.template, inDispatch[t], Append(past, f))
  BY <1>4, <1>5, ExactPush
<1>10. inDispatch' = [inDispatch EXCEPT ![t] = inDispatch[t]]
  BY <1>1 DEF TypeOK
<1>11. CASE frames' = [frames EXCEPT ![t] = past]
  BY <1>1, <1>4, <1>10, <1>11, OneThread
<1>12. CASE frames' = [frames EXCEPT ![t] = Append(past, f)]
  BY <1>1, <1>9, <1>10, <1>12, OneThread
<1>13. QED
  BY <1>7, <1>8, <1>11, <1>12

\* The next sink of a dying set.
LEMMA DestroyGuard ==
    ASSUME TypeOK, GuardExact, NEW t \in Actors, NEW s \in Sinks, DestroySink(t, s)
    PROVE  GuardExact'
<1>1. /\ frames[t] # <<>> /\ Top(t) \in FrameType /\ Top(t).at = "destroy"
      /\ UNCHANGED <<wiring, inDispatch>>
  BY StackMoves DEF TypeOK, DestroySink, TopAt
<1>2. Beyond(Top(t)) \in FrameType
  BY <1>1, FrameMoves
<1>3. Beyond(Top(t)).at = "destroy" /\ Beyond(Top(t)).logger = Top(t).logger
  BY <1>1 DEF FrameType, Beyond
<1>4. ~Dispatching(Top(t)) /\ ~Dispatching(Beyond(Top(t)))
  BY <1>1, <1>3 DEF Dispatching
<1>5. frames' = Popped(t) \/ frames' = Moved(t, Beyond(Top(t)))
  BY DEF DestroySink
<1>6. CASE frames' = Popped(t)
  BY <1>1, <1>4, <1>6, QuietReturn
<1>7. CASE frames' = Moved(t, Beyond(Top(t)))
  <2>1. Dispatching(Beyond(Top(t))) <=> Dispatching(Top(t))
    BY <1>4
  <2>2. QED
    BY <1>1, <1>2, <1>3, <1>7, <2>1, QuietMove
<1>8. QED
  BY <1>5, <1>6, <1>7

\* A call begins: Log with the builder function, Flush and SetSinks with no dispatch.
LEMMA BeginGuard ==
    ASSUME TypeOK, GuardExact, NEW t \in Actors, NEW l \in Loggers,
           Log(t, l) \/ Flush(t, l) \/ \E fails \in BOOLEAN : SetSinks(t, l, fails)
    PROVE  GuardExact'
<1>1. UNCHANGED <<wiring, inDispatch>>
  BY DEF Log, Flush, SetSinks
<1>2. TypeOK'
  BY LogCallTyped, KeeperCallsTyped
<1>3. \E f : frames' = Pushed(t, f) /\ ~Dispatching(f)
  BY DEF Log, Flush, SetSinks, ReleaseFrame, Dispatching
<1>4. ASSUME NEW f, frames' = Pushed(t, f)
      PROVE  f \in FrameType
  <2>1. frames'[t] = Append(frames[t], f) /\ frames'[t] \in Seq(FrameType)
    BY <1>2, <1>4 DEF TypeOK, Pushed
  <2>2. frames[t] \in Seq(FrameType)
    BY DEF TypeOK
  <2>3. Len(Append(frames[t], f)) \in 1 .. Len(Append(frames[t], f))
    BY <2>2
  <2>4. QED
    BY <2>1, <2>2, <2>3
<1>5. QED
  BY <1>1, <1>3, <1>4, QuietCall

\* s_inDispatch tells at all times whether its thread is inside a dispatch of that
\* template, and it is inside one at most: for any number of threads, loggers and sinks
\* that log, from builder functions and workers, too.
THEOREM GuardIsExact == Spec => []GuardExact
<1>1. Init => TypeOK /\ GuardExact
  <2>1. Init => GuardExact
    BY DEF Init, GuardExact, Exact
  <2>2. QED
    BY <2>1, TypeInit
<1>2. TypeOK /\ GuardExact /\ [Next]_vars => TypeOK' /\ GuardExact'
  <2> SUFFICES ASSUME TypeOK, GuardExact, [Next]_vars
               PROVE  TypeOK' /\ GuardExact'
    OBVIOUS
  <2>1. ASSUME NEW t \in Actors, Continue(t)
        PROVE  GuardExact'
    BY <2>1, DispatchGuard, SinkCallsGuard, DeliverGuard, WriteAsyncGuard, ReleaseGuard, DestroyGuard
    DEF Continue
  <2>2. ASSUME NEW s \in AsyncSinks, Dequeue(s)
        PROVE  GuardExact'
    BY <2>2, DeliverGuard DEF Actors
  <2>3. ASSUME NEW t \in Actors, NEW l \in Loggers, Log(t, l)
        PROVE  GuardExact'
    BY <2>3, BeginGuard
  <2>4. ASSUME NEW t \in Keepers, NEW l \in Loggers,
               Flush(t, l) \/ \E fails \in BOOLEAN : SetSinks(t, l, fails)
        PROVE  GuardExact'
    BY <2>4, BeginGuard, LoggerAssumption DEF Actors
  <2>5. ASSUME UNCHANGED vars
        PROVE  GuardExact'
    BY <2>5 DEF GuardExact, Exact, vars
  <2>6. GuardExact'
    BY <2>1, <2>2, <2>3, <2>4, <2>5 DEF Next
  <2>7. TypeOK'
    BY TypeStep
  <2>8. QED
    BY <2>6, <2>7
<1>3. QED
  BY <1>1, <1>2, PTL DEF Spec

-----------------------------------------------------------------------------
(* The frames of all stacks, by their places.                              *)

Places      == UNION {{u} \X DOMAIN frames[u] : u \in Actors}
FrameAt(p)  == frames[p[1]][p[2]]
TopPlace(t)  == <<t, Len(frames[t])>>
NextPlace(t) == <<t, Len(frames[t]) + 1>>

\* The frames of the places old go, those of new come, the others stay as they are.
Changes(old, new) ==
    /\ old \subseteq Places /\ new \cap (Places \ old) = {}
    /\ Places' = (Places \ old) \cup new
    /\ \A q \in Places \ old : FrameAt(q)' = FrameAt(q)
After(p) == frames'[p[1]][p[2]]

LEMMA PlaceFacts ==
    ASSUME TypeOK
    PROVE  /\ \A u \in Actors : \A i \in DOMAIN frames[u] :
                  <<u, i>> \in Places /\ FrameAt(<<u, i>>) = frames[u][i]
           /\ \A p \in Places : /\ p[1] \in Actors /\ p[2] \in DOMAIN frames[p[1]]
                                /\ p = <<p[1], p[2]>> /\ FrameAt(p) \in FrameType
           /\ \A t \in Actors : frames[t] # <<>> =>
                  TopPlace(t) \in Places /\ FrameAt(TopPlace(t)) = Top(t)
<1>1. \A u \in Actors : \A i \in DOMAIN frames[u] :
          <<u, i>> \in Places /\ FrameAt(<<u, i>>) = frames[u][i]
  BY DEF Places, FrameAt
<1>2. ASSUME NEW p \in Places
      PROVE  /\ p[1] \in Actors /\ p[2] \in DOMAIN frames[p[1]]
             /\ p = <<p[1], p[2]>> /\ FrameAt(p) \in FrameType
  <2>1. PICK u \in Actors : p \in {u} \X DOMAIN frames[u]
    BY DEF Places
  <2>2. p[1] = u /\ p[2] \in DOMAIN frames[u] /\ p = <<p[1], p[2]>>
    BY <2>1
  <2>3. frames[u] \in Seq(FrameType)
    BY DEF TypeOK
  <2>4. QED
    BY <2>2, <2>3 DEF FrameAt
<1>3. ASSUME NEW t \in Actors, frames[t] # <<>>
      PROVE  TopPlace(t) \in Places /\ FrameAt(TopPlace(t)) = Top(t)
  <2>1. frames[t] \in Seq(FrameType)
    BY DEF TypeOK
  <2>2. Len(frames[t]) \in DOMAIN frames[t]
    BY <1>3, <2>1
  <2>3. QED
    BY <1>1, <2>2 DEF TopPlace, FrameAt, Top, Last
<1>4. QED
  BY <1>1, <1>2, <1>3

\* One stack is replaced: those below its top stay.
LEMMA StackReplaced ==
    ASSUME TypeOK, NEW t \in Actors, NEW stack \in Seq(FrameType), NEW n \in Nat,
           frames' = [frames EXCEPT ![t] = stack], n <= Len(frames[t]), n <= Len(stack),
           \A i \in 1 .. n : stack[i] = frames[t][i]
    PROVE  /\ Changes({<<t, i>> : i \in n + 1 .. Len(frames[t])},
                      {<<t, i>> : i \in n + 1 .. Len(stack)})
           /\ \A i \in n + 1 .. Len(stack) : After(<<t, i>>) = stack[i]
<1> DEFINE old == {<<t, i>> : i \in n + 1 .. Len(frames[t])}
           new == {<<t, i>> : i \in n + 1 .. Len(stack)}
<1>0. frames[t] \in Seq(FrameType) /\ Len(frames[t]) \in Nat /\ Len(stack) \in Nat
  BY DEF TypeOK
<1>1. /\ frames'[t] = stack /\ DOMAIN frames' = Actors
      /\ \A u \in Actors : u # t => frames'[u] = frames[u]
  BY DEF TypeOK
<1>2. /\ DOMAIN frames[t] = 1 .. Len(frames[t]) /\ DOMAIN stack = 1 .. Len(stack)
  BY <1>0
<1>3. \A p : p \in Places <=> /\ p = <<p[1], p[2]>> /\ p[1] \in Actors
                              /\ p[2] \in DOMAIN frames[p[1]]
  <2> TAKE p
  <2>1. p \in Places => p = <<p[1], p[2]>> /\ p[1] \in Actors /\ p[2] \in DOMAIN frames[p[1]]
    BY PlaceFacts
  <2>2. ASSUME p = <<p[1], p[2]>>, p[1] \in Actors, p[2] \in DOMAIN frames[p[1]]
        PROVE  p \in Places
    BY <2>2, PlaceFacts
  <2>3. QED
    BY <2>1, <2>2
<1>4. \A p : p \in Places' <=> /\ p = <<p[1], p[2]>> /\ p[1] \in Actors
                               /\ p[2] \in DOMAIN frames'[p[1]]
  <2> TAKE p
  <2>1. ASSUME p \in Places'
        PROVE  p = <<p[1], p[2]>> /\ p[1] \in Actors /\ p[2] \in DOMAIN frames'[p[1]]
    <3>1. PICK u \in Actors : p \in {u} \X DOMAIN frames'[u]
      BY <2>1 DEF Places
    <3>2. QED
      BY <3>1
  <2>2. ASSUME p = <<p[1], p[2]>>, p[1] \in Actors, p[2] \in DOMAIN frames'[p[1]]
        PROVE  p \in Places'
    <3>1. p \in {p[1]} \X DOMAIN frames'[p[1]]
      BY <2>2
    <3>2. QED
      BY <2>2, <3>1 DEF Places
  <2>3. QED
    BY <2>1, <2>2
<1>5. old \subseteq Places
  BY <1>0, <1>2, <1>3
<1>6. new \cap (Places \ old) = {}
  <2> SUFFICES ASSUME NEW i \in n + 1 .. Len(stack), <<t, i>> \in Places
               PROVE  <<t, i>> \in old
    OBVIOUS
  <2>1. i \in DOMAIN frames[t]
    BY <1>3
  <2>2. QED
    BY <1>0, <1>2, <2>1
<1>7. ASSUME NEW p
      PROVE  p \in Places' <=> p \in (Places \ old) \cup new
  <2>1. CASE p = <<p[1], p[2]>> /\ p[1] \in Actors /\ p[1] # t
    BY <1>1, <1>3, <1>4, <2>1
  <2>2. CASE p = <<t, p[2]>>
    <3>1. p[1] = t
      BY <2>2
    <3>2. p \in Places' <=> p[2] \in 1 .. Len(stack)
      BY <1>1, <1>2, <1>4, <2>2, <3>1
    <3>3. p \in Places <=> p[2] \in 1 .. Len(frames[t])
      BY <1>2, <1>3, <2>2, <3>1
    <3>4. p \in old <=> p[2] \in n + 1 .. Len(frames[t])
      BY <2>2
    <3>5. p \in new <=> p[2] \in n + 1 .. Len(stack)
      BY <2>2
    <3> HIDE DEF old, new
    <3>6. QED
      BY <1>0, <3>2, <3>3, <3>4, <3>5
  <2>3. CASE ~(p = <<p[1], p[2]>> /\ p[1] \in Actors)
    <3>1. p \notin new
      BY <2>3
    <3>2. QED
      BY <1>3, <1>4, <2>3, <3>1
  <2>4. QED
    BY <2>1, <2>2, <2>3
<1>8. ASSUME NEW q \in Places \ old
      PROVE  FrameAt(q)' = FrameAt(q)
  <2>1. q = <<q[1], q[2]>> /\ q[1] \in Actors /\ q[2] \in DOMAIN frames[q[1]]
    BY <1>3
  <2>2. CASE q[1] # t
    BY <1>1, <2>1, <2>2 DEF FrameAt
  <2>3. CASE q[1] = t
    <3>1. q[2] \notin n + 1 .. Len(frames[t])
      BY <2>1, <2>3
    <3>2. q[2] \in 1 .. n
      BY <1>0, <1>2, <2>1, <2>3, <3>1
    <3>3. QED
      BY <1>1, <2>3, <3>2 DEF FrameAt
  <2>4. QED
    BY <2>2, <2>3
<1>9. \A i \in n + 1 .. Len(stack) : After(<<t, i>>) = stack[i]
  BY <1>1 DEF After
<1> HIDE DEF old, new
<1>10. Changes(old, new)
  BY <1>5, <1>6, <1>7, <1>8 DEF Changes
<1>11. QED
  BY <1>9, <1>10 DEF old, new

\* A call begins, ...
LEMMA Calls ==
    ASSUME TypeOK, NEW t \in Actors, NEW f \in FrameType, frames' = Pushed(t, f)
    PROVE  Changes({}, {NextPlace(t)}) /\ After(NextPlace(t)) = f
<1> DEFINE stack == Append(frames[t], f)
<1>1. frames[t] \in Seq(FrameType) /\ Len(frames[t]) \in Nat
  BY DEF TypeOK
<1>2. /\ stack \in Seq(FrameType) /\ Len(stack) = Len(frames[t]) + 1
      /\ \A i \in 1 .. Len(frames[t]) : stack[i] = frames[t][i]
      /\ stack[Len(frames[t]) + 1] = f
  BY <1>1
<1>3. frames' = [frames EXCEPT ![t] = stack]
  BY DEF Pushed
<1> HIDE DEF stack
<1>9. Len(frames[t]) <= Len(frames[t]) /\ Len(frames[t]) <= Len(stack)
  BY <1>1, <1>2
<1>4. /\ Changes({<<t, i>> : i \in Len(frames[t]) + 1 .. Len(frames[t])},
                 {<<t, i>> : i \in Len(frames[t]) + 1 .. Len(stack)})
      /\ \A i \in Len(frames[t]) + 1 .. Len(stack) : After(<<t, i>>) = stack[i]
  BY <1>1, <1>2, <1>3, <1>9, StackReplaced
<1>5. {<<t, i>> : i \in Len(frames[t]) + 1 .. Len(frames[t])} = {}
  BY <1>1
<1>6. {<<t, i>> : i \in Len(frames[t]) + 1 .. Len(stack)} = {NextPlace(t)}
  BY <1>1, <1>2 DEF NextPlace
<1>7. After(NextPlace(t)) = f
  BY <1>1, <1>2, <1>4 DEF NextPlace, After
<1>8. QED
  BY <1>4, <1>5, <1>6, <1>7

\* ... goes on, ...
LEMMA GoesOn ==
    ASSUME TypeOK, NEW t \in Actors, frames[t] # <<>>, NEW f \in FrameType, frames' = Moved(t, f)
    PROVE  Changes({TopPlace(t)}, {TopPlace(t)}) /\ After(TopPlace(t)) = f
<1> DEFINE stack == Append(Front(frames[t]), f)
           n == Len(frames[t])
           m == n - 1
<1>1. frames[t] \in Seq(FrameType) /\ n \in Nat \ {0} /\ m \in Nat /\ n = m + 1
  BY DEF TypeOK
<1>2. /\ Front(frames[t]) \in Seq(FrameType) /\ Len(Front(frames[t])) = m
      /\ \A i \in 1 .. m : Front(frames[t])[i] = frames[t][i]
  BY <1>1, LastAndFront
<1>3. /\ stack \in Seq(FrameType) /\ Len(stack) = n
      /\ \A i \in 1 .. m : stack[i] = frames[t][i]
      /\ stack[n] = f
  BY <1>1, <1>2
<1>4. frames' = [frames EXCEPT ![t] = stack]
  BY DEF Moved
<1>9. m <= Len(frames[t]) /\ m <= Len(stack)
  BY <1>1, <1>3
<1> HIDE DEF stack, m
<1>5. /\ Changes({<<t, i>> : i \in m + 1 .. n}, {<<t, i>> : i \in m + 1 .. Len(stack)})
      /\ \A i \in m + 1 .. Len(stack) : After(<<t, i>>) = stack[i]
  BY <1>1, <1>3, <1>4, <1>9, StackReplaced
<1>6. {<<t, i>> : i \in m + 1 .. n} = {TopPlace(t)} /\ n \in m + 1 .. n
  BY <1>1 DEF TopPlace
<1>7. After(TopPlace(t)) = f
  BY <1>3, <1>5, <1>6 DEF TopPlace, After
<1>8. QED
  BY <1>3, <1>5, <1>6, <1>7

\* ... or returns; an asynchronous sink that falls back goes on and calls.
LEMMA Returns ==
    ASSUME TypeOK, NEW t \in Actors, frames[t] # <<>>, frames' = Popped(t)
    PROVE  Changes({TopPlace(t)}, {})
<1> DEFINE stack == Front(frames[t])
           n == Len(frames[t])
           m == n - 1
<1>1. frames[t] \in Seq(FrameType) /\ n \in Nat \ {0} /\ m \in Nat /\ n = m + 1
  BY DEF TypeOK
<1>2. /\ stack \in Seq(FrameType) /\ Len(stack) = m
      /\ \A i \in 1 .. m : stack[i] = frames[t][i]
  BY <1>1, LastAndFront
<1>3. frames' = [frames EXCEPT ![t] = stack]
  BY DEF Popped
<1>9. m <= Len(frames[t]) /\ m <= Len(stack)
  BY <1>1, <1>2
<1> HIDE DEF stack, m
<1>4. Changes({<<t, i>> : i \in m + 1 .. n}, {<<t, i>> : i \in m + 1 .. Len(stack)})
  BY <1>1, <1>2, <1>3, <1>9, StackReplaced
<1>5. {<<t, i>> : i \in m + 1 .. n} = {TopPlace(t)} /\ {<<t, i>> : i \in m + 1 .. m} = {}
  BY <1>1 DEF TopPlace
<1>6. QED
  BY <1>2, <1>4, <1>5

LEMMA GoesOnAndCalls ==
    ASSUME TypeOK, NEW t \in Actors, frames[t] # <<>>, NEW g \in FrameType, NEW f \in FrameType,
           frames' = [Moved(t, g) EXCEPT ![t] = Append(@, f)]
    PROVE  /\ Changes({TopPlace(t)}, {TopPlace(t), NextPlace(t)}) /\ TopPlace(t) # NextPlace(t)
           /\ After(TopPlace(t)) = g /\ After(NextPlace(t)) = f
<1> DEFINE stack == Append(Append(Front(frames[t]), g), f)
           n == Len(frames[t])
           m == n - 1
<1>1. frames[t] \in Seq(FrameType) /\ n \in Nat \ {0} /\ m \in Nat /\ n = m + 1
  BY DEF TypeOK
<1>2. /\ Front(frames[t]) \in Seq(FrameType) /\ Len(Front(frames[t])) = m
      /\ \A i \in 1 .. m : Front(frames[t])[i] = frames[t][i]
  BY <1>1, LastAndFront
<1>3. /\ stack \in Seq(FrameType) /\ Len(stack) = n + 1
      /\ \A i \in 1 .. m : stack[i] = frames[t][i]
      /\ stack[n] = g /\ stack[n + 1] = f
  BY <1>1, <1>2, SMTT(30)
<1>4. frames' = [frames EXCEPT ![t] = stack]
  BY DEF Moved, TypeOK
<1>9. m <= Len(frames[t]) /\ m <= Len(stack)
  BY <1>1, <1>3
<1> HIDE DEF stack, m
<1>5. /\ Changes({<<t, i>> : i \in m + 1 .. n}, {<<t, i>> : i \in m + 1 .. Len(stack)})
      /\ \A i \in m + 1 .. Len(stack) : After(<<t, i>>) = stack[i]
  BY ONLY TypeOK, t \in Actors, <1>1, <1>3, <1>4, <1>9, StackReplaced
<1>6. /\ {<<t, i>> : i \in m + 1 .. n} = {TopPlace(t)} /\ n \in m + 1 .. n + 1
      /\ {<<t, i>> : i \in m + 1 .. n + 1} = {TopPlace(t), NextPlace(t)}
      /\ n + 1 \in m + 1 .. n + 1 /\ n # n + 1
  BY <1>1 DEF TopPlace, NextPlace
<1>7. After(TopPlace(t)) = g /\ After(NextPlace(t)) = f
  BY <1>3, <1>5, <1>6 DEF TopPlace, NextPlace, After
<1>8. QED
  BY <1>3, <1>5, <1>6, <1>7 DEF TopPlace, NextPlace

-----------------------------------------------------------------------------
(* The shape of a stack, and the records of its calls.                     *)

Open(f) == f.op = "Log" /\ f.at \in {"build", "fan", "write"}

Shape(f) ==
    /\ f.op = "Deliver" => /\ f.at \in {"lock", "write"} /\ f.next = 1
                           /\ \E s \in AsyncSinks : f.sinks = <<s>>
    /\ f.op = "Flush" => f.at \in {"fan", "destroy"}
    /\ f.op = "SetSinks" => f.at \in {"release", "destroy"}
    /\ f.at = "lock" => f.op = "Deliver"
    /\ f.at = "build" => f.sinks = <<>> /\ f.next = 1
    /\ f.at = "fan" => f.next <= Len(f.sinks) + 1
    /\ f.at = "write" => f.next <= Len(f.sinks)

\* A call that is not yet dispatched is open, what a flush has to cover is dispatched.
CallOK(calls, f) ==
    /\ Open(f) => \E r \in DOMAIN calls : f.records = {r} /\ calls[r].outcome = "open"
    /\ f.op = "Flush" => \A r \in f.records : r \in DOMAIN calls /\ calls[r].outcome = "dispatched"

StacksOK ==
    /\ \A p \in Places : Shape(FrameAt(p)) /\ CallOK(log, FrameAt(p))
    /\ \A p, q \in Places : Open(FrameAt(p)) /\ Open(FrameAt(q)) /\ p # q
           => FrameAt(p).records # FrameAt(q).records

LEMMA StacksKept ==
    ASSUME StacksOK, NEW old, NEW new, Changes(old, new),
           \A p \in new : Shape(After(p)) /\ CallOK(log', After(p)),
           \A p \in Places \ old : CallOK(log', FrameAt(p)),
           \A p \in new : Open(After(p)) =>
               /\ \A q \in Places \ old : Open(FrameAt(q)) => FrameAt(q).records # After(p).records
               /\ \A q \in new : q # p => ~Open(After(q))
    PROVE  StacksOK'
<1>1. Places' = (Places \ old) \cup new
  BY DEF Changes
<1>2. \A p \in Places \ old : FrameAt(p)' = FrameAt(p)
  BY DEF Changes
<1>3. \A p \in new : FrameAt(p)' = After(p)
  BY DEF FrameAt, After
<1>4. ASSUME NEW p \in Places'
      PROVE  Shape(FrameAt(p)') /\ CallOK(log', FrameAt(p)')
  BY <1>1, <1>2, <1>3 DEF StacksOK
<1>5. ASSUME NEW p \in Places', NEW q \in Places', Open(FrameAt(p)'), Open(FrameAt(q)'), p # q
      PROVE  FrameAt(p)'.records # FrameAt(q)'.records
  BY <1>1, <1>2, <1>3, <1>5 DEF StacksOK
<1>6. QED
  BY <1>4, <1>5 DEF StacksOK, Shape, CallOK, Open

\* The call of one open frame comes to its end: the others are as they were.
LEMMA OthersOpen ==
    ASSUME StacksOK, NEW p \in Places, Open(FrameAt(p)), NEW r, FrameAt(p).records = {r},
           NEW calls, DOMAIN calls = DOMAIN log,
           \A i \in DOMAIN log : i # r => calls[i].outcome = log[i].outcome
    PROVE  \A q \in Places \ {p} : CallOK(calls, FrameAt(q))
<1>1. r \in DOMAIN log /\ log[r].outcome = "open"
  BY DEF StacksOK, CallOK
<1>2. ASSUME NEW q \in Places \ {p}, Open(FrameAt(q))
      PROVE  \E i \in DOMAIN calls : FrameAt(q).records = {i} /\ calls[i].outcome = "open"
  <2>1. PICK i \in DOMAIN log : FrameAt(q).records = {i} /\ log[i].outcome = "open"
    BY <1>2 DEF StacksOK, CallOK
  <2>2. i # r
    BY <1>2, <2>1 DEF StacksOK
  <2>3. QED
    BY <2>1, <2>2
<1>3. ASSUME NEW q \in Places \ {p}, FrameAt(q).op = "Flush", NEW i \in FrameAt(q).records
      PROVE  i \in DOMAIN calls /\ calls[i].outcome = "dispatched"
  <2>1. i \in DOMAIN log /\ log[i].outcome = "dispatched"
    BY <1>3 DEF StacksOK, CallOK
  <2>2. QED
    BY <1>1, <2>1
<1>4. QED
  BY <1>2, <1>3 DEF CallOK

LEMMA TopFacts ==
    ASSUME TypeOK, StacksOK, NEW t \in Actors, frames[t] # <<>>
    PROVE  /\ TopPlace(t) \in Places /\ FrameAt(TopPlace(t)) = Top(t) /\ Top(t) \in FrameType
           /\ Shape(Top(t)) /\ CallOK(log, Top(t))
BY PlaceFacts DEF StacksOK

LEMMA OpenRecord ==
    ASSUME NEW calls, NEW f, CallOK(calls, f), Open(f)
    PROVE  /\ f.records = {Record(f)} /\ Record(f) \in DOMAIN calls
           /\ calls[Record(f)].outcome = "open"
BY DEF CallOK, Record

\* A frame stands before a sink or in one; it enters it, or passes it.
Looping(f) ==
    \/ f.at = "fan" /\ f.next <= Len(f.sinks)
    \/ f.at \in {"write", "lock"}
Entered(f) == [f EXCEPT !.at = "write"]
Passed(f)  == [f EXCEPT !.at = "fan", !.next = f.next + 1]

LEMMA LoopFrame ==
    ASSUME NEW f \in FrameType, Shape(f),
           Looping(f)
    PROVE  \A g \in {Entered(f)} \cup (IF f.op = "Deliver" THEN {} ELSE {Passed(f)}) :
               /\ g \in FrameType
               /\ g.op = f.op /\ g.logger = f.logger /\ g.sinks = f.sinks /\ g.records = f.records
               /\ g.at \in {"fan", "write"} /\ g.next \in {f.next, f.next + 1}
               /\ f.op # "Flush" => Shape(g)
               /\ g = Passed(f) => Shape(g)
<1>1. /\ Entered(f).op = f.op /\ Entered(f).logger = f.logger /\ Entered(f).sinks = f.sinks
      /\ Entered(f).records = f.records /\ Entered(f).at = "write" /\ Entered(f).next = f.next
  BY DEF Entered, FrameType
<1>2. /\ Passed(f).op = f.op /\ Passed(f).logger = f.logger /\ Passed(f).sinks = f.sinks
      /\ Passed(f).records = f.records /\ Passed(f).at = "fan" /\ Passed(f).next = f.next + 1
  BY DEF Passed, FrameType
<1>3. Entered(f) \in FrameType /\ Passed(f) \in FrameType
  <2>1. f.at # "build" /\ f.next \in Nat \ {0}
    BY DEF FrameType, Looping
  <2>2. Entered(f) \in FrameType
    BY <2>1 DEF FrameType, Entered
  <2>3. Passed(f) = [Beyond(f) EXCEPT !.at = "fan"]
    BY DEF Passed, Beyond, FrameType
  <2>4. Passed(f) \in FrameType
    BY <2>3, FrameMoves
  <2>5. QED
    BY <2>2, <2>4
<1>4. f.next \in Nat \ {0} /\ Len(f.sinks) \in Nat
  BY DEF FrameType, SinkSet
<1>5. f.op = "Deliver" => f.next = 1 /\ Len(f.sinks) = 1 /\ (\E s \in AsyncSinks : f.sinks = <<s>>)
  BY DEF Shape
<1>6. f.next <= Len(f.sinks)
  <2>1. CASE f.at = "lock"
    <3>1. f.op = "Deliver"
      BY <2>1 DEF Shape
    <3>2. f.next = 1 /\ Len(f.sinks) = 1
      BY <1>5, <3>1
    <3>3. QED
      BY ONLY <3>2
  <2>2. CASE f.at = "write"
    BY <2>2 DEF Shape
  <2>3. QED
    BY <2>1, <2>2 DEF Looping
<1>8. f.op # "SetSinks"
  BY DEF Shape, Looping
<1>9. f.op # "Flush" => Shape(Entered(f))
  <2>1. ASSUME NEW g, g.op = f.op, g.sinks = f.sinks, g.at = "write", g.next = f.next, f.op # "Flush"
        PROVE  Shape(g)
    BY <1>5, <1>6, <1>8, <2>1 DEF Shape
  <2>2. QED
    BY <1>1, <2>1
<1>10. f.op # "Deliver" => Shape(Passed(f))
  BY <1>2, <1>4, <1>6, <1>8 DEF Shape
<1>11. f.op # "Deliver" => Entered(f) # Passed(f)
  BY <1>1, <1>2
<1>12. QED
  BY <1>1, <1>2, <1>3, <1>9, <1>10, <1>11

\* The top frame of t enters a sink, or passes it, or a delivery is over.
Advances(t) ==
    \/ Top(t).op = "Deliver" /\ Changes({TopPlace(t)}, {})
    \/ /\ Top(t).op # "Flush" /\ Changes({TopPlace(t)}, {TopPlace(t)})
       /\ After(TopPlace(t)) = Entered(Top(t))
    \/ /\ Top(t).op # "Deliver" /\ Changes({TopPlace(t)}, {TopPlace(t)})
       /\ After(TopPlace(t)) = Passed(Top(t))

LEMMA AdvanceEffect ==
    ASSUME TypeOK, StacksOK, NEW t \in Actors,
           \/ Skip(t) \/ WriteReturns(t)
           \/ \E s \in PlainSinks : WritePlain(t, s)
           \/ \E s \in AsyncSinks : Deliver(t, s)
           \/ \E s \in Sinks : FlushSink(t, s)
           \/ \E s \in AsyncSinks : WriteAsync(t, s) /\ frames' = Moved(t, Beyond(Top(t)))
    PROVE  frames[t] # <<>> /\ Looping(Top(t)) /\ Advances(t)
<1> DEFINE f == Top(t)
<1>1. frames[t] # <<>> /\ Looping(f)
  BY DEF Skip, WriteReturns, WritePlain, Deliver, FlushSink, WriteAsync, Reaches, TopAt, Looping
<1>2. f \in FrameType /\ Shape(f)
  BY <1>1, TopFacts
<1>3. f.at = "fan" => Beyond(f) = Passed(f)
  BY <1>2 DEF Beyond, Passed, FrameType
<1>4. [Beyond(f) EXCEPT !.at = "fan"] = Passed(f)
  BY <1>2 DEF Beyond, Passed, FrameType
<1>5. Entered(f) \in FrameType /\ (f.op # "Deliver" => Passed(f) \in FrameType)
  BY <1>1, <1>2, LoopFrame
<1>6. \/ f.op = "Deliver" /\ frames' = Popped(t)
      \/ f.op # "Flush" /\ frames' = Moved(t, Entered(f))
      \/ f.op # "Deliver" /\ frames' = Moved(t, Passed(f))
  <2>1. CASE \/ Skip(t) \/ \E s \in Sinks : FlushSink(t, s)
             \/ \E s \in AsyncSinks : WriteAsync(t, s) /\ frames' = Moved(t, Beyond(Top(t)))
    <3>1. f.at = "fan" /\ f.op # "Deliver" /\ frames' = Moved(t, Beyond(f))
      BY <2>1 DEF Skip, FlushSink, WriteAsync, Reaches, TopAt
    <3>2. QED
      BY <1>3, <3>1
  <2>2. CASE WriteReturns(t)
    BY <1>4, <2>2 DEF WriteReturns
  <2>3. ASSUME frames' = Called(t, f), f.op \in {"Log", "Deliver"},
               f.op # "Deliver" => f.at = "fan"
        PROVE  \/ f.op = "Deliver" /\ frames' = Popped(t)
               \/ f.op # "Flush" /\ frames' = Moved(t, Entered(f))
               \/ f.op # "Deliver" /\ frames' = Moved(t, Passed(f))
    BY <1>3, <2>3 DEF Called, Entered
  <2>4. CASE \/ \E s \in PlainSinks : WritePlain(t, s)
             \/ \E s \in AsyncSinks : Deliver(t, s)
    BY <2>3, <2>4 DEF WritePlain, Deliver, Delivers, Reaches, TopAt
  <2>5. QED
    BY <2>1, <2>2, <2>4
<1> HIDE DEF f
<1>7. Advances(t)
  BY <1>1, <1>5, <1>6, Returns, GoesOn DEF Advances, f
<1>8. QED
  BY <1>1, <1>7 DEF f

\* It may be counted as refused on the way.
LEMMA AdvanceStacks ==
    ASSUME TypeOK, StacksOK, NEW t \in Actors, frames[t] # <<>>, Looping(Top(t)), Advances(t),
           DOMAIN log' = DOMAIN log, \A r \in DOMAIN log : log'[r].outcome = log[r].outcome
    PROVE  StacksOK'
<1> DEFINE f == Top(t)
           p == TopPlace(t)
<1>1. p \in Places /\ FrameAt(p) = f /\ f \in FrameType /\ Shape(f) /\ CallOK(log, f)
  BY TopFacts
<1>2. \A q \in Places : CallOK(log', FrameAt(q))
  BY DEF StacksOK, CallOK
<1>3. CASE Changes({p}, {})
  BY <1>2, <1>3, StacksKept
<1>4. ASSUME Changes({p}, {p}), Shape(After(p)), After(p).at \in {"fan", "write"},
             After(p).op = f.op, After(p).records = f.records
      PROVE  StacksOK'
  <2>1. Open(After(p)) => Open(f)
    BY <1>1, <1>4 DEF Open, Shape, Looping
  <2>2. CallOK(log', After(p))
    BY <1>1, <1>2, <1>4, <2>1 DEF CallOK
  <2>3. Open(After(p)) => \A q \in Places \ {p} : Open(FrameAt(q)) => FrameAt(q).records # After(p).records
    BY <1>1, <1>4, <2>1 DEF StacksOK
  <2>4. QED
    BY <1>2, <1>4, <2>2, <2>3, StacksKept
<1>5. QED
  BY <1>1, <1>3, <1>4, LoopFrame DEF Advances

\* A call of Log begins with a record of its own.
LEMMA LogEffect ==
    ASSUME TypeOK, NEW t \in Actors, NEW l \in Loggers, Log(t, l)
    PROVE  /\ Changes({}, {NextPlace(t)})
           /\ After(NextPlace(t)) = [op |-> "Log", logger |-> l, at |-> "build", sinks |-> <<>>,
                                     next |-> 1, records |-> {Len(log) + 1}]
           /\ DOMAIN log' = DOMAIN log \cup {Len(log) + 1} /\ Len(log) + 1 \notin DOMAIN log
           /\ log'[Len(log) + 1] = [logger |-> l, threw |-> FALSE, outcome |-> "open",
                                    since |-> active[l], refusedBy |-> {}]
           /\ \A r \in DOMAIN log : log'[r] = log[r]
<1> DEFINE f == [op |-> "Log", logger |-> l, at |-> "build", sinks |-> <<>>,
                 next |-> 1, records |-> {Len(log) + 1}]
           call == [logger |-> l, threw |-> FALSE, outcome |-> "open",
                    since |-> active[l], refusedBy |-> {}]
<1>1. Len(log) \in Nat /\ Len(log) < MaxRecords /\ log \in Seq(CallType) /\ DOMAIN log = 1 .. Len(log)
  BY DEF TypeOK, Log
<1>2. f \in FrameType
  <2>1. {Len(log) + 1} \in SUBSET (1 .. MaxRecords) /\ {Len(log) + 1} # {}
    BY <1>1, LoggerAssumption
  <2>2. <<>> \in SinkSet
    BY DEF SinkSet
  <2>3. QED
    BY <2>1, <2>2 DEF FrameType
<1>3. frames' = Pushed(t, f) /\ log' = Append(log, call)
  BY DEF Log
<1> HIDE DEF f, call
<1>4. Changes({}, {NextPlace(t)}) /\ After(NextPlace(t)) = f
  BY <1>2, <1>3, Calls
<1>5. /\ DOMAIN log' = DOMAIN log \cup {Len(log) + 1} /\ Len(log) + 1 \notin DOMAIN log
      /\ log'[Len(log) + 1] = call /\ \A r \in DOMAIN log : log'[r] = log[r]
  BY <1>1, <1>3
<1>6. QED
  BY <1>4, <1>5 DEF f, call

LEMMA LogStacks ==
    ASSUME TypeOK, StacksOK, NEW t \in Actors, NEW l \in Loggers, Log(t, l)
    PROVE  StacksOK'
<1> DEFINE p == NextPlace(t)
           n == Len(log) + 1
<1>1. /\ Changes({}, {p}) /\ DOMAIN log' = DOMAIN log \cup {n} /\ n \notin DOMAIN log
      /\ log'[n].outcome = "open" /\ \A r \in DOMAIN log : log'[r] = log[r]
      /\ After(p).op = "Log" /\ After(p).at = "build" /\ After(p).sinks = <<>>
      /\ After(p).next = 1 /\ After(p).records = {n}
  <2>1. /\ Changes({}, {p}) /\ DOMAIN log' = DOMAIN log \cup {n} /\ n \notin DOMAIN log
        /\ \A r \in DOMAIN log : log'[r] = log[r]
    BY LogEffect
  <2>2. After(p) = [op |-> "Log", logger |-> l, at |-> "build", sinks |-> <<>>,
                    next |-> 1, records |-> {n}]
    BY LogEffect
  <2>3. log'[n] = [logger |-> l, threw |-> FALSE, outcome |-> "open",
                   since |-> active[l], refusedBy |-> {}]
    BY LogEffect
  <2> HIDE DEF p, n
  <2>4. QED
    BY <2>1, <2>2, <2>3
<1> HIDE DEF p, n
<1>2. Shape(After(p)) /\ CallOK(log', After(p))
  BY <1>1 DEF Shape, CallOK
<1>3. \A q \in Places : CallOK(log', FrameAt(q))
  BY <1>1 DEF StacksOK, CallOK
<1>4. ASSUME NEW q \in Places, Open(FrameAt(q))
      PROVE  FrameAt(q).records # After(p).records
  BY <1>1, <1>4 DEF StacksOK, CallOK
<1>5. QED
  BY <1>1, <1>2, <1>3, <1>4, StacksKept

\* The builder function is done: the frame has its snapshot, or nothing to do with it.
Outcome(t) ==
    IF active[Top(t).logger] = <<>> THEN "no sinks"
    ELSE IF InDispatch(t, Top(t).logger) THEN "recursive" ELSE "open"

LEMMA DispatchEffect ==
    ASSUME TypeOK, StacksOK, NEW t \in Actors, NEW throws \in BOOLEAN, Dispatch(t, throws)
    PROVE  /\ frames[t] # <<>> /\ Top(t).at = "build" /\ Top(t).op = "Log"
           /\ Top(t).sinks = <<>> /\ Top(t).next = 1 /\ Open(Top(t)) /\ Top(t).logger \in Loggers
           /\ Changes({TopPlace(t)}, {TopPlace(t)})
           /\ After(TopPlace(t)) =
                  [Top(t) EXCEPT !.at = IF Outcome(t) = "open" THEN "fan" ELSE "release",
                                 !.sinks = active[Top(t).logger]]
           /\ log' = [log EXCEPT ![Record(Top(t))].threw = throws,
                                 ![Record(Top(t))].outcome = Outcome(t)]
           /\ Record(Top(t)) \in DOMAIN log
<1> DEFINE f == Top(t)
           l == f.logger
           g == [f EXCEPT !.at = IF Outcome(t) = "open" THEN "fan" ELSE "release",
                          !.sinks = active[l]]
<1>1. frames[t] # <<>> /\ f.at = "build"
  BY DEF Dispatch, TopAt
<1>2. f \in FrameType /\ Shape(f) /\ CallOK(log, f)
  BY <1>1, TopFacts
<1>3. f.op = "Log" /\ l \in Loggers /\ f.sinks = <<>> /\ f.next = 1 /\ Open(f)
  BY <1>1, <1>2 DEF FrameType, Shape, Open
<1>4. active[l] \in SinkSet
  BY <1>3 DEF TypeOK
<1>5. g \in FrameType
  BY <1>2, <1>4, FrameMoves
<1>6. /\ frames' = Moved(t, g)
      /\ log' = [log EXCEPT ![Record(f)].threw = throws, ![Record(f)].outcome = Outcome(t)]
  BY DEF Dispatch, Outcome
<1>7. Record(f) \in DOMAIN log
  BY <1>2, <1>3, OpenRecord
<1> HIDE DEF g
<1>8. Changes({TopPlace(t)}, {TopPlace(t)}) /\ After(TopPlace(t)) = g
  BY <1>1, <1>5, <1>6, GoesOn
<1>9. QED
  BY <1>1, <1>3, <1>6, <1>7, <1>8 DEF g

LEMMA DispatchStacks ==
    ASSUME TypeOK, StacksOK, NEW t \in Actors, NEW throws \in BOOLEAN, Dispatch(t, throws)
    PROVE  StacksOK'
<1> DEFINE f == Top(t)
           p == TopPlace(t)
           r == Record(f)
<1>1. /\ p \in Places /\ FrameAt(p) = f /\ f \in FrameType /\ Shape(f) /\ CallOK(log, f) /\ Open(f)
  BY DispatchEffect, TopFacts
<1>2. f.records = {r} /\ r \in DOMAIN log
  BY <1>1, OpenRecord
<1>3. /\ log' = [log EXCEPT ![r].threw = throws, ![r].outcome = Outcome(t)]
      /\ Changes({p}, {p}) /\ f.op = "Log" /\ f.next = 1 /\ f.logger \in Loggers
      /\ After(p) = [f EXCEPT !.at = IF Outcome(t) = "open" THEN "fan" ELSE "release",
                              !.sinks = active[f.logger]]
  BY DispatchEffect
<1>4. /\ DOMAIN log' = DOMAIN log /\ log'[r].outcome = Outcome(t)
      /\ \A i \in DOMAIN log : i # r => log'[i].outcome = log[i].outcome
  <2>1. log[r] \in CallType
    BY <1>2 DEF TypeOK
  <2>2. DOMAIN log[r] = {"logger", "threw", "outcome", "since", "refusedBy"}
    BY <2>1 DEF CallType
  <2>3. QED
    BY <1>2, <1>3, <2>2
<1>5. /\ After(p).op = "Log" /\ After(p).records = {r} /\ After(p).next = 1
      /\ After(p).at = (IF Outcome(t) = "open" THEN "fan" ELSE "release")
      /\ After(p).sinks = active[f.logger]
  BY <1>1, <1>2, <1>3 DEF FrameType
<1>6. active[f.logger] \in SinkSet /\ Len(active[f.logger]) \in Nat
  BY <1>3 DEF TypeOK, SinkSet
<1> HIDE DEF p, f, r
<1>7. Shape(After(p))
  BY <1>5, <1>6 DEF Shape
<1>8. CallOK(log', After(p))
  BY <1>2, <1>4, <1>5 DEF CallOK, Open
<1>9. \A q \in Places \ {p} : CallOK(log', FrameAt(q))
  BY <1>1, <1>2, <1>4, OthersOpen
<1>10. \A q \in Places \ {p} : Open(FrameAt(q)) => FrameAt(q).records # After(p).records
  BY <1>1, <1>2, <1>5 DEF StacksOK
<1>12. Changes({p}, {p})
  BY <1>3
<1>11. QED
  BY ONLY StacksOK, <1>12, <1>7, <1>8, <1>9, <1>10, StacksKept

\* Synchronous fallback: the caller delivers the record.
LEMMA FallbackEffect ==
    ASSUME TypeOK, StacksOK, NEW t \in Actors, NEW s \in AsyncSinks, WriteAsync(t, s),
           frames' # Moved(t, Beyond(Top(t)))
    PROVE  /\ frames[t] # <<>> /\ Looping(Top(t)) /\ Top(t).op = "Log" /\ Top(t).at = "fan"
           /\ Changes({TopPlace(t)}, {TopPlace(t), NextPlace(t)}) /\ TopPlace(t) # NextPlace(t)
           /\ After(TopPlace(t)) = Passed(Top(t))
           /\ After(NextPlace(t)) = DeliverFrame(s, Record(Top(t)))
           /\ UNCHANGED <<queue, log>>
<1> DEFINE f == Top(t)
<1>1. /\ frames[t] # <<>> /\ Looping(f) /\ f.op = "Log" /\ f.at = "fan"
      /\ frames' = [Moved(t, Beyond(f)) EXCEPT ![t] = Append(@, DeliverFrame(s, Record(f)))]
      /\ UNCHANGED <<queue, log>>
  BY DEF WriteAsync, Reaches, TopAt, Looping
<1>2. f \in FrameType
  BY <1>1, TopFacts
<1>3. Beyond(f) = Passed(f)
  BY <1>1, <1>2 DEF Beyond, Passed, FrameType
<1>4. Beyond(f) \in FrameType
  BY <1>2, FrameMoves
<1>5. DeliverFrame(s, Record(f)) \in FrameType
  BY <1>1, <1>2, RecordTyped, DeliverFrameTyped
<1> HIDE DEF f
<1>6. QED
  BY <1>1, <1>3, <1>4, <1>5, GoesOnAndCalls DEF f

LEMMA DeliverShape ==
    ASSUME NEW s \in AsyncSinks, NEW r, NEW calls
    PROVE  /\ Shape(DeliverFrame(s, r)) /\ CallOK(calls, DeliverFrame(s, r))
           /\ ~Open(DeliverFrame(s, r))
BY DEF DeliverFrame, Shape, CallOK, Open

LEMMA FallbackStacks ==
    ASSUME TypeOK, StacksOK, NEW t \in Actors, NEW s \in AsyncSinks, WriteAsync(t, s),
           frames' # Moved(t, Beyond(Top(t)))
    PROVE  StacksOK'
<1> DEFINE f == Top(t)
           p == TopPlace(t)
           q == NextPlace(t)
<1>1. /\ frames[t] # <<>> /\ Looping(f) /\ f.op = "Log" /\ f.at = "fan"
      /\ Changes({p}, {p, q}) /\ p # q
      /\ After(p) = Passed(f) /\ After(q) = DeliverFrame(s, Record(f)) /\ log' = log
  BY FallbackEffect
<1>2. p \in Places /\ FrameAt(p) = f /\ f \in FrameType /\ Shape(f) /\ CallOK(log, f) /\ Open(f)
  BY <1>1, TopFacts DEF Open
<1>3. /\ After(p).op = f.op /\ After(p).records = f.records /\ Shape(After(p))
      /\ After(p).at = "fan"
  BY <1>1, <1>2, LoopFrame DEF Passed, FrameType
<1>4. Shape(After(q)) /\ CallOK(log', After(q)) /\ ~Open(After(q))
  BY <1>1, DeliverShape
<1> HIDE DEF p, q, f
<1>5. CallOK(log', After(p)) /\ \A x \in Places : CallOK(log', FrameAt(x))
  BY <1>1, <1>2, <1>3 DEF StacksOK, CallOK, Open
<1>6. \A x \in Places \ {p} : Open(FrameAt(x)) => FrameAt(x).records # After(p).records
  BY <1>2, <1>3 DEF StacksOK
<1>7. /\ \A x \in {p, q} : Shape(After(x)) /\ CallOK(log', After(x))
      /\ \A x \in Places \ {p} : CallOK(log', FrameAt(x))
  BY <1>3, <1>4, <1>5
<1>8. \A x \in {p, q} : Open(After(x)) =>
          /\ \A y \in Places \ {p} : Open(FrameAt(y)) => FrameAt(y).records # After(x).records
          /\ \A y \in {p, q} : y # x => ~Open(After(y))
  BY <1>4, <1>6
<1>9. Changes({p}, {p, q})
  BY <1>1
<1>10. QED
  BY ONLY StacksOK, <1>7, <1>8, <1>9, StacksKept

\* The worker of s begins to deliver.
LEMMA DequeueEffect ==
    ASSUME TypeOK, NEW s \in AsyncSinks, Dequeue(s)
    PROVE  /\ Changes({}, {NextPlace(s)}) /\ After(NextPlace(s)) = DeliverFrame(s, Head(queue[s]))
           /\ queue[s] # <<>> /\ Head(queue[s]) = queue[s][1]
           /\ queue' = [queue EXCEPT ![s] = Tail(@)] /\ log' = log
<1>1. queue[s] \in Seq(1 .. MaxRecords) /\ queue[s] # <<>>
  BY DEF TypeOK, Dequeue
<1>2. Head(queue[s]) \in 1 .. MaxRecords /\ Head(queue[s]) = queue[s][1]
  <2>1. Head(queue[s]) \in 1 .. MaxRecords
    BY <1>1, HeadTailProperties
  <2>2. Head(queue[s]) = queue[s][1]
    BY <1>1
  <2>3. QED
    BY <2>1, <2>2
<1>3. s \in Actors /\ DeliverFrame(s, Head(queue[s])) \in FrameType
  BY <1>2, DeliverFrameTyped DEF Actors
<1>4. frames' = Pushed(s, DeliverFrame(s, Head(queue[s])))
  BY DEF Dequeue
<1>5. QED
  BY <1>1, <1>2, <1>3, <1>4, Calls DEF Dequeue

\* A call begins that is not one of Log.
LEMMA QuietStacks ==
    ASSUME StacksOK, NEW p, Changes({}, {p}), log' = log,
           Shape(After(p)), CallOK(log, After(p)), ~Open(After(p))
    PROVE  StacksOK'
<1>1. \A q \in Places \ {} : CallOK(log', FrameAt(q))
  BY DEF StacksOK
<1>2. \A q \in {p} : Shape(After(q)) /\ CallOK(log', After(q))
  OBVIOUS
<1>3. QED
  BY <1>1, <1>2, StacksKept

LEMMA FlushEffect ==
    ASSUME TypeOK, NEW t \in Actors, NEW l \in Loggers, Flush(t, l)
    PROVE  /\ Changes({}, {NextPlace(t)})
           /\ After(NextPlace(t)) = [op |-> "Flush", logger |-> l, at |-> "fan", sinks |-> active[l],
                                     next |-> 1, records |-> Finished(l)]
           /\ log' = log /\ active[l] \in SinkSet
<1> DEFINE f == [op |-> "Flush", logger |-> l, at |-> "fan", sinks |-> active[l],
                 next |-> 1, records |-> Finished(l)]
<1>1. active[l] \in SinkSet /\ Finished(l) \subseteq 1 .. MaxRecords
  BY LoggerAssumption DEF TypeOK, Finished
<1>2. f \in FrameType
  BY <1>1 DEF FrameType
<1>3. frames' = Pushed(t, f)
  BY DEF Flush
<1> HIDE DEF f
<1>4. Changes({}, {NextPlace(t)}) /\ After(NextPlace(t)) = f
  BY <1>2, <1>3, Calls
<1>5. QED
  BY <1>1, <1>4 DEF f, Flush

LEMMA FlushStacks ==
    ASSUME TypeOK, StacksOK, NEW t \in Actors, NEW l \in Loggers, Flush(t, l)
    PROVE  StacksOK'
<1> DEFINE p == NextPlace(t)
<1>1. /\ Changes({}, {p}) /\ log' = log
      /\ After(p) = [op |-> "Flush", logger |-> l, at |-> "fan", sinks |-> active[l],
                     next |-> 1, records |-> Finished(l)]
      /\ Len(active[l]) \in Nat
  BY FlushEffect DEF SinkSet
<1> HIDE DEF p
<1>2. Shape(After(p)) /\ CallOK(log, After(p)) /\ ~Open(After(p))
  BY <1>1 DEF Shape, CallOK, Open, Finished
<1>3. QED
  BY <1>1, <1>2, QuietStacks

\* SetSinks has a snapshot to release: the one that was published, or its argument.
LEMMA SetSinksEffect ==
    ASSUME TypeOK, NEW t \in Actors, NEW l \in Loggers, NEW fails \in BOOLEAN, SetSinks(t, l, fails)
    PROVE  \E set \in SinkSet :
               /\ Changes({}, {NextPlace(t)}) /\ After(NextPlace(t)) = ReleaseFrame(l, set)
               /\ log' = log /\ spare' = spare \ {l} /\ l \in spare
               /\ \/ ~fails /\ set = active[l] /\ active' = [active EXCEPT ![l] = wiring.second[l]]
                  \/ fails /\ set = wiring.second[l] /\ active' = active
<1>1. active[l] \in SinkSet /\ wiring.second[l] \in SinkSet
  BY WiringTyped DEF TypeOK
<1>2. \A set \in SinkSet : ReleaseFrame(l, set) \in FrameType
  BY DEF ReleaseFrame, FrameType
<1>3. \E set \in SinkSet :
          /\ frames' = Pushed(t, ReleaseFrame(l, set))
          /\ \/ ~fails /\ set = active[l] /\ active' = [active EXCEPT ![l] = wiring.second[l]]
             \/ fails /\ set = wiring.second[l] /\ active' = active
  BY <1>1 DEF SetSinks
<1>4. QED
  BY <1>2, <1>3, Calls DEF SetSinks

LEMMA SetSinksStacks ==
    ASSUME TypeOK, StacksOK, NEW t \in Actors, NEW l \in Loggers,
           NEW fails \in BOOLEAN, SetSinks(t, l, fails)
    PROVE  StacksOK'
<1> DEFINE p == NextPlace(t)
<1>1. PICK set \in SinkSet : Changes({}, {p}) /\ After(p) = ReleaseFrame(l, set) /\ log' = log
  BY SetSinksEffect
<1> HIDE DEF p
<1>2. Shape(After(p)) /\ CallOK(log, After(p)) /\ ~Open(After(p))
  BY <1>1 DEF ReleaseFrame, Shape, CallOK, Open
<1>3. QED
  BY <1>1, <1>2, QuietStacks

\* The end of a call, which may be that of the sinks nobody else holds.
LEMMA DyingOrder ==
    ASSUME NEW sinks \in SinkSet, NEW dying \in SUBSET ToSet(sinks), NEW order \in SetToSeqs(dying)
    PROVE  /\ order \in SinkSet /\ \A i \in DOMAIN order : order[i] \in dying
           /\ \A i, j \in DOMAIN order : order[i] = order[j] => i = j
           /\ dying # {} => Len(order) >= 1
<1>1. sinks \in [1 .. Len(sinks) -> Sinks \cup {Null}] /\ Len(sinks) \in Nat
  BY DEF SinkSet
<1>2. sinks \in Surjection(1 .. Len(sinks), ToSet(sinks))
  BY <1>1 DEF Surjection, ToSet
<1>3. IsFiniteSet(dying)
  BY <1>1, <1>2, FS_Interval, FS_Surjection, FS_Subset
<1>4. Cardinality(dying) \in Nat /\ (dying # {} => Cardinality(dying) >= 1)
  <2>1. Cardinality(dying) \in Nat /\ (Cardinality(dying) = 0 <=> dying = {})
    BY <1>3, FS_CardinalityType, FS_EmptySet
  <2>2. QED
    BY <2>1
<1>5. /\ order \in [1 .. Cardinality(dying) -> dying]
      /\ \A i, j \in 1 .. Cardinality(dying) : i # j => order[i] # order[j]
  BY DEF SetToSeqs
<1>6. order \in SinkSet
  BY OrderTyped
<1>7. Len(order) = Cardinality(dying)
  BY <1>4, <1>5, <1>6 DEF SinkSet
<1>8. QED
  BY <1>4, <1>5, <1>6, <1>7

Dying(t) == ToSet(Top(t).sinks) \ (Held(t) \cup {Null})

LEMMA ReleaseEffect ==
    ASSUME TypeOK, StacksOK, NEW t \in Actors, Release(t)
    PROVE  /\ frames[t] # <<>> /\ Top(t).op \in {"Log", "Flush", "SetSinks"}
           /\ Top(t).at \in {"fan", "release"}
           /\ Top(t).at = "fan" => Top(t).next > Len(Top(t).sinks)
           /\ \/ Changes({TopPlace(t)}, {}) /\ Dying(t) = {}
              \/ /\ Changes({TopPlace(t)}, {TopPlace(t)})
                 /\ \E order \in SinkSet :
                        /\ After(TopPlace(t)) =
                               [Top(t) EXCEPT !.at = "destroy", !.sinks = order, !.next = 1]
                        /\ \A i \in DOMAIN order : order[i] \in Dying(t)
                        /\ \A i, j \in DOMAIN order : order[i] = order[j] => i = j
                        /\ Len(order) >= 1
           /\ IF Open(Top(t))
              THEN /\ log' = [log EXCEPT ![Record(Top(t))].outcome = "dispatched"]
                   /\ Record(Top(t)) \in DOMAIN log /\ Top(t).records = {Record(Top(t))}
              ELSE log' = log
<1> DEFINE f == Top(t)
<1>1. /\ frames[t] # <<>> /\ f.at \in {"fan", "release"}
      /\ f.at = "fan" => f.next > Len(f.sinks)
  BY DEF Release, AtEnd, TopAt
<1>2. f \in FrameType /\ Shape(f) /\ CallOK(log, f)
  BY <1>1, TopFacts
<1>3. f.op \in {"Log", "Flush", "SetSinks"} /\ f.sinks \in SinkSet
  BY <1>1, <1>2 DEF FrameType, Shape
<1>4. Open(f) <=> f.op = "Log" /\ f.at = "fan"
  BY <1>1 DEF Open
<1>5. IF Open(f)
      THEN /\ log' = [log EXCEPT ![Record(f)].outcome = "dispatched"]
           /\ Record(f) \in DOMAIN log /\ f.records = {Record(f)}
      ELSE log' = log
  BY <1>2, <1>4, OpenRecord DEF Release
<1>6. \/ Dying(t) = {} /\ frames' = Popped(t)
      \/ /\ Dying(t) # {}
         /\ \E order \in SetToSeqs(Dying(t)) :
                frames' = Moved(t, [f EXCEPT !.at = "destroy", !.sinks = order, !.next = 1])
  BY DEF Release, Dying
<1>7. CASE Dying(t) = {} /\ frames' = Popped(t)
  BY <1>1, <1>3, <1>5, <1>7, Returns
<1>8. ASSUME NEW order \in SetToSeqs(Dying(t)), Dying(t) # {},
             frames' = Moved(t, [f EXCEPT !.at = "destroy", !.sinks = order, !.next = 1])
      PROVE  /\ Changes({TopPlace(t)}, {TopPlace(t)})
             /\ \E o \in SinkSet :
                    /\ After(TopPlace(t)) = [f EXCEPT !.at = "destroy", !.sinks = o, !.next = 1]
                    /\ \A i \in DOMAIN o : o[i] \in Dying(t)
                    /\ \A i, j \in DOMAIN o : o[i] = o[j] => i = j
                    /\ Len(o) >= 1
  <2>1. Dying(t) \in SUBSET ToSet(f.sinks)
    BY DEF Dying
  <2>2. /\ order \in SinkSet /\ \A i \in DOMAIN order : order[i] \in Dying(t)
        /\ \A i, j \in DOMAIN order : order[i] = order[j] => i = j
        /\ Len(order) >= 1
    BY <1>3, <1>8, <2>1, DyingOrder
  <2>3. [f EXCEPT !.at = "destroy", !.sinks = order, !.next = 1] \in FrameType
    BY <1>2, <2>2, FrameMoves
  <2> HIDE DEF f
  <2>4. /\ Changes({TopPlace(t)}, {TopPlace(t)})
        /\ After(TopPlace(t)) = [f EXCEPT !.at = "destroy", !.sinks = order, !.next = 1]
    BY <1>1, <1>8, <2>3, GoesOn
  <2>5. QED
    BY <2>2, <2>4
<1> HIDE DEF f
<1>9. QED
  BY <1>1, <1>3, <1>5, <1>6, <1>7, <1>8 DEF f

\* A frame that goes on without being open, or goes away.
LEMMA EndStacks ==
    ASSUME TypeOK, StacksOK, NEW p \in Places, NEW new \in SUBSET {p}, Changes({p}, new),
           \A q \in Places \ {p} : CallOK(log', FrameAt(q)),
           p \in new => Shape(After(p)) /\ CallOK(log', After(p)) /\ ~Open(After(p))
    PROVE  StacksOK'
<1>1. \A q \in new : Shape(After(q)) /\ CallOK(log', After(q)) /\ ~Open(After(q))
  OBVIOUS
<1>2. QED
  BY ONLY StacksOK, Changes({p}, new), <1>1, \A q \in Places \ {p} : CallOK(log', FrameAt(q)), StacksKept

LEMMA ReleaseStacks ==
    ASSUME TypeOK, StacksOK, NEW t \in Actors, Release(t)
    PROVE  StacksOK'
<1> DEFINE f == Top(t)
           p == TopPlace(t)
           r == Record(f)
<1>1. frames[t] # <<>> /\ f.op \in {"Log", "Flush", "SetSinks"} /\ f.at \in {"fan", "release"}
  BY ReleaseEffect
<1>2. p \in Places /\ FrameAt(p) = f /\ f \in FrameType /\ Shape(f) /\ CallOK(log, f)
  BY <1>1, TopFacts
<1>3. \A q \in Places \ {p} : CallOK(log', FrameAt(q))
  <2>1. CASE Open(f)
    <3>1. /\ log' = [log EXCEPT ![r].outcome = "dispatched"]
          /\ r \in DOMAIN log /\ f.records = {r}
      BY <2>1, ReleaseEffect
    <3>2. DOMAIN log' = DOMAIN log /\ \A i \in DOMAIN log : i # r => log'[i].outcome = log[i].outcome
      BY <3>1
    <3> HIDE DEF p, f, r
    <3>3. QED
      BY <1>2, <2>1, <3>1, <3>2, OthersOpen
  <2>2. CASE ~Open(f)
    <3>1. log' = log
      BY <2>2, ReleaseEffect
    <3>2. QED
      BY <3>1 DEF StacksOK
  <2>3. QED
    BY <2>1, <2>2
<1>4. CASE Changes({p}, {})
  <2> HIDE DEF p
  <2>1. QED
    BY <1>2, <1>3, <1>4, EndStacks
<1>5. ASSUME Changes({p}, {p}),
             NEW order, After(p) = [f EXCEPT !.at = "destroy", !.sinks = order, !.next = 1]
      PROVE  StacksOK'
  <2>1. After(p).at = "destroy" /\ After(p).op = f.op /\ After(p).records = f.records
    BY <1>2, <1>5 DEF FrameType
  <2>2. f.op = "Flush" => log' = log
    BY ReleaseEffect DEF Open
  <2> HIDE DEF p, f
  <2>3. Shape(After(p)) /\ CallOK(log', After(p)) /\ ~Open(After(p))
    BY <1>1, <1>2, <2>1, <2>2 DEF Shape, CallOK, Open
  <2>4. QED
    BY <1>2, <1>3, <1>5, <2>3, EndStacks
<1> HIDE DEF p, f
<1>6. QED
  BY <1>4, <1>5, ReleaseEffect DEF p, f

\* The next sink of a dying set is destroyed.
LEMMA DestroyEffect ==
    ASSUME TypeOK, StacksOK, NEW t \in Actors, NEW s \in Sinks, DestroySink(t, s)
    PROVE  /\ frames[t] # <<>> /\ Top(t).at = "destroy" /\ Current(Top(t)) = s
           /\ \/ Changes({TopPlace(t)}, {}) /\ Top(t).next = Len(Top(t).sinks)
              \/ /\ Changes({TopPlace(t)}, {TopPlace(t)}) /\ Top(t).next # Len(Top(t).sinks)
                 /\ After(TopPlace(t)) = [Top(t) EXCEPT !.next = Top(t).next + 1]
           /\ log' = log /\ gone' = gone \cup {s} /\ (s \in AsyncSinks => Quiescent(s))
           /\ flushed' = [flushed EXCEPT ![s] = Len(written[s])]
           /\ UNCHANGED <<wiring, active, spare, queue, written>>
<1> DEFINE f == Top(t)
<1>1. frames[t] # <<>> /\ f.at = "destroy" /\ Current(f) = s
  BY DEF DestroySink, TopAt
<1>2. f \in FrameType
  BY <1>1, TopFacts
<1>3. Beyond(f) \in FrameType /\ Beyond(f) = [f EXCEPT !.next = f.next + 1]
  BY <1>2, FrameMoves DEF Beyond
<1>4. frames' = IF f.next = Len(f.sinks) THEN Popped(t) ELSE Moved(t, Beyond(f))
  BY DEF DestroySink
<1> HIDE DEF f
<1>5. \/ Changes({TopPlace(t)}, {}) /\ f.next = Len(f.sinks)
      \/ /\ Changes({TopPlace(t)}, {TopPlace(t)}) /\ f.next # Len(f.sinks)
         /\ After(TopPlace(t)) = [f EXCEPT !.next = f.next + 1]
  BY <1>1, <1>3, <1>4, Returns, GoesOn
<1>6. QED
  BY <1>1, <1>5 DEF f, DestroySink

LEMMA DestroyStacks ==
    ASSUME TypeOK, StacksOK, NEW t \in Actors, NEW s \in Sinks, DestroySink(t, s)
    PROVE  StacksOK'
<1> DEFINE f == Top(t)
           p == TopPlace(t)
<1>1. /\ frames[t] # <<>> /\ f.at = "destroy" /\ log' = log
      /\ \/ Changes({p}, {})
         \/ Changes({p}, {p}) /\ After(p) = [f EXCEPT !.next = f.next + 1]
  BY DestroyEffect
<1>2. p \in Places /\ FrameAt(p) = f /\ f \in FrameType /\ Shape(f) /\ CallOK(log, f)
  BY <1>1, TopFacts
<1>3. \A q \in Places \ {p} : CallOK(log', FrameAt(q))
  BY <1>1 DEF StacksOK
<1>4. ASSUME After(p) = [f EXCEPT !.next = f.next + 1]
      PROVE  Shape(After(p)) /\ CallOK(log', After(p)) /\ ~Open(After(p))
  <2>1. After(p).at = "destroy" /\ After(p).op = f.op /\ After(p).records = f.records
    BY <1>1, <1>2, <1>4 DEF FrameType
  <2> HIDE DEF p, f
  <2>2. QED
    BY <1>1, <1>2, <2>1 DEF Shape, CallOK, Open
<1> HIDE DEF p, f
<1>5. QED
  BY <1>1, <1>2, <1>3, <1>4, EndStacks

LEMMA StacksStep ==
    ASSUME TypeOK, StacksOK, [Next]_vars
    PROVE  StacksOK'
<1>1. ASSUME NEW t \in Actors, Continue(t)
      PROVE  StacksOK'
  <2>1. ASSUME NEW throws \in BOOLEAN, Dispatch(t, throws)  PROVE StacksOK'
    BY <2>1, DispatchStacks
  <2>2. CASE \/ Skip(t) \/ WriteReturns(t)
             \/ \E s \in PlainSinks : WritePlain(t, s)
             \/ \E s \in AsyncSinks : Deliver(t, s)
             \/ \E s \in Sinks : FlushSink(t, s)
    <3>1. log' = log
      BY <2>2 DEF Skip, WriteReturns, WritePlain, Deliver, FlushSink
    <3>2. frames[t] # <<>> /\ Looping(Top(t)) /\ Advances(t)
      BY <2>2, AdvanceEffect
    <3>3. QED
      BY <3>1, <3>2, AdvanceStacks
  <2>3. ASSUME NEW s \in AsyncSinks, WriteAsync(t, s)  PROVE StacksOK'
    <3>1. CASE frames' = Moved(t, Beyond(Top(t)))
      <4>1. frames[t] # <<>> /\ Looping(Top(t)) /\ Advances(t)
        BY <2>3, <3>1, AdvanceEffect
      <4>2. \/ log' = log
            \/ log' = [log EXCEPT ![Record(Top(t))].refusedBy = @ \cup {s}]
        BY <2>3 DEF WriteAsync
      <4>3. DOMAIN log' = DOMAIN log /\ \A r \in DOMAIN log : log'[r].outcome = log[r].outcome
        <5>1. \A r \in DOMAIN log : [log[r] EXCEPT !.refusedBy = @ \cup {s}].outcome = log[r].outcome
          BY DEF TypeOK, CallType
        <5>2. QED
          BY <4>2, <5>1
      <4>4. QED
        BY <4>1, <4>3, AdvanceStacks
    <3>2. CASE frames' # Moved(t, Beyond(Top(t)))
      BY <2>3, <3>2, FallbackStacks
    <3>3. QED
      BY <3>1, <3>2
  <2>4. CASE Release(t)
    BY <2>4, ReleaseStacks
  <2>5. ASSUME NEW s \in Sinks, DestroySink(t, s)  PROVE StacksOK'
    BY <2>5, DestroyStacks
  <2>6. QED
    BY <1>1, <2>1, <2>2, <2>3, <2>4, <2>5 DEF Continue
<1>2. ASSUME NEW s \in AsyncSinks, Dequeue(s)
      PROVE  StacksOK'
  <2>1. /\ Changes({}, {NextPlace(s)}) /\ log' = log
        /\ After(NextPlace(s)) = DeliverFrame(s, Head(queue[s]))
    BY <1>2, DequeueEffect
  <2>2. QED
    BY <2>1, DeliverShape, QuietStacks
<1>3. ASSUME NEW t \in Actors, NEW l \in Loggers, Log(t, l)
      PROVE  StacksOK'
  BY <1>3, LogStacks
<1>4. ASSUME NEW t \in Keepers, NEW l \in Loggers,
             Flush(t, l) \/ \E fails \in BOOLEAN : SetSinks(t, l, fails)
      PROVE  StacksOK'
  BY <1>4, FlushStacks, SetSinksStacks, LoggerAssumption DEF Actors
<1>5. CASE UNCHANGED vars
  <2>1. UNCHANGED <<frames, log>>
    BY <1>5 DEF vars
  <2>2. Places' = Places /\ \A x : FrameAt(x)' = FrameAt(x)
    BY <2>1 DEF Places, FrameAt
  <2>3. QED
    BY <2>1, <2>2 DEF StacksOK
<1>6. QED
  BY <1>1, <1>2, <1>3, <1>4, <1>5 DEF Next

LEMMA StacksInit == Init => StacksOK
<1> SUFFICES ASSUME Init  PROVE StacksOK
  OBVIOUS
<1>1. Places = {}
  BY DEF Init, Places
<1>2. QED
  BY <1>1 DEF StacksOK

\* However threads, builder functions and sinks nest their calls, a frame only ever stands
\* where its operation can stand; a call of Log in progress has its record for itself, and
\* a flush has to cover what was dispatched, for good, before it.
THEOREM StacksInvariant == Spec => []StacksOK
<1>1. QED
  BY StacksInit, StacksStep, TypeCorrect, PTL DEF Spec

-----------------------------------------------------------------------------
(* Who may still use a sink.                                               *)

\* The sinks a frame has yet to call, or to destroy.
Uses(f) ==
    IF f.op = "Deliver" THEN {}
    ELSE IF f.at = "destroy" THEN {f.sinks[i] : i \in f.next .. Len(f.sinks)}
    ELSE ToSet(f.sinks)

\* A sink of a set that is published, or that the application has yet to publish.
Published(s) ==
    \/ \E l \in Loggers : s \in ToSet(active[l])
    \/ \E l \in spare : s \in ToSet(wiring.second[l])

\* A sink that is being destroyed belongs to one frame alone, one that is gone to nobody.
UseOK ==
    /\ \A p \in Places : FrameAt(p).at = "destroy" =>
           /\ FrameAt(p).next <= Len(FrameAt(p).sinks)
           /\ \A i, j \in DOMAIN FrameAt(p).sinks : FrameAt(p).sinks[i] = FrameAt(p).sinks[j] => i = j
           /\ \A s \in Uses(FrameAt(p)) :
                 ~Published(s) /\ \A q \in Places \ {p} : s \notin Uses(FrameAt(q))
    /\ \A s \in gone : ~Published(s) /\ \A p \in Places : s \notin Uses(FrameAt(p))

\* What new frames use is published, or was in use by a frame that destroyed nothing.
LEMMA UseKept ==
    ASSUME UseOK, NEW old, NEW new, Changes(old, new), gone' = gone,
           \A s : Published(s)' => Published(s),
           \A p \in new : After(p).at # "destroy",
           \A p \in new : \A s \in Uses(After(p)) :
               \/ Published(s)
               \/ \E q \in old : FrameAt(q).at # "destroy" /\ s \in Uses(FrameAt(q))
    PROVE  UseOK'
<1>1. Places' = (Places \ old) \cup new /\ old \subseteq Places
  BY DEF Changes
<1>2. \A p \in Places \ old : FrameAt(p)' = FrameAt(p)
  BY DEF Changes
<1>3. \A p \in new : FrameAt(p)' = After(p)
  BY DEF FrameAt, After
<1>4. ASSUME NEW p \in Places', FrameAt(p)'.at = "destroy"
      PROVE  p \in Places \ old /\ FrameAt(p)' = FrameAt(p)
  BY <1>1, <1>2, <1>3, <1>4
<1>5. ASSUME NEW p \in Places, FrameAt(p).at = "destroy", p \notin old, NEW s \in Uses(FrameAt(p))
      PROVE  ~Published(s)' /\ \A q \in Places' \ {p} : s \notin Uses(FrameAt(q)')
  <2>1. ~Published(s) /\ \A q \in Places \ {p} : s \notin Uses(FrameAt(q))
    BY <1>5 DEF UseOK
  <2>2. ASSUME NEW q \in new  PROVE s \notin Uses(After(q))
    BY <1>1, <1>5, <2>1
  <2>3. QED
    BY <1>1, <1>2, <1>3, <2>1, <2>2
<1>6. ASSUME NEW s \in gone
      PROVE  ~Published(s)' /\ \A q \in Places' : s \notin Uses(FrameAt(q)')
  <2>1. ~Published(s) /\ \A q \in Places : s \notin Uses(FrameAt(q))
    BY DEF UseOK
  <2>2. ASSUME NEW q \in new  PROVE s \notin Uses(After(q))
    BY <1>1, <2>1
  <2>3. QED
    BY <1>1, <1>2, <1>3, <2>1, <2>2
<1>7. \A f : Uses(f)' = Uses(f)
  BY DEF Uses
<1>8. ASSUME NEW p \in Places', FrameAt(p)'.at = "destroy"
      PROVE  /\ FrameAt(p)'.next <= Len(FrameAt(p)'.sinks)
             /\ \A i, j \in DOMAIN FrameAt(p)'.sinks :
                    FrameAt(p)'.sinks[i] = FrameAt(p)'.sinks[j] => i = j
             /\ \A s \in Uses(FrameAt(p)') :
                    ~Published(s)' /\ \A q \in Places' \ {p} : s \notin Uses(FrameAt(q)')
  <2>1. p \in Places \ old /\ FrameAt(p)' = FrameAt(p) /\ FrameAt(p).at = "destroy"
    BY <1>4, <1>8
  <2>2. \A s \in Uses(FrameAt(p)) :
            ~Published(s)' /\ \A q \in Places' \ {p} : s \notin Uses(FrameAt(q)')
    BY <1>5, <2>1
  <2>3. QED
    BY <2>1, <2>2 DEF UseOK
<1>9. QED
  BY <1>6, <1>8 DEF UseOK, Uses

\* A frame that moves along the same snapshot uses what it used.
LEMMA SameUses ==
    ASSUME NEW f, NEW g, g.op = f.op, g.sinks = f.sinks, f.at # "destroy", g.at # "destroy"
    PROVE  Uses(g) = Uses(f)
BY DEF Uses

LEMMA AdvanceUse ==
    ASSUME TypeOK, StacksOK, UseOK, NEW t \in Actors, frames[t] # <<>>, Looping(Top(t)), Advances(t),
           UNCHANGED <<wiring, active, spare, gone>>
    PROVE  UseOK'
<1> DEFINE f == Top(t)
           p == TopPlace(t)
<1>1. p \in Places /\ FrameAt(p) = f /\ f \in FrameType /\ Shape(f)
  BY TopFacts
<1>2. f.at # "destroy"
  BY DEF Looping
<1>3. \A s : Published(s)' => Published(s)
  BY DEF Published
<1>4. CASE Changes({p}, {})
  BY <1>3, <1>4, UseKept
<1>5. ASSUME Changes({p}, {p}), After(p).at # "destroy", After(p).op = f.op, After(p).sinks = f.sinks
      PROVE  UseOK'
  <2>1. Uses(After(p)) = Uses(f)
    BY <1>2, <1>5, SameUses
  <2> HIDE DEF p, f
  <2>2. \A q \in {p} : After(q).at # "destroy"
    BY <1>5
  <2>3. \A q \in {p} : \A s \in Uses(After(q)) :
            \/ Published(s)
            \/ \E x \in {p} : FrameAt(x).at # "destroy" /\ s \in Uses(FrameAt(x))
    BY <1>1, <1>2, <2>1
  <2>4. QED
    BY ONLY UseOK, <1>3, <1>5, <2>2, <2>3, gone' = gone, UseKept
<1>6. QED
  BY <1>1, <1>4, <1>5, LoopFrame DEF Advances

\* A new frame uses nothing, or a published set.
LEMMA CallUse ==
    ASSUME UseOK, NEW p, Changes({}, {p}), gone' = gone, \A s : Published(s)' => Published(s),
           After(p).at # "destroy", \A s \in Uses(After(p)) : Published(s)
    PROVE  UseOK'
<1>1. \A q \in {p} : After(q).at # "destroy"
  OBVIOUS
<1>2. \A q \in {p} : \A s \in Uses(After(q)) :
          \/ Published(s)
          \/ \E x \in {} : FrameAt(x).at # "destroy" /\ s \in Uses(FrameAt(x))
  OBVIOUS
<1>3. QED
  BY <1>1, <1>2, UseKept

LEMMA FallbackUse ==
    ASSUME TypeOK, StacksOK, UseOK, NEW t \in Actors, NEW s \in AsyncSinks, WriteAsync(t, s),
           frames' # Moved(t, Beyond(Top(t)))
    PROVE  UseOK'
<1> DEFINE f == Top(t)
           p == TopPlace(t)
           q == NextPlace(t)
<1>1. /\ frames[t] # <<>> /\ Looping(f) /\ f.op = "Log" /\ f.at = "fan"
      /\ Changes({p}, {p, q}) /\ p # q
      /\ After(p) = Passed(f) /\ After(q) = DeliverFrame(s, Record(f))
  BY FallbackEffect
<1>2. p \in Places /\ FrameAt(p) = f /\ f \in FrameType /\ Shape(f)
  BY <1>1, TopFacts
<1>3. Uses(After(p)) = Uses(f) /\ After(p).at = "fan"
  <2>1. After(p).op = f.op /\ After(p).sinks = f.sinks /\ After(p).at = "fan"
    BY <1>1, <1>2 DEF Passed, FrameType
  <2>2. QED
    BY <1>1, <2>1, SameUses
<1>4. Uses(After(q)) = {} /\ After(q).at = "lock"
  BY <1>1 DEF Uses, DeliverFrame
<1>5. \A x : Published(x)' => Published(x)
  BY DEF Published, WriteAsync
<1>6. gone' = gone /\ f.at # "destroy"
  BY <1>1 DEF WriteAsync
<1> HIDE DEF p, q, f
<1>7. \A x \in {p, q} : After(x).at # "destroy"
  BY <1>3, <1>4
<1>8. \A x \in {p, q} : \A z \in Uses(After(x)) :
          \/ Published(z)
          \/ \E y \in {p} : FrameAt(y).at # "destroy" /\ z \in Uses(FrameAt(y))
  BY <1>2, <1>3, <1>4, <1>6
<1>9. Changes({p}, {p, q})
  BY <1>1
<1>10. QED
  BY ONLY UseOK, <1>5, <1>6, <1>7, <1>8, <1>9, UseKept

LEMMA DispatchUse ==
    ASSUME TypeOK, StacksOK, UseOK, NEW t \in Actors, NEW throws \in BOOLEAN, Dispatch(t, throws)
    PROVE  UseOK'
<1> DEFINE f == Top(t)
           p == TopPlace(t)
<1>1. /\ frames[t] # <<>> /\ f.op = "Log" /\ f.logger \in Loggers /\ Changes({p}, {p})
      /\ After(p) = [f EXCEPT !.at = IF Outcome(t) = "open" THEN "fan" ELSE "release",
                              !.sinks = active[f.logger]]
  BY DispatchEffect
<1>2. f \in FrameType
  BY <1>1, TopFacts
<1>3. /\ After(p).op = "Log" /\ After(p).at \in {"fan", "release"}
      /\ After(p).sinks = active[f.logger]
  BY <1>1, <1>2 DEF FrameType
<1>4. (\A x : Published(x)' => Published(x)) /\ gone' = gone
  BY DEF Published, Dispatch, channels
<1> HIDE DEF p, f
<1>5. \A x \in Uses(After(p)) : Published(x)
  BY <1>1, <1>3 DEF Uses, Published
<1>6. /\ \A x \in {p} : After(x).at # "destroy"
      /\ \A x \in {p} : \A z \in Uses(After(x)) :
             \/ Published(z)
             \/ \E y \in {p} : FrameAt(y).at # "destroy" /\ z \in Uses(FrameAt(y))
  BY <1>3, <1>5
<1>8. Changes({p}, {p})
  BY <1>1
<1>7. QED
  BY ONLY UseOK, <1>4, <1>6, <1>8, UseKept

LEMMA BeginUse ==
    ASSUME TypeOK, UseOK, NEW t \in Actors, NEW l \in Loggers,
           Log(t, l) \/ Flush(t, l) \/ \E fails \in BOOLEAN : SetSinks(t, l, fails)
    PROVE  UseOK'
<1> DEFINE p == NextPlace(t)
<1>1. gone' = gone /\ wiring' = wiring
  BY DEF Log, Flush, SetSinks, channels
<1>2. CASE Log(t, l)
  <2>1. /\ Changes({}, {p}) /\ After(p).op = "Log" /\ After(p).at = "build" /\ After(p).sinks = <<>>
    <3>1. /\ Changes({}, {p})
          /\ After(p) = [op |-> "Log", logger |-> l, at |-> "build", sinks |-> <<>>,
                         next |-> 1, records |-> {Len(log) + 1}]
      BY <1>2, LogEffect
    <3> HIDE DEF p
    <3>2. QED
      BY <3>1
  <2>2. Uses(After(p)) = {}
    BY <2>1 DEF Uses, ToSet
  <2>3. \A s : Published(s)' => Published(s)
    BY <1>2 DEF Published, Log
  <2> HIDE DEF p
  <2>4. QED
    BY <1>1, <2>1, <2>2, <2>3, CallUse
<1>3. CASE Flush(t, l)
  <2>1. Changes({}, {p}) /\ After(p).op = "Flush" /\ After(p).at = "fan" /\ After(p).sinks = active[l]
    <3>1. /\ Changes({}, {p})
          /\ After(p) = [op |-> "Flush", logger |-> l, at |-> "fan", sinks |-> active[l],
                         next |-> 1, records |-> Finished(l)]
      BY <1>3, FlushEffect
    <3> HIDE DEF p
    <3>2. QED
      BY <3>1
  <2>2. \A s \in Uses(After(p)) : Published(s)
    BY <2>1 DEF Uses, Published
  <2>3. \A s : Published(s)' => Published(s)
    BY <1>3 DEF Published, Flush
  <2> HIDE DEF p
  <2>4. QED
    BY <1>1, <2>1, <2>2, <2>3, CallUse
<1>4. ASSUME NEW fails \in BOOLEAN, SetSinks(t, l, fails)
      PROVE  UseOK'
  <2>1. PICK set \in SinkSet :
            /\ Changes({}, {p}) /\ After(p) = ReleaseFrame(l, set)
            /\ spare' = spare \ {l} /\ l \in spare
            /\ \/ ~fails /\ set = active[l] /\ active' = [active EXCEPT ![l] = wiring.second[l]]
               \/ fails /\ set = wiring.second[l] /\ active' = active
    BY <1>4, SetSinksEffect
  <2>2. After(p).op = "SetSinks" /\ After(p).at = "release" /\ After(p).sinks = set
    BY <2>1 DEF ReleaseFrame
  <2>3. \A s \in Uses(After(p)) : Published(s)
    BY <2>1, <2>2 DEF Uses, Published
  <2>4. \A s : Published(s)' => Published(s)
    BY <1>1, <2>1 DEF Published, TypeOK
  <2> HIDE DEF p
  <2>5. QED
    BY <1>1, <2>1, <2>2, <2>3, <2>4, CallUse
<1>5. QED
  BY <1>2, <1>3, <1>4

LEMMA HeldFacts ==
    ASSUME TypeOK, NEW t \in Actors, NEW s, s \notin Held(t)
    PROVE  /\ ~Published(s)
           /\ \A q \in Places \ {TopPlace(t)} : s \notin Uses(FrameAt(q))
<1>1. ~Published(s)
  <2>1. HeldBySetsOnly(t) \subseteq Held(t)
    BY DEF Held
  <2>2. \A l \in Loggers : ToSet(active[l]) \subseteq HeldBySetsOnly(t)
    BY DEF HeldBySetsOnly
  <2>3. ASSUME NEW l \in spare  PROVE ToSet(wiring.second[l]) \subseteq HeldBySetsOnly(t)
    <3> DEFINE S(k) == ToSet(wiring.second[k])
    <3>1. S(l) \subseteq UNION {S(k) : k \in spare}
      <4> HIDE DEF S
      <4>1. QED
        OBVIOUS
    <3>2. QED
      BY <3>1 DEF HeldBySetsOnly
  <2>4. QED
    BY <2>1, <2>2, <2>3 DEF Published
<1>2. ASSUME NEW q \in Places \ {TopPlace(t)}, FrameAt(q).op # "Deliver"
      PROVE  s \notin ToSet(FrameAt(q).sinks)
  <2>1. q[1] \in Actors /\ q[2] \in DOMAIN frames[q[1]] /\ q = <<q[1], q[2]>>
    BY PlaceFacts
  <2>2. ~(q[1] = t /\ q[2] = Len(frames[t]))
    BY <2>1 DEF TopPlace
  <2>3. q[2] \in {j \in DOMAIN frames[q[1]] : frames[q[1]][j].op # "Deliver"}
    BY <1>2, <2>1 DEF FrameAt
  <2>4. ToSet(FrameAt(q).sinks) \subseteq Held(t)
    BY <2>1, <2>2, <2>3 DEF Held, FrameAt
  <2>5. QED
    BY <2>4
<1>3. ASSUME NEW q \in Places
      PROVE  FrameAt(q).op # "Deliver" => Uses(FrameAt(q)) \subseteq ToSet(FrameAt(q).sinks)
  <2>1. FrameAt(q) \in FrameType
    BY PlaceFacts
  <2>2. FrameAt(q).sinks \in SinkSet /\ FrameAt(q).next \in Nat \ {0}
    BY <2>1 DEF FrameType
  <2>3. \A i \in FrameAt(q).next .. Len(FrameAt(q).sinks) : i \in DOMAIN FrameAt(q).sinks
    BY <2>2 DEF SinkSet
  <2>4. QED
    BY <2>3 DEF Uses, ToSet
<1>4. QED
  BY <1>1, <1>2, <1>3 DEF Uses

\* The frame that gives up a set last has its sinks for itself.
LEMMA ReleaseUse ==
    ASSUME TypeOK, StacksOK, UseOK, NEW t \in Actors, Release(t)
    PROVE  UseOK'
<1> DEFINE f == Top(t)
<1>p. PICK p : p = TopPlace(t)
  OBVIOUS
<1>1. frames[t] # <<>> /\ f.op \in {"Log", "Flush", "SetSinks"} /\ f.at \in {"fan", "release"}
  BY ReleaseEffect
<1>2. p \in Places /\ FrameAt(p) = f /\ f \in FrameType
  BY <1>1, <1>p, TopFacts
<1>3. UNCHANGED <<wiring, active, spare, gone>>
  BY DEF Release, channels
<1>4. \A s : Published(s)' <=> Published(s)
  BY <1>3 DEF Published
<1>5. CASE Changes({p}, {})
  BY <1>3, <1>4, <1>5, UseKept
<1>6. ASSUME Changes({p}, {p}), NEW order \in SinkSet,
             After(p) = [f EXCEPT !.at = "destroy", !.sinks = order, !.next = 1],
             \A i \in DOMAIN order : order[i] \in Dying(t),
             \A i, j \in DOMAIN order : order[i] = order[j] => i = j,
             Len(order) >= 1
      PROVE  UseOK'
  <2> DEFINE g == After(p)
  <2>1. g.at = "destroy" /\ g.op = f.op /\ g.sinks = order /\ g.next = 1
    BY <1>2, <1>6 DEF FrameType
  <2>2. \A s \in Uses(g) : s \in Dying(t)
    <3>1. \A i \in 1 .. Len(order) : i \in DOMAIN order
      BY DEF SinkSet
    <3>2. Uses(g) = {order[i] : i \in 1 .. Len(order)}
      BY <1>1, <2>1 DEF Uses
    <3> HIDE DEF g
    <3>3. QED
      BY <1>6, <3>1, <3>2
  <2>3. \A s \in Uses(g) : /\ s \in Uses(f) /\ ~Published(s)
                           /\ \A q \in Places \ {p} : s \notin Uses(FrameAt(q))
    <3>1. \A s \in Dying(t) : s \in ToSet(f.sinks) /\ s \notin Held(t)
      BY DEF Dying
    <3>2. Uses(f) = ToSet(f.sinks)
      BY <1>1 DEF Uses
    <3> HIDE DEF g, f
    <3>3. QED
      BY <1>p, <2>2, <3>1, <3>2, HeldFacts
  <2>4. /\ Places' = Places /\ FrameAt(p)' = g
        /\ \A q \in Places \ {p} : FrameAt(q)' = FrameAt(q)
    BY <1>2, <1>6 DEF Changes, FrameAt, After
  <2> HIDE DEF g, f
  <2>5. ASSUME NEW q \in Places, FrameAt(q)'.at = "destroy"
        PROVE  /\ FrameAt(q)'.next <= Len(FrameAt(q)'.sinks)
               /\ \A i, j \in DOMAIN FrameAt(q)'.sinks :
                      FrameAt(q)'.sinks[i] = FrameAt(q)'.sinks[j] => i = j
               /\ \A s \in Uses(FrameAt(q)') :
                      ~Published(s) /\ \A x \in Places \ {q} : s \notin Uses(FrameAt(x)')
    <3>1. CASE q = p
      <4>1. FrameAt(q)' = g
        BY <2>4, <3>1
      <4>2. \A s \in Uses(g) : ~Published(s) /\ \A x \in Places \ {q} : s \notin Uses(FrameAt(x)')
        BY <2>3, <2>4, <3>1
      <4>3. g.next <= Len(g.sinks) /\ \A i, j \in DOMAIN g.sinks : g.sinks[i] = g.sinks[j] => i = j
        BY <1>6, <2>1
      <4>4. QED
        BY <4>1, <4>2, <4>3
    <3>2. CASE q # p
      <4>1. FrameAt(q)' = FrameAt(q)
        BY <2>4, <3>2
      <4>2. \A s \in Uses(FrameAt(q)) :
                ~Published(s) /\ \A x \in Places \ {q} : s \notin Uses(FrameAt(x))
        BY <2>5, <4>1 DEF UseOK
      <4>3. \A s \in Uses(FrameAt(q)) : \A x \in Places \ {q} : s \notin Uses(FrameAt(x)')
        BY <1>2, <2>3, <2>4, <3>2, <4>2
      <4>4. /\ FrameAt(q).next <= Len(FrameAt(q).sinks)
            /\ \A i, j \in DOMAIN FrameAt(q).sinks :
                   FrameAt(q).sinks[i] = FrameAt(q).sinks[j] => i = j
        BY <2>5, <4>1 DEF UseOK
      <4>5. QED
        BY <4>1, <4>2, <4>3, <4>4
    <3>3. QED
      BY <3>1, <3>2
  <2>6. ASSUME NEW s \in gone
        PROVE  ~Published(s) /\ \A q \in Places : s \notin Uses(FrameAt(q)')
    BY <1>2, <2>3, <2>4 DEF UseOK
  <2>7. QED
    BY <1>3, <1>4, <2>4, <2>5, <2>6 DEF UseOK, Uses
<1> HIDE DEF f
<1>7. QED
  BY <1>5, <1>6, <1>p, ReleaseEffect DEF f

\* A sink that has been destroyed is not used any more.
LEMMA DestroyUse ==
    ASSUME TypeOK, StacksOK, UseOK, NEW t \in Actors, NEW s \in Sinks, DestroySink(t, s)
    PROVE  UseOK'
<1> DEFINE f == Top(t)
<1>p. PICK p : p = TopPlace(t)
  OBVIOUS
<1>1. /\ frames[t] # <<>> /\ f.at = "destroy" /\ Current(f) = s
      /\ \/ Changes({p}, {}) /\ f.next = Len(f.sinks)
         \/ /\ Changes({p}, {p}) /\ f.next # Len(f.sinks)
            /\ After(p) = [f EXCEPT !.next = f.next + 1]
      /\ gone' = gone \cup {s} /\ UNCHANGED <<wiring, active, spare>>
  BY <1>p, DestroyEffect
<1>2. p \in Places /\ FrameAt(p) = f /\ f \in FrameType /\ Shape(f)
  BY <1>1, <1>p, TopFacts
<1>3. f.next \in Nat \ {0} /\ Len(f.sinks) \in Nat /\ DOMAIN f.sinks = 1 .. Len(f.sinks)
  BY <1>2 DEF FrameType, SinkSet
<1>4. \A x : Published(x)' <=> Published(x)
  BY <1>1 DEF Published
<1>5. /\ f.next <= Len(f.sinks) /\ \A i, j \in DOMAIN f.sinks : f.sinks[i] = f.sinks[j] => i = j
      /\ \A x \in Uses(f) : ~Published(x) /\ \A q \in Places \ {p} : x \notin Uses(FrameAt(q))
  <2> HIDE DEF f
  <2>1. QED
    BY <1>1, <1>2 DEF UseOK
<1>6. s \in Uses(f) /\ f.op # "Deliver"
  <2>1. f.op # "Deliver"
    BY <1>1, <1>2 DEF Shape
  <2>2. f.next \in f.next .. Len(f.sinks) /\ f.sinks[f.next] = s
    BY <1>1, <1>3, <1>5 DEF Current
  <2> HIDE DEF f
  <2>3. QED
    BY <1>1, <2>1, <2>2 DEF Uses
<1>7. ~Published(s) /\ \A q \in Places \ {p} : s \notin Uses(FrameAt(q))
  BY <1>5, <1>6
<1>8. /\ \A q \in Places \ {p} : FrameAt(q)' = FrameAt(q)
      /\ Places' \subseteq Places
  <2> HIDE DEF f
  <2>1. QED
    BY <1>1, <1>2 DEF Changes
<1>9. ASSUME p \in Places'
      PROVE  /\ FrameAt(p)' = [f EXCEPT !.next = f.next + 1] /\ f.next # Len(f.sinks)
  <2>1. Changes({p}, {p}) /\ After(p) = [f EXCEPT !.next = f.next + 1] /\ f.next # Len(f.sinks)
    <3> HIDE DEF f
    <3>1. QED
      BY <1>1, <1>9 DEF Changes
  <2>2. QED
    BY <2>1 DEF After, FrameAt
<1>10. ASSUME NEW g, g = [f EXCEPT !.next = f.next + 1], f.next # Len(f.sinks)
       PROVE  /\ g.op = f.op /\ g.sinks = f.sinks /\ g.at = "destroy" /\ g.next <= Len(g.sinks)
              /\ Uses(g) \subseteq Uses(f) /\ s \notin Uses(g)
  <2>1. g.op = f.op /\ g.sinks = f.sinks /\ g.at = "destroy" /\ g.next = f.next + 1
    BY <1>1, <1>2, <1>10 DEF FrameType
  <2> HIDE DEF f
  <2>2. /\ Uses(f) = {f.sinks[i] : i \in f.next .. Len(f.sinks)}
        /\ Uses(g) = {f.sinks[i] : i \in f.next + 1 .. Len(f.sinks)}
    BY <1>1, <1>6, <2>1 DEF Uses
  <2>3. Uses(g) \subseteq Uses(f)
    BY <1>3, <2>2
  <2>4. \A i \in f.next + 1 .. Len(f.sinks) : f.sinks[i] # f.sinks[f.next]
    BY <1>3, <1>5
  <2>5. s \notin Uses(g)
    BY <1>1, <2>2, <2>4 DEF Current
  <2>6. g.next <= Len(g.sinks)
    BY <1>3, <1>5, <1>10, <2>1
  <2>7. QED
    BY <2>1, <2>3, <2>5, <2>6
<1> HIDE DEF f
<1>11. \A q \in Places' : /\ Uses(FrameAt(q)') \subseteq Uses(FrameAt(q))
                          /\ FrameAt(q)'.at = FrameAt(q).at /\ FrameAt(q)'.sinks = FrameAt(q).sinks
                          /\ FrameAt(q).at = "destroy" => FrameAt(q)'.next <= Len(FrameAt(q)'.sinks)
                          /\ s \notin Uses(FrameAt(q)')
  <2> TAKE q \in Places'
  <2>1. CASE q = p
    BY <1>1, <1>2, <1>9, <1>10, <2>1
  <2>2. CASE q # p
    <3>1. q \in Places \ {p} /\ FrameAt(q)' = FrameAt(q)
      BY <1>8, <2>2
    <3>2. QED
      BY <1>7, <3>1 DEF UseOK
  <2>3. QED
    BY <2>1, <2>2
<1>12. ASSUME NEW q \in Places', FrameAt(q)'.at = "destroy"
       PROVE  /\ FrameAt(q)'.next <= Len(FrameAt(q)'.sinks)
              /\ \A i, j \in DOMAIN FrameAt(q)'.sinks :
                     FrameAt(q)'.sinks[i] = FrameAt(q)'.sinks[j] => i = j
              /\ \A x \in Uses(FrameAt(q)') :
                     ~Published(x)' /\ \A y \in Places' \ {q} : x \notin Uses(FrameAt(y)')
  <2>1. q \in Places /\ FrameAt(q).at = "destroy"
    BY <1>8, <1>11, <1>12
  <2>2. /\ \A i, j \in DOMAIN FrameAt(q).sinks : FrameAt(q).sinks[i] = FrameAt(q).sinks[j] => i = j
        /\ \A x \in Uses(FrameAt(q)) :
               ~Published(x) /\ \A y \in Places \ {q} : x \notin Uses(FrameAt(y))
    BY <2>1 DEF UseOK
  <2>3. QED
    BY <1>4, <1>8, <1>11, <1>12, <2>1, <2>2
<1>13. ASSUME NEW x \in gone'
       PROVE  ~Published(x)' /\ \A q \in Places' : x \notin Uses(FrameAt(q)')
  <2>1. CASE x = s
    BY <1>4, <1>7, <1>11, <2>1
  <2>2. CASE x \in gone
    <3>1. ~Published(x) /\ \A q \in Places : x \notin Uses(FrameAt(q))
      BY <2>2 DEF UseOK
    <3>2. QED
      BY <1>4, <1>8, <1>11, <3>1
  <2>3. QED
    BY <1>1, <2>1, <2>2
<1>14. QED
  BY <1>12, <1>13 DEF UseOK, Uses

LEMMA UseStep ==
    ASSUME TypeOK, StacksOK, UseOK, [Next]_vars
    PROVE  UseOK'
<1>1. ASSUME NEW t \in Actors, Continue(t)
      PROVE  UseOK'
  <2>1. ASSUME NEW throws \in BOOLEAN, Dispatch(t, throws)  PROVE UseOK'
    BY <2>1, DispatchUse
  <2>2. CASE \/ Skip(t) \/ WriteReturns(t)
             \/ \E s \in PlainSinks : WritePlain(t, s)
             \/ \E s \in AsyncSinks : Deliver(t, s)
             \/ \E s \in Sinks : FlushSink(t, s)
    <3>1. UNCHANGED <<wiring, active, spare, gone>>
      BY <2>2 DEF Skip, WriteReturns, WritePlain, Deliver, FlushSink, channels
    <3>2. frames[t] # <<>> /\ Looping(Top(t)) /\ Advances(t)
      BY <2>2, AdvanceEffect
    <3>3. QED
      BY <3>1, <3>2, AdvanceUse
  <2>3. ASSUME NEW s \in AsyncSinks, WriteAsync(t, s)  PROVE UseOK'
    <3>1. CASE frames' = Moved(t, Beyond(Top(t)))
      <4>1. frames[t] # <<>> /\ Looping(Top(t)) /\ Advances(t)
        BY <2>3, <3>1, AdvanceEffect
      <4>2. UNCHANGED <<wiring, active, spare, gone>>
        BY <2>3 DEF WriteAsync
      <4>3. QED
        BY <4>1, <4>2, AdvanceUse
    <3>2. CASE frames' # Moved(t, Beyond(Top(t)))
      BY <2>3, <3>2, FallbackUse
    <3>3. QED
      BY <3>1, <3>2
  <2>4. CASE Release(t)
    BY <2>4, ReleaseUse
  <2>5. ASSUME NEW s \in Sinks, DestroySink(t, s)  PROVE UseOK'
    BY <2>5, DestroyUse
  <2>6. QED
    BY <1>1, <2>1, <2>2, <2>3, <2>4, <2>5 DEF Continue
<1>2. ASSUME NEW s \in AsyncSinks, Dequeue(s)
      PROVE  UseOK'
  <2>1. /\ Changes({}, {NextPlace(s)}) /\ After(NextPlace(s)) = DeliverFrame(s, Head(queue[s]))
    BY <1>2, DequeueEffect
  <2>2. Uses(After(NextPlace(s))) = {} /\ After(NextPlace(s)).at # "destroy"
    BY <2>1 DEF DeliverFrame, Uses
  <2>3. gone' = gone /\ \A x : Published(x)' => Published(x)
    BY <1>2 DEF Dequeue, Published
  <2>4. QED
    BY <2>1, <2>2, <2>3, CallUse
<1>3. ASSUME NEW t \in Actors, NEW l \in Loggers, Log(t, l)
      PROVE  UseOK'
  BY <1>3, BeginUse
<1>4. ASSUME NEW t \in Keepers, NEW l \in Loggers,
             Flush(t, l) \/ \E fails \in BOOLEAN : SetSinks(t, l, fails)
      PROVE  UseOK'
  BY <1>4, BeginUse, LoggerAssumption DEF Actors
<1>5. CASE UNCHANGED vars
  <2>1. UNCHANGED <<frames, active, spare, wiring, gone>>
    BY <1>5 DEF vars, channels
  <2>2. Places' = Places /\ \A x : FrameAt(x)' = FrameAt(x)
    BY <2>1 DEF Places, FrameAt
  <2>3. \A x : Published(x)' <=> Published(x)
    BY <2>1 DEF Published
  <2>4. QED
    BY <2>1, <2>2, <2>3 DEF UseOK, Uses
<1>6. QED
  BY <1>1, <1>2, <1>3, <1>4, <1>5 DEF Next

-----------------------------------------------------------------------------
(* The records that a sink has accepted, but not yet written and flushed.  *)

InQueue(s, r)    == \E i \in DOMAIN queue[s] : queue[s][i] = r
InDelivery(s, r) == \E p \in Places : Delivers(FrameAt(p), s) /\ r \in FrameAt(p).records
Unflushed(s, r)  == \E i \in flushed[s] + 1 .. Len(written[s]) : written[s][i] = r
Waits(s, r) ==
    \/ s \in AsyncSinks /\ (InQueue(s, r) \/ InDelivery(s, r))
    \/ Unflushed(s, r)

\* A call in the middle of its dispatch, which may yet hand its record to the sink.
Logs(s, r) ==
    \E p \in Places : /\ Open(FrameAt(p)) /\ FrameAt(p).records = {r}
                      /\ s \in ToSet(FrameAt(p).sinks) /\ FrameAt(p).at = "fan"

LEMMA DeliveryKept ==
    ASSUME NEW old, NEW new, Changes(old, new), NEW s, NEW r,
           \A q \in new : Delivers(After(q), s) /\ r \in After(q).records => InDelivery(s, r)
    PROVE  InDelivery(s, r)' => InDelivery(s, r)
<1> SUFFICES ASSUME InDelivery(s, r)'  PROVE InDelivery(s, r)
  OBVIOUS
<1>1. PICK p \in Places' : Delivers(FrameAt(p)', s) /\ r \in FrameAt(p)'.records
  BY DEF InDelivery, Delivers
<1>2. CASE p \in Places \ old
  <2>1. FrameAt(p)' = FrameAt(p)
    BY <1>2 DEF Changes
  <2>2. QED
    BY <1>1, <1>2, <2>1 DEF InDelivery
<1>3. CASE p \in new
  <2>1. FrameAt(p)' = After(p)
    BY DEF FrameAt, After
  <2>2. QED
    BY <1>1, <1>3, <2>1
<1>4. QED
  BY <1>1, <1>2, <1>3 DEF Changes

LEMMA AdvanceDelivery ==
    ASSUME TypeOK, StacksOK, NEW t \in Actors, frames[t] # <<>>, Looping(Top(t)), Advances(t),
           NEW s, NEW r
    PROVE  InDelivery(s, r)' => InDelivery(s, r)
<1> DEFINE f == Top(t)
<1>p. PICK p : p = TopPlace(t)
  OBVIOUS
<1>1. p \in Places /\ FrameAt(p) = f /\ f \in FrameType /\ Shape(f)
  BY <1>p, TopFacts
<1>2. CASE Changes({p}, {})
  BY <1>2, DeliveryKept
<1>3. ASSUME Changes({p}, {p}), After(p).op = f.op, After(p).sinks = f.sinks,
             After(p).records = f.records
      PROVE  InDelivery(s, r)' => InDelivery(s, r)
  <2>1. \A q \in {p} : Delivers(After(q), s) /\ r \in After(q).records => InDelivery(s, r)
    BY <1>1, <1>3 DEF InDelivery, Delivers
  <2>2. QED
    BY <1>3, <2>1, DeliveryKept
<1>4. QED
  BY <1>p, <1>1, <1>2, <1>3, LoopFrame DEF Advances

\* A sink is given one more record to write.
LEMMA WriteUnflushed ==
    ASSUME TypeOK, NEW s \in Sinks, NEW r, NEW z \in Sinks, NEW x,
           written' = [written EXCEPT ![z] = Append(@, x)], flushed' = flushed, Unflushed(s, r)'
    PROVE  Unflushed(s, r) \/ (s = z /\ r = x)
<1>1. written[s] \in Seq(1 .. MaxRecords) /\ flushed[s] \in Nat
  BY DEF TypeOK
<1>2. CASE s # z
  <2>1. written'[s] = written[s]
    BY <1>2 DEF TypeOK
  <2>2. QED
    BY <2>1 DEF Unflushed
<1>3. CASE s = z
  <2>1. written'[s] = Append(written[s], x)
    BY <1>3 DEF TypeOK
  <2>2. PICK i \in flushed[s] + 1 .. Len(written'[s]) : written'[s][i] = r
    BY DEF Unflushed
  <2>3. Len(written'[s]) = Len(written[s]) + 1 /\ Len(written[s]) \in Nat
    BY <1>1, <2>1
  <2>4. CASE i = Len(written[s]) + 1
    BY <1>1, <1>3, <2>1, <2>2, <2>4
  <2>5. CASE i # Len(written[s]) + 1
    <3>1. i \in flushed[s] + 1 .. Len(written[s]) /\ i \in 1 .. Len(written[s])
      BY <1>1, <2>2, <2>3, <2>5
    <3>2. written'[s][i] = written[s][i]
      BY <1>1, <2>1, <3>1
    <3>3. QED
      BY <2>2, <3>1, <3>2 DEF Unflushed
  <2>6. QED
    BY <2>4, <2>5
<1>4. QED
  BY <1>2, <1>3

\* A sink is flushed.
LEMMA FlushUnflushed ==
    ASSUME TypeOK, NEW z \in Sinks, NEW s \in Sinks, NEW r,
           flushed' = [flushed EXCEPT ![z] = Len(written[z])], written' = written, Unflushed(s, r)'
    PROVE  Unflushed(s, r) /\ s # z
<1>1. CASE s = z
  <2>1. flushed'[s] = Len(written[s]) /\ Len(written[s]) \in Nat
    BY <1>1 DEF TypeOK
  <2>2. flushed'[s] + 1 .. Len(written[s]) = {}
    BY <2>1
  <2>3. QED
    BY <2>2 DEF Unflushed
<1>2. CASE s # z
  BY <1>2 DEF Unflushed, TypeOK
<1>3. QED
  BY <1>1, <1>2

LEMMA ReachesLogs ==
    ASSUME TypeOK, StacksOK, NEW t \in Actors, NEW s \in Sinks, Reaches(t, "Log", s)
    PROVE  Logs(s, Record(Top(t)))
<1> DEFINE f == Top(t)
<1>p. PICK p : p = TopPlace(t)
  OBVIOUS
<1>1. /\ frames[t] # <<>> /\ f.at = "fan" /\ f.op = "Log" /\ f.next <= Len(f.sinks)
      /\ Current(f) = s
  BY DEF Reaches, TopAt
<1>2. p \in Places /\ FrameAt(p) = f /\ f \in FrameType /\ CallOK(log, f)
  BY <1>p, <1>1, TopFacts
<1>3. Open(f) /\ f.records = {Record(f)}
  <2>1. Open(f)
    BY <1>1 DEF Open
  <2> HIDE DEF f
  <2>2. QED
    BY <1>2, <2>1, OpenRecord
<1>4. s \in ToSet(f.sinks)
  BY <1>1, <1>2 DEF FrameType, SinkSet, ToSet, Current
<1> HIDE DEF f
<1>5. QED
  BY <1>1, <1>2, <1>3, <1>4 DEF Logs, f

\* Only a call in the middle of its dispatch hands a record to a sink; all the rest takes
\* records from one place of a sink to another, or brings them to their end.
LEMMA SinkCallsWait ==
    ASSUME TypeOK, StacksOK, NEW t \in Actors, NEW s \in Sinks, NEW r, Waits(s, r)',
           \/ Skip(t) \/ WriteReturns(t)
           \/ \E z \in PlainSinks : WritePlain(t, z)
           \/ \E z \in AsyncSinks : Deliver(t, z)
           \/ \E z \in Sinks : FlushSink(t, z)
    PROVE  Waits(s, r) \/ Logs(s, r)
<1>1. frames[t] # <<>> /\ Looping(Top(t)) /\ Advances(t)
  BY AdvanceEffect
<1>2. InDelivery(s, r)' => InDelivery(s, r)
  BY <1>1, AdvanceDelivery
<1>3. queue' = queue
  BY DEF Skip, WriteReturns, WritePlain, Deliver, FlushSink, channels
<1>4. s \in AsyncSinks /\ (InQueue(s, r)' \/ InDelivery(s, r)') => Waits(s, r)
  BY <1>2, <1>3 DEF Waits, InQueue
<1>5. CASE Skip(t) \/ WriteReturns(t)
  BY <1>4, <1>5 DEF Waits, Unflushed, Skip, WriteReturns, channels
<1>6. ASSUME NEW z \in PlainSinks, WritePlain(t, z)
      PROVE  Waits(s, r) \/ Logs(s, r)
  <2>1. /\ written' = [written EXCEPT ![z] = Append(@, Record(Top(t)))] /\ flushed' = flushed
        /\ Reaches(t, "Log", z) /\ z \in Sinks
    BY <1>6 DEF WritePlain, Sinks
  <2>2. Logs(z, Record(Top(t)))
    BY <2>1, ReachesLogs
  <2>3. Unflushed(s, r)' => Unflushed(s, r) \/ Logs(s, r)
    BY <2>1, <2>2, WriteUnflushed
  <2>4. QED
    BY <1>4, <2>3 DEF Waits
<1>7. ASSUME NEW z \in AsyncSinks, Deliver(t, z)
      PROVE  Waits(s, r) \/ Logs(s, r)
  <2>1. /\ written' = [written EXCEPT ![z] = Append(@, Record(Top(t)))] /\ flushed' = flushed
        /\ Delivers(Top(t), z) /\ z \in Sinks
    BY <1>7 DEF Deliver, Sinks
  <2>2. InDelivery(z, Record(Top(t)))
    <3>1. TopPlace(t) \in Places /\ FrameAt(TopPlace(t)) = Top(t) /\ Top(t) \in FrameType
      BY <1>1, TopFacts
    <3>2. Top(t).records # {}
      BY <2>1, <3>1 DEF FrameType, Delivers
    <3>3. Record(Top(t)) \in Top(t).records
      BY <3>2 DEF Record
    <3>4. QED
      BY <2>1, <3>1, <3>3 DEF InDelivery
  <2>3. Unflushed(s, r)' => Unflushed(s, r) \/ Waits(s, r)
    <3>1. Unflushed(s, r)' => Unflushed(s, r) \/ (s = z /\ r = Record(Top(t)))
      BY <2>1, WriteUnflushed
    <3>2. QED
      BY <1>7, <2>2, <3>1 DEF Waits
  <2>4. QED
    BY <1>4, <2>3 DEF Waits
<1>8. ASSUME NEW z \in Sinks, FlushSink(t, z)
      PROVE  Waits(s, r) \/ Logs(s, r)
  <2>1. /\ flushed' = [flushed EXCEPT ![z] = Len(written[z])] /\ written' = written
    BY <1>8 DEF FlushSink
  <2>2. Unflushed(s, r)' => Unflushed(s, r)
    BY <2>1, FlushUnflushed
  <2>3. QED
    BY <1>4, <2>2 DEF Waits
<1>9. QED
  BY <1>5, <1>6, <1>7, <1>8

LEMMA QueueGrows ==
    ASSUME TypeOK, NEW s \in AsyncSinks, NEW r, NEW z \in AsyncSinks, NEW x,
           queue' = [queue EXCEPT ![z] = Append(@, x)], InQueue(s, r)'
    PROVE  InQueue(s, r) \/ (s = z /\ r = x)
<1>1. queue[s] \in Seq(1 .. MaxRecords)
  BY DEF TypeOK
<1>2. CASE s # z
  BY <1>2 DEF InQueue, TypeOK
<1>3. CASE s = z
  <2>1. queue'[s] = Append(queue[s], x)
    BY <1>3 DEF TypeOK
  <2>2. PICK i \in DOMAIN queue'[s] : queue'[s][i] = r
    BY DEF InQueue
  <2>3. i \in 1 .. Len(queue[s]) + 1 /\ Len(queue[s]) \in Nat
    BY <1>1, <2>1, <2>2
  <2>4. CASE i = Len(queue[s]) + 1
    BY <1>1, <1>3, <2>1, <2>2, <2>4
  <2>5. CASE i # Len(queue[s]) + 1
    BY <1>1, <2>1, <2>2, <2>3, <2>5 DEF InQueue
  <2>6. QED
    BY <2>4, <2>5
<1>4. QED
  BY <1>2, <1>3

LEMMA WriteAsyncWaits ==
    ASSUME TypeOK, StacksOK, NEW t \in Actors, NEW z \in AsyncSinks, WriteAsync(t, z),
           NEW s \in Sinks, NEW r, Waits(s, r)'
    PROVE  Waits(s, r) \/ Logs(s, r)
<1> DEFINE f == Top(t)
<1>1. /\ Logs(z, Record(f)) /\ UNCHANGED <<written, flushed>> /\ Reaches(t, "Log", z)
  <2>1. Reaches(t, "Log", z) /\ z \in Sinks
    BY DEF WriteAsync, Sinks
  <2>2. QED
    BY <2>1, ReachesLogs DEF WriteAsync
<1>2. Unflushed(s, r)' => Unflushed(s, r)
  BY <1>1 DEF Unflushed
<1>3. s \in AsyncSinks /\ InQueue(s, r)' => InQueue(s, r) \/ Logs(s, r)
  <2>1. queue' = queue \/ queue' = [queue EXCEPT ![z] = Append(@, Record(f))]
    BY DEF WriteAsync
  <2>2. CASE queue' = queue
    BY <2>2 DEF InQueue
  <2>3. CASE queue' = [queue EXCEPT ![z] = Append(@, Record(f))]
    <3> HIDE DEF f
    <3>1. QED
      BY <1>1, <2>3, QueueGrows
  <2>4. QED
    BY <2>1, <2>2, <2>3
<1>4. InDelivery(s, r)' => InDelivery(s, r) \/ Logs(s, r)
  <2>1. CASE frames' = Moved(t, Beyond(Top(t)))
    <3>1. frames[t] # <<>> /\ Looping(Top(t)) /\ Advances(t)
      BY <2>1, AdvanceEffect
    <3>2. QED
      BY <3>1, AdvanceDelivery
  <2>2. CASE frames' # Moved(t, Beyond(Top(t)))
    <3>1. PICK p, q : p = TopPlace(t) /\ q = NextPlace(t)
      OBVIOUS
    <3>2. /\ Changes({p}, {p, q}) /\ After(p) = Passed(f) /\ f.op = "Log"
          /\ After(q) = DeliverFrame(z, Record(f)) /\ frames[t] # <<>>
      BY <2>2, <3>1, FallbackEffect
    <3>3. After(p).op = "Log"
      <4>1. f \in FrameType
        BY <3>2, TopFacts
      <4>2. QED
        BY <3>2, <4>1 DEF Passed, FrameType
    <3>4. After(q).sinks = <<z>> /\ After(q).records = {Record(f)}
      BY <3>2 DEF DeliverFrame
    <3> HIDE DEF f
    <3>5. ASSUME ~Logs(s, r)
          PROVE  InDelivery(s, r)' => InDelivery(s, r)
      <4>1. ~Delivers(After(p), s)
        BY <3>3 DEF Delivers
      <4>2. ~(Delivers(After(q), s) /\ r \in After(q).records)
        BY <1>1, <3>4, <3>5 DEF Delivers
      <4>3. \A x \in {p, q} : Delivers(After(x), s) /\ r \in After(x).records => InDelivery(s, r)
        BY <4>1, <4>2
      <4>4. Changes({p}, {p, q})
        BY <3>2
      <4>5. QED
        BY <4>3, <4>4, DeliveryKept
    <3>6. QED
      BY <3>5
  <2>3. QED
    BY <2>1, <2>2
<1>5. QED
  BY <1>2, <1>3, <1>4 DEF Waits

\* The worker takes a record from its queue in its hand.
LEMMA DequeueWaits ==
    ASSUME TypeOK, NEW z \in AsyncSinks, Dequeue(z), NEW s \in Sinks, NEW r, Waits(s, r)'
    PROVE  Waits(s, r)
<1>1. PICK p : p = NextPlace(z)
  OBVIOUS
<1>2. /\ Changes({}, {p}) /\ After(p) = DeliverFrame(z, Head(queue[z]))
      /\ queue[z] # <<>> /\ Head(queue[z]) = queue[z][1]
      /\ queue' = [queue EXCEPT ![z] = Tail(@)]
  BY <1>1, DequeueEffect
<1>3. After(p).sinks = <<z>> /\ After(p).records = {Head(queue[z])}
  BY <1>2 DEF DeliverFrame
<1>4. queue[z] \in Seq(1 .. MaxRecords) /\ 1 \in DOMAIN queue[z]
  BY <1>2 DEF TypeOK
<1>5. Unflushed(s, r)' => Unflushed(s, r)
  BY DEF Dequeue, Unflushed
<1>6. s \in AsyncSinks /\ InQueue(s, r)' => InQueue(s, r)
  <2>1. CASE s # z
    BY <1>2, <2>1 DEF InQueue, TypeOK
  <2>2. CASE s = z
    <3>1. queue'[s] = Tail(queue[s])
      BY <1>2, <2>2 DEF TypeOK
    <3>2. \A i \in DOMAIN Tail(queue[s]) :
              i + 1 \in DOMAIN queue[s] /\ Tail(queue[s])[i] = queue[s][i + 1]
      BY <1>2, <1>4, <2>2
    <3>3. QED
      BY <3>1, <3>2 DEF InQueue
  <2>3. QED
    BY <2>1, <2>2
<1>7. InDelivery(s, r)' => InDelivery(s, r) \/ InQueue(s, r)
  <2>1. ASSUME ~InQueue(s, r)
        PROVE  InDelivery(s, r)' => InDelivery(s, r)
    <3>1. ~(Delivers(After(p), s) /\ r \in After(p).records)
      BY <1>2, <1>3, <1>4, <2>1 DEF Delivers, InQueue
    <3>2. \A x \in {p} : Delivers(After(x), s) /\ r \in After(x).records => InDelivery(s, r)
      BY <3>1
    <3>3. QED
      BY <1>2, <3>2, DeliveryKept
  <2>2. QED
    BY <2>1
<1>8. QED
  BY <1>5, <1>6, <1>7 DEF Waits

\* Steps that leave the sinks alone, and whose new frame, if any, delivers nothing.
LEMMA OthersWait ==
    ASSUME NEW old, NEW new, Changes(old, new), \A q \in new : After(q).op # "Deliver",
           UNCHANGED <<queue, written, flushed>>, NEW s, NEW r, Waits(s, r)'
    PROVE  Waits(s, r)
<1>1. \A q \in new : Delivers(After(q), s) /\ r \in After(q).records => InDelivery(s, r)
  BY DEF Delivers
<1>2. InDelivery(s, r)' => InDelivery(s, r)
  BY <1>1, DeliveryKept
<1>3. QED
  BY <1>2 DEF Waits, InQueue, Unflushed

LEMMA DestroyDelivery ==
    ASSUME TypeOK, StacksOK, NEW t \in Actors, NEW z \in Sinks, DestroySink(t, z),
           NEW s \in Sinks, NEW r, InDelivery(s, r)'
    PROVE  InDelivery(s, r)
<1> DEFINE f == Top(t)
<1>1. PICK p : p = TopPlace(t)
  OBVIOUS
<1>2. /\ frames[t] # <<>> /\ f.at = "destroy"
      /\ \/ Changes({p}, {})
         \/ Changes({p}, {p}) /\ After(p) = [f EXCEPT !.next = f.next + 1]
  BY <1>1, DestroyEffect
<1>3. f \in FrameType /\ Shape(f)
  BY <1>2, TopFacts
<1>4. f.op # "Deliver"
  BY <1>2, <1>3 DEF Shape
<1>5. PICK new : Changes({p}, new) /\ \A q \in new : ~Delivers(After(q), s)
  <2>1. CASE Changes({p}, {})
    BY <2>1
  <2>2. CASE Changes({p}, {p}) /\ After(p) = [f EXCEPT !.next = f.next + 1]
    <3>1. After(p).op = f.op
      BY <1>3, <2>2 DEF FrameType
    <3> HIDE DEF f
    <3>2. \A q \in {p} : ~Delivers(After(q), s)
      BY <1>4, <3>1 DEF Delivers
    <3>3. QED
      BY <2>2, <3>2
  <2>3. QED
    BY <1>2, <2>1, <2>2
<1>6. QED
  BY <1>5, DeliveryKept

LEMMA DestroyWaits ==
    ASSUME TypeOK, StacksOK, NEW t \in Actors, NEW z \in Sinks, DestroySink(t, z),
           NEW s \in Sinks, NEW r, Waits(s, r)'
    PROVE  Waits(s, r)
<1>1. UNCHANGED <<queue, written>> /\ flushed' = [flushed EXCEPT ![z] = Len(written[z])]
  BY DestroyEffect
<1>2. InDelivery(s, r)' => InDelivery(s, r)
  BY DestroyDelivery
<1>3. Unflushed(s, r)' => Unflushed(s, r)
  BY <1>1, FlushUnflushed
<1>4. QED
  BY <1>1, <1>2, <1>3 DEF Waits, InQueue

LEMMA ReleaseWaits ==
    ASSUME TypeOK, StacksOK, NEW t \in Actors, Release(t), NEW s \in Sinks, NEW r, Waits(s, r)'
    PROVE  Waits(s, r)
<1> DEFINE f == Top(t)
<1>1. PICK p : p = TopPlace(t)
  OBVIOUS
<1>2. /\ frames[t] # <<>> /\ f.op \in {"Log", "Flush", "SetSinks"}
      /\ \/ Changes({p}, {})
         \/ /\ Changes({p}, {p})
            /\ \E order \in SinkSet : After(p) = [f EXCEPT !.at = "destroy", !.sinks = order, !.next = 1]
  BY <1>1, ReleaseEffect
<1>3. f \in FrameType
  BY <1>2, TopFacts
<1>4. UNCHANGED <<queue, written, flushed>>
  BY DEF Release, channels
<1>5. CASE Changes({p}, {})
  BY <1>4, <1>5, OthersWait
<1>6. ASSUME Changes({p}, {p}), NEW order \in SinkSet,
             After(p) = [f EXCEPT !.at = "destroy", !.sinks = order, !.next = 1]
      PROVE  Waits(s, r)
  <2>1. After(p).op = f.op
    BY <1>3, <1>6 DEF FrameType
  <2> HIDE DEF f
  <2>2. \A q \in {p} : After(q).op # "Deliver"
    BY <1>2, <2>1
  <2>3. QED
    BY <1>4, <1>6, <2>2, OthersWait
<1>7. QED
  BY <1>2, <1>5, <1>6

LEMMA DispatchWaits ==
    ASSUME TypeOK, StacksOK, NEW t \in Actors, NEW throws \in BOOLEAN, Dispatch(t, throws),
           NEW s \in Sinks, NEW r, Waits(s, r)'
    PROVE  Waits(s, r)
<1> DEFINE f == Top(t)
<1>1. PICK p : p = TopPlace(t)
  OBVIOUS
<1>2. /\ frames[t] # <<>> /\ f.op = "Log" /\ Changes({p}, {p})
      /\ After(p) = [f EXCEPT !.at = IF Outcome(t) = "open" THEN "fan" ELSE "release",
                              !.sinks = active[f.logger]]
  BY <1>1, DispatchEffect
<1>3. f \in FrameType
  BY <1>2, TopFacts
<1>4. UNCHANGED <<queue, written, flushed>>
  BY DEF Dispatch, channels
<1>5. After(p).op = "Log"
  BY <1>2, <1>3 DEF FrameType
<1> HIDE DEF f
<1>6. \A q \in {p} : After(q).op # "Deliver"
  BY <1>5
<1>7. QED
  BY <1>2, <1>4, <1>6, OthersWait, ZenonT(60)

LEMMA BeginWaits ==
    ASSUME TypeOK, NEW t \in Actors, NEW l \in Loggers,
           Log(t, l) \/ Flush(t, l) \/ \E fails \in BOOLEAN : SetSinks(t, l, fails),
           NEW s \in Sinks, NEW r, Waits(s, r)'
    PROVE  Waits(s, r)
<1>1. PICK p : p = NextPlace(t)
  OBVIOUS
<1>2. UNCHANGED <<queue, written, flushed>>
  BY DEF Log, Flush, SetSinks, channels
<1>3. Changes({}, {p}) /\ After(p).op # "Deliver"
  <2>1. CASE Log(t, l)
    <3>1. /\ Changes({}, {p})
          /\ After(p) = [op |-> "Log", logger |-> l, at |-> "build", sinks |-> <<>>,
                         next |-> 1, records |-> {Len(log) + 1}]
      BY <1>1, <2>1, LogEffect
    <3>2. QED
      BY ONLY <3>1
  <2>2. CASE Flush(t, l)
    <3>1. /\ Changes({}, {p})
          /\ After(p) = [op |-> "Flush", logger |-> l, at |-> "fan", sinks |-> active[l],
                         next |-> 1, records |-> Finished(l)]
      BY <1>1, <2>2, FlushEffect
    <3>2. QED
      BY ONLY <3>1
  <2>3. ASSUME NEW fails \in BOOLEAN, SetSinks(t, l, fails)
        PROVE  Changes({}, {p}) /\ After(p).op # "Deliver"
    <3>1. PICK set \in SinkSet : Changes({}, {p}) /\ After(p) = ReleaseFrame(l, set)
      BY <1>1, <2>3, SetSinksEffect
    <3>2. QED
      BY <3>1 DEF ReleaseFrame
  <2>4. QED
    BY <2>1, <2>2, <2>3
<1>4. \A q \in {p} : After(q).op # "Deliver"
  BY <1>3
<1>5. QED
  BY <1>2, <1>3, <1>4, OthersWait

LEMMA WaitsStep ==
    ASSUME TypeOK, StacksOK, [Next]_vars, NEW s \in Sinks, NEW r, Waits(s, r)'
    PROVE  Waits(s, r) \/ Logs(s, r)
<1>1. ASSUME NEW t \in Actors, Continue(t)
      PROVE  Waits(s, r) \/ Logs(s, r)
  BY <1>1, DispatchWaits, SinkCallsWait, WriteAsyncWaits, ReleaseWaits, DestroyWaits DEF Continue
<1>2. ASSUME NEW z \in AsyncSinks, Dequeue(z)
      PROVE  Waits(s, r)
  BY <1>2, DequeueWaits
<1>3. ASSUME NEW t \in Actors, NEW l \in Loggers, Log(t, l)
      PROVE  Waits(s, r)
  BY <1>3, BeginWaits
<1>4. ASSUME NEW t \in Keepers, NEW l \in Loggers,
             Flush(t, l) \/ \E fails \in BOOLEAN : SetSinks(t, l, fails)
      PROVE  Waits(s, r)
  BY <1>4, BeginWaits, LoggerAssumption DEF Actors
<1>5. CASE UNCHANGED vars
  <2>1. UNCHANGED <<frames, queue, written, flushed>>
    BY <1>5 DEF vars, channels
  <2>2. Places' = Places /\ \A x : FrameAt(x)' = FrameAt(x)
    BY <2>1 DEF Places, FrameAt
  <2>3. QED
    BY <2>1, <2>2 DEF Waits, InQueue, InDelivery, Unflushed
<1>6. QED
  BY <1>1, <1>2, <1>3, <1>4, <1>5 DEF Next

\* A sink that is flushed, or destroyed, has nothing left to write.
LEMMA NothingWaits ==
    ASSUME TypeOK, StacksOK, NEW t \in Actors, NEW s \in Sinks,
           FlushSink(t, s) \/ DestroySink(t, s)
    PROVE  \A r : ~Waits(s, r)'
<1>1. /\ flushed' = [flushed EXCEPT ![s] = Len(written[s])] /\ UNCHANGED <<queue, written>>
      /\ s \in AsyncSinks => Quiescent(s)
  BY DEF FlushSink, DestroySink
<1>2. \A r : ~Unflushed(s, r)'
  BY <1>1, FlushUnflushed
<1>3. ASSUME s \in AsyncSinks, NEW r
      PROVE  ~InQueue(s, r)' /\ ~InDelivery(s, r)
  <2>1. queue'[s] = <<>>
    BY <1>1, <1>3 DEF Quiescent
  <2>2. \A p \in Places : ~Delivers(FrameAt(p), s)
    BY <1>1, <1>3, PlaceFacts DEF Quiescent, FrameAt
  <2>3. QED
    BY <2>1, <2>2 DEF InQueue, InDelivery
<1>4. ASSUME NEW r, Waits(s, r)'
      PROVE  FALSE
  <2>1. s \in AsyncSinks /\ InDelivery(s, r)'
    BY <1>2, <1>3, <1>4 DEF Waits
  <2>2. InDelivery(s, r)' => InDelivery(s, r)
    <3>1. CASE FlushSink(t, s)
      <4>1. frames[t] # <<>> /\ Looping(Top(t)) /\ Advances(t)
        BY <3>1, AdvanceEffect
      <4>2. QED
        BY <4>1, AdvanceDelivery
    <3>2. CASE DestroySink(t, s)
      BY <3>2, <1>4, DestroyDelivery
    <3>3. QED
      BY <3>1, <3>2
  <2>3. QED
    BY <1>3, <2>1, <2>2
<1>5. QED
  BY <1>4

-----------------------------------------------------------------------------
(* A sink that is gone has nothing to write, and never will.               *)

GoneOK == \A s \in gone : \A r : ~Waits(s, r)

LEMMA WhoDestroys ==
    ASSUME [Next]_vars, NEW s \in gone', s \notin gone
    PROVE  \E t \in Actors : DestroySink(t, s) /\ s \in Sinks
<1>1. PICK t \in Actors : \E z \in Sinks : DestroySink(t, z)
  <2>1. CASE \E t \in Actors : Continue(t)
    BY <2>1, ZenonT(60) DEF Continue, Dispatch, Skip, WriteReturns, Release, WritePlain, WriteAsync, Deliver,
                FlushSink, channels
  <2>2. CASE \/ \E z \in AsyncSinks : Dequeue(z)
             \/ \E t \in Actors, l \in Loggers : Log(t, l)
             \/ \E t \in Keepers, l \in Loggers :
                    Flush(t, l) \/ \E fails \in BOOLEAN : SetSinks(t, l, fails)
             \/ UNCHANGED vars
    BY <2>2 DEF Dequeue, Log, Flush, SetSinks, vars, channels
  <2>3. QED
    BY <2>1, <2>2 DEF Next
<1>2. QED
  BY <1>1 DEF DestroySink

LEMMA GoneStep ==
    ASSUME TypeOK, StacksOK, UseOK, GoneOK, [Next]_vars
    PROVE  GoneOK'
<1>1. ASSUME NEW s \in gone, NEW r, Waits(s, r)'
      PROVE  FALSE
  <2>1. s \in Sinks
    BY DEF TypeOK
  <2>2. ~Waits(s, r)
    BY DEF GoneOK
  <2>3. PICK p \in Places : /\ Open(FrameAt(p)) /\ s \in ToSet(FrameAt(p).sinks)
                            /\ FrameAt(p).at = "fan"
    BY <1>1, <2>1, <2>2, WaitsStep DEF Logs
  <2>4. s \in Uses(FrameAt(p))
    BY <2>3 DEF Uses, Open
  <2>5. QED
    BY <2>4 DEF UseOK
<1>2. ASSUME NEW s \in gone', s \notin gone
      PROVE  \A r : ~Waits(s, r)'
  BY <1>2, WhoDestroys, NothingWaits
<1>3. QED
  BY <1>1, <1>2 DEF GoneOK

-----------------------------------------------------------------------------
(* What a flush has passed is through.                                     *)

Covered(f) ==
    f.op = "Flush" /\ f.at = "fan" =>
        \A i \in 1 .. f.next - 1, r \in f.records, s \in Sinks : f.sinks[i] = s => ~Waits(s, r)
FlushOK == \A p \in Places : Covered(FrameAt(p))

\* What has been dispatched is not dispatched again.
LEMMA CoveredStays ==
    ASSUME TypeOK, StacksOK, [Next]_vars, NEW f, CallOK(log, f), Covered(f)
    PROVE  Covered(f)'
<1> SUFFICES ASSUME f.op = "Flush", f.at = "fan",
                    NEW i \in 1 .. f.next - 1, NEW r \in f.records, NEW s \in Sinks,
                    f.sinks[i] = s, Waits(s, r)'
             PROVE  FALSE
  BY DEF Covered
<1>1. ~Waits(s, r)
  BY DEF Covered
<1>2. log[r].outcome = "dispatched"
  BY DEF CallOK
<1>3. PICK p \in Places : Open(FrameAt(p)) /\ FrameAt(p).records = {r}
  BY <1>1, WaitsStep DEF Logs
<1>4. log[r].outcome = "open"
  BY <1>3 DEF StacksOK, CallOK
<1>5. QED
  BY <1>2, <1>4

LEMMA FlushKept ==
    ASSUME TypeOK, StacksOK, FlushOK, [Next]_vars, NEW old, NEW new, Changes(old, new),
           \A q \in new : \A g : After(q) = g => Covered(g)'
    PROVE  FlushOK'
<1>1. ASSUME NEW p \in Places', NEW g, FrameAt(p)' = g
      PROVE  Covered(g)'
  <2>1. CASE p \in Places \ old
    <3>1. FrameAt(p) = g
      BY <1>1, <2>1 DEF Changes
    <3>2. CallOK(log, g) /\ Covered(g)
      BY <2>1, <3>1 DEF StacksOK, FlushOK
    <3>3. QED
      BY <3>2, CoveredStays
  <2>2. CASE p \in new
    <3>1. After(p) = g
      BY <1>1 DEF FrameAt, After
    <3>2. QED
      BY <2>2, <3>1
  <2>3. QED
    BY <2>1, <2>2 DEF Changes
<1>2. QED
  BY <1>1 DEF FlushOK, Covered

LEMMA OthersFlush ==
    ASSUME TypeOK, StacksOK, FlushOK, [Next]_vars, NEW old, NEW new, Changes(old, new),
           \A q \in new : After(q).op # "Flush" \/ After(q).at # "fan"
    PROVE  FlushOK'
<1>1. ASSUME NEW q \in new, NEW g, After(q) = g
      PROVE  Covered(g)'
  BY <1>1 DEF Covered
<1>2. QED
  BY <1>1, FlushKept

LEMMA SinkCallsFlush ==
    ASSUME TypeOK, StacksOK, FlushOK, [Next]_vars, NEW t \in Actors,
           \/ Skip(t) \/ WriteReturns(t)
           \/ \E z \in PlainSinks : WritePlain(t, z)
           \/ \E z \in AsyncSinks : Deliver(t, z)
           \/ \E z \in Sinks : FlushSink(t, z)
           \/ \E z \in AsyncSinks : WriteAsync(t, z) /\ frames' = Moved(t, Beyond(Top(t)))
    PROVE  FlushOK'
<1>1. PICK p, f : p = TopPlace(t) /\ f = Top(t)
  OBVIOUS
<1>2. frames[t] # <<>> /\ Looping(f) /\ Advances(t)
  BY <1>1, AdvanceEffect
<1>3. p \in Places /\ FrameAt(p) = f /\ f \in FrameType /\ Shape(f) /\ CallOK(log, f)
  BY <1>1, <1>2, TopFacts
<1>4. CASE Changes({p}, {})
  BY <1>4, OthersFlush
<1>5. ASSUME f.op # "Flush", Changes({p}, {p}), After(p).op = f.op
      PROVE  FlushOK'
  BY <1>5, OthersFlush
<1>6. ASSUME f.op = "Flush", Changes({p}, {p}), After(p) = Passed(f)
      PROVE  FlushOK'
  <2>1. f.at = "fan" /\ f.next \in Nat \ {0}
    BY <1>2, <1>3, <1>6 DEF Shape, Looping, FrameType
  <2>2. \A s \in Sinks : f.sinks[f.next] = s => \A r : ~Waits(s, r)'
    <3>1. CASE Skip(t)
      BY <1>1, <3>1, LoggerAssumption DEF Skip, Reaches, Current, Sinks
    <3>2. ASSUME NEW z \in Sinks, FlushSink(t, z)
          PROVE  \A s \in Sinks : f.sinks[f.next] = s => \A r : ~Waits(s, r)'
      <4>1. f.sinks[f.next] = z
        BY <1>1, <3>2 DEF FlushSink, Reaches, Current
      <4>2. QED
        BY <3>2, <4>1, NothingWaits
    <3>3. QED
      BY <1>1, <1>6, <2>1, <3>1, <3>2
          DEF WriteReturns, WritePlain, Deliver, Delivers, WriteAsync, Reaches, TopAt
  <2>3. Covered(f)'
    BY <1>3, CoveredStays DEF FlushOK
  <2>4. ASSUME NEW g, g = Passed(f)
        PROVE  Covered(g)'
    <3>1. g.sinks = f.sinks /\ g.records = f.records /\ g.next = f.next + 1
      BY <1>3, <2>4 DEF Passed, FrameType
    <3>2. ASSUME NEW i \in 1 .. g.next - 1  PROVE i \in 1 .. f.next - 1 \/ i = f.next
      BY <2>1, <3>1
    <3>3. QED
      BY <1>6, <2>1, <2>2, <2>3, <3>1, <3>2 DEF Covered
  <2>5. \A q \in {p} : \A g : After(q) = g => Covered(g)'
    BY <1>6, <2>4
  <2>6. QED
    BY <1>6, <2>5, FlushKept
<1>7. QED
  BY <1>1, <1>2, <1>3, <1>4, <1>5, <1>6, LoopFrame DEF Advances

LEMMA FlushStep ==
    ASSUME TypeOK, StacksOK, FlushOK, [Next]_vars
    PROVE  FlushOK'
<1>1. ASSUME NEW t \in Actors, Continue(t)
      PROVE  FlushOK'
  <2>p. PICK p, q, f : p = TopPlace(t) /\ q = NextPlace(t) /\ f = Top(t)
    OBVIOUS
  <2>f. frames[t] # <<>> => f \in FrameType
    BY <2>p, TopFacts
  <2>1. ASSUME NEW throws \in BOOLEAN, Dispatch(t, throws)
        PROVE  FlushOK'
    <3>1. /\ frames[t] # <<>> /\ f.op = "Log" /\ Changes({p}, {p})
          /\ After(p) = [f EXCEPT !.at = IF Outcome(t) = "open" THEN "fan" ELSE "release",
                                  !.sinks = active[f.logger]]
      BY <2>p, <2>1, DispatchEffect, ZenonT(60)
    <3>2. After(p).op = "Log"
      BY <2>f, <3>1 DEF FrameType
    <3>3. Changes({p}, {p}) /\ \A x \in {p} : After(x).op # "Flush" \/ After(x).at # "fan"
      BY <3>1, <3>2
    <3>4. QED
      BY ONLY TypeOK, StacksOK, FlushOK, [Next]_vars, <3>3, OthersFlush
  <2>2. CASE \/ Skip(t) \/ WriteReturns(t)
             \/ \E z \in PlainSinks : WritePlain(t, z)
             \/ \E z \in AsyncSinks : Deliver(t, z)
             \/ \E z \in Sinks : FlushSink(t, z)
    BY <2>2, SinkCallsFlush
  <2>3. ASSUME NEW z \in AsyncSinks, WriteAsync(t, z)
        PROVE  FlushOK'
    <3>1. CASE frames' = Moved(t, Beyond(Top(t)))
      BY <2>3, <3>1, SinkCallsFlush
    <3>2. CASE frames' # Moved(t, Beyond(Top(t)))
      <4>1. /\ Changes({p}, {p, q}) /\ After(p) = Passed(f) /\ f.op = "Log"
            /\ After(q) = DeliverFrame(z, Record(f)) /\ frames[t] # <<>>
        BY <2>p, <2>3, <3>2, FallbackEffect
      <4>2. After(p).op = "Log"
        BY <2>f, <4>1 DEF Passed, FrameType
      <4>3. After(q).op = "Deliver"
        BY <4>1 DEF DeliverFrame
      <4>4. \A x \in {p, q} : After(x).op # "Flush"
        BY <4>2, <4>3
      <4>5. QED
        BY <4>1, <4>4, OthersFlush
    <3>3. QED
      BY <3>1, <3>2
  <2>4. CASE Release(t)
    <3>1. /\ frames[t] # <<>>
          /\ \/ Changes({p}, {})
             \/ /\ Changes({p}, {p})
                /\ \E order \in SinkSet :
                       After(p) = [f EXCEPT !.at = "destroy", !.sinks = order, !.next = 1]
      BY <2>p, <2>4, ReleaseEffect
    <3>2. CASE Changes({p}, {})
      BY <3>2, OthersFlush
    <3>3. ASSUME Changes({p}, {p}), NEW order \in SinkSet,
                 After(p) = [f EXCEPT !.at = "destroy", !.sinks = order, !.next = 1]
          PROVE  FlushOK'
      <4>1. After(p).at = "destroy"
        BY <2>f, <3>1, <3>3 DEF FrameType
      <4>2. QED
        BY <3>3, <4>1, OthersFlush, ZenonT(60)
    <3>4. QED
      BY <3>1, <3>2, <3>3
  <2>5. ASSUME NEW z \in Sinks, DestroySink(t, z)
        PROVE  FlushOK'
    <3>1. /\ frames[t] # <<>> /\ f.at = "destroy"
          /\ \/ Changes({p}, {})
             \/ Changes({p}, {p}) /\ After(p) = [f EXCEPT !.next = f.next + 1]
      BY <2>p, <2>5, DestroyEffect
    <3>2. CASE Changes({p}, {})
      BY <3>2, OthersFlush
    <3>3. CASE Changes({p}, {p}) /\ After(p) = [f EXCEPT !.next = f.next + 1]
      <4>1. After(p).at = "destroy"
        BY <2>f, <3>1, <3>3 DEF FrameType
      <4>2. QED
        BY <3>3, <4>1, OthersFlush
    <3>4. QED
      BY <3>1, <3>2, <3>3
  <2>6. QED
    BY <1>1, <2>1, <2>2, <2>3, <2>4, <2>5 DEF Continue
<1>2. ASSUME NEW z \in AsyncSinks, Dequeue(z)
      PROVE  FlushOK'
  <2>1. PICK p : p = NextPlace(z)
    OBVIOUS
  <2>2. Changes({}, {p}) /\ After(p) = DeliverFrame(z, Head(queue[z]))
    BY <1>2, <2>1, DequeueEffect
  <2>3. After(p).op = "Deliver"
    BY <2>2 DEF DeliverFrame
  <2>4. QED
    BY <2>2, <2>3, OthersFlush
<1>3. ASSUME NEW t \in Actors, NEW l \in Loggers,
             Log(t, l) \/ Flush(t, l) \/ \E fails \in BOOLEAN : SetSinks(t, l, fails)
      PROVE  FlushOK'
  <2>p. PICK p : p = NextPlace(t)
    OBVIOUS
  <2>1. CASE Log(t, l)
    <3>1. /\ Changes({}, {p})
          /\ After(p) = [op |-> "Log", logger |-> l, at |-> "build", sinks |-> <<>>,
                         next |-> 1, records |-> {Len(log) + 1}]
      BY <2>p, <2>1, LogEffect
    <3>2. After(p).op = "Log"
      BY ONLY <3>1
    <3>3. QED
      BY <3>1, <3>2, OthersFlush
  <2>2. CASE Flush(t, l)
    <3>1. /\ Changes({}, {p})
          /\ After(p) = [op |-> "Flush", logger |-> l, at |-> "fan", sinks |-> active[l],
                         next |-> 1, records |-> Finished(l)]
      BY <2>p, <2>2, FlushEffect
    <3>2. After(p).next = 1
      BY ONLY <3>1
    <3>3. \A x \in {p} : \A g : After(x) = g => Covered(g)'
      BY <3>2 DEF Covered
    <3>4. QED
      BY <3>1, <3>3, FlushKept
  <2>3. ASSUME NEW fails \in BOOLEAN, SetSinks(t, l, fails)
        PROVE  FlushOK'
    <3>1. PICK set \in SinkSet : Changes({}, {p}) /\ After(p) = ReleaseFrame(l, set)
      BY <2>p, <2>3, SetSinksEffect
    <3>2. After(p).op = "SetSinks"
      BY <3>1 DEF ReleaseFrame
    <3>3. QED
      BY <3>1, <3>2, OthersFlush
  <2>4. QED
    BY <1>3, <2>1, <2>2, <2>3
<1>4. CASE UNCHANGED vars
  <2>1. Changes({}, {})
    BY <1>4 DEF vars, Changes, Places, FrameAt
  <2>2. QED
    BY <2>1, OthersFlush
<1>5. QED
  BY <1>1, <1>2, <1>3, <1>4, LoggerAssumption DEF Next, Actors

-----------------------------------------------------------------------------
\* For every set of threads, sinks and loggers and every wiring: a flush that has come to
\* its end has put through, to every sink of its snapshot, all that the logger had
\* dispatched before it; and a sink is destroyed by the last one who can reach it, when
\* all that it accepted has been written and flushed.
THEOREM NothingIsLeftBehind == Spec => []NothingLeftBehind
<1> DEFINE Inv == TypeOK /\ StacksOK /\ UseOK /\ GoneOK /\ FlushOK
<1>1. Init => UseOK /\ GoneOK /\ FlushOK
  <2> SUFFICES ASSUME Init  PROVE UseOK /\ GoneOK /\ FlushOK
    OBVIOUS
  <2>1. Places = {} /\ gone = {}
    BY DEF Init, Places
  <2>2. QED
    BY <2>1 DEF UseOK, GoneOK, FlushOK
<1>2. TypeOK /\ StacksOK /\ UseOK /\ GoneOK /\ FlushOK /\ [Next]_vars
          => UseOK' /\ GoneOK' /\ FlushOK'
  BY UseStep, GoneStep, FlushStep
<1>3. ASSUME TypeOK, NEW s \in Sinks, NEW r, Behind(s, r)
      PROVE  Waits(s, r)
  <2>1. CASE Unflushed(s, r)
    BY <2>1 DEF Waits
  <2>2. CASE s \in AsyncSinks /\ Count(r, queue[s]) + InHand(r, s) > 0 /\ ~InQueue(s, r)
    <3> DEFINE hands == {t \in Actors : frames[t] # <<>> /\ \E i \in DOMAIN frames[t] :
                            Delivers(frames[t][i], s) /\ frames[t][i].at = "lock"
                            /\ frames[t][i].records = {r}}
    <3>1. {i \in DOMAIN queue[s] : queue[s][i] = r} = {}
      BY <2>2 DEF InQueue
    <3>2. Count(r, queue[s]) = 0
      BY <3>1, FS_EmptySet DEF Count
    <3>3. InHand(r, s) = Cardinality(hands)
      BY DEF InHand
    <3> HIDE DEF hands
    <3>4. hands # {}
      BY <2>2, <3>2, <3>3, FS_EmptySet
    <3>5. PICK t \in Actors : \E i \in DOMAIN frames[t] :
              Delivers(frames[t][i], s) /\ frames[t][i].records = {r}
      BY <3>4 DEF hands
    <3>6. InDelivery(s, r)
      BY <1>3, <3>5, PlaceFacts DEF InDelivery
    <3>7. QED
      BY <2>2, <3>6 DEF Waits
  <2>3. QED
    BY <1>3, <2>1, <2>2 DEF Behind, Unflushed, Waits
<1>4. ASSUME Inv, NEW t \in Threads, frames[t] # <<>>, Top(t).op = "Flush", AtEnd(t),
             NEW s \in ToSet(Top(t).sinks) \ {Null}, NEW r \in Top(t).records
      PROVE  ~Behind(s, r)
  <2>p. PICK p, f : p = TopPlace(t) /\ f = Top(t)
    OBVIOUS
  <2>1. p \in Places /\ FrameAt(p) = f /\ f \in FrameType /\ Shape(f)
    BY <1>4, <2>p, TopFacts DEF Actors
  <2>2. f.at = "fan" /\ f.next > Len(f.sinks)
    BY <1>4, <2>p, <2>1 DEF AtEnd, TopAt, Shape
  <2>3. f.sinks \in Seq(Sinks \cup {Null}) /\ f.next \in Nat
    BY <2>1 DEF FrameType, SinkSet
  <2>4. PICK i \in DOMAIN f.sinks : f.sinks[i] = s
    BY <2>p DEF ToSet
  <2>5. i \in 1 .. f.next - 1 /\ s \in Sinks
    BY <2>2, <2>3, <2>4
  <2>6. ~Waits(s, r)
    BY <1>4, <2>p, <2>1, <2>2, <2>4, <2>5 DEF FlushOK, Covered
  <2>7. QED
    BY <1>3, <1>4, <2>5, <2>6
<1>5. ASSUME Inv, NEW s \in gone
      PROVE  /\ \A r \in DOMAIN log : ~Behind(s, r)
             /\ \A t \in Actors : \A i \in DOMAIN frames[t] :
                    frames[t][i].at \in {"fan", "write", "lock", "release"}
                        => s \notin ToSet(frames[t][i].sinks)
  <2>1. s \in Sinks /\ \A r : ~Waits(s, r)
    BY <1>5 DEF TypeOK, GoneOK
  <2>2. \A r \in DOMAIN log : ~Behind(s, r)
    BY <1>3, <1>5, <2>1
  <2>3. ASSUME NEW t \in Actors, NEW i \in DOMAIN frames[t],
               frames[t][i].at \in {"fan", "write", "lock", "release"},
               s \in ToSet(frames[t][i].sinks)
        PROVE  FALSE
    <3>1. PICK p, f : p = <<t, i>> /\ f = frames[t][i]
      OBVIOUS
    <3>2. p \in Places /\ FrameAt(p) = f /\ f \in FrameType /\ Shape(f)
      BY <1>5, <3>1, PlaceFacts DEF StacksOK
    <3>3. CASE f.op # "Deliver"
      <4>1. s \in Uses(f)
        BY <2>3, <3>1, <3>3 DEF Uses
      <4>2. QED
        BY <1>5, <3>2, <4>1 DEF UseOK
    <3>4. CASE f.op = "Deliver"
      <4>1. PICK z \in AsyncSinks : f.sinks = <<z>>
        BY <3>2, <3>4 DEF Shape
      <4>2. s = z
        BY <2>3, <3>1, <4>1 DEF ToSet
      <4>3. PICK r : r \in f.records
        BY <3>2, <3>4 DEF FrameType
      <4>4. InDelivery(s, r)
        BY <3>2, <3>4, <4>1, <4>2, <4>3 DEF InDelivery, Delivers
      <4>5. QED
        BY <2>1, <4>2, <4>4 DEF Waits
    <3>5. QED
      BY <3>3, <3>4
  <2>4. QED
    BY <2>2, <2>3
<1>6. Inv => NothingLeftBehind
  BY <1>4, <1>5 DEF NothingLeftBehind
<1>7. QED
  BY <1>1, <1>2, <1>6, TypeCorrect, StacksInvariant, PTL DEF Spec

-----------------------------------------------------------------------------
(* Counting.                                                               *)

\* How often a sink is among the first n of a set.
Among(s, set, n) == Cardinality({i \in 1 .. n : set[i] = s})

LEMMA AmongNext ==
    ASSUME NEW s, NEW set, NEW n \in Nat
    PROVE  /\ Among(s, set, n) \in Nat /\ Among(s, set, 0) = 0
           /\ Among(s, set, n + 1) = Among(s, set, n) + (IF set[n + 1] = s THEN 1 ELSE 0)
<1> DEFINE A == {i \in 1 .. n : set[i] = s}
           B == {i \in 1 .. n + 1 : set[i] = s}
<1>1. IsFiniteSet(A)
  <2>1. IsFiniteSet(1 .. n) /\ A \in SUBSET (1 .. n)
    BY FS_Interval
  <2>2. QED
    BY <2>1, FS_Subset
<1>2. B = IF set[n + 1] = s THEN A \cup {n + 1} ELSE A
  OBVIOUS
<1>3. n + 1 \notin A
  OBVIOUS
<1>4. Among(s, set, n) = Cardinality(A) /\ Among(s, set, n + 1) = Cardinality(B)
  BY DEF Among
<1>5. Among(s, set, 0) = 0
  <2>1. {i \in 1 .. 0 : set[i] = s} = {}
    OBVIOUS
  <2>2. QED
    BY <2>1, FS_EmptySet DEF Among
<1> HIDE DEF A, B
<1>6. Cardinality(A) \in Nat
  BY <1>1, FS_CardinalityType
<1>7. CASE set[n + 1] = s
  BY <1>1, <1>2, <1>3, <1>4, <1>5, <1>6, <1>7, FS_AddElement
<1>8. CASE set[n + 1] # s
  BY <1>2, <1>4, <1>5, <1>6, <1>8
<1>9. QED
  BY <1>7, <1>8

LEMMA CountAmong ==
    ASSUME NEW S, NEW seq \in Seq(S), NEW r
    PROVE  Count(r, seq) = Among(r, seq, Len(seq))
<1>1. {i \in DOMAIN seq : seq[i] = r} = {i \in 1 .. Len(seq) : seq[i] = r}
  OBVIOUS
<1>2. QED
  BY <1>1 DEF Count, Among

LEMMA CountAppend ==
    ASSUME NEW S, NEW seq \in Seq(S), NEW x, NEW r
    PROVE  /\ Count(r, seq) \in Nat
           /\ Count(r, Append(seq, x)) = Count(r, seq) + (IF x = r THEN 1 ELSE 0)
<1> DEFINE n == Len(seq)
           longer == Append(seq, x)
<1>1. n \in Nat /\ longer \in Seq(S \cup {x}) /\ Len(longer) = n + 1 /\ longer[n + 1] = x
  OBVIOUS
<1>2. \A i \in 1 .. n : longer[i] = seq[i]
  OBVIOUS
<1>3. Count(r, seq) = Among(r, seq, n) /\ Count(r, longer) = Among(r, longer, n + 1)
  BY <1>1, CountAmong
<1>6. Append(seq, x) = longer
  OBVIOUS
<1> HIDE DEF n, longer
<1>4. Among(r, longer, n) = Among(r, seq, n)
  <2>1. {i \in 1 .. n : longer[i] = r} = {i \in 1 .. n : seq[i] = r}
    BY <1>2
  <2>2. QED
    BY <2>1 DEF Among
<1>5. /\ Among(r, seq, n) \in Nat
      /\ Among(r, longer, n + 1) = Among(r, longer, n) + (IF longer[n + 1] = r THEN 1 ELSE 0)
  BY <1>1, AmongNext, ZenonT(60)
<1>7. QED
  BY <1>1, <1>3, <1>4, <1>5, <1>6

LEMMA CountTail ==
    ASSUME NEW S, NEW seq \in Seq(S), seq # <<>>, NEW r
    PROVE  /\ Count(r, Tail(seq)) \in Nat
           /\ Count(r, seq) = Count(r, Tail(seq)) + (IF seq[1] = r THEN 1 ELSE 0)
<1> DEFINE A == {i \in DOMAIN Tail(seq) : Tail(seq)[i] = r}
           B == {i \in DOMAIN seq : seq[i] = r}
           shift == [i \in A |-> i + 1]
<1>1. /\ Len(seq) \in Nat \ {0} /\ DOMAIN seq = 1 .. Len(seq) /\ DOMAIN Tail(seq) = 1 .. Len(seq) - 1
      /\ \A i \in 1 .. Len(seq) - 1 : Tail(seq)[i] = seq[i + 1]
  OBVIOUS
<1>2. IsFiniteSet(A) /\ IsFiniteSet(B)
  <2>1. IsFiniteSet(1 .. Len(seq) - 1) /\ IsFiniteSet(1 .. Len(seq))
    BY <1>1, FS_Interval
  <2>2. QED
    BY <1>1, <2>1, FS_Subset
<1>3. shift \in Bijection(A, B \ {1})
  <2>1. shift \in [A -> B \ {1}]
    BY <1>1
  <2>2. \A i, j \in A : shift[i] = shift[j] => i = j
    BY <1>1
  <2>3. ASSUME NEW j \in B \ {1}  PROVE \E i \in A : shift[i] = j
    <3>1. j - 1 \in A
      BY <1>1
    <3>2. shift[j - 1] = j
      BY <1>1, <3>1
    <3>3. QED
      BY <3>1, <3>2
  <2>4. QED
    BY <2>1, <2>2, <2>3 DEF Bijection, Injection, Surjection, IsInjective
<1>4. Count(r, Tail(seq)) = Cardinality(A) /\ Count(r, seq) = Cardinality(B)
  BY DEF Count
<1>5. 1 \in B <=> seq[1] = r
  BY <1>1
<1> HIDE DEF A, B, shift
<1>6. Cardinality(B \ {1}) = Cardinality(A)
  BY <1>2, <1>3, FS_Bijection DEF ExistsBijection
<1>7. Cardinality(B \ {1}) = IF 1 \in B THEN Cardinality(B) - 1 ELSE Cardinality(B)
  BY <1>2, FS_RemoveElement
<1>8. Cardinality(A) \in Nat /\ Cardinality(B) \in Nat
  BY <1>2, FS_CardinalityType
<1>9. QED
  BY <1>4, <1>5, <1>6, <1>7, <1>8

-----------------------------------------------------------------------------
(* The threads that have a record in their hand, before they get the mutex *)
(* of a delivery.                                                          *)

Locks(f, r, s) == Delivers(f, s) /\ f.at = "lock" /\ f.records = {r}
Hands(r, s) == {t \in Actors : \E p \in Places : p[1] = t /\ Locks(FrameAt(p), r, s)}

\* Who waits for the mutex does nothing else, and delivers one record.
HandsOK ==
    /\ \A p, q \in Places : FrameAt(p).at = "lock" /\ p[1] = q[1] => q[2] <= p[2]
    /\ \A p \in Places : FrameAt(p).op = "Deliver" => FrameAt(p).records = {Record(FrameAt(p))}
    /\ \A r, s : IsFiniteSet(Hands(r, s))

LEMMA HandsAre ==
    ASSUME NEW r, NEW s
    PROVE  InHand(r, s) = Cardinality(Hands(r, s)) /\ InHand(r, s)' = Cardinality(Hands(r, s)')
<1>1. ASSUME NEW t \in Actors
      PROVE  (frames[t] # <<>> /\ \E i \in DOMAIN frames[t] :
                 Delivers(frames[t][i], s) /\ frames[t][i].at = "lock" /\ frames[t][i].records = {r})
             <=> \E p \in Places : p[1] = t /\ Locks(FrameAt(p), r, s)
  <2>1. ASSUME NEW i \in DOMAIN frames[t], Locks(frames[t][i], r, s)
        PROVE  frames[t] # <<>> /\ \E p \in Places : p[1] = t /\ Locks(FrameAt(p), r, s)
    <3>1. <<t, i>> \in {t} \X DOMAIN frames[t] /\ <<t, i>>[1] = t /\ <<t, i>>[2] = i
      OBVIOUS
    <3>2. QED
      BY <2>1, <3>1 DEF Places, FrameAt
  <2>2. ASSUME NEW p \in Places, p[1] = t, Locks(FrameAt(p), r, s)
        PROVE  \E i \in DOMAIN frames[t] : Locks(frames[t][i], r, s)
    <3>1. PICK u \in Actors : p \in {u} \X DOMAIN frames[u]
      BY DEF Places
    <3>2. QED
      BY <2>2, <3>1 DEF FrameAt
  <2>3. QED
    BY <2>1, <2>2 DEF Locks
<1>2. ASSUME NEW t \in Actors
      PROVE  (frames'[t] # <<>> /\ \E i \in DOMAIN frames'[t] :
                 Delivers(frames'[t][i], s) /\ frames'[t][i].at = "lock" /\ frames'[t][i].records = {r})
             <=> \E p \in Places' : p[1] = t /\ Locks(FrameAt(p)', r, s)
  <2>1. ASSUME NEW i \in DOMAIN frames'[t], Locks(frames'[t][i], r, s)
        PROVE  frames'[t] # <<>> /\ \E p \in Places' : p[1] = t /\ Locks(FrameAt(p)', r, s)
    <3>1. <<t, i>> \in {t} \X DOMAIN frames'[t] /\ <<t, i>>[1] = t /\ <<t, i>>[2] = i
      OBVIOUS
    <3>2. QED
      BY <2>1, <3>1 DEF Places, FrameAt
  <2>2. ASSUME NEW p \in Places', p[1] = t, Locks(FrameAt(p)', r, s)
        PROVE  \E i \in DOMAIN frames'[t] : Locks(frames'[t][i], r, s)
    <3>1. PICK u \in Actors : p \in {u} \X DOMAIN frames'[u]
      BY DEF Places
    <3>2. QED
      BY <2>2, <3>1 DEF FrameAt
  <2>3. QED
    BY <2>1, <2>2 DEF Locks
<1>3. InHand(r, s) = Cardinality(Hands(r, s))
  BY <1>1 DEF InHand, Hands
<1>4. InHand(r, s)' = Cardinality(Hands(r, s)')
  <2>1. {t \in Actors : frames'[t] # <<>> /\ \E i \in DOMAIN frames'[t] :
            Delivers(frames'[t][i], s) /\ frames'[t][i].at = "lock" /\ frames'[t][i].records = {r}}
        = {t \in Actors : \E p \in Places' : p[1] = t /\ Locks(FrameAt(p)', r, s)}
    BY <1>2
  <2>2. QED
    BY <2>1 DEF InHand, Hands, Locks, Delivers
<1>5. QED
  BY <1>3, <1>4

\* It is the top frame of a thread that holds a record.
LEMMA HandIsTop ==
    ASSUME TypeOK, HandsOK, NEW t \in Actors, NEW p, p = TopPlace(t)
    PROVE  /\ \A x \in Places : x[1] = t /\ FrameAt(x).at = "lock" => x = p /\ p \in Places
           /\ \A r, s : t \in Hands(r, s) <=> p \in Places /\ Locks(FrameAt(p), r, s)
<1>1. ASSUME NEW x \in Places, x[1] = t, FrameAt(x).at = "lock"
      PROVE  x = p /\ p \in Places
  <2>1. x = <<x[1], x[2]>> /\ x[2] \in DOMAIN frames[t]
    BY <1>1, PlaceFacts
  <2>2. frames[t] # <<>> /\ x[2] \in 1 .. Len(frames[t]) /\ Len(frames[t]) \in Nat
    BY <2>1 DEF TypeOK
  <2>3. p \in Places /\ p[1] = t /\ p[2] = Len(frames[t])
    BY <2>2, PlaceFacts DEF TopPlace
  <2>4. p[2] <= x[2]
    BY <1>1, <2>3 DEF HandsOK
  <2>5. x[2] = Len(frames[t])
    BY <2>2, <2>3, <2>4
  <2>6. QED
    BY <1>1, <2>1, <2>3, <2>5 DEF TopPlace
<1>2. p[1] = t
  BY DEF TopPlace
<1>3. QED
  BY <1>1, <1>2 DEF Hands, Locks

\* What a step of one thread does to the hands: it is its top frame that goes, and a frame
\* above it that may come to hold a record.
LEMMA StepHands ==
    ASSUME TypeOK, HandsOK, NEW t \in Actors, NEW p, p = TopPlace(t), NEW q, q = NextPlace(t),
           NEW old, NEW new, Changes(old, new), old \subseteq {p}, new \subseteq {p, q},
           p \in Places /\ FrameAt(p).at = "lock" => p \in old /\ q \notin new,
           \A x \in new : /\ After(x).at = "lock" => x = q
                          /\ After(x).op = "Deliver" => After(x).records = {Record(After(x))}
    PROVE  /\ HandsOK'
           /\ \A r, s : Hands(r, s)' = (Hands(r, s) \ {t}) \cup
                            (IF q \in new /\ Locks(After(q), r, s) THEN {t} ELSE {})
<1>1. /\ Places' = (Places \ old) \cup new
      /\ \A x \in Places \ old : FrameAt(x)' = FrameAt(x)
      /\ \A x \in new : FrameAt(x)' = After(x)
  BY DEF Changes, FrameAt, After
<1>2. /\ p[1] = t /\ q[1] = t /\ p[2] = Len(frames[t]) /\ q[2] = Len(frames[t]) + 1
      /\ Len(frames[t]) \in Nat /\ p # q
  BY DEF TopPlace, NextPlace, TypeOK
<1>3. \A x \in Places : x[1] = t => x[2] <= p[2] /\ x[2] \in Nat
  <2> TAKE x \in Places
  <2>1. x[1] = t => x[2] \in DOMAIN frames[t]
    BY PlaceFacts
  <2>2. frames[t] \in Seq(FrameType)
    BY DEF TypeOK
  <2>3. QED
    BY <1>2, <2>1, <2>2
<1>4. /\ \A x \in Places : x[1] = t /\ FrameAt(x).at = "lock" => x = p /\ p \in Places
      /\ \A r, s : t \in Hands(r, s) <=> p \in Places /\ Locks(FrameAt(p), r, s)
  BY HandIsTop
<1>5. \A x, y \in Places' : FrameAt(x)'.at = "lock" /\ x[1] = y[1] => y[2] <= x[2]
  <2> SUFFICES ASSUME NEW x \in Places', NEW y \in Places', FrameAt(x)'.at = "lock", x[1] = y[1]
               PROVE  y[2] <= x[2]
    OBVIOUS
  <2>1. CASE x \in new
    <3>1. x = q
      BY <1>1, <2>1
    <3>2. y \in {p, q} \/ (y \in Places /\ y[1] = t)
      BY <1>1, <1>2, <3>1
    <3>3. QED
      BY <1>2, <1>3, <3>1, <3>2
  <2>2. CASE x \in Places \ old
    <3>1. FrameAt(x).at = "lock"
      BY <1>1, <2>2
    <3>2. CASE x[1] = t
      <4>1. x = p /\ p \in old
        BY <1>4, <2>2, <3>1, <3>2
      <4>2. QED
        BY <2>2, <4>1
    <3>3. CASE x[1] # t
      <4>1. y \in Places
        BY <1>1, <1>2, <3>3
      <4>2. QED
        BY <2>2, <3>1, <4>1 DEF HandsOK
    <3>4. QED
      BY <3>2, <3>3
  <2>3. QED
    BY <1>1, <2>1, <2>2
<1>6. \A x \in Places' : FrameAt(x)'.op = "Deliver" => FrameAt(x)'.records = {Record(FrameAt(x)')}
  BY <1>1 DEF HandsOK
<1>7. ASSUME NEW r, NEW s
      PROVE  Hands(r, s)' = (Hands(r, s) \ {t}) \cup
                 (IF q \in new /\ Locks(After(q), r, s) THEN {t} ELSE {})
  <2>1. Hands(r, s)' = {u \in Actors : \E x \in Places' : x[1] = u /\ Locks(FrameAt(x)', r, s)}
    BY DEF Hands, Locks, Delivers
  <2>2. ASSUME NEW u \in Actors, u # t
        PROVE  (\E x \in Places' : x[1] = u /\ Locks(FrameAt(x)', r, s)) <=> u \in Hands(r, s)
    <3>1. \A x : x[1] = u => /\ x \in Places' <=> x \in Places
                             /\ x \in Places => FrameAt(x)' = FrameAt(x)
      BY <1>1, <1>2, <2>2
    <3>2. QED
      BY <3>1 DEF Hands
  <2>3. ASSUME NEW x \in Places', x[1] = t, Locks(FrameAt(x)', r, s)
        PROVE  q \in new /\ Locks(After(q), r, s)
    <3>1. CASE x \in new
      BY <1>1, <2>3, <3>1 DEF Locks
    <3>2. CASE x \in Places \ old
      <4>1. FrameAt(x).at = "lock"
        BY <1>1, <2>3, <3>2 DEF Locks
      <4>2. x = p /\ p \in old
        BY <1>4, <2>3, <3>2, <4>1
      <4>3. QED
        BY <3>2, <4>2
    <3>3. QED
      BY <1>1, <3>1, <3>2
  <2>4. ASSUME q \in new, Locks(After(q), r, s)
        PROVE  \E x \in Places' : x[1] = t /\ Locks(FrameAt(x)', r, s)
    BY <1>1, <1>2, <2>4
  <2>5. Hands(r, s) \subseteq Actors
    BY DEF Hands
  <2>6. QED
    BY <2>1, <2>2, <2>3, <2>4, <2>5
<1>8. \A r, s : IsFiniteSet(Hands(r, s)')
  <2> TAKE r, s
  <2>1. IsFiniteSet(Hands(r, s))
    BY DEF HandsOK
  <2>2. IsFiniteSet(Hands(r, s) \ {t}) /\ IsFiniteSet((Hands(r, s) \ {t}) \cup {t})
    BY <2>1, FS_RemoveElement, FS_AddElement
  <2>3. (Hands(r, s) \ {t}) \cup {} = Hands(r, s) \ {t}
    OBVIOUS
  <2>4. QED
    BY <1>7, <2>2, <2>3
<1>9. HandsOK'
  BY <1>5, <1>6, <1>8 DEF HandsOK, Record
<1>10. QED
  BY <1>7, <1>9

\* One step of a thread, for the frames: its top frame is at p, the next would be at q.
Moves(t, p, q, old, new) ==
    /\ p = TopPlace(t) /\ q = NextPlace(t)
    /\ Changes(old, new) /\ old \subseteq {p} /\ new \subseteq {p, q}
    /\ p \in Places /\ FrameAt(p).at = "lock" => p \in old /\ q \notin new
    /\ \A x \in new : /\ After(x).at = "lock" => x = q
                      /\ After(x).op = "Deliver" => After(x).records = {Record(After(x))}
One(b) == IF b THEN 1 ELSE 0

LEMMA MovesHands ==
    ASSUME TypeOK, HandsOK, NEW t \in Actors, NEW p, NEW q, NEW old, NEW new,
           Moves(t, p, q, old, new), NEW r, NEW s
    PROVE  /\ HandsOK' /\ InHand(r, s) \in Nat
           /\ InHand(r, s)' = InHand(r, s) - One(p \in Places /\ Locks(FrameAt(p), r, s))
                                           + One(q \in new /\ Locks(After(q), r, s))
           /\ p \in Places /\ Locks(FrameAt(p), r, s) => InHand(r, s) > 0
<1> DEFINE H == Hands(r, s)
           after == q \in new /\ Locks(After(q), r, s)
           before == p \in Places /\ Locks(FrameAt(p), r, s)
<1>1. HandsOK' /\ Hands(r, s)' = (H \ {t}) \cup (IF after THEN {t} ELSE {})
  BY StepHands DEF Moves
<1>2. t \in H <=> before
  BY HandIsTop DEF Moves
<1>3. IsFiniteSet(H) /\ IsFiniteSet(H \ {t})
  BY FS_RemoveElement DEF HandsOK
<1>4. InHand(r, s) = Cardinality(H) /\ InHand(r, s)' = Cardinality(Hands(r, s)')
  BY HandsAre
<1> HIDE DEF H, after, before
<1>5. Cardinality(H) \in Nat /\ (before => Cardinality(H) # 0)
  BY <1>2, <1>3, FS_CardinalityType, FS_EmptySet
<1>6. Cardinality(H \ {t}) = Cardinality(H) - One(before)
  BY <1>2, <1>3, <1>5, FS_RemoveElement DEF One
<1>7. Cardinality(Hands(r, s)') = Cardinality(H) - One(before) + One(after)
  <2>1. CASE after
    <3>1. Cardinality((H \ {t}) \cup {t}) = Cardinality(H \ {t}) + 1
      BY <1>3, FS_AddElement
    <3>2. QED
      BY <1>1, <1>6, <2>1, <3>1 DEF One
  <2>2. CASE ~after
    <3>1. (H \ {t}) \cup {} = H \ {t}
      OBVIOUS
    <3>2. One(before) \in Int
      BY DEF One
    <3>3. QED
      BY <1>1, <1>5, <1>6, <2>2, <3>1, <3>2 DEF One
  <2>3. QED
    BY <2>1, <2>2
<1>8. before => Cardinality(H) > 0
  BY <1>5
<1>9. QED
  BY <1>1, <1>4, <1>5, <1>7, <1>8 DEF before, after

LEMMA CopiesTyped ==
    ASSUME TypeOK, HandsOK, NEW s \in Sinks, NEW r
    PROVE  /\ Copies(r, s) \in Nat /\ Count(r, written[s]) \in Nat
           /\ s \in AsyncSinks => Count(r, queue[s]) \in Nat /\ InHand(r, s) \in Nat
<1>1. Count(r, written[s]) \in Nat
  BY CountAppend DEF TypeOK
<1>2. s \in AsyncSinks => Count(r, queue[s]) \in Nat
  BY CountAppend DEF TypeOK
<1>3. InHand(r, s) \in Nat
  BY HandsAre, FS_CardinalityType DEF HandsOK
<1>4. QED
  BY <1>1, <1>2, <1>3 DEF Copies

LEMMA CopiesAfter ==
    ASSUME NEW s, NEW r
    PROVE  Copies(r, s)' = Count(r, written'[s]) +
                           (IF s \in AsyncSinks THEN Count(r, queue'[s]) + InHand(r, s)' ELSE 0)
BY DEF Copies, Count

\* A step that gives no sink a record and takes none out of a hand.
LEMMA SinksStay ==
    ASSUME TypeOK, HandsOK, NEW t \in Actors, NEW p, NEW q, NEW old, NEW new,
           Moves(t, p, q, old, new), p \in Places => FrameAt(p).at # "lock",
           q \in new => After(q).at # "lock", UNCHANGED <<queue, written>>
    PROVE  HandsOK' /\ \A s \in Sinks : \A r : Copies(r, s)' = Copies(r, s)
<1>1. ASSUME NEW s \in Sinks, NEW r
      PROVE  HandsOK' /\ Copies(r, s)' = Copies(r, s)
  <2>1. ~(p \in Places /\ Locks(FrameAt(p), r, s)) /\ ~(q \in new /\ Locks(After(q), r, s))
    BY DEF Locks
  <2>2. HandsOK' /\ InHand(r, s)' = InHand(r, s) /\ InHand(r, s) \in Nat
    BY <2>1, MovesHands DEF One
  <2>3. QED
    BY <2>2 DEF Copies, Count
<1>2. HandsOK'
  BY MovesHands
<1>3. QED
  BY <1>1, <1>2

LEMMA AdvanceMoves ==
    ASSUME TypeOK, StacksOK, HandsOK, NEW t \in Actors, frames[t] # <<>>, Looping(Top(t)),
           Advances(t), NEW p, p = TopPlace(t), NEW q, q = NextPlace(t)
    PROVE  /\ p \in Places /\ FrameAt(p) = Top(t)
           /\ \E new : Moves(t, p, q, {p}, new) /\ q \notin new
<1>1. PICK f : f = Top(t)
  OBVIOUS
<1>2. p \in Places /\ FrameAt(p) = f /\ f \in FrameType /\ Shape(f) /\ p # q
  <2>1. p # q
    BY DEF TopPlace, NextPlace, TypeOK
  <2>2. QED
    BY <1>1, <2>1, TopFacts
<1>3. f.op = "Deliver" => f.records = {Record(f)}
  BY <1>2 DEF HandsOK
<1>4. CASE Changes({p}, {})
  BY <1>1, <1>2, <1>4 DEF Moves
<1>5. ASSUME Changes({p}, {p}), After(p).op = f.op, After(p).records = f.records,
             After(p).at \in {"fan", "write"}
      PROVE  Moves(t, p, q, {p}, {p}) /\ q \notin {p}
  BY <1>2, <1>3, <1>5 DEF Moves, Record
<1>6. CASE Changes({p}, {p}) /\ (After(p) = Entered(f) \/ (After(p) = Passed(f) /\ f.op # "Deliver"))
  <2>1. /\ After(p).op = f.op /\ After(p).records = f.records /\ After(p).at \in {"fan", "write"}
    BY <1>1, <1>2, <1>6, LoopFrame
  <2>2. QED
    BY <1>1, <1>2, <1>5, <1>6, <2>1
<1>7. QED
  BY <1>1, <1>2, <1>4, <1>6 DEF Advances

\* A plain sink writes a record.
LEMMA WritePlainCopies ==
    ASSUME TypeOK, StacksOK, HandsOK, NEW t \in Actors, NEW z \in PlainSinks, WritePlain(t, z)
    PROVE  /\ HandsOK'
           /\ \A s \in Sinks : \A r :
                  Copies(r, s)' = Copies(r, s) + One(s = z /\ r = Record(Top(t)))
<1>1. PICK p, q : p = TopPlace(t) /\ q = NextPlace(t)
  OBVIOUS
<1>2. /\ frames[t] # <<>> /\ Looping(Top(t)) /\ Advances(t) /\ Top(t).at = "fan"
      /\ z \in Sinks /\ z \notin AsyncSinks /\ queue' = queue
      /\ written' = [written EXCEPT ![z] = Append(@, Record(Top(t)))]
  BY AdvanceEffect, LoggerAssumption DEF WritePlain, Reaches, TopAt, Sinks
<1>3. PICK new : /\ Moves(t, p, q, {p}, new) /\ q \notin new
                 /\ p \in Places /\ FrameAt(p) = Top(t)
  BY <1>1, <1>2, AdvanceMoves
<1>4. ASSUME NEW s \in Sinks, NEW r
      PROVE  HandsOK' /\ Copies(r, s)' = Copies(r, s) + One(s = z /\ r = Record(Top(t)))
  <2>1. ~Locks(FrameAt(p), r, s)
    BY <1>2, <1>3 DEF Locks
  <2>2. HandsOK' /\ InHand(r, s)' = InHand(r, s) /\ InHand(r, s) \in Nat
    BY <1>3, <2>1, MovesHands DEF One
  <2>3. /\ Count(r, written'[s]) = Count(r, written[s]) + One(s = z /\ r = Record(Top(t)))
        /\ Count(r, written[s]) \in Nat
    <3>1. /\ written[s] \in Seq(1 .. MaxRecords)
          /\ s = z => written'[s] = Append(written[s], Record(Top(t)))
          /\ s # z => written'[s] = written[s]
      BY <1>2 DEF TypeOK
    <3>2. /\ Count(r, written[s]) \in Nat
          /\ Count(r, Append(written[s], Record(Top(t)))) =
                 Count(r, written[s]) + (IF Record(Top(t)) = r THEN 1 ELSE 0)
      BY <3>1, CountAppend
    <3>3. s = z => Count(r, written'[s]) = Count(r, Append(written[s], Record(Top(t))))
      BY ONLY <3>1, Zenon
    <3>4. CASE s = z
      BY <3>2, <3>3, <3>4 DEF One
    <3>5. CASE s # z
      BY <3>1, <3>2, <3>5 DEF One
    <3>6. QED
      BY <3>4, <3>5
  <2>4. s \in AsyncSinks => Count(r, queue[s]) \in Nat
    BY CopiesTyped
  <2>5. One(s = z /\ r = Record(Top(t))) \in Nat
    BY DEF One
  <2>6. QED
    BY <1>2, <2>2, <2>3, <2>4, <2>5, CopiesAfter DEF Copies
<1>5. HandsOK'
  BY <1>3, MovesHands
<1>6. QED
  BY <1>4, <1>5

\* A delivery goes from the hand into the wrapped sink.
LEMMA DeliverCopies ==
    ASSUME TypeOK, StacksOK, HandsOK, NEW t \in Actors, NEW z \in AsyncSinks, Deliver(t, z)
    PROVE  HandsOK' /\ \A s \in Sinks : \A r : Copies(r, s)' = Copies(r, s)
<1>1. PICK p, q, f : p = TopPlace(t) /\ q = NextPlace(t) /\ f = Top(t)
  OBVIOUS
<1>2. /\ frames[t] # <<>> /\ Looping(f) /\ Advances(t) /\ f.at = "lock" /\ Delivers(f, z)
      /\ z \in Sinks /\ queue' = queue
      /\ written' = [written EXCEPT ![z] = Append(@, Record(f))]
  BY <1>1, AdvanceEffect DEF Deliver, TopAt, Sinks
<1>3. PICK new : /\ Moves(t, p, q, {p}, new) /\ q \notin new
                 /\ p \in Places /\ FrameAt(p) = f
  BY <1>1, <1>2, AdvanceMoves
<1>4. f.records = {Record(f)}
  BY <1>2, <1>3 DEF HandsOK, Delivers
<1>5. ASSUME NEW s \in Sinks, NEW r
      PROVE  Copies(r, s)' = Copies(r, s)
  <2>1. Locks(f, r, s) <=> s = z /\ r = Record(f)
    BY <1>2, <1>4 DEF Locks, Delivers
  <2>2. /\ InHand(r, s)' = InHand(r, s) - One(s = z /\ r = Record(f)) /\ InHand(r, s) \in Nat
        /\ s = z /\ r = Record(f) => InHand(r, s) > 0
    <3>1. /\ InHand(r, s)' = InHand(r, s) - One(s = z /\ r = Record(f)) + One(FALSE)
          /\ InHand(r, s) \in Nat
          /\ s = z /\ r = Record(f) => InHand(r, s) > 0
      BY <1>3, <2>1, MovesHands DEF One
    <3>2. QED
      BY <3>1 DEF One
  <2>3. /\ Count(r, written'[s]) = Count(r, written[s]) + One(s = z /\ r = Record(f))
        /\ Count(r, written[s]) \in Nat
    <3>1. /\ written[s] \in Seq(1 .. MaxRecords)
          /\ s = z => written'[s] = Append(written[s], Record(f))
          /\ s # z => written'[s] = written[s]
      BY <1>2 DEF TypeOK
    <3>2. /\ Count(r, written[s]) \in Nat
          /\ Count(r, Append(written[s], Record(f))) =
                 Count(r, written[s]) + (IF Record(f) = r THEN 1 ELSE 0)
      BY <3>1, CountAppend
    <3>3. s = z => Count(r, written'[s]) = Count(r, Append(written[s], Record(f)))
      BY ONLY <3>1, Zenon
    <3>4. CASE s = z
      BY <3>2, <3>3, <3>4 DEF One
    <3>5. CASE s # z
      BY <3>1, <3>2, <3>5 DEF One
    <3>6. QED
      BY <3>4, <3>5
  <2>4. s \in AsyncSinks => Count(r, queue[s]) \in Nat
    BY CopiesTyped
  <2>5. CASE s \in AsyncSinks
    BY <1>2, <2>2, <2>3, <2>4, <2>5, CopiesAfter DEF Copies, One
  <2>6. CASE s \notin AsyncSinks
    BY <1>2, <2>1, <2>3, <2>6, CopiesAfter DEF Copies, One
  <2>7. QED
    BY <2>5, <2>6
<1>6. HandsOK'
  BY <1>3, MovesHands
<1>7. QED
  BY <1>5, <1>6

\* The worker takes a record from the queue in its hand.
LEMMA DequeueCopies ==
    ASSUME TypeOK, StacksOK, HandsOK, NEW z \in AsyncSinks, Dequeue(z)
    PROVE  HandsOK' /\ \A s \in Sinks : \A r : Copies(r, s)' = Copies(r, s)
<1>1. PICK p, q : p = TopPlace(z) /\ q = NextPlace(z)
  OBVIOUS
<1>2. /\ Changes({}, {q}) /\ After(q) = DeliverFrame(z, Head(queue[z]))
      /\ queue[z] # <<>> /\ Head(queue[z]) = queue[z][1]
      /\ queue' = [queue EXCEPT ![z] = Tail(@)] /\ written' = written
      /\ frames[z] = <<>> /\ z \in Actors
  BY <1>1, DequeueEffect DEF Dequeue, Actors
<1>3. /\ After(q).op = "Deliver" /\ After(q).sinks = <<z>> /\ After(q).at = "lock"
      /\ After(q).records = {Head(queue[z])}
  BY <1>2 DEF DeliverFrame
<1>4. p \notin Places
  <2>1. p[1] = z /\ p[2] = 0
    BY <1>1, <1>2 DEF TopPlace
  <2>2. ASSUME p \in Places  PROVE FALSE
    <3>1. p[2] \in DOMAIN frames[z]
      BY <2>1, <2>2, PlaceFacts
    <3>2. QED
      BY <1>2, <3>1
  <2>3. QED
    BY <2>2
<1>5. Moves(z, p, q, {}, {q})
  BY <1>1, <1>2, <1>3, <1>4 DEF Moves, Record
<1>6. ASSUME NEW s \in Sinks, NEW r
      PROVE  Copies(r, s)' = Copies(r, s)
  <2>1. Locks(After(q), r, s) <=> s = z /\ r = Head(queue[z])
    BY <1>3 DEF Locks, Delivers
  <2>2. /\ InHand(r, s)' = InHand(r, s) - One(FALSE) + One(s = z /\ r = Head(queue[z]))
        /\ InHand(r, s) \in Nat
    BY <1>2, <1>4, <1>5, <2>1, MovesHands DEF One
  <2>3. CASE s = z
    <3>1. queue[s] \in Seq(1 .. MaxRecords) /\ queue'[s] = Tail(queue[s])
      BY <1>2, <2>3 DEF TypeOK
    <3>2. /\ Count(r, Tail(queue[s])) \in Nat
          /\ Count(r, queue[s]) = Count(r, Tail(queue[s])) + (IF queue[s][1] = r THEN 1 ELSE 0)
      BY <1>2, <2>3, <3>1, CountTail
    <3>3. Count(r, written[s]) \in Nat
      BY CopiesTyped
    <3>4. QED
      BY <1>2, <2>2, <2>3, <3>1, <3>2, <3>3, CopiesAfter DEF Copies, One
  <2>4. CASE s # z
    <3>1. queue'[s] = queue[s]
      BY <1>2, <2>4 DEF TypeOK
    <3>2. InHand(r, s)' = InHand(r, s)
      BY <2>2, <2>4 DEF One
    <3>3. QED
      BY <1>2, <3>1, <3>2, CopiesAfter DEF Copies
  <2>5. QED
    BY <2>3, <2>4
<1>7. HandsOK'
  BY <1>2, <1>5, MovesHands
<1>8. QED
  BY <1>6, <1>7

\* An asynchronous sink accepts a record, leaves it in the hand of the caller, or refuses it.
LEMMA WriteAsyncCopies ==
    ASSUME TypeOK, StacksOK, HandsOK, NEW t \in Actors, NEW z \in AsyncSinks, WriteAsync(t, z)
    PROVE  /\ HandsOK'
           /\ \/ /\ log' = [log EXCEPT ![Record(Top(t))].refusedBy = @ \cup {z}]
                 /\ frames' = Moved(t, Beyond(Top(t)))
                 /\ \A s \in Sinks : \A r : Copies(r, s)' = Copies(r, s)
              \/ /\ log' = log
                 /\ \A s \in Sinks : \A r :
                        Copies(r, s)' = Copies(r, s) + One(s = z /\ r = Record(Top(t)))
<1>1. PICK p, q, f : p = TopPlace(t) /\ q = NextPlace(t) /\ f = Top(t)
  OBVIOUS
<1>2. frames[t] # <<>> /\ f.at = "fan" /\ f.op = "Log" /\ written' = written /\ z \in Sinks /\ p # q
  BY <1>1 DEF WriteAsync, Reaches, TopAt, Sinks, TopPlace, NextPlace, TypeOK
<1>3. p \in Places /\ FrameAt(p) = f /\ f \in FrameType
  BY <1>1, <1>2, TopFacts
<1>4. CASE frames' = Moved(t, Beyond(Top(t)))
  <2>1. frames[t] # <<>> /\ Looping(Top(t)) /\ Advances(t)
    BY <1>4, AdvanceEffect
  <2>2. PICK new : Moves(t, p, q, {p}, new) /\ q \notin new
    BY <1>1, <2>1, AdvanceMoves
  <2>3. HandsOK'
    BY <2>2, MovesHands
  <2>4. CASE queue' = queue /\ log' = [log EXCEPT ![Record(Top(t))].refusedBy = @ \cup {z}]
    BY <1>2, <1>3, <1>4, <2>2, <2>4, SinksStay
  <2>5. ASSUME queue' = [queue EXCEPT ![z] = Append(@, Record(f))], log' = log,
               NEW s \in Sinks, NEW r
        PROVE  Copies(r, s)' = Copies(r, s) + One(s = z /\ r = Record(f))
    <3>1. InHand(r, s)' = InHand(r, s)
      <4>1. ~Locks(FrameAt(p), r, s)
        BY <1>2, <1>3 DEF Locks
      <4>2. QED
        BY <2>2, <4>1, MovesHands DEF One
    <3>2. CASE s = z
      <4>1. /\ queue[s] \in Seq(1 .. MaxRecords) /\ queue'[s] = Append(queue[s], Record(f))
        BY <2>5, <3>2 DEF TypeOK
      <4>2. /\ Count(r, queue[s]) \in Nat
            /\ Count(r, Append(queue[s], Record(f))) =
                   Count(r, queue[s]) + (IF Record(f) = r THEN 1 ELSE 0)
        BY <4>1, CountAppend
      <4>3. Count(r, queue'[s]) = Count(r, Append(queue[s], Record(f)))
        BY ONLY <4>1, Zenon
      <4>4. Count(r, queue'[s]) = Count(r, queue[s]) + One(s = z /\ r = Record(f))
        BY <3>2, <4>2, <4>3 DEF One
      <4>5. InHand(r, s) \in Nat /\ Count(r, written[s]) \in Nat
        BY <3>2, CopiesTyped
      <4>6. One(s = z /\ r = Record(f)) \in Nat
        BY DEF One
      <4>7. QED
        BY <1>2, <3>1, <3>2, <4>2, <4>4, <4>5, <4>6, CopiesAfter DEF Copies
    <3>3. CASE s # z
      <4>1. s \in AsyncSinks => queue'[s] = queue[s]
        BY <2>5, <3>3 DEF TypeOK
      <4>2. Copies(r, s)' = Copies(r, s)
        BY <1>2, <3>1, <4>1, CopiesAfter DEF Copies
      <4>3. QED
        BY <3>3, <4>2, CopiesTyped DEF One
    <3>4. QED
      BY <3>2, <3>3
  <2>6. \/ queue' = queue /\ log' = [log EXCEPT ![Record(Top(t))].refusedBy = @ \cup {z}]
        \/ queue' = [queue EXCEPT ![z] = Append(@, Record(f))] /\ log' = log
        \/ frames' # Moved(t, Beyond(Top(t)))
    <3>1. CASE \/ queue' = queue /\ log' = [log EXCEPT ![Record(Top(t))].refusedBy = @ \cup {z}]
               \/ queue' = [queue EXCEPT ![z] = Append(@, Record(f))] /\ log' = log
      BY <3>1
    <3>2. CASE frames' = [Moved(t, Beyond(Top(t))) EXCEPT ![t] = Append(@, DeliverFrame(z, Record(f)))]
      <4>1. frames'[t] = Append(Moved(t, Beyond(Top(t)))[t], DeliverFrame(z, Record(f)))
        BY <3>2 DEF Moved, TypeOK
      <4>2. Moved(t, Beyond(Top(t)))[t] \in Seq(FrameType)
        <5>1. Beyond(f) \in FrameType /\ frames[t] \in Seq(FrameType)
          BY <1>3, FrameMoves DEF Beyond, TypeOK
        <5>2. Front(frames[t]) \in Seq(FrameType)
          BY <1>2, <5>1, LastAndFront
        <5>3. Moved(t, Beyond(Top(t)))[t] = Append(Front(frames[t]), Beyond(f))
          BY <1>1 DEF Moved, TypeOK
        <5>4. QED
          BY <5>1, <5>2, <5>3
      <4>3. frames'[t] # Moved(t, Beyond(Top(t)))[t]
        <5>1. PICK a, b : a = Moved(t, Beyond(Top(t)))[t] /\ b = DeliverFrame(z, Record(f))
          OBVIOUS
        <5>2. a \in Seq(FrameType) /\ frames'[t] = Append(a, b)
          BY <4>1, <4>2, <5>1
        <5>3. Len(frames'[t]) # Len(a)
          BY ONLY <5>2
        <5>4. QED
          BY <5>1, <5>3
      <4>4. QED
        BY <4>3
    <3>3. QED
      BY <1>1, <3>1, <3>2 DEF WriteAsync
  <2>7. QED
    BY <1>1, <1>4, <2>3, <2>4, <2>5, <2>6
<1>5. CASE frames' # Moved(t, Beyond(Top(t)))
  <2>1. /\ Changes({p}, {p, q}) /\ After(p) = Passed(f) /\ After(q) = DeliverFrame(z, Record(f))
        /\ UNCHANGED <<queue, log>>
    BY <1>1, <1>5, FallbackEffect
  <2>2. After(p).op = "Log" /\ After(p).at = "fan"
    BY <1>2, <1>3, <2>1 DEF Passed, FrameType
  <2>3. /\ After(q).op = "Deliver" /\ After(q).sinks = <<z>> /\ After(q).at = "lock"
        /\ After(q).records = {Record(f)}
    BY <2>1 DEF DeliverFrame
  <2>4. Moves(t, p, q, {p}, {p, q})
    BY <1>1, <1>2, <1>3, <2>1, <2>2, <2>3 DEF Moves, Record
  <2>5. ASSUME NEW s \in Sinks, NEW r
        PROVE  Copies(r, s)' = Copies(r, s) + One(s = z /\ r = Record(f))
    <3>1. /\ ~Locks(FrameAt(p), r, s)
          /\ Locks(After(q), r, s) <=> s = z /\ r = Record(f)
      BY <1>2, <1>3, <2>3 DEF Locks, Delivers
    <3>2. /\ InHand(r, s)' = InHand(r, s) + One(s = z /\ r = Record(f))
          /\ InHand(r, s) \in Nat
      BY <2>4, <3>1, MovesHands DEF One
    <3>3. Copies(r, s) \in Nat /\ Count(r, written[s]) \in Nat
          /\ (s \in AsyncSinks => Count(r, queue[s]) \in Nat)
      BY CopiesTyped
    <3>4. CASE s \in AsyncSinks
      BY <1>2, <2>1, <3>2, <3>3, <3>4, CopiesAfter DEF Copies, One
    <3>5. CASE s \notin AsyncSinks
      BY <1>2, <2>1, <3>3, <3>5, CopiesAfter DEF Copies, One
    <3>6. QED
      BY <3>4, <3>5
  <2>6. HandsOK'
    BY <2>4, MovesHands
  <2>7. QED
    BY <1>1, <2>1, <2>5, <2>6
<1>6. QED
  BY <1>4, <1>5

\* All other steps leave the records where they are.
LEMMA QuietCopies ==
    ASSUME TypeOK, StacksOK, HandsOK, NEW t \in Actors,
           \/ \E throws \in BOOLEAN : Dispatch(t, throws)
           \/ Skip(t) \/ WriteReturns(t) \/ Release(t)
           \/ \E z \in Sinks : FlushSink(t, z) \/ DestroySink(t, z)
    PROVE  HandsOK' /\ \A s \in Sinks : \A r : Copies(r, s)' = Copies(r, s)
<1>1. PICK p, q, f : p = TopPlace(t) /\ q = NextPlace(t) /\ f = Top(t)
  OBVIOUS
<1>2. frames[t] # <<>> /\ p # q /\ UNCHANGED <<queue, written>> /\ f.at # "lock"
  <2>1. frames[t] # <<>> /\ UNCHANGED <<queue, written>>
    BY DEF Dispatch, Skip, WriteReturns, Release, AtEnd, FlushSink, DestroySink, Reaches, TopAt,
           channels
  <2>2. f.at \in {"build", "fan", "write", "release", "destroy"}
    BY <1>1 DEF Dispatch, Skip, WriteReturns, Release, AtEnd, FlushSink, DestroySink, Reaches, TopAt
  <2>3. p[2] = Len(frames[t]) /\ q[2] = Len(frames[t]) + 1 /\ Len(frames[t]) \in Nat
    BY <1>1 DEF TopPlace, NextPlace, TypeOK
  <2>4. QED
    BY <2>1, <2>2, <2>3
<1>3. p \in Places /\ FrameAt(p) = f /\ f \in FrameType /\ Shape(f)
  BY <1>1, <1>2, TopFacts
<1>4. ASSUME NEW new, Moves(t, p, q, {p}, new), q \notin new
      PROVE  HandsOK' /\ \A s \in Sinks : \A r : Copies(r, s)' = Copies(r, s)
  BY <1>2, <1>3, <1>4, SinksStay
<1>5. CASE Skip(t) \/ WriteReturns(t) \/ \E z \in Sinks : FlushSink(t, z)
  <2>1. Looping(Top(t)) /\ Advances(t)
    BY <1>5, AdvanceEffect
  <2>2. QED
    BY <1>1, <1>2, <1>4, <2>1, AdvanceMoves
<1>6. ASSUME NEW new, Changes({p}, new), new \subseteq {p},
             \A x \in new : After(x).op = f.op /\ After(x).at # "lock", f.op # "Deliver"
      PROVE  HandsOK' /\ \A s \in Sinks : \A r : Copies(r, s)' = Copies(r, s)
  <2>1. Moves(t, p, q, {p}, new) /\ q \notin new
    BY <1>1, <1>2, <1>3, <1>6 DEF Moves
  <2>2. QED
    BY <1>4, <2>1
<1>7. ASSUME NEW throws \in BOOLEAN, Dispatch(t, throws)
      PROVE  HandsOK' /\ \A s \in Sinks : \A r : Copies(r, s)' = Copies(r, s)
  <2>1. /\ f.op = "Log" /\ Changes({p}, {p})
        /\ After(p) = [f EXCEPT !.at = IF Outcome(t) = "open" THEN "fan" ELSE "release",
                                !.sinks = active[f.logger]]
    BY <1>1, <1>7, DispatchEffect, ZenonT(60)
  <2>2. After(p).op = f.op /\ After(p).at \in {"fan", "release"}
    BY <1>3, <2>1 DEF FrameType
  <2>3. Changes({p}, {p}) /\ f.op # "Deliver"
    BY <2>1
  <2>4. \A x \in {p} : After(x).op = f.op /\ After(x).at # "lock"
    BY <2>2
  <2>5. {p} \subseteq {p}
    OBVIOUS
  <2>6. QED
    BY ONLY <1>6, <2>3, <2>4, <2>5
<1>8. CASE Release(t)
  <2>1. /\ f.op \in {"Log", "Flush", "SetSinks"}
        /\ \/ Changes({p}, {})
           \/ /\ Changes({p}, {p})
              /\ \E order \in SinkSet :
                     After(p) = [f EXCEPT !.at = "destroy", !.sinks = order, !.next = 1]
    BY <1>1, <1>8, ReleaseEffect
  <2>2. CASE Changes({p}, {})
    <3>1. Changes({p}, {}) /\ {} \subseteq {p} /\ f.op # "Deliver"
      BY <2>1, <2>2
    <3>2. \A x \in {} : After(x).op = f.op /\ After(x).at # "lock"
      OBVIOUS
    <3>3. QED
      BY ONLY <1>6, <3>1, <3>2
  <2>3. ASSUME Changes({p}, {p}), NEW order \in SinkSet,
               After(p) = [f EXCEPT !.at = "destroy", !.sinks = order, !.next = 1]
        PROVE  HandsOK' /\ \A s \in Sinks : \A r : Copies(r, s)' = Copies(r, s)
    <3>1. After(p).op = f.op /\ After(p).at = "destroy"
      BY <1>3, <2>3 DEF FrameType
    <3>2. \A x \in {p} : After(x).op = f.op /\ After(x).at # "lock"
      BY <3>1
    <3>3. Changes({p}, {p}) /\ f.op # "Deliver"
      BY <2>1, <2>3
    <3>4. {p} \subseteq {p}
      OBVIOUS
    <3>5. QED
      BY ONLY <1>6, <3>2, <3>3, <3>4
  <2>4. QED
    BY <2>1, <2>2, <2>3
<1>9. ASSUME NEW z \in Sinks, DestroySink(t, z)
      PROVE  HandsOK' /\ \A s \in Sinks : \A r : Copies(r, s)' = Copies(r, s)
  <2>1. /\ f.at = "destroy"
        /\ \/ Changes({p}, {})
           \/ Changes({p}, {p}) /\ After(p) = [f EXCEPT !.next = f.next + 1]
    BY <1>1, <1>9, DestroyEffect
  <2>2. f.op # "Deliver"
    BY <1>3, <2>1 DEF Shape
  <2>3. CASE Changes({p}, {})
    BY <1>6, <2>2, <2>3
  <2>4. CASE Changes({p}, {p}) /\ After(p) = [f EXCEPT !.next = f.next + 1]
    <3>1. After(p).op = f.op /\ After(p).at = "destroy"
      BY <1>3, <2>1, <2>4 DEF FrameType
    <3>2. \A x \in {p} : After(x).op = f.op /\ After(x).at # "lock"
      BY <3>1
    <3>3. Changes({p}, {p}) /\ f.op # "Deliver"
      BY <2>2, <2>4
    <3>4. {p} \subseteq {p}
      OBVIOUS
    <3>5. QED
      BY ONLY <1>6, <3>2, <3>3, <3>4
  <2>5. QED
    BY <2>1, <2>3, <2>4
<1>10. QED
  BY <1>5, <1>7, <1>8, <1>9

LEMMA BeginCopies ==
    ASSUME TypeOK, StacksOK, HandsOK, NEW t \in Actors, NEW l \in Loggers,
           Log(t, l) \/ Flush(t, l) \/ \E fails \in BOOLEAN : SetSinks(t, l, fails)
    PROVE  HandsOK' /\ \A s \in Sinks : \A r : Copies(r, s)' = Copies(r, s)
<1>1. PICK p, q : p = TopPlace(t) /\ q = NextPlace(t)
  OBVIOUS
<1>2. UNCHANGED <<queue, written>> /\ (frames[t] = <<>> \/ Top(t).at \in {"build", "write"})
  BY DEF Log, MayLog, Flush, SetSinks, TopAt, channels
<1>3. p \in Places => FrameAt(p).at # "lock"
  <2>1. ASSUME p \in Places  PROVE frames[t] # <<>>
    <3>1. p[1] = t /\ p[2] = Len(frames[t])
      BY <1>1 DEF TopPlace
    <3>2. p[2] \in DOMAIN frames[t]
      BY <2>1, <3>1, PlaceFacts
    <3>3. QED
      BY <3>2
  <2>2. QED
    BY <1>1, <1>2, <2>1, TopFacts
<1>4. Changes({}, {q}) /\ After(q).op # "Deliver" /\ After(q).at # "lock"
  <2>1. CASE Log(t, l)
    <3>1. /\ Changes({}, {q})
          /\ After(q) = [op |-> "Log", logger |-> l, at |-> "build", sinks |-> <<>>,
                         next |-> 1, records |-> {Len(log) + 1}]
      BY <1>1, <2>1, LogEffect
    <3>2. QED
      BY ONLY <3>1
  <2>2. CASE Flush(t, l)
    <3>1. /\ Changes({}, {q})
          /\ After(q) = [op |-> "Flush", logger |-> l, at |-> "fan", sinks |-> active[l],
                         next |-> 1, records |-> Finished(l)]
      BY <1>1, <2>2, FlushEffect
    <3>2. QED
      BY ONLY <3>1
  <2>3. ASSUME NEW fails \in BOOLEAN, SetSinks(t, l, fails)
        PROVE  Changes({}, {q}) /\ After(q).op # "Deliver" /\ After(q).at # "lock"
    <3>1. PICK set \in SinkSet : Changes({}, {q}) /\ After(q) = ReleaseFrame(l, set)
      BY <1>1, <2>3, SetSinksEffect
    <3>2. QED
      BY ONLY <3>1 DEF ReleaseFrame
  <2>4. QED
    BY <2>1, <2>2, <2>3
<1>5. Moves(t, p, q, {}, {q})
  BY <1>1, <1>3, <1>4 DEF Moves
<1>6. QED
  BY <1>2, <1>3, <1>4, <1>5, SinksStay

-----------------------------------------------------------------------------
(* What becomes of a record.                                               *)

Has(r) == [s \in Sinks |-> Copies(r, s)]
Fits(call, has, s, n) == has[s] = n \/ (s \in call.refusedBy /\ has[s] < n)

\* A frame has been given its record to every sink before the one it stands before, or in.
Passes(f) == IF f.at = "write" THEN f.next ELSE f.next - 1
Entitled(f, call, now, has) ==
    /\ f.logger = call.logger
    /\ f.at = "build" => ~call.threw /\ \A s \in Sinks : has[s] = 0
    /\ f.at # "build" => /\ f.sinks \in {call.since, now}
                         /\ \A s \in Sinks : Fits(call, has, s, Among(s, f.sinks, Passes(f)))
Closed(call, now, has) ==
    /\ call.outcome = "dispatched" =>
           \E set \in {call.since, now} : \A s \in Sinks : Fits(call, has, s, Count(s, set))
    /\ call.outcome = "no sinks" => <<>> \in {call.since, now}
    /\ call.outcome \in {"no sinks", "recursive"} => \A s \in Sinks : has[s] = 0

Now(r) == active[log[r].logger]
FramesOK ==
    \A x \in Places : Open(FrameAt(x)) =>
        \A r \in FrameAt(x).records : Entitled(FrameAt(x), log[r], Now(r), Has(r))
CallsOK == \A r \in DOMAIN log : Closed(log[r], Now(r), Has(r))

\* The sets of a logger until they are replaced, and the records that are still to come.
PublishOK ==
    /\ spare \subseteq wiring.replaced
    /\ \A l \in spare : /\ active[l] = wiring.initial[l]
                        /\ \A r \in DOMAIN log : log[r].logger = l => log[r].since = active[l]
FreshOK == \A r : r \notin DOMAIN log => \A s \in Sinks : Copies(r, s) = 0

\* What a step does to the records of calls it has nothing to do with.
Untouched(own) ==
    /\ DOMAIN log \subseteq DOMAIN log'
    /\ \A r \in DOMAIN log : r # own => log'[r] = log[r]
    /\ \A r : r # own => \A s \in Sinks : Copies(r, s)' = Copies(r, s)
    /\ \A r \in DOMAIN log : Now(r) \in {log[r].since, active'[log[r].logger]}

LEMMA RecordsKept ==
    ASSUME StacksOK, FramesOK, CallsOK, NEW old, NEW new, Changes(old, new), NEW own, Untouched(own),
           \A x \in Places \ old : Open(FrameAt(x)) => own \notin FrameAt(x).records,
           \A x \in new : Open(After(x)) =>
               \A r \in After(x).records : Entitled(After(x), log'[r], Now(r)', Has(r)'),
           \A r \in DOMAIN log' : r \notin DOMAIN log \/ r = own => Closed(log'[r], Now(r)', Has(r)')
    PROVE  FramesOK' /\ CallsOK'
<1>1. /\ Places' = (Places \ old) \cup new
      /\ \A x \in Places \ old : FrameAt(x)' = FrameAt(x)
      /\ \A x \in new : FrameAt(x)' = After(x)
  BY DEF Changes, FrameAt, After
<1>2. ASSUME NEW r \in DOMAIN log, r # own
      PROVE  /\ log'[r] = log[r] /\ Has(r)' = Has(r)
             /\ Now(r) \in {log[r].since, Now(r)'}
  <2>1. log'[r] = log[r] /\ \A s \in Sinks : Copies(r, s)' = Copies(r, s)
    BY <1>2 DEF Untouched
  <2>2. Now(r)' = active'[log[r].logger]
    BY <2>1 DEF Now
  <2>3. Now(r) \in {log[r].since, active'[log[r].logger]}
    BY DEF Untouched
  <2>4. Has(r)' = Has(r)
    BY <2>1 DEF Has
  <2>5. QED
    BY <2>1, <2>2, <2>3, <2>4
<1>3. ASSUME NEW x \in Places', Open(FrameAt(x)'), NEW r \in FrameAt(x)'.records
      PROVE  Entitled(FrameAt(x)', log'[r], Now(r)', Has(r)')
  <2>1. CASE x \in new
    BY <1>1, <1>3, <2>1
  <2>2. CASE x \in Places \ old
    <3>1. PICK f : f = FrameAt(x) /\ f = FrameAt(x)'
      BY <1>1, <2>2
    <3>2. Open(f) /\ r \in f.records /\ r # own
      BY <1>3, <2>2, <3>1
    <3>3. r \in DOMAIN log
      BY <2>2, <3>1, <3>2 DEF StacksOK, CallOK
    <3>4. PICK now, later : now = Now(r) /\ later = Now(r)'
      OBVIOUS
    <3>5. Entitled(f, log[r], now, Has(r)) /\ now \in {log[r].since, later}
      BY <1>2, <2>2, <3>1, <3>2, <3>3, <3>4 DEF FramesOK
    <3>6. Entitled(f, log[r], later, Has(r))
      BY <3>5 DEF Entitled
    <3>7. QED
      BY <1>2, <3>1, <3>2, <3>3, <3>4, <3>6
  <2>3. QED
    BY <1>1, <2>1, <2>2
<1>4. ASSUME NEW r \in DOMAIN log'
      PROVE  Closed(log'[r], Now(r)', Has(r)')
  <2>1. CASE r \in DOMAIN log /\ r # own
    <3>1. PICK now, later : now = Now(r) /\ later = Now(r)'
      OBVIOUS
    <3>2. Closed(log[r], now, Has(r)) /\ now \in {log[r].since, later}
      BY <1>2, <2>1, <3>1 DEF CallsOK
    <3>3. Closed(log[r], later, Has(r))
      BY <3>2 DEF Closed
    <3>4. QED
      BY <1>2, <2>1, <3>1, <3>3
  <2>2. QED
    BY <2>1
<1>5. FramesOK'
  BY <1>3 DEF FramesOK, Open, Entitled, Fits, Passes
<1>6. CallsOK'
  BY <1>4 DEF CallsOK, Closed, Fits
<1>7. QED
  BY <1>5, <1>6

LEMMA SetsAsTheyWere ==
    ASSUME NEW own, active' = active, DOMAIN log \subseteq DOMAIN log',
           \A r \in DOMAIN log : r # own => log'[r] = log[r],
           \A r : r # own => \A s \in Sinks : Copies(r, s)' = Copies(r, s)
    PROVE  Untouched(own)
BY DEF Untouched, Now

\* To enter a sink or to pass it counts as one record for it.
LEMMA NextPasses ==
    ASSUME NEW f \in FrameType, NEW g, f.at \in {"fan", "write"},
           g = Passed(f) \/ (g = Entered(f) /\ f.at = "fan"), NEW s
    PROVE  /\ g.at # "build" /\ g.logger = f.logger /\ g.sinks = f.sinks /\ g.records = f.records
           /\ Among(s, f.sinks, Passes(f)) \in Nat
           /\ Among(s, g.sinks, Passes(g)) = Among(s, f.sinks, Passes(f))
                                             + One(f.at = "fan" /\ Current(f) = s)
<1>1. /\ g.at = (IF g = Passed(f) THEN "fan" ELSE "write")
      /\ g.next = (IF g = Passed(f) THEN f.next + 1 ELSE f.next)
      /\ g.logger = f.logger /\ g.sinks = f.sinks /\ g.records = f.records /\ f.next \in Nat \ {0}
  BY DEF Passed, Entered, FrameType
<1>2. PICK n : n = f.next - 1
  OBVIOUS
<1>3. n \in Nat /\ f.next = n + 1
  BY <1>1, <1>2
<1>4. /\ Among(s, f.sinks, n) \in Nat
      /\ Among(s, f.sinks, n + 1) = Among(s, f.sinks, n) + One(f.sinks[n + 1] = s)
      /\ Among(s, f.sinks, n + 1) \in Nat
  BY <1>3, AmongNext DEF One
<1>5. CASE f.at = "fan"
  <2>1. Passes(f) = n /\ Passes(g) = n + 1
    BY <1>1, <1>3, <1>5 DEF Passes
  <2>2. Current(f) = f.sinks[n + 1]
    BY <1>3 DEF Current
  <2>3. QED
    BY <1>1, <1>4, <1>5, <2>1, <2>2
<1>6. CASE f.at = "write"
  <2>1. Passes(f) = n + 1 /\ Passes(g) = n + 1
    BY <1>1, <1>3, <1>6 DEF Passes
  <2>2. QED
    BY <1>1, <1>4, <1>6, <2>1 DEF One
<1>7. QED
  BY <1>1, <1>5, <1>6

\* What the frame of an open call is entitled to.
LEMMA TopEntitled ==
    ASSUME TypeOK, StacksOK, FramesOK, NEW t \in Actors, frames[t] # <<>>, NEW own, Open(Top(t)),
           own = Record(Top(t))
    PROVE  /\ own \in DOMAIN log /\ Top(t).records = {own} /\ log[own].outcome = "open"
           /\ Entitled(Top(t), log[own], Now(own), Has(own)) /\ log[own] \in CallType
           /\ \A x \in Places \ {TopPlace(t)} : Open(FrameAt(x)) => own \notin FrameAt(x).records
<1>1. TopPlace(t) \in Places /\ FrameAt(TopPlace(t)) = Top(t) /\ CallOK(log, Top(t))
  BY TopFacts
<1>2. own \in DOMAIN log /\ Top(t).records = {own} /\ log[own].outcome = "open"
  BY <1>1, OpenRecord
<1>3. Entitled(Top(t), log[own], Now(own), Has(own))
  BY <1>1, <1>2 DEF FramesOK
<1>4. log[own] \in CallType
  BY <1>2 DEF TypeOK
<1>5. ASSUME NEW x \in Places \ {TopPlace(t)}, Open(FrameAt(x))
      PROVE  own \notin FrameAt(x).records
  <2>1. \E r : FrameAt(x).records = {r}
    BY <1>5 DEF StacksOK, CallOK
  <2>2. FrameAt(x).records # {own}
    BY <1>1, <1>2, <1>5 DEF StacksOK
  <2>3. QED
    BY <2>1, <2>2
<1>6. QED
  BY <1>2, <1>3, <1>4, <1>5

\* An open call goes on to the next sink.
LEMMA EntitledOn ==
    ASSUME TypeOK, HandsOK, NEW f \in FrameType, f.at \in {"fan", "write"},
           NEW g, g = Passed(f) \/ (g = Entered(f) /\ f.at = "fan"),
           NEW call, NEW later, NEW now, NEW own, Entitled(f, call, now, Has(own)),
           later.logger = call.logger, later.since = call.since, call.refusedBy \subseteq later.refusedBy,
           \A s \in Sinks :
               \/ Copies(own, s)' = Copies(own, s) + One(f.at = "fan" /\ Current(f) = s)
               \/ s \in later.refusedBy /\ Copies(own, s)' = Copies(own, s) /\ f.at = "fan" /\ Current(f) = s
    PROVE  Entitled(g, later, now, Has(own)')
<1>1. g.at # "build" /\ g.logger = f.logger /\ g.sinks = f.sinks
  BY NextPasses
<1>2. ASSUME NEW s \in Sinks
      PROVE  Fits(later, Has(own)', s, Among(s, g.sinks, Passes(g)))
  <2>1. PICK n, b, c, d : /\ n = Among(s, f.sinks, Passes(f)) /\ b = One(f.at = "fan" /\ Current(f) = s)
                          /\ c = Copies(own, s) /\ d = Copies(own, s)'
    OBVIOUS
  <2>2. n \in Nat /\ Among(s, g.sinks, Passes(g)) = n + b /\ c \in Nat
    BY <2>1, NextPasses, CopiesTyped
  <2>3. b \in {0, 1} /\ (f.at = "fan" /\ Current(f) = s => b = 1)
    BY <2>1 DEF One
  <2>4. Has(own)[s] = c /\ Has(own)'[s] = d
    BY <2>1 DEF Has
  <2>5. c = n \/ (s \in call.refusedBy /\ c < n)
    BY <2>1, <2>4 DEF Entitled, Fits
  <2>6. \/ d = c + b
        \/ s \in later.refusedBy /\ d = c /\ b = 1
    BY <2>1, <2>3
  <2>7. d = n + b \/ (s \in later.refusedBy /\ d < n + b)
    BY <2>2, <2>3, <2>5, <2>6
  <2>8. QED
    BY <2>2, <2>4, <2>7 DEF Fits
<1>3. QED
  BY <1>1, <1>2 DEF Entitled

LEMMA GoesOnRecords ==
    ASSUME TypeOK, StacksOK, HandsOK, FramesOK, CallsOK, NEW t \in Actors, frames[t] # <<>>,
           NEW p, p = TopPlace(t), NEW f, f = Top(t), f.op = "Log", f.at \in {"fan", "write"},
           NEW own, own = Record(f), NEW new, Changes({p}, new),
           \A x \in new : x = p \/ ~Open(After(x)),
           p \in new => After(p) = Passed(f) \/ (After(p) = Entered(f) /\ f.at = "fan"),
           active' = active, DOMAIN log' = DOMAIN log,
           \A r \in DOMAIN log : r # own => log'[r] = log[r],
           \A r : r # own => \A s \in Sinks : Copies(r, s)' = Copies(r, s),
           log'[own].logger = log[own].logger, log'[own].since = log[own].since,
           log'[own].outcome = log[own].outcome, log[own].refusedBy \subseteq log'[own].refusedBy,
           \A s \in Sinks :
               \/ Copies(own, s)' = Copies(own, s) + One(f.at = "fan" /\ Current(f) = s)
               \/ /\ s \in log'[own].refusedBy /\ Copies(own, s)' = Copies(own, s)
                  /\ f.at = "fan" /\ Current(f) = s
    PROVE  FramesOK' /\ CallsOK'
<1>1. f \in FrameType /\ Open(f)
  BY TopFacts DEF Open
<1>2. /\ own \in DOMAIN log /\ f.records = {own} /\ log[own].outcome = "open"
      /\ Entitled(f, log[own], Now(own), Has(own))
      /\ \A x \in Places \ {p} : Open(FrameAt(x)) => own \notin FrameAt(x).records
  BY <1>1, TopEntitled
<1>3. Untouched(own)
  BY SetsAsTheyWere
<1>4. Now(own)' = Now(own)
  BY DEF Now
<1>5. ASSUME NEW x \in new, Open(After(x)), NEW r \in After(x).records
      PROVE  Entitled(After(x), log'[r], Now(r)', Has(r)')
  <2>1. PICK g : g = After(x)
    OBVIOUS
  <2>2. g = Passed(f) \/ (g = Entered(f) /\ f.at = "fan")
    BY <1>5, <2>1
  <2>3. r = own
    <3>1. g.records = f.records
      BY <1>1, <2>2, NextPasses
    <3>2. QED
      BY <1>2, <1>5, <2>1, <3>1
  <2>4. PICK later, now : later = log'[own] /\ now = Now(own)
    OBVIOUS
  <2>5. Entitled(g, later, now, Has(own)')
    BY <1>1, <1>2, <2>2, <2>4, EntitledOn
  <2>6. QED
    BY <1>4, <2>1, <2>3, <2>4, <2>5
<1>6. ASSUME NEW r \in DOMAIN log', r \notin DOMAIN log \/ r = own
      PROVE  Closed(log'[r], Now(r)', Has(r)')
  <2>1. r = own /\ log'[own].outcome = "open"
    BY <1>2, <1>6
  <2>2. QED
    BY <2>1 DEF Closed
<1>7. QED
  BY ONLY StacksOK, FramesOK, CallsOK, Changes({p}, new), <1>2, <1>3, <1>5, <1>6, RecordsKept

\* A step of a frame that is not of an open call.
LEMMA OthersRecords ==
    ASSUME TypeOK, StacksOK, FramesOK, CallsOK, NEW old, NEW new, Changes(old, new),
           \A x \in new : ~Open(After(x)),
           active' = active, log' = log,
           \A s \in Sinks : \A r : Copies(r, s)' = Copies(r, s)
    PROVE  FramesOK' /\ CallsOK'
<1>1. 0 \notin DOMAIN log
  BY DEF TypeOK
<1>2. Untouched(0)
  BY SetsAsTheyWere
<1>3. \A x \in Places \ old : Open(FrameAt(x)) => 0 \notin FrameAt(x).records
  BY <1>1 DEF StacksOK, CallOK
<1>4. \A r \in DOMAIN log' : r \notin DOMAIN log \/ r = 0 => Closed(log'[r], Now(r)', Has(r)')
  BY <1>1
<1>5. QED
  BY <1>2, <1>3, <1>4, RecordsKept

LEMMA WritePlainRecords ==
    ASSUME TypeOK, StacksOK, HandsOK, FramesOK, CallsOK, NEW t \in Actors, NEW z \in PlainSinks,
           WritePlain(t, z)
    PROVE  FramesOK' /\ CallsOK'
<1>1. PICK p, f, own : p = TopPlace(t) /\ f = Top(t) /\ own = Record(Top(t))
  OBVIOUS
<1>2. /\ frames[t] # <<>> /\ Looping(f) /\ Advances(t) /\ f.op = "Log" /\ f.at = "fan"
      /\ Current(f) = z /\ active' = active /\ log' = log
  BY <1>1, AdvanceEffect DEF WritePlain, Reaches, TopAt
<1>3. /\ Changes({p}, {p}) /\ (After(p) = Passed(f) \/ After(p) = Entered(f))
      /\ \A x \in {p} : x = p \/ ~Open(After(x))
  BY <1>1, <1>2 DEF Advances
<1>4. \A s \in Sinks : \A r : Copies(r, s)' = Copies(r, s) + One(s = z /\ r = own)
  BY <1>1, WritePlainCopies
<1>5. \A r : r # own => \A s \in Sinks : Copies(r, s)' = Copies(r, s)
  BY <1>4, CopiesTyped DEF One
<1>6. \A s \in Sinks : Copies(own, s)' = Copies(own, s) + One(f.at = "fan" /\ Current(f) = s)
  BY <1>2, <1>4 DEF One
<1>8. /\ p \in {p} => After(p) = Passed(f) \/ (After(p) = Entered(f) /\ f.at = "fan")
      /\ Changes({p}, {p}) /\ DOMAIN log' = DOMAIN log /\ \A r \in DOMAIN log : r # own => log'[r] = log[r]
      /\ log'[own] = log[own]
  BY <1>2, <1>3
<1>7. QED
  BY <1>1, <1>2, <1>3, <1>5, <1>6, <1>8, GoesOnRecords

\* A loop goes on that gives no sink a record.
LEMMA QuietRecords ==
    ASSUME TypeOK, StacksOK, HandsOK, FramesOK, CallsOK, NEW t \in Actors,
           \/ Skip(t) \/ WriteReturns(t)
           \/ \E z \in AsyncSinks : Deliver(t, z)
           \/ \E z \in Sinks : FlushSink(t, z)
    PROVE  FramesOK' /\ CallsOK'
<1>1. PICK p, f, own : p = TopPlace(t) /\ f = Top(t) /\ own = Record(Top(t))
  OBVIOUS
<1>2. frames[t] # <<>> /\ Looping(f) /\ Advances(t) /\ active' = active /\ log' = log
  BY <1>1, AdvanceEffect DEF Skip, WriteReturns, Deliver, FlushSink
<1>3. \A s \in Sinks : \A r : Copies(r, s)' = Copies(r, s)
  <2>1. CASE \E z \in AsyncSinks : Deliver(t, z)
    BY <2>1, DeliverCopies
  <2>2. CASE Skip(t) \/ WriteReturns(t) \/ \E z \in Sinks : FlushSink(t, z)
    BY <2>2, QuietCopies
  <2>3. QED
    BY <2>1, <2>2
<1>4. f \in FrameType /\ Shape(f)
  BY <1>1, <1>2, TopFacts
<1>5. CASE f.op # "Log"
  <2>1. PICK new : Changes({p}, new) /\ new \subseteq {p} /\ \A x \in new : After(x) \in {Entered(f), Passed(f)}
    <3>1. CASE Changes({p}, {})
      BY <3>1
    <3>2. CASE Changes({p}, {p}) /\ After(p) \in {Entered(f), Passed(f)}
      <4>1. Changes({p}, {p}) /\ {p} \subseteq {p} /\ \A x \in {p} : After(x) \in {Entered(f), Passed(f)}
        BY <3>2
      <4>2. QED
        BY <4>1
    <3>3. QED
      BY <1>1, <1>2, <3>1, <3>2 DEF Advances
  <2>2. \A x \in new : ~Open(After(x))
    BY <1>4, <1>5, <2>1, ZenonT(60) DEF Open, Entered, Passed, FrameType
  <2>3. QED
    BY <1>2, <1>3, <2>1, <2>2, OthersRecords
<1>6. CASE f.op = "Log"
  <2>1. \/ f.at = "fan" /\ Current(f) = Null /\ After(p) = Passed(f)
        \/ f.at = "write" /\ After(p) = Passed(f)
    <3>1. frames' = IF f.at = "fan" THEN Moved(t, Beyond(f)) ELSE Moved(t, [Beyond(f) EXCEPT !.at = "fan"])
      BY <1>1, <1>6 DEF Skip, WriteReturns, Deliver, FlushSink, Reaches, TopAt, Delivers
    <3>2. \/ f.at = "fan" /\ Current(f) = Null
          \/ f.at = "write"
      BY <1>1, <1>6 DEF Skip, WriteReturns, Deliver, FlushSink, Reaches, TopAt, Delivers
    <3>3. f.at = "fan" => Beyond(f) = Passed(f)
      BY <1>4 DEF Beyond, Passed, FrameType
    <3>4. [Beyond(f) EXCEPT !.at = "fan"] = Passed(f)
      BY <1>4 DEF Beyond, Passed, FrameType
    <3>5. Passed(f) \in FrameType
      BY <1>2, <1>4, <1>6, LoopFrame
    <3>6. frames' = Moved(t, Passed(f))
      BY <3>1, <3>3, <3>4
    <3>7. After(p) = Passed(f)
      BY <1>1, <1>2, <3>5, <3>6, GoesOn
    <3>8. QED
      BY <3>2, <3>7
  <2>2. Changes({p}, {p})
    BY <1>1, <1>2, <1>6 DEF Advances
  <2>3. \A x \in {p} : x = p \/ ~Open(After(x))
    OBVIOUS
  <2>4. \A s \in Sinks : Copies(own, s)' = Copies(own, s) + One(f.at = "fan" /\ Current(f) = s)
    <3>1. Null \notin Sinks
      BY LoggerAssumption
    <3>2. \A s \in Sinks : One(f.at = "fan" /\ Current(f) = s) = 0
      BY <2>1, <3>1 DEF One
    <3>3. QED
      BY <1>3, <3>2, CopiesTyped
  <2>5. /\ DOMAIN log' = DOMAIN log /\ \A r \in DOMAIN log : r # own => log'[r] = log[r]
        /\ log'[own] = log[own] /\ f.at \in {"fan", "write"}
        /\ p \in {p} => After(p) = Passed(f) \/ (After(p) = Entered(f) /\ f.at = "fan")
    BY <1>2, <2>1
  <2>6. QED
    BY <1>1, <1>2, <1>3, <1>6, <2>2, <2>3, <2>4, <2>5, GoesOnRecords
<1>7. QED
  BY <1>5, <1>6

LEMMA WriteAsyncRecords ==
    ASSUME TypeOK, StacksOK, HandsOK, FramesOK, CallsOK, NEW t \in Actors, NEW z \in AsyncSinks,
           WriteAsync(t, z)
    PROVE  FramesOK' /\ CallsOK'
<1>1. PICK p, q, f, own : p = TopPlace(t) /\ q = NextPlace(t) /\ f = Top(t) /\ own = Record(Top(t))
  OBVIOUS
<1>2. /\ frames[t] # <<>> /\ f.op = "Log" /\ f.at = "fan" /\ Current(f) = z /\ active' = active
      /\ f \in FrameType /\ p # q
  <2>1. frames[t] # <<>> /\ f.op = "Log" /\ f.at = "fan" /\ Current(f) = z /\ active' = active
    BY <1>1 DEF WriteAsync, Reaches, TopAt
  <2>2. p[2] = Len(frames[t]) /\ q[2] = Len(frames[t]) + 1 /\ Len(frames[t]) \in Nat
    BY <1>1 DEF TopPlace, NextPlace, TypeOK
  <2>3. QED
    BY <1>1, <2>1, <2>2, TopFacts
<1>3. \E new : /\ Changes({p}, new) /\ \A x \in new : x = p \/ ~Open(After(x))
               /\ p \in new => After(p) = Passed(f) \/ (After(p) = Entered(f) /\ f.at = "fan")
  <2>1. CASE frames' = Moved(t, Beyond(Top(t)))
    <3>1. Beyond(f) = Passed(f) /\ Beyond(f) \in FrameType
      <4>1. Beyond(f) = Passed(f)
        BY <1>2 DEF Beyond, Passed, FrameType
      <4>2. Beyond(f) \in FrameType
        BY <1>2, FrameMoves
      <4>3. QED
        BY <4>1, <4>2
    <3>2. Changes({p}, {p}) /\ After(p) = Passed(f)
      BY <1>1, <1>2, <2>1, <3>1, GoesOn
    <3>3. QED
      BY <3>2
  <2>2. CASE frames' # Moved(t, Beyond(Top(t)))
    <3>1. /\ Changes({p}, {p, q}) /\ After(p) = Passed(f) /\ After(q) = DeliverFrame(z, Record(f))
      BY <1>1, <2>2, FallbackEffect
    <3>2. \A x \in {p, q} : x = p \/ ~Open(After(x))
      BY <3>1, DeliverShape
    <3>3. QED
      BY <3>1, <3>2
  <2>3. QED
    BY <2>1, <2>2
<1>4. PICK new : /\ Changes({p}, new) /\ \A x \in new : x = p \/ ~Open(After(x))
                 /\ p \in new => After(p) = Passed(f) \/ (After(p) = Entered(f) /\ f.at = "fan")
  BY <1>3
<1>5. own \in DOMAIN log /\ log[own] \in CallType
  BY <1>1, <1>2, TopEntitled DEF Open
<1>6. CASE /\ log' = [log EXCEPT ![Record(Top(t))].refusedBy = @ \cup {z}]
           /\ \A s \in Sinks : \A r : Copies(r, s)' = Copies(r, s)
  <2>1. /\ DOMAIN log' = DOMAIN log /\ \A r \in DOMAIN log : r # own => log'[r] = log[r]
        /\ log'[own] = [log[own] EXCEPT !.refusedBy = @ \cup {z}]
    BY <1>1, <1>5, <1>6
  <2>2. /\ log'[own].logger = log[own].logger /\ log'[own].since = log[own].since
        /\ log'[own].outcome = log[own].outcome /\ log'[own].refusedBy = log[own].refusedBy \cup {z}
    BY <1>5, <2>1 DEF CallType
  <2>3. ASSUME NEW s \in Sinks
        PROVE  \/ Copies(own, s)' = Copies(own, s) + One(f.at = "fan" /\ Current(f) = s)
               \/ /\ s \in log'[own].refusedBy /\ Copies(own, s)' = Copies(own, s)
                  /\ f.at = "fan" /\ Current(f) = s
    <3>1. Copies(own, s)' = Copies(own, s) /\ Copies(own, s) \in Nat
      BY <1>6, CopiesTyped
    <3>2. CASE s = z
      BY <1>2, <2>2, <3>1, <3>2
    <3>3. CASE s # z
      BY <1>2, <3>1, <3>3 DEF One
    <3>4. QED
      BY <3>2, <3>3
  <2>4. QED
    BY <1>1, <1>2, <1>4, <1>6, <2>1, <2>2, <2>3, GoesOnRecords
<1>7. CASE /\ log' = log
           /\ \A s \in Sinks : \A r :
                  Copies(r, s)' = Copies(r, s) + One(s = z /\ r = Record(Top(t)))
  <2>1. \A r : r # own => \A s \in Sinks : Copies(r, s)' = Copies(r, s)
    BY <1>1, <1>7, CopiesTyped DEF One
  <2>2. \A s \in Sinks : Copies(own, s)' = Copies(own, s) + One(f.at = "fan" /\ Current(f) = s)
    BY <1>1, <1>2, <1>7 DEF One
  <2>3. /\ DOMAIN log' = DOMAIN log /\ \A r \in DOMAIN log : r # own => log'[r] = log[r]
        /\ log'[own] = log[own]
    BY <1>7
  <2>4. QED
    BY <1>1, <1>2, <1>4, <2>1, <2>2, <2>3, GoesOnRecords
<1>8. QED
  BY <1>6, <1>7, WriteAsyncCopies

\* The frame of a call is left, or one begins, that is not of Log.
LEMMA OtherCallsRecords ==
    ASSUME TypeOK, StacksOK, HandsOK, FramesOK, CallsOK, NEW t \in Actors,
           \/ Dequeue(t) /\ t \in AsyncSinks
           \/ \E l \in Loggers : Flush(t, l)
           \/ \E z \in Sinks : DestroySink(t, z)
    PROVE  FramesOK' /\ CallsOK'
<1>1. PICK p, q, f : p = TopPlace(t) /\ q = NextPlace(t) /\ f = Top(t)
  OBVIOUS
<1>2. active' = active /\ log' = log /\ \A s \in Sinks : \A r : Copies(r, s)' = Copies(r, s)
  BY DequeueCopies, BeginCopies, QuietCopies DEF Dequeue, Flush, DestroySink
<1>3. \E old, new : Changes(old, new) /\ \A x \in new : ~Open(After(x))
  <2>1. CASE Dequeue(t) /\ t \in AsyncSinks
    <3>1. Changes({}, {q}) /\ After(q) = DeliverFrame(t, Head(queue[t]))
      BY <1>1, <2>1, DequeueEffect
    <3>2. \A x \in {q} : ~Open(After(x))
      BY <2>1, <3>1, DeliverShape
    <3>3. QED
      BY <3>1, <3>2
  <2>2. ASSUME NEW l \in Loggers, Flush(t, l)
        PROVE  \E old, new : Changes(old, new) /\ \A x \in new : ~Open(After(x))
    <3>1. /\ Changes({}, {q})
          /\ After(q) = [op |-> "Flush", logger |-> l, at |-> "fan", sinks |-> active[l],
                         next |-> 1, records |-> Finished(l)]
      BY <1>1, <2>2, FlushEffect
    <3>2. After(q).op = "Flush"
      BY ONLY <3>1
    <3>3. \A x \in {q} : ~Open(After(x))
      BY <3>2 DEF Open
    <3>4. QED
      BY <3>1, <3>3
  <2>3. ASSUME NEW z \in Sinks, DestroySink(t, z)
        PROVE  \E old, new : Changes(old, new) /\ \A x \in new : ~Open(After(x))
    <3>1. /\ frames[t] # <<>> /\ f.at = "destroy"
          /\ \/ Changes({p}, {})
             \/ Changes({p}, {p}) /\ After(p) = [f EXCEPT !.next = f.next + 1]
      BY <1>1, <2>3, DestroyEffect
    <3>2. CASE Changes({p}, {})
      BY <3>2
    <3>3. CASE Changes({p}, {p}) /\ After(p) = [f EXCEPT !.next = f.next + 1]
      <4>1. f \in FrameType
        BY <1>1, <3>1, TopFacts
      <4>2. After(p).at = "destroy"
        BY <3>1, <3>3, <4>1 DEF FrameType
      <4>3. \A x \in {p} : ~Open(After(x))
        BY <4>2 DEF Open
      <4>4. QED
        BY <3>3, <4>3
    <3>4. QED
      BY <3>1, <3>2, <3>3
  <2>4. QED
    BY <2>1, <2>2, <2>3
<1>4. QED
  BY <1>2, <1>3, OthersRecords

\* A new call of Log has no record anywhere.
LEMMA LogRecords ==
    ASSUME TypeOK, StacksOK, HandsOK, FramesOK, CallsOK, FreshOK, NEW t \in Actors, NEW l \in Loggers,
           Log(t, l)
    PROVE  FramesOK' /\ CallsOK'
<1>1. PICK q, own : q = NextPlace(t) /\ own = Len(log) + 1
  OBVIOUS
<1>2. /\ Changes({}, {q}) /\ DOMAIN log' = DOMAIN log \cup {own} /\ own \notin DOMAIN log
      /\ \A r \in DOMAIN log : log'[r] = log[r]
  BY <1>1, LogEffect
<1>3. After(q).op = "Log" /\ After(q).logger = l /\ After(q).at = "build" /\ After(q).records = {own}
  <2>1. After(q) = [op |-> "Log", logger |-> l, at |-> "build", sinks |-> <<>>,
                    next |-> 1, records |-> {own}]
    BY <1>1, LogEffect
  <2>2. QED
    BY ONLY <2>1
<1>4. log'[own].logger = l /\ log'[own].threw = FALSE /\ log'[own].outcome = "open"
  <2>1. log'[own] = [logger |-> l, threw |-> FALSE, outcome |-> "open",
                     since |-> active[l], refusedBy |-> {}]
    BY <1>1, LogEffect
  <2>2. QED
    BY ONLY <2>1
<1>5. \A s \in Sinks : \A r : Copies(r, s)' = Copies(r, s)
  BY BeginCopies
<1>6. \A s \in Sinks : Has(own)'[s] = 0
  BY <1>2, <1>5 DEF FreshOK, Has
<1>7. Untouched(own)
  <2>1. active' = active
    BY DEF Log
  <2>2. QED
    BY <1>2, <1>5, <2>1, SetsAsTheyWere
<1>8. \A x \in Places : Open(FrameAt(x)) => own \notin FrameAt(x).records
  BY <1>2 DEF StacksOK, CallOK
<1>9. \A r \in After(q).records : Entitled(After(q), log'[r], Now(r)', Has(r)')
  BY <1>3, <1>4, <1>6 DEF Entitled
<1>10. \A r \in DOMAIN log' : r \notin DOMAIN log \/ r = own => Closed(log'[r], Now(r)', Has(r)')
  BY <1>2, <1>4 DEF Closed
<1>11. QED
  BY <1>2, <1>7, <1>8, <1>9, <1>10, RecordsKept

\* To replace a set that nobody has replaced before leaves the calls a set of theirs.
LEMMA SetSinksRecords ==
    ASSUME TypeOK, StacksOK, HandsOK, FramesOK, CallsOK, PublishOK, NEW t \in Actors, NEW l \in Loggers,
           NEW fails \in BOOLEAN, SetSinks(t, l, fails)
    PROVE  FramesOK' /\ CallsOK'
<1>1. PICK q : q = NextPlace(t)
  OBVIOUS
<1>2. PICK set \in SinkSet :
          /\ Changes({}, {q}) /\ After(q) = ReleaseFrame(l, set) /\ log' = log /\ l \in spare
          /\ active' = active \/ active' = [active EXCEPT ![l] = wiring.second[l]]
  BY <1>1, SetSinksEffect, ZenonT(60)
<1>3. 0 \notin DOMAIN log
  BY DEF TypeOK
<1>4. \A r \in DOMAIN log : Now(r) \in {log[r].since, active'[log[r].logger]}
  <2> TAKE r \in DOMAIN log
  <2>1. log[r].logger \in Loggers
    <3>1. log[r] \in CallType
      BY DEF TypeOK
    <3>2. QED
      BY <3>1 DEF CallType
  <2>2. CASE log[r].logger = l
    BY <1>2, <2>2 DEF Now, PublishOK
  <2>3. CASE log[r].logger # l
    BY <1>2, <2>1, <2>3 DEF Now, TypeOK
  <2>4. QED
    BY <2>2, <2>3
<1>5. Untouched(0)
  <2>1. \A s \in Sinks : \A r : Copies(r, s)' = Copies(r, s)
    BY BeginCopies
  <2>2. QED
    BY <1>2, <1>4, <2>1 DEF Untouched
<1>6. \A x \in {q} : ~Open(After(x))
  BY <1>2 DEF ReleaseFrame, Open
<1>7. \A x \in Places \ {} : Open(FrameAt(x)) => 0 \notin FrameAt(x).records
  BY <1>3 DEF StacksOK, CallOK
<1>8. \A r \in DOMAIN log' : r \notin DOMAIN log \/ r = 0 => Closed(log'[r], Now(r)', Has(r)')
  BY <1>2, <1>3
<1>9. QED
  BY <1>2, <1>5, <1>6, <1>7, <1>8, RecordsKept

LEMMA DispatchRecords ==
    ASSUME TypeOK, StacksOK, HandsOK, FramesOK, CallsOK, NEW t \in Actors, NEW throws \in BOOLEAN,
           Dispatch(t, throws)
    PROVE  FramesOK' /\ CallsOK'
<1>1. PICK p, f, own, outcome :
          p = TopPlace(t) /\ f = Top(t) /\ own = Record(Top(t)) /\ outcome = Outcome(t)
  OBVIOUS
<1>2. /\ frames[t] # <<>> /\ f.at = "build" /\ f.next = 1 /\ Open(f) /\ f.logger \in Loggers
      /\ Changes({p}, {p})
      /\ After(p) = [f EXCEPT !.at = IF outcome = "open" THEN "fan" ELSE "release",
                              !.sinks = active[f.logger]]
      /\ log' = [log EXCEPT ![own].threw = throws, ![own].outcome = outcome]
  <2>1. /\ frames[t] # <<>> /\ Top(t).at = "build" /\ Top(t).next = 1 /\ Open(Top(t))
        /\ Top(t).logger \in Loggers /\ Changes({TopPlace(t)}, {TopPlace(t)})
    BY DispatchEffect
  <2>2. After(TopPlace(t)) = [Top(t) EXCEPT !.at = IF Outcome(t) = "open" THEN "fan" ELSE "release",
                                            !.sinks = active[Top(t).logger]]
    BY DispatchEffect
  <2>3. log' = [log EXCEPT ![Record(Top(t))].threw = throws, ![Record(Top(t))].outcome = Outcome(t)]
    BY DispatchEffect
  <2>4. After(p) = [f EXCEPT !.at = IF outcome = "open" THEN "fan" ELSE "release",
                             !.sinks = active[f.logger]]
    BY ONLY <1>1, <2>2, Zenon
  <2>5. log' = [log EXCEPT ![own].threw = throws, ![own].outcome = outcome]
    BY ONLY <1>1, <2>3, Zenon
  <2>6. QED
    BY <1>1, <2>1, <2>4, <2>5
<1>3. f \in FrameType
  BY <1>1, <1>2, TopFacts
<1>4. /\ own \in DOMAIN log /\ f.records = {own} /\ log[own] \in CallType
      /\ Entitled(f, log[own], Now(own), Has(own))
      /\ \A x \in Places \ {p} : Open(FrameAt(x)) => own \notin FrameAt(x).records
  BY <1>1, <1>2, TopEntitled
<1>5. /\ DOMAIN log' = DOMAIN log /\ \A r \in DOMAIN log : r # own => log'[r] = log[r]
      /\ log'[own].logger = log[own].logger /\ log'[own].since = log[own].since
      /\ log'[own].outcome = outcome
  <2>1. /\ DOMAIN log' = DOMAIN log /\ \A r \in DOMAIN log : r # own => log'[r] = log[r]
        /\ log'[own] = [log[own] EXCEPT !.threw = throws, !.outcome = outcome]
    BY <1>2, <1>4
  <2>2. QED
    BY <1>4, <2>1 DEF CallType
<1>6. \A s \in Sinks : \A r : Copies(r, s)' = Copies(r, s)
  BY QuietCopies
<1>7. active' = active
  BY DEF Dispatch
<1>8. Untouched(own)
  BY <1>5, <1>6, <1>7, SetsAsTheyWere
<1>9. /\ f.logger = log[own].logger /\ \A s \in Sinks : Has(own)'[s] = 0
      /\ Now(own)' = active[f.logger]
  <2>1. f.logger = log[own].logger /\ \A s \in Sinks : Has(own)[s] = 0
    BY <1>2, <1>4 DEF Entitled
  <2>2. \A s \in Sinks : Has(own)'[s] = Has(own)[s]
    BY <1>6 DEF Has
  <2>3. QED
    BY <1>5, <1>7, <2>1, <2>2 DEF Now
<1>10. /\ After(p).op = f.op /\ After(p).logger = f.logger /\ After(p).records = {own} /\ After(p).next = 1
       /\ After(p).at = (IF outcome = "open" THEN "fan" ELSE "release")
       /\ After(p).sinks = active[f.logger]
  BY <1>2, <1>3, <1>4 DEF FrameType
<1>11. ASSUME Open(After(p))
       PROVE  Entitled(After(p), log'[own], Now(own)', Has(own)')
  <2>1. PICK g, call, now : g = After(p) /\ call = log'[own] /\ now = active[f.logger]
    OBVIOUS
  <2>2. g.at = "fan" /\ Passes(g) = 0
    BY <1>10, <1>11, <2>1 DEF Open, Passes
  <2>3. \A s \in Sinks : Among(s, g.sinks, Passes(g)) = 0
    BY <2>2, AmongNext
  <2>4. g.logger = call.logger /\ g.sinks = now
    BY <1>5, <1>9, <1>10, <2>1
  <2>5. Entitled(g, call, now, Has(own)')
    BY <1>9, <2>2, <2>3, <2>4 DEF Entitled, Fits
  <2>6. QED
    BY <1>9, <2>1, <2>5
<1>12. Closed(log'[own], Now(own)', Has(own)')
  <2>1. outcome = "no sinks" => active[f.logger] = <<>>
    BY <1>1 DEF Outcome
  <2>2. outcome # "dispatched"
    BY <1>1 DEF Outcome
  <2>3. QED
    BY <1>5, <1>9, <2>1, <2>2 DEF Closed
<1>13. \A x \in {p} : Open(After(x)) =>
           \A r \in After(x).records : Entitled(After(x), log'[r], Now(r)', Has(r)')
  BY <1>10, <1>11
<1>14. \A r \in DOMAIN log' : r \notin DOMAIN log \/ r = own => Closed(log'[r], Now(r)', Has(r)')
  BY <1>5, <1>12
<1>15. Changes({p}, {p})
  BY <1>2
<1>16. QED
  BY ONLY StacksOK, FramesOK, CallsOK, <1>4, <1>8, <1>13, <1>14, <1>15, RecordsKept

LEMMA ReleaseRecords ==
    ASSUME TypeOK, StacksOK, HandsOK, FramesOK, CallsOK, NEW t \in Actors, Release(t)
    PROVE  FramesOK' /\ CallsOK'
<1>1. PICK p, f, own : p = TopPlace(t) /\ f = Top(t) /\ own = Record(Top(t))
  OBVIOUS
<1>2. /\ frames[t] # <<>> /\ f.at \in {"fan", "release"} /\ (f.at = "fan" => f.next > Len(f.sinks))
      /\ \/ Changes({p}, {})
         \/ /\ Changes({p}, {p})
            /\ \E order \in SinkSet : After(p) = [f EXCEPT !.at = "destroy", !.sinks = order, !.next = 1]
  BY <1>1, ReleaseEffect
<1>3. f \in FrameType /\ Shape(f)
  BY <1>1, <1>2, TopFacts
<1>4. PICK new : Changes({p}, new) /\ \A x \in new : ~Open(After(x))
  <2>1. CASE Changes({p}, {})
    BY <2>1
  <2>2. ASSUME Changes({p}, {p}), NEW order \in SinkSet,
               After(p) = [f EXCEPT !.at = "destroy", !.sinks = order, !.next = 1]
        PROVE  \E new : Changes({p}, new) /\ \A x \in new : ~Open(After(x))
    <3>1. After(p).at = "destroy"
      BY <1>3, <2>2 DEF FrameType
    <3>2. Changes({p}, {p}) /\ \A x \in {p} : ~Open(After(x))
      BY <2>2, <3>1 DEF Open
    <3>3. QED
      BY <3>2
  <2>3. QED
    BY <1>2, <2>1, <2>2
<1>5. active' = active /\ \A s \in Sinks : \A r : Copies(r, s)' = Copies(r, s)
  BY QuietCopies DEF Release
<1>6. CASE ~(f.op = "Log" /\ f.at = "fan")
  <2>1. log' = log
    BY <1>1, <1>6 DEF Release
  <2>2. QED
    BY <1>4, <1>5, <2>1, OthersRecords
<1>7. CASE f.op = "Log" /\ f.at = "fan"
  <2>1. /\ own \in DOMAIN log /\ f.records = {own} /\ log[own] \in CallType
        /\ Entitled(f, log[own], Now(own), Has(own))
        /\ \A x \in Places \ {p} : Open(FrameAt(x)) => own \notin FrameAt(x).records
    BY <1>1, <1>2, <1>7, TopEntitled DEF Open
  <2>2. /\ DOMAIN log' = DOMAIN log /\ \A r \in DOMAIN log : r # own => log'[r] = log[r]
        /\ log'[own] = [log[own] EXCEPT !.outcome = "dispatched"]
    <3>1. log' = [log EXCEPT ![own].outcome = "dispatched"]
      BY <1>1, <1>7 DEF Release
    <3>2. QED
      BY <2>1, <3>1
  <2>3. /\ log'[own].logger = log[own].logger /\ log'[own].since = log[own].since
        /\ log'[own].outcome = "dispatched" /\ log'[own].refusedBy = log[own].refusedBy
    BY <2>1, <2>2 DEF CallType
  <2>4. Untouched(own)
    BY <1>5, <2>2, SetsAsTheyWere
  <2>5. Now(own)' = Now(own) /\ Has(own)' = Has(own)
    BY <1>5, <2>3 DEF Now, Has
  <2>6. \A s \in Sinks : Among(s, f.sinks, Passes(f)) = Count(s, f.sinks)
    <3>1. f.sinks \in SinkSet /\ f.next \in Nat
      BY <1>3 DEF FrameType
    <3>2. f.next <= Len(f.sinks) + 1 /\ Len(f.sinks) \in Nat
      BY <1>3, <1>7, <3>1 DEF Shape, SinkSet
    <3>5. f.next > Len(f.sinks)
      BY <1>2, <1>7
    <3>6. f.next - 1 = Len(f.sinks)
      BY ONLY <3>1, <3>2, <3>5
    <3>3. Passes(f) = Len(f.sinks)
      BY <1>7, <3>6 DEF Passes
    <3>4. QED
      BY <3>1, <3>3, CountAmong DEF SinkSet
  <2>7. Closed(log'[own], Now(own)', Has(own)')
    <3>1. PICK call, later, now, has : call = log[own] /\ later = log'[own] /\ now = Now(own) /\ has = Has(own)
      OBVIOUS
    <3>2. f.sinks \in {call.since, now} /\ \A s \in Sinks : Fits(call, has, s, Count(s, f.sinks))
      BY <1>7, <2>1, <2>6, <3>1 DEF Entitled
    <3>3. later.since = call.since /\ later.refusedBy = call.refusedBy /\ later.outcome = "dispatched"
      BY <2>3, <3>1
    <3>4. Closed(later, now, has)
      BY <3>2, <3>3 DEF Closed, Fits
    <3>5. QED
      BY <2>5, <3>1, <3>4
  <2>8. \A r \in DOMAIN log' : r \notin DOMAIN log \/ r = own => Closed(log'[r], Now(r)', Has(r)')
    BY <2>2, <2>7
  <2>9. QED
    BY ONLY StacksOK, FramesOK, CallsOK, <1>4, <2>1, <2>4, <2>8, RecordsKept
<1>8. QED
  BY <1>6, <1>7

-----------------------------------------------------------------------------
(* What is told of a call, and what the error counters tell.               *)

Told(r) ==
    /\ log'[r].logger = log[r].logger /\ log'[r].since = log[r].since
    /\ log'[r].threw = log[r].threw
    /\ log'[r].outcome = "recursive" <=> log[r].outcome = "recursive"

LEMMA CallChanged ==
    ASSUME TypeOK, NEW own \in DOMAIN log, log[own].outcome # "recursive",
           \/ \E z \in AsyncSinks : log' = [log EXCEPT ![own].refusedBy = @ \cup {z}]
           \/ log' = [log EXCEPT ![own].outcome = "dispatched"]
    PROVE  DOMAIN log' = DOMAIN log /\ \A r \in DOMAIN log : Told(r)
<1>1. log[own] \in CallType
  BY DEF TypeOK
<1>2. DOMAIN log' = DOMAIN log /\ \A r \in DOMAIN log \ {own} : log'[r] = log[r]
  OBVIOUS
<1>3. \/ \E z \in AsyncSinks : log'[own] = [log[own] EXCEPT !.refusedBy = @ \cup {z}]
      \/ log'[own] = [log[own] EXCEPT !.outcome = "dispatched"]
  OBVIOUS
<1>4. Told(own)
  BY <1>1, <1>3 DEF Told, CallType
<1>5. QED
  BY <1>2, <1>4 DEF Told

\* Nothing but Dispatch tells that a builder function threw or a call was recursive.
LEMMA CallsStay ==
    ASSUME TypeOK, StacksOK, [Next]_vars,
           ~ \E t \in Actors, throws \in BOOLEAN : Dispatch(t, throws)
    PROVE  /\ DOMAIN log \subseteq DOMAIN log' /\ \A r \in DOMAIN log : Told(r)
           /\ \A r \in DOMAIN log' \ DOMAIN log :
                  /\ log'[r].threw = FALSE /\ log'[r].outcome = "open"
                  /\ log'[r].logger \in Loggers /\ log'[r].since = active[log'[r].logger]
<1> DEFINE Goal == /\ DOMAIN log \subseteq DOMAIN log' /\ \A r \in DOMAIN log : Told(r)
                   /\ \A r \in DOMAIN log' \ DOMAIN log :
                          /\ log'[r].threw = FALSE /\ log'[r].outcome = "open"
                          /\ log'[r].logger \in Loggers /\ log'[r].since = active[log'[r].logger]
<1>1. ASSUME DOMAIN log' = DOMAIN log, \A r \in DOMAIN log : Told(r)
      PROVE  Goal
  BY <1>1
<1>2. log' = log => Goal
  BY DEF Told
<1> HIDE DEF Goal
<1>3. ASSUME NEW t \in Actors, NEW z \in AsyncSinks, WriteAsync(t, z)
      PROVE  Goal
  <2>1. frames[t] # <<>> /\ Open(Top(t))
    BY <1>3 DEF WriteAsync, Reaches, TopAt, Open
  <2>2. PICK own : own = Record(Top(t))
    OBVIOUS
  <2>3. own \in DOMAIN log /\ log[own].outcome = "open"
    BY <2>1, <2>2, TopFacts, OpenRecord
  <2>4. log' = log \/ log' = [log EXCEPT ![own].refusedBy = @ \cup {z}]
    BY <1>3, <2>2 DEF WriteAsync
  <2>5. QED
    BY <1>1, <1>2, <2>3, <2>4, CallChanged
<1>4. ASSUME NEW t \in Actors, Release(t)
      PROVE  Goal
  <2>1. PICK own : own = Record(Top(t))
    OBVIOUS
  <2>2. CASE Top(t).op = "Log" /\ Top(t).at = "fan"
    <3>1. frames[t] # <<>> /\ Open(Top(t))
      BY <1>4, <2>2 DEF Release, AtEnd, TopAt, Open
    <3>2. own \in DOMAIN log /\ log[own].outcome = "open"
      BY <2>1, <3>1, TopFacts, OpenRecord
    <3>3. log' = [log EXCEPT ![own].outcome = "dispatched"]
      BY <1>4, <2>1, <2>2 DEF Release
    <3>4. QED
      BY <1>1, <3>2, <3>3, CallChanged
  <2>3. CASE ~(Top(t).op = "Log" /\ Top(t).at = "fan")
    BY <1>2, <1>4, <2>3 DEF Release
  <2>4. QED
    BY <2>2, <2>3
<1>5. ASSUME NEW t \in Actors, NEW l \in Loggers, Log(t, l)
      PROVE  Goal
  <2>1. PICK own : own = Len(log) + 1
    OBVIOUS
  <2>2. /\ DOMAIN log' = DOMAIN log \cup {own} /\ own \notin DOMAIN log
        /\ \A r \in DOMAIN log : log'[r] = log[r]
    BY <1>5, <2>1, LogEffect
  <2>3. log'[own] = [logger |-> l, threw |-> FALSE, outcome |-> "open",
                     since |-> active[l], refusedBy |-> {}]
    BY <1>5, <2>1, LogEffect
  <2>4. /\ log'[own].threw = FALSE /\ log'[own].outcome = "open"
        /\ log'[own].logger = l /\ log'[own].since = active[l]
    BY ONLY <2>3
  <2>5. QED
    BY <2>2, <2>4 DEF Goal, Told
<1>6. ASSUME NEW t \in Actors, Continue(t)
      PROVE  Goal
  <2>1. CASE \/ Skip(t) \/ WriteReturns(t)
             \/ \E s \in PlainSinks : WritePlain(t, s)
             \/ \E s \in AsyncSinks : Deliver(t, s)
             \/ \E s \in Sinks : FlushSink(t, s) \/ DestroySink(t, s)
    BY <1>2, <2>1 DEF Skip, WriteReturns, WritePlain, Deliver, FlushSink, DestroySink
  <2>2. QED
    BY <1>3, <1>4, <1>6, <2>1 DEF Continue
<1>7. ASSUME NEW s \in AsyncSinks, Dequeue(s)
      PROVE  Goal
  BY <1>2, <1>7 DEF Dequeue
<1>8. ASSUME NEW t \in Keepers, NEW l \in Loggers,
             Flush(t, l) \/ \E fails \in BOOLEAN : SetSinks(t, l, fails)
      PROVE  Goal
  BY <1>2, <1>8 DEF Flush, SetSinks
<1>9. UNCHANGED vars => Goal
  BY <1>2 DEF vars
<1>10. Goal
  BY <1>5, <1>6, <1>7, <1>8, <1>9 DEF Next
<1>11. QED
  BY <1>10 DEF Goal

\* Who changes what is published and counted.
LEMMA WhoPublishes ==
    ASSUME [Next]_vars
    PROVE  /\ wiring' = wiring
           /\ \/ UNCHANGED <<active, spare, errors>>
              \/ \E t \in Actors, throws \in BOOLEAN : Dispatch(t, throws)
              \/ \E t \in Keepers, l \in Loggers, fails \in BOOLEAN : SetSinks(t, l, fails)
<1>1. ASSUME NEW t \in Actors, Continue(t)
      PROVE  /\ wiring' = wiring
             /\ \/ UNCHANGED <<active, spare, errors>>
                \/ \E throws \in BOOLEAN : Dispatch(t, throws)
  BY <1>1 DEF Continue, Dispatch, Skip, WriteReturns, Release, WritePlain, WriteAsync, Deliver,
              FlushSink, DestroySink
<1>2. QED
  BY <1>1 DEF Next, Dequeue, Log, Flush, SetSinks, vars

LEMMA DispatchTold ==
    ASSUME TypeOK, StacksOK, NEW t \in Actors, NEW throws \in BOOLEAN, Dispatch(t, throws),
           NEW own, own = Record(Top(t)), NEW outcome, outcome = Outcome(t)
    PROVE  /\ own \in DOMAIN log /\ DOMAIN log' = DOMAIN log
           /\ \A r \in DOMAIN log : r # own => log'[r] = log[r]
           /\ log'[own].logger = log[own].logger /\ log'[own].since = log[own].since
           /\ log'[own].threw = throws /\ log'[own].outcome = outcome
<1>1. own \in DOMAIN log
  BY DispatchEffect
<1>2. log' = [log EXCEPT ![own].threw = throws, ![own].outcome = outcome]
  <2>1. log' = [log EXCEPT ![Record(Top(t))].threw = throws, ![Record(Top(t))].outcome = Outcome(t)]
    BY DispatchEffect
  <2>2. own = Record(Top(t)) /\ outcome = Outcome(t)
    OBVIOUS
  <2>3. QED
    BY ONLY <2>1, <2>2, Zenon
<1>3. log[own] \in CallType
  BY <1>1 DEF TypeOK
<1>4. /\ DOMAIN log' = DOMAIN log /\ \A r \in DOMAIN log : r # own => log'[r] = log[r]
      /\ log'[own] = [log[own] EXCEPT !.threw = throws, !.outcome = outcome]
  BY <1>1, <1>2
<1>5. /\ log'[own].logger = log[own].logger /\ log'[own].since = log[own].since
      /\ log'[own].threw = throws /\ log'[own].outcome = outcome
  BY <1>3, <1>4 DEF CallType
<1>6. QED
  BY <1>1, <1>4, <1>5

\* As long as the application has the second set of a logger, all its calls began with the first.
LEMMA PublishStep ==
    ASSUME TypeOK, StacksOK, PublishOK, [Next]_vars
    PROVE  PublishOK'
<1>1. ASSUME DOMAIN log \subseteq DOMAIN log', spare' \subseteq spare, wiring' = wiring,
             \A l \in spare' : active'[l] = active[l],
             \A r \in DOMAIN log : log'[r].logger = log[r].logger /\ log'[r].since = log[r].since,
             \A r \in DOMAIN log' \ DOMAIN log : log'[r].since = active[log'[r].logger]
      PROVE  PublishOK'
  <2>1. spare' \subseteq wiring'.replaced /\ \A l \in spare' : active'[l] = wiring'.initial[l]
    BY <1>1 DEF PublishOK
  <2>2. ASSUME NEW l \in spare', NEW r \in DOMAIN log', log'[r].logger = l
        PROVE  log'[r].since = active'[l]
    <3>1. CASE r \in DOMAIN log
      <4>1. log[r].logger = l /\ log'[r].since = log[r].since /\ l \in spare
        BY <1>1, <2>2, <3>1
      <4>2. log[r].since = active[l]
        BY <3>1, <4>1 DEF PublishOK
      <4>3. QED
        BY <1>1, <4>1, <4>2
    <3>2. CASE r \notin DOMAIN log
      BY <1>1, <2>2, <3>2
    <3>3. QED
      BY <3>1, <3>2
  <2>3. QED
    BY <2>1, <2>2 DEF PublishOK
<1>2. wiring' = wiring
  BY WhoPublishes
<1>3. ASSUME NEW t \in Actors, NEW throws \in BOOLEAN, Dispatch(t, throws)
      PROVE  PublishOK'
  <2>1. PICK own, outcome : own = Record(Top(t)) /\ outcome = Outcome(t)
    OBVIOUS
  <2>2. /\ DOMAIN log' = DOMAIN log /\ \A r \in DOMAIN log : r # own => log'[r] = log[r]
        /\ log'[own].logger = log[own].logger /\ log'[own].since = log[own].since
    BY <1>3, <2>1, DispatchTold
  <2>3. active' = active /\ spare' = spare
    BY <1>3 DEF Dispatch
  <2>4. QED
    BY <1>1, <1>2, <2>2, <2>3
<1>4. CASE ~ \E t \in Actors, throws \in BOOLEAN : Dispatch(t, throws)
  <2>1. /\ DOMAIN log \subseteq DOMAIN log'
        /\ \A r \in DOMAIN log : log'[r].logger = log[r].logger /\ log'[r].since = log[r].since
        /\ \A r \in DOMAIN log' \ DOMAIN log : log'[r].since = active[log'[r].logger]
    BY <1>4, CallsStay DEF Told
  <2>2. spare' \subseteq spare /\ \A l \in spare' : active'[l] = active[l]
    <3>1. CASE UNCHANGED <<active, spare, errors>>
      BY <3>1
    <3>2. ASSUME NEW t \in Keepers, NEW l \in Loggers, NEW fails \in BOOLEAN, SetSinks(t, l, fails)
          PROVE  spare' \subseteq spare /\ \A k \in spare' : active'[k] = active[k]
      <4>1. spare' = spare \ {l} /\ (active' = active \/ active' = [active EXCEPT ![l] = wiring.second[l]])
        BY <3>2 DEF SetSinks
      <4>2. spare \subseteq Loggers /\ DOMAIN active = Loggers
        BY DEF TypeOK
      <4>3. QED
        BY <4>1, <4>2
    <3>3. QED
      BY <1>4, <3>1, <3>2, WhoPublishes
  <2>3. QED
    BY <1>1, <1>2, <2>1, <2>2
<1>5. QED
  BY <1>3, <1>4

-----------------------------------------------------------------------------
Threw(l)     == {r \in DOMAIN log : log[r].logger = l /\ log[r].threw}
Recursive(l) == {r \in DOMAIN log : log[r].logger = l /\ log[r].outcome = "recursive"}
NotSet(l)    == IF l \in wiring.replaced \ spare /\ active[l] = wiring.initial[l] THEN 1 ELSE 0
ErrorsOK ==
    \A l \in Loggers : errors[l] = Cardinality(Threw(l)) + Cardinality(Recursive(l)) + NotSet(l)

LEMMA CallsFinite ==
    ASSUME TypeOK, NEW l
    PROVE  /\ IsFiniteSet(Threw(l)) /\ Cardinality(Threw(l)) \in Nat
           /\ IsFiniteSet(Recursive(l)) /\ Cardinality(Recursive(l)) \in Nat
           /\ NotSet(l) \in Nat
<1>1. IsFiniteSet(1 .. Len(log)) /\ DOMAIN log = 1 .. Len(log)
  BY FS_Interval DEF TypeOK
<1>2. IsFiniteSet(Threw(l)) /\ IsFiniteSet(Recursive(l))
  <2>1. Threw(l) \subseteq 1 .. Len(log) /\ Recursive(l) \subseteq 1 .. Len(log)
    BY <1>1 DEF Threw, Recursive
  <2>2. QED
    BY <1>1, <2>1, FS_Subset
<1>3. QED
  BY <1>2, FS_CardinalityType DEF NotSet

\* A set of calls keeps its size, or grows by one.
LEMMA OneMore ==
    ASSUME NEW S, IsFiniteSet(S), NEW x, x \notin S, NEW b \in BOOLEAN,
           NEW T, T = S \cup (IF b THEN {x} ELSE {})
    PROVE  Cardinality(T) = Cardinality(S) + (IF b THEN 1 ELSE 0)
<1>1. Cardinality(S) \in Nat /\ Cardinality(S \cup {x}) = Cardinality(S) + 1
  BY FS_CardinalityType, FS_AddElement
<1>2. ~b => T = S
  OBVIOUS
<1>3. b => T = S \cup {x}
  OBVIOUS
<1>4. QED
  BY <1>1, <1>2, <1>3

LEMMA DispatchErrors ==
    ASSUME TypeOK, StacksOK, FramesOK, ErrorsOK, NEW t \in Actors, NEW throws \in BOOLEAN,
           Dispatch(t, throws)
    PROVE  ErrorsOK'
<1>1. PICK f, own, outcome : f = Top(t) /\ own = Record(Top(t)) /\ outcome = Outcome(t)
  OBVIOUS
<1>2. /\ DOMAIN log' = DOMAIN log /\ \A r \in DOMAIN log : r # own => log'[r] = log[r]
      /\ log'[own].logger = log[own].logger
      /\ log'[own].threw = throws /\ log'[own].outcome = outcome
  BY <1>1, DispatchTold
<1>3. /\ frames[t] # <<>> /\ f.at = "build" /\ Open(f) /\ f.logger \in Loggers
  BY <1>1, DispatchEffect
<1>4. /\ own \in DOMAIN log /\ log[own].outcome = "open"
      /\ f.logger = log[own].logger /\ ~log[own].threw
  <2>1. own \in DOMAIN log /\ log[own].outcome = "open" /\ Entitled(f, log[own], Now(own), Has(own))
    BY <1>1, <1>3, TopEntitled
  <2>2. QED
    BY <1>3, <2>1 DEF Entitled
<1>5. /\ wiring' = wiring /\ active' = active /\ spare' = spare
      /\ errors' = [errors EXCEPT ![f.logger] = @ + (IF throws THEN 1 ELSE 0)
                                                  + (IF outcome = "recursive" THEN 1 ELSE 0)]
  <2>1. /\ wiring' = wiring /\ active' = active /\ spare' = spare
        /\ errors' = [errors EXCEPT ![Top(t).logger] = @ + (IF throws THEN 1 ELSE 0)
                                                         + (IF Outcome(t) = "recursive" THEN 1 ELSE 0)]
    BY DEF Dispatch, Outcome
  <2>2. QED
    BY ONLY <1>1, <2>1, Zenon
<1>6. ASSUME NEW l \in Loggers
      PROVE  errors'[l] = Cardinality(Threw(l)') + Cardinality(Recursive(l)') + NotSet(l)'
  <2>1. PICK b, c : b = (l = f.logger /\ throws) /\ c = (l = f.logger /\ outcome = "recursive")
    OBVIOUS
  <2>2. b \in BOOLEAN /\ c \in BOOLEAN
    BY <2>1
  <2>3. own \notin Threw(l) /\ own \notin Recursive(l)
    BY <1>4 DEF Threw, Recursive
  <2>4. Threw(l)' = Threw(l) \cup (IF b THEN {own} ELSE {})
    BY <1>2, <1>4, <2>1 DEF Threw
  <2>5. Recursive(l)' = Recursive(l) \cup (IF c THEN {own} ELSE {})
    BY <1>2, <1>4, <2>1 DEF Recursive
  <2>6. Cardinality(Threw(l)') = Cardinality(Threw(l)) + (IF b THEN 1 ELSE 0)
    BY <2>2, <2>3, <2>4, CallsFinite, OneMore
  <2>7. Cardinality(Recursive(l)') = Cardinality(Recursive(l)) + (IF c THEN 1 ELSE 0)
    BY <2>2, <2>3, <2>5, CallsFinite, OneMore
  <2>8. NotSet(l)' = NotSet(l)
    BY <1>5 DEF NotSet
  <2>9. errors'[l] = errors[l] + (IF b THEN 1 ELSE 0) + (IF c THEN 1 ELSE 0)
    <3>1. errors \in [Loggers -> Nat]
      BY DEF TypeOK
    <3>2. CASE l # f.logger
      <4>1. ~b /\ ~c
        BY <2>1, <3>2
      <4>2. errors'[l] = errors[l] /\ errors[l] \in Nat
        BY <1>3, <1>5, <3>1, <3>2
      <4>3. QED
        BY ONLY <4>1, <4>2
    <3>3. CASE l = f.logger
      <4>1. (b <=> throws) /\ (c <=> outcome = "recursive")
        BY <2>1, <3>3
      <4>2. errors'[l] = errors[l] + (IF throws THEN 1 ELSE 0) + (IF outcome = "recursive" THEN 1 ELSE 0)
        BY <1>3, <1>5, <3>1, <3>3
      <4>3. QED
        BY ONLY <4>1, <4>2
    <3>4. QED
      BY <3>2, <3>3
  <2>10. /\ errors[l] = Cardinality(Threw(l)) + Cardinality(Recursive(l)) + NotSet(l)
         /\ Cardinality(Threw(l)) \in Nat /\ Cardinality(Recursive(l)) \in Nat /\ NotSet(l) \in Nat
    BY CallsFinite DEF ErrorsOK
  <2>11. QED
    BY <2>6, <2>7, <2>8, <2>9, <2>10
<1>7. QED
  BY <1>6 DEF ErrorsOK

\* A set that could not be published is counted, once and for all.
LEMMA SetSinksErrors ==
    ASSUME TypeOK, PublishOK, NEW t \in Keepers, NEW k \in Loggers, NEW fails \in BOOLEAN,
           SetSinks(t, k, fails), NEW l \in Loggers
    PROVE  NotSet(l)' + errors[l] = NotSet(l) + errors'[l]
<1>1. /\ k \in spare /\ spare' = spare \ {k} /\ wiring' = wiring
      /\ \/ active' = [active EXCEPT ![k] = wiring.second[k]] /\ errors' = errors
         \/ active' = active /\ errors' = [errors EXCEPT ![k] = @ + 1]
  BY DEF SetSinks
<1>2. wiring.second[k] # wiring.initial[k] /\ k \in wiring.replaced /\ active[k] = wiring.initial[k]
  BY <1>1, LoggerAssumption DEF TypeOK, PublishOK
<1>3. DOMAIN active = Loggers /\ DOMAIN errors = Loggers /\ errors[l] \in Nat
  BY DEF TypeOK
<1>4. CASE l # k
  BY <1>1, <1>3, <1>4 DEF NotSet
<1>5. CASE l = k
  BY <1>1, <1>2, <1>3, <1>5 DEF NotSet
<1>6. QED
  BY <1>4, <1>5

LEMMA ErrorsStep ==
    ASSUME TypeOK, StacksOK, FramesOK, PublishOK, ErrorsOK, [Next]_vars
    PROVE  ErrorsOK'
<1>1. CASE \E t \in Actors, throws \in BOOLEAN : Dispatch(t, throws)
  BY <1>1, DispatchErrors
<1>2. CASE ~ \E t \in Actors, throws \in BOOLEAN : Dispatch(t, throws)
  <2>1. \A l : Threw(l)' = Threw(l) /\ Recursive(l)' = Recursive(l)
    <3>1. /\ DOMAIN log \subseteq DOMAIN log' /\ \A r \in DOMAIN log : Told(r)
          /\ \A r \in DOMAIN log' \ DOMAIN log : log'[r].threw = FALSE /\ log'[r].outcome = "open"
      BY <1>2, CallsStay
    <3>2. QED
      BY <3>1 DEF Told, Threw, Recursive
  <2>2. ASSUME NEW l \in Loggers
        PROVE  NotSet(l)' + errors[l] = NotSet(l) + errors'[l]
    <3>1. CASE UNCHANGED <<active, spare, errors>>
      <4>1. NotSet(l)' = NotSet(l)
        BY <3>1, WhoPublishes DEF NotSet
      <4>2. QED
        BY <3>1, <4>1
    <3>2. QED
      BY <1>2, <3>1, SetSinksErrors, WhoPublishes
  <2>3. ASSUME NEW l \in Loggers
        PROVE  errors'[l] = Cardinality(Threw(l)') + Cardinality(Recursive(l)') + NotSet(l)'
    <3>1. /\ errors[l] = Cardinality(Threw(l)) + Cardinality(Recursive(l)) + NotSet(l)
          /\ Cardinality(Threw(l)) \in Nat /\ Cardinality(Recursive(l)) \in Nat /\ NotSet(l) \in Nat
      BY CallsFinite DEF ErrorsOK
    <3>2. errors'[l] \in Nat /\ NotSet(l)' \in Nat
      <4>1. NotSet(l)' \in Nat
        BY DEF NotSet
      <4>2. errors'[l] \in Nat
        BY TypeStep DEF TypeOK
      <4>3. QED
        BY <4>1, <4>2
    <3>3. QED
      BY <2>1, <2>2, <3>1, <3>2
  <2>4. QED
    BY <2>3 DEF ErrorsOK
<1>3. QED
  BY <1>1, <1>2

\* A step gives out copies of a record that is being logged, and of no other.
LEMMA CopiesStep ==
    ASSUME TypeOK, StacksOK, HandsOK, [Next]_vars
    PROVE  HandsOK' /\ \A s \in Sinks : \A r : r \notin DOMAIN log => Copies(r, s)' = Copies(r, s)
<1> DEFINE Goal == HandsOK' /\ \A s \in Sinks : \A r : r \notin DOMAIN log => Copies(r, s)' = Copies(r, s)
<1>1. ASSUME HandsOK', \A s \in Sinks : \A r : Copies(r, s)' = Copies(r, s)
      PROVE  Goal
  BY <1>1
<1>2. ASSUME NEW t \in Actors, frames[t] # <<>>, Open(Top(t)), HandsOK', NEW z,
             \A s \in Sinks : \A r : Copies(r, s)' = Copies(r, s) + One(s = z /\ r = Record(Top(t)))
      PROVE  Goal
  <2>1. Record(Top(t)) \in DOMAIN log
    BY <1>2, TopFacts, OpenRecord
  <2>2. ASSUME NEW s \in Sinks, NEW r, r \notin DOMAIN log
        PROVE  Copies(r, s)' = Copies(r, s)
    <3>1. One(s = z /\ r = Record(Top(t))) = 0
      BY <2>1, <2>2 DEF One
    <3>2. Copies(r, s)' = Copies(r, s) + One(s = z /\ r = Record(Top(t))) /\ Copies(r, s) \in Nat
      BY <1>2, CopiesTyped
    <3>3. QED
      BY ONLY <3>1, <3>2
  <2>3. QED
    BY <1>2, <2>2
<1> HIDE DEF Goal
<1>3. ASSUME NEW t \in Actors, NEW z \in PlainSinks, WritePlain(t, z)
      PROVE  Goal
  <2>1. frames[t] # <<>> /\ Open(Top(t))
    BY <1>3 DEF WritePlain, Reaches, TopAt, Open
  <2>2. /\ HandsOK'
        /\ \A s \in Sinks : \A r : Copies(r, s)' = Copies(r, s) + One(s = z /\ r = Record(Top(t)))
    BY <1>3, WritePlainCopies
  <2>3. QED
    BY <1>2, <2>1, <2>2
<1>4. ASSUME NEW t \in Actors, NEW z \in AsyncSinks, WriteAsync(t, z)
      PROVE  Goal
  <2>1. frames[t] # <<>> /\ Open(Top(t))
    BY <1>4 DEF WriteAsync, Reaches, TopAt, Open
  <2>2. QED
    BY <1>1, <1>2, <1>4, <2>1, WriteAsyncCopies
<1>5. ASSUME NEW t \in Actors, Continue(t)
      PROVE  Goal
  <2>1. CASE \/ \E throws \in BOOLEAN : Dispatch(t, throws)
             \/ Skip(t) \/ WriteReturns(t) \/ Release(t)
             \/ \E z \in Sinks : FlushSink(t, z) \/ DestroySink(t, z)
    BY <1>1, <2>1, QuietCopies
  <2>2. CASE \E z \in AsyncSinks : Deliver(t, z)
    BY <1>1, <2>2, DeliverCopies
  <2>3. QED
    BY <1>3, <1>4, <1>5, <2>1, <2>2 DEF Continue
<1>6. ASSUME NEW z \in AsyncSinks, Dequeue(z)
      PROVE  Goal
  BY <1>1, <1>6, DequeueCopies
<1>7. ASSUME NEW t \in Actors, NEW l \in Loggers,
             Log(t, l) \/ Flush(t, l) \/ \E fails \in BOOLEAN : SetSinks(t, l, fails)
      PROVE  Goal
  BY <1>1, <1>7, BeginCopies
<1>8. ASSUME UNCHANGED vars
      PROVE  Goal
  <2>1. UNCHANGED <<frames, queue, written>>
    BY <1>8 DEF vars, channels
  <2>2. Places' = Places
    BY <2>1 DEF Places
  <2>3. \A r, s : Hands(r, s)' = Hands(r, s)
    BY <2>1, <2>2 DEF Hands, Locks, Delivers, FrameAt
  <2>4. HandsOK'
    BY <2>1, <2>2, <2>3 DEF HandsOK, FrameAt, Record
  <2>5. \A r, s : Copies(r, s)' = Copies(r, s)
    BY <2>1 DEF Copies, Count, InHand, Delivers
  <2>6. \A s \in Sinks : \A r : Copies(r, s)' = Copies(r, s)
    BY <2>5
  <2>7. QED
    BY <1>1, <2>4, <2>6
<1>9. Keepers \subseteq Actors
  BY LoggerAssumption DEF Actors
<1>10. Goal
  BY <1>5, <1>6, <1>7, <1>8, <1>9 DEF Next
<1>11. QED
  BY <1>10 DEF Goal

LEMMA FreshStep ==
    ASSUME TypeOK, StacksOK, HandsOK, FreshOK, [Next]_vars
    PROVE  FreshOK'
<1>1. DOMAIN log \subseteq DOMAIN log'
  <2>1. CASE \E t \in Actors, throws \in BOOLEAN : Dispatch(t, throws)
    BY <2>1, DispatchTold
  <2>2. CASE ~ \E t \in Actors, throws \in BOOLEAN : Dispatch(t, throws)
    BY <2>2, CallsStay
  <2>3. QED
    BY <2>1, <2>2
<1>2. ASSUME NEW r, r \notin DOMAIN log', NEW s \in Sinks
      PROVE  Copies(r, s)' = 0
  BY <1>1, <1>2, CopiesStep DEF FreshOK
<1>3. QED
  BY <1>2 DEF FreshOK

LEMMA RecordsStep ==
    ASSUME TypeOK, StacksOK, HandsOK, FramesOK, CallsOK, PublishOK, FreshOK, [Next]_vars
    PROVE  FramesOK' /\ CallsOK'
<1>1. ASSUME NEW t \in Actors, Continue(t)
      PROVE  FramesOK' /\ CallsOK'
  <2>1. CASE \E z \in Sinks : DestroySink(t, z)
    BY <2>1, OtherCallsRecords
  <2>2. QED
    BY <1>1, <2>1, DispatchRecords, QuietRecords, ReleaseRecords, WritePlainRecords, WriteAsyncRecords
       DEF Continue
<1>2. ASSUME NEW z \in AsyncSinks, Dequeue(z)
      PROVE  FramesOK' /\ CallsOK'
  BY <1>2, OtherCallsRecords DEF Actors
<1>3. ASSUME NEW t \in Actors, NEW l \in Loggers,
             Log(t, l) \/ Flush(t, l) \/ \E fails \in BOOLEAN : SetSinks(t, l, fails)
      PROVE  FramesOK' /\ CallsOK'
  BY <1>3, LogRecords, OtherCallsRecords, SetSinksRecords
<1>4. CASE UNCHANGED vars
  <2>1. UNCHANGED <<frames, queue, written, active, log>>
    BY <1>4 DEF vars, channels
  <2>2. Places' = Places /\ \A x : FrameAt(x)' = FrameAt(x)
    BY <2>1 DEF Places, FrameAt
  <2>3. \A r, s : Copies(r, s)' = Copies(r, s)
    BY <2>1 DEF Copies, Count, InHand, Delivers
  <2>4. \A r : Has(r)' = Has(r) /\ Now(r)' = Now(r)
    BY <2>1, <2>3 DEF Has, Now
  <2>5. FramesOK'
    BY <2>1, <2>2, <2>4 DEF FramesOK, Open, Entitled, Fits, Passes
  <2>6. CallsOK'
    BY <2>1, <2>4 DEF CallsOK, Closed, Fits
  <2>7. QED
    BY <2>5, <2>6
<1>5. Keepers \subseteq Actors
  BY LoggerAssumption DEF Actors
<1>6. QED
  BY <1>1, <1>2, <1>3, <1>4, <1>5 DEF Next

\* The records, in each of their places, and what is told of them.
RecordsInv == HandsOK /\ FramesOK /\ CallsOK /\ PublishOK /\ FreshOK /\ ErrorsOK

LEMMA RecordsInvStep ==
    ASSUME TypeOK, StacksOK, RecordsInv, [Next]_vars
    PROVE  RecordsInv'
BY CopiesStep, RecordsStep, PublishStep, FreshStep, ErrorsStep DEF RecordsInv

LEMMA RecordsInit == Init => RecordsInv
<1> SUFFICES ASSUME Init  PROVE RecordsInv
  OBVIOUS
<1>1. Places = {} /\ DOMAIN log = {}
  BY DEF Init, Places
<1>2. \A r, s : Hands(r, s) = {}
  BY <1>1 DEF Hands
<1>3. HandsOK
  BY <1>1, <1>2, FS_EmptySet DEF HandsOK
<1>4. FramesOK /\ CallsOK
  BY <1>1 DEF FramesOK, CallsOK
<1>5. PublishOK
  BY <1>1 DEF Init, PublishOK
<1>6. \A r : Count(r, <<>>) = 0
  <2>1. \A r : {i \in DOMAIN <<>> : <<>>[i] = r} = {}
    OBVIOUS
  <2>2. QED
    BY <2>1, FS_EmptySet DEF Count
<1>7. FreshOK
  <2> SUFFICES ASSUME NEW r, NEW s \in Sinks  PROVE Copies(r, s) = 0
    BY DEF FreshOK
  <2>1. InHand(r, s) = 0
    BY <1>2, HandsAre, FS_EmptySet
  <2>2. written[s] = <<>> /\ (s \in AsyncSinks => queue[s] = <<>>)
    BY DEF Init
  <2>3. QED
    BY <1>6, <2>1, <2>2 DEF Copies
<1>8. ErrorsOK
  <2> SUFFICES ASSUME NEW l \in Loggers
               PROVE  errors[l] = Cardinality(Threw(l)) + Cardinality(Recursive(l)) + NotSet(l)
    BY DEF ErrorsOK
  <2>1. Threw(l) = {} /\ Recursive(l) = {}
    BY <1>1 DEF Threw, Recursive
  <2>2. NotSet(l) = 0 /\ errors[l] = 0
    BY DEF Init, NotSet
  <2>3. QED
    BY <2>1, <2>2, FS_EmptySet
<1>9. QED
  BY <1>3, <1>4, <1>5, <1>7, <1>8 DEF RecordsInv

LEMMA RecordsInvImplies ==
    ASSUME TypeOK, StacksOK, RecordsInv
    PROVE  RecordsAccounted
<1>1. ASSUME NEW r \in DOMAIN log, NEW call, call = log[r], NEW now, now = active[call.logger]
      PROVE  /\ call.outcome = "dispatched" =>
                    \E set \in {call.since, now} : \A s \in Sinks :
                        \/ Copies(r, s) = Count(s, set)
                        \/ s \in call.refusedBy /\ Copies(r, s) < Count(s, set)
             /\ call.outcome = "no sinks" => <<>> \in {call.since, now}
             /\ call.outcome \in {"no sinks", "recursive"} => \A s \in Sinks : Copies(r, s) = 0
  <2>1. Closed(call, now, Has(r))
    BY <1>1 DEF RecordsInv, CallsOK, Now
  <2>2. \A s \in Sinks : Has(r)[s] = Copies(r, s)
    BY DEF Has
  <2>3. QED
    BY <2>1, <2>2 DEF Closed, Fits
<1>2. QED
  BY <1>1 DEF RecordsInv, ErrorsOK, Threw, Recursive, NotSet, RecordsAccounted

\* A call of Log ends up, once for each place, in the sinks of one set that was published
\* while it ran, or in none and is counted, unless there was no sink, whoever replaces the
\* sets meanwhile and however builder functions, sinks and workers nest their calls; the
\* error counter is the builders that threw, the recursive calls and the sets not published.
THEOREM EveryCallAccounted == Spec => []RecordsAccounted
<1>1. TypeOK /\ StacksOK /\ RecordsInv /\ [Next]_vars => RecordsInv'
  BY RecordsInvStep
<1>2. TypeOK /\ StacksOK /\ RecordsInv => RecordsAccounted
  BY RecordsInvImplies
<1>3. QED
  BY <1>1, <1>2, RecordsInit, TypeCorrect, StacksInvariant, PTL DEF Spec
=============================================================================
