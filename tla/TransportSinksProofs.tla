------------------------- MODULE TransportSinksProofs -------------------------
(***************************************************************************)
(* Theorems of TransportSinks, for any threads, records and options, and   *)
(* any number of crashes, failed calls of fopen and files moved away: its  *)
(* types, that lines stay whole, and which records survive.                *)
(*                                                                         *)
(* StreamEffect says what a step does to the texts of a stream, in five    *)
(* cases: nothing, a line more, a file more, a file cut to nothing, an end *)
(* lost.  The invariants about texts are proved from these cases.          *)
(***************************************************************************)
EXTENDS TransportSinks, FiniteSetTheorems, SequenceTheorems, TLAPS

-----------------------------------------------------------------------------
(* Sequences.                                                              *)

\* The two parts a sequence is divided into.
LEMMA Divided ==
    ASSUME NEW S, NEW t \in Seq(S), NEW n \in 0 .. Len(t)
    PROVE  /\ SubSeq(t, 1, n) \in Seq(S) /\ Len(SubSeq(t, 1, n)) = n
           /\ \A i \in 1 .. n : SubSeq(t, 1, n)[i] = t[i]
           /\ SubSeq(t, n + 1, Len(t)) \in Seq(S) /\ Len(SubSeq(t, n + 1, Len(t))) = Len(t) - n
           /\ \A i \in 1 .. Len(t) - n : SubSeq(t, n + 1, Len(t))[i] = t[n + i]
           /\ SubSeq(t, 1, n) \o SubSeq(t, n + 1, Len(t)) = t
<1>1. Len(t) \in Nat /\ n \in Nat /\ n <= Len(t) /\ \A i \in 1 .. Len(t) : t[i] \in S
  OBVIOUS
<1>2. /\ SubSeq(t, 1, n) \in Seq(S)
      /\ Len(SubSeq(t, 1, n)) = IF 1 <= n THEN n - 1 + 1 ELSE 0
      /\ \A i \in 1 .. n - 1 + 1 : SubSeq(t, 1, n)[i] = t[1 + i - 1]
  <2>1. \A i \in 1 .. n : t[i] \in S
    BY <1>1
  <2>2. 1 \in Int /\ n \in Int
    BY <1>1
  <2>3. QED
    BY <2>1, <2>2, SubSeqProperties
<1>3. /\ SubSeq(t, n + 1, Len(t)) \in Seq(S)
      /\ Len(SubSeq(t, n + 1, Len(t))) = IF n + 1 <= Len(t) THEN Len(t) - (n + 1) + 1 ELSE 0
      /\ \A i \in 1 .. Len(t) - (n + 1) + 1 : SubSeq(t, n + 1, Len(t))[i] = t[n + 1 + i - 1]
  <2>1. \A i \in n + 1 .. Len(t) : t[i] \in S
    BY <1>1
  <2>2. n + 1 \in Int /\ Len(t) \in Int
    BY <1>1
  <2>3. QED
    BY <2>1, <2>2, SubSeqProperties
<1>4. SubSeq(t, 1, n) \o SubSeq(t, n + 1, Len(t)) = t
  <2>1. 1 \in 1 .. Len(t) + 1 /\ n \in 1 - 1 .. Len(t) /\ Len(t) \in n .. Len(t)
    BY <1>1
  <2>2. SubSeq(t, 1, n) \o SubSeq(t, n + 1, Len(t)) = SubSeq(t, 1, Len(t))
    BY <2>1, ConcatAdjacentSubSeq
  <2>3. QED
    BY <2>2, SubSeqFull
<1> DEFINE first == SubSeq(t, 1, n)
           rest  == SubSeq(t, n + 1, Len(t))
<1> HIDE DEF first, rest
<1>5. first \in Seq(S) /\ Len(first) = n /\ \A i \in 1 .. n : first[i] = t[i]
  BY <1>1, <1>2 DEF first
<1>6. /\ rest \in Seq(S) /\ Len(rest) = Len(t) - n
      /\ \A i \in 1 .. Len(t) - n : rest[i] = t[n + i]
  <2>1. \A i \in 1 .. Len(t) - n : i \in 1 .. Len(t) - (n + 1) + 1 /\ n + 1 + i - 1 = n + i
    BY <1>1
  <2>2. QED
    BY <1>1, <1>3, <2>1 DEF rest
<1>7. QED
  BY <1>4, <1>5, <1>6 DEF first, rest

\* One element replaced.
LEMMA Replaced ==
    ASSUME NEW S, NEW t \in Seq(S), NEW i, NEW e \in S
    PROVE  /\ [t EXCEPT ![i] = e] \in Seq(S) /\ Len([t EXCEPT ![i] = e]) = Len(t)
           /\ \A j \in 1 .. Len(t) : [t EXCEPT ![i] = e][j] = IF j = i THEN e ELSE t[j]
<1>1. CASE i \in 1 .. Len(t)
  BY <1>1, ExceptSeq
<1>2. CASE i \notin 1 .. Len(t)
  <2>1. t \in [1 .. Len(t) -> S] /\ Len(t) \in Nat
    BY LenProperties
  <2>2. [t EXCEPT ![i] = e] = t
    BY <1>2, <2>1
  <2>3. QED
    BY <1>2, <2>2
<1>3. QED
  BY <1>1, <1>2

\* The head and the tail of a line.
LEMMA LineFacts ==
    ASSUME NEW r \in Records, NEW second \in Int
    PROVE  /\ Line(r, second) \in Seq(Halves) /\ Len(Line(r, second)) = 2
           /\ Line(r, second)[1] = [record |-> r, part |-> "head", second |-> second]
           /\ Line(r, second)[2] = [record |-> r, part |-> "tail", second |-> second]
  BY DEF Line, Halves

-----------------------------------------------------------------------------
(* Types.                                                                  *)

FileSystemType ==
    /\ files \in Seq(Seq(Halves)) /\ {atPath, handle} \subseteq 0 .. Len(files)
    /\ buffer \in [Streams -> Seq(Halves)] /\ console \in [{"stdout", "stderr"} -> Seq(Halves)]

LEMMA RecordsInText ==
    ASSUME NEW t \in Seq(Halves)
    PROVE  RecordsIn(t) \subseteq Records
<1>1. \A i \in DOMAIN t : t[i] \in Halves
  OBVIOUS
<1>2. QED
  BY <1>1 DEF RecordsIn, Halves

LEMMA StreamTypes ==
    /\ \A r, k : StreamOf(r, k) \in Streams
    /\ \A r, k : StreamOf(r, k) = "file" <=> k = "file"
  BY DEF StreamOf, Streams

LEMMA OpenTypes ==
    ASSUME TypeOK, Open
    PROVE  /\ files' \in Seq(Seq(Halves)) /\ {atPath', handle'} \subseteq 0 .. Len(files')
           /\ cut' \subseteq Records /\ opens' \in Nat
<1>1. files \in Seq(Seq(Halves)) /\ Len(files) \in Nat /\ atPath \in 0 .. Len(files)
  BY DEF TypeOK
<1>2. CASE atPath = 0
  <2>1. files' = Append(files, <<>>) /\ atPath' = Len(files) + 1 /\ handle' = atPath' /\ cut' = cut
    BY <1>2 DEF Open
  <2>2. files' \in Seq(Seq(Halves)) /\ Len(files') = Len(files) + 1
    BY <1>1, <2>1
  <2>3. QED
    BY <1>1, <2>1, <2>2 DEF Open, TypeOK
<1>3. CASE atPath # 0
  <2>1. files' \in Seq(Seq(Halves)) /\ Len(files') = Len(files)
    <3>1. files' = files \/ files' = [files EXCEPT ![atPath] = <<>>]
      BY <1>3 DEF Open
    <3>2. <<>> \in Seq(Halves)
      OBVIOUS
    <3> DEFINE emptied == [files EXCEPT ![atPath] = <<>>]
    <3>3. emptied \in Seq(Seq(Halves)) /\ Len(emptied) = Len(files)
      <4>1. atPath \in 1 .. Len(files)
        BY <1>1, <1>3
      <4>2. QED
        BY <1>1, <3>2, <4>1, ExceptSeq
    <3> HIDE DEF emptied
    <3>4. files' = files \/ files' = emptied
      BY <3>1 DEF emptied
    <3>5. QED
      BY <1>1, <3>3, <3>4
  <2>2. RecordsIn(files[atPath]) \subseteq Records
    BY <1>1, <1>3, RecordsInText
  <2>3. cut' \subseteq Records
    BY <1>3, <2>2 DEF Open, TypeOK
  <2>4. opens' = opens + 1 /\ atPath' = atPath /\ handle' = atPath /\ opens \in Nat
    BY <1>3 DEF Open, TypeOK
  <2>5. QED
    BY <1>1, <2>1, <2>3, <2>4
<1>4. QED
  BY <1>2, <1>3

LEMMA OpenFailsTypes ==
    ASSUME TypeOK, OpenFails
    PROVE  handle' = 0 /\ files' = files /\ atPath' = atPath /\ cut' = cut /\ opens' \in Nat
  BY DEF TypeOK, OpenFails

LEMMA PassOnTypes ==
    ASSUME TypeOK, NEW s \in Streams, NEW text \in Seq(Halves), NEW n \in 0 .. Len(text),
           PassOn(s, text, n)
    PROVE  /\ files' \in Seq(Seq(Halves)) /\ Len(files') = Len(files)
           /\ buffer' \in [Streams -> Seq(Halves)]
           /\ console' \in [{"stdout", "stderr"} -> Seq(Halves)]
<1> DEFINE first == SubSeq(text, 1, n)
           rest  == SubSeq(text, n + 1, Len(text))
<1>1. first \in Seq(Halves) /\ rest \in Seq(Halves)
  BY Divided
<1>2. buffer' = [buffer EXCEPT ![s] = rest]
  BY DEF PassOn
<1>3. s = "file" => files' = [files EXCEPT ![handle] = @ \o first] /\ console' = console
  BY DEF PassOn
<1>4. s # "file" => console' = [console EXCEPT ![s] = @ \o first] /\ files' = files
  BY DEF PassOn
<1> HIDE DEF first, rest
<1>5. buffer' \in [Streams -> Seq(Halves)]
  BY <1>1, <1>2 DEF TypeOK
<1>6. files \in Seq(Seq(Halves)) /\ console \in [{"stdout", "stderr"} -> Seq(Halves)]
  BY DEF TypeOK
<1>7. CASE s # "file"
  <2>1. s \in {"stdout", "stderr"} /\ console[s] \o first \in Seq(Halves)
    BY <1>1, <1>6, <1>7 DEF Streams
  <2>2. console' \in [{"stdout", "stderr"} -> Seq(Halves)]
    BY <1>4, <1>6, <1>7, <2>1
  <2>3. QED
    BY <1>4, <1>5, <1>6, <1>7, <2>2
<1>8. CASE s = "file"
  <2>1. CASE handle \in 1 .. Len(files)
    <3>1. files[handle] \o first \in Seq(Halves)
      BY <1>1, <1>6, <2>1
    <3>2. files' = [files EXCEPT ![handle] = files[handle] \o first] /\ console' = console
      BY <1>3, <1>8
    <3>3. files' \in Seq(Seq(Halves)) /\ Len(files') = Len(files)
      BY <1>6, <3>1, <3>2, Replaced
    <3>4. QED
      BY <1>5, <1>6, <3>2, <3>3
  <2>2. CASE handle \notin 1 .. Len(files)
    <3>1. files' = files
      BY <1>3, <1>6, <1>8, <2>2
    <3>2. QED
      BY <1>3, <1>5, <1>6, <1>8, <3>1
  <2>3. QED
    BY <2>1, <2>2
<1>9. QED
  BY <1>7, <1>8

\* What Close and Stop make of the files.
LEMMA ClosedFiles ==
    ASSUME TypeOK
    PROVE  LET closed == IF handle = 0 THEN files ELSE [files EXCEPT ![handle] = @ \o buffer["file"]]
           IN  closed \in Seq(Seq(Halves)) /\ Len(closed) = Len(files)
<1>1. files \in Seq(Seq(Halves)) /\ handle \in 0 .. Len(files) /\ buffer["file"] \in Seq(Halves)
  BY DEF TypeOK, Streams
<1>2. CASE handle = 0
  BY <1>1, <1>2
<1>3. CASE handle # 0
  <2>1. files[handle] \o buffer["file"] \in Seq(Halves)
    BY <1>1, <1>3
  <2>2. QED
    BY <1>1, <1>3, <2>1, Replaced
<1>4. QED
  BY <1>2, <1>3

\* The parts of TypeOK that most steps leave alone.
TasksType ==
    /\ options \in Configurations /\ up \in BOOLEAN
    /\ pc \in [Threads -> {"idle", "fill", "stamp", "put", "open"}]
    /\ task \in [Threads -> [record : Records, sink : SinkNames]]
CacheType ==
    /\ cache \in [second : Int, parts : Int]
    /\ scratch \in [SinkNames -> Seq(Halves)]
HistoryType ==
    /\ begun \subseteq Records /\ {crashes, moves, opens} \subseteq Nat
    /\ given \in [Streams -> Seq(Records)]
    /\ {safe, lost, cut} \subseteq SUBSET Records

LEMMA TypeParts == TypeOK <=> TasksType /\ CacheType /\ FileSystemType /\ HistoryType
  BY DEF TypeOK, TasksType, CacheType, FileSystemType, HistoryType

\* TypeOK: every variable has its type, and only a file that exists is named or open.
THEOREM TypesHold == Spec => []TypeOK
<1>1. Init => TypeOK
  <2> SUFFICES ASSUME Init PROVE TypeOK
    OBVIOUS
  <2>1. NoTask \in [record : Records, sink : SinkNames]
    BY TransportSinksAssumption DEF NoTask, SinkNames
  <2>2. TasksType
    BY <2>1 DEF Init, TasksType
  <2>3. CacheType
    BY DEF Init, CacheType, NewCache, Empty
  <2>4. FileSystemType
    BY DEF Init, FileSystemType
  <2>5. HistoryType
    BY DEF Init, HistoryType
  <2>6. QED
    BY <2>2, <2>3, <2>4, <2>5, TypeParts
<1>2. TypeOK /\ [Next]_vars => TypeOK'
  <2> SUFFICES ASSUME TypeOK, [Next]_vars PROVE TypeOK'
    OBVIOUS
  <2>0. TasksType /\ CacheType /\ FileSystemType /\ HistoryType
    BY TypeParts
  <2>h. SUFFICES TasksType' /\ CacheType' /\ FileSystemType' /\ HistoryType'
    BY DEF TypeOK, TasksType, CacheType, FileSystemType, HistoryType
  <2> USE DEF threadVars, fileVars, history
  <2>1. ASSUME NEW t \in Threads, NEW k \in SinkNames, NEW r \in Records, Write(t, k, r)
        PROVE  TasksType' /\ CacheType' /\ FileSystemType' /\ HistoryType'
    <3>1. TasksType'
      BY <2>0, <2>1 DEF Write, TasksType
    <3>2. CacheType' /\ FileSystemType'
      BY <2>0, <2>1 DEF Write, CacheType, FileSystemType
    <3>3. HistoryType'
      BY <2>0, <2>1 DEF Write, HistoryType
    <3>4. QED
      BY <3>1, <3>2, <3>3
  <2>2. ASSUME NEW t \in Threads, Fill(t)
        PROVE  TasksType' /\ CacheType' /\ FileSystemType' /\ HistoryType'
    <3>1. TasksType' /\ FileSystemType' /\ HistoryType'
      BY <2>0, <2>2 DEF Fill, TasksType, FileSystemType, HistoryType
    <3>2. Second[task[t].record] \in Int
      BY <2>0, <2>2, TransportSinksAssumption DEF TasksType
    <3>3. CacheType'
      BY <2>0, <2>2, <3>2 DEF Fill, CacheType
    <3>4. QED
      BY <3>1, <3>3
  <2>3. ASSUME NEW t \in Threads, Stamp(t)
        PROVE  TasksType' /\ CacheType' /\ FileSystemType' /\ HistoryType'
    <3>1. TasksType' /\ FileSystemType' /\ HistoryType'
      BY <2>0, <2>3 DEF Stamp, TasksType, FileSystemType, HistoryType
    <3>2. /\ task[t].record \in Records /\ task[t].sink \in SinkNames
          /\ Second[task[t].record] \in Int /\ cache.parts \in Int
      BY <2>0, <2>3, TransportSinksAssumption DEF TasksType, CacheType
    <3>3. \A second \in Int : Line(task[t].record, second) \in Seq(Halves)
      BY <3>2, LineFacts
    <3>4. CacheType'
      BY <2>0, <2>3, <3>2, <3>3 DEF Stamp, CacheType
    <3>5. QED
      BY <3>1, <3>4
  <2>4. ASSUME NEW t \in Threads, OpenToWrite(t)
        PROVE  TasksType' /\ CacheType' /\ FileSystemType' /\ HistoryType'
    <3>1. TasksType' /\ CacheType'
      BY <2>0, <2>4 DEF OpenToWrite, TasksType, CacheType
    <3>2. FileSystemType' /\ HistoryType'
      <4>1. CASE Open
        BY <2>0, <2>4, <4>1, OpenTypes DEF OpenToWrite, FileSystemType, HistoryType
      <4>2. CASE OpenFails
        BY <2>0, <2>4, <4>2, OpenFailsTypes DEF OpenToWrite, FileSystemType, HistoryType
      <4>3. QED
        BY <2>4, <4>1, <4>2 DEF OpenToWrite
    <3>3. QED
      BY <3>1, <3>2
  <2>5. ASSUME NEW t \in Threads, Put(t)
        PROVE  TasksType' /\ CacheType' /\ FileSystemType' /\ HistoryType'
    <3> DEFINE r == task[t].record
               k == task[t].sink
               s == StreamOf(r, k)
               text == buffer[s] \o scratch[k]
               n == IF Through(s, k) THEN Len(text) ELSE 0
    <3>1. r \in Records /\ k \in SinkNames /\ s \in Streams
      BY <2>0, <2>5, StreamTypes DEF TasksType
    <3>2. text \in Seq(Halves)
      BY <2>0, <3>1 DEF FileSystemType, CacheType
    <3>3. n \in 0 .. Len(text)
      <4>1. n = Len(text) \/ n = 0
        OBVIOUS
      <4> HIDE DEF n, text
      <4>2. QED
        BY <3>2, <4>1
    <3>4. /\ PassOn(s, text, n) /\ pc' = [pc EXCEPT ![t] = "idle"]
          /\ given' = [given EXCEPT ![s] = Append(@, r)] /\ safe' \in {safe, safe \cup {r}}
          /\ UNCHANGED <<options, up, task, scratch, cache, atPath, handle, begun, crashes, moves,
                         opens, lost, cut>>
      BY <2>5 DEF Put
    <3> HIDE DEF r, k, s, text, n
    <3>5. TasksType' /\ CacheType'
      BY <2>0, <3>4 DEF TasksType, CacheType
    <3>6. FileSystemType'
      BY <2>0, <3>1, <3>2, <3>3, <3>4, PassOnTypes DEF FileSystemType
    <3>7. HistoryType'
      BY <2>0, <3>1, <3>4 DEF HistoryType
    <3>8. QED
      BY <3>5, <3>6, <3>7
  <2>6. ASSUME NEW t \in Threads, Reopen(t)
        PROVE  TasksType' /\ CacheType' /\ FileSystemType' /\ HistoryType'
    <3>1. TasksType' /\ CacheType' /\ HistoryType'
      BY <2>0, <2>6 DEF Reopen, TasksType, CacheType, HistoryType, SinkNames
    <3>2. files' \in Seq(Seq(Halves)) /\ Len(files') = Len(files)
      BY <2>6, ClosedFiles DEF Reopen, Close
    <3>3. FileSystemType'
      <4>1. buffer' \in [Streams -> Seq(Halves)]
        <5>1. buffer' = [buffer EXCEPT !["file"] = <<>>] /\ buffer \in [Streams -> Seq(Halves)]
          BY <2>0, <2>6 DEF Reopen, Close, FileSystemType
        <5>2. <<>> \in Seq(Halves)
          OBVIOUS
        <5>3. QED
          BY ONLY <5>1, <5>2
      <4>2. QED
        BY <2>0, <2>6, <3>2, <4>1 DEF Reopen, Close, FileSystemType
    <3>4. QED
      BY <3>1, <3>3
  <2>7. ASSUME NEW t \in Threads, ReopenOpen(t)
        PROVE  TasksType' /\ CacheType' /\ FileSystemType' /\ HistoryType'
    <3>1. TasksType' /\ CacheType'
      BY <2>0, <2>7 DEF ReopenOpen, TasksType, CacheType
    <3>2. FileSystemType' /\ HistoryType'
      <4>1. CASE Open
        BY <2>0, <2>7, <4>1, OpenTypes DEF ReopenOpen, FileSystemType, HistoryType
      <4>2. CASE OpenFails
        BY <2>0, <2>7, <4>2, OpenFailsTypes DEF ReopenOpen, FileSystemType, HistoryType
      <4>3. QED
        BY <2>7, <4>1, <4>2 DEF ReopenOpen
    <3>3. QED
      BY <3>1, <3>2
  <2>8. ASSUME NEW k \in SinkNames, Flush(k)
        PROVE  TasksType' /\ CacheType' /\ FileSystemType' /\ HistoryType'
    <3>1. TasksType' /\ CacheType'
      BY <2>0, <2>8 DEF Flush, TasksType, CacheType
    <3>2. HistoryType'
      <4>1. \A s \in Streams : ToSet(given[s]) \subseteq Records
        BY <2>0 DEF HistoryType, ToSet
      <4>2. safe' \subseteq Records
        BY <2>0, <2>8, <4>1 DEF Flush, HistoryType, Streams
      <4>3. QED
        BY <2>0, <2>8, <4>2 DEF Flush, HistoryType
    <3>3. FileSystemType'
      <4>1. CASE UNCHANGED <<buffer, files, console>>
        BY <2>0, <2>8, <4>1 DEF Flush, FileSystemType
      <4>2. PICK s \in Streams : \/ UNCHANGED <<buffer, files, console>>
                                 \/ PassOn(s, buffer[s], Len(buffer[s]))
        BY <2>8 DEF Flush, Streams
      <4>3. buffer[s] \in Seq(Halves) /\ Len(buffer[s]) \in 0 .. Len(buffer[s])
        BY <2>0 DEF FileSystemType
      <4>4. CASE PassOn(s, buffer[s], Len(buffer[s]))
        BY <2>0, <2>8, <4>3, <4>4, PassOnTypes DEF Flush, FileSystemType
      <4>5. QED
        BY <4>1, <4>2, <4>4
    <3>4. QED
      BY <3>1, <3>2, <3>3
  <2>9. ASSUME NEW s \in Streams, NEW n \in 1 .. Len(buffer[s]) - 1, Spill(s, n)
        PROVE  TasksType' /\ CacheType' /\ FileSystemType' /\ HistoryType'
    <3>1. TasksType' /\ CacheType' /\ HistoryType'
      BY <2>0, <2>9 DEF Spill, TasksType, CacheType, HistoryType
    <3>2. buffer[s] \in Seq(Halves) /\ n \in 0 .. Len(buffer[s])
      BY <2>0 DEF FileSystemType
    <3>3. FileSystemType'
      BY <2>0, <2>9, <3>2, PassOnTypes DEF Spill, FileSystemType
    <3>4. QED
      BY <3>1, <3>3
  <2>10. CASE Start
    <3>1. TasksType' /\ CacheType'
      BY <2>0, <2>10 DEF Start, TasksType, CacheType, NewCache, Empty
    <3>2. FileSystemType' /\ HistoryType'
      <4>1. CASE Open
        BY <2>0, <2>10, <4>1, OpenTypes DEF Start, FileSystemType, HistoryType
      <4>2. CASE OpenFails
        BY <2>0, <2>10, <4>2, OpenFailsTypes DEF Start, FileSystemType, HistoryType
      <4>3. QED
        BY <2>10, <4>1, <4>2 DEF Start
    <3>3. QED
      BY <3>1, <3>2
  <2>11. CASE Stop
    <3>1. TasksType' /\ CacheType' /\ HistoryType'
      BY <2>0, <2>11 DEF Stop, TasksType, CacheType, HistoryType
    <3>2. files' \in Seq(Seq(Halves)) /\ Len(files') = Len(files)
      BY <2>11, ClosedFiles DEF Stop
    <3>3. console["stdout"] \o buffer["stdout"] \in Seq(Halves)
      BY <2>0 DEF FileSystemType, Streams
    <3>4. buffer' \in [Streams -> Seq(Halves)] /\ console' \in [{"stdout", "stderr"} -> Seq(Halves)]
      BY <2>0, <2>11, <3>3 DEF Stop, FileSystemType
    <3>5. FileSystemType'
      BY <2>0, <2>11, <3>2, <3>4 DEF Stop, FileSystemType
    <3>6. QED
      BY <3>1, <3>5
  <2>12. CASE Crash
    <3>1. TasksType' /\ CacheType'
      BY <2>0, <2>12 DEF Crash, TasksType, CacheType
    <3>2. buffer' \in [Streams -> Seq(Halves)]
      BY <2>12 DEF Crash
    <3>3. FileSystemType'
      BY <2>0, <2>12, <3>2 DEF Crash, FileSystemType
    <3>4. \A s \in Streams : RecordsIn(buffer[s]) \subseteq Records
      BY <2>0, RecordsInText DEF FileSystemType
    <3>5. HistoryType'
      BY <2>0, <2>12, <3>4 DEF Crash, HistoryType
    <3>6. QED
      BY <3>1, <3>3, <3>5
  <2>13. CASE MoveAway
    <3>1. TasksType' /\ CacheType' /\ HistoryType'
      BY <2>0, <2>13 DEF MoveAway, TasksType, CacheType, HistoryType
    <3>2. FileSystemType'
      BY <2>0, <2>13 DEF MoveAway, FileSystemType
    <3>3. QED
      BY <3>1, <3>2
  <2>14. CASE UNCHANGED vars
    BY <2>0, <2>14 DEF vars, TasksType, CacheType, FileSystemType, HistoryType
  <2>15. QED
    BY <2>1, <2>2, <2>3, <2>4, <2>5, <2>6, <2>7, <2>8, <2>9, <2>10, <2>11, <2>12, <2>13, <2>14
    DEF Next
<1>3. QED
  BY <1>1, <1>2, PTL DEF Spec

-----------------------------------------------------------------------------
(* Mutexes, the open file, the timestamp cache.                            *)

\* No two threads are in one sink.
LocksOK ==
    \A t, u \in Threads :
        t # u /\ pc[t] # "idle" /\ pc[u] # "idle" => task[t].sink # task[u].sink

\* The file that is named and the one that is open are the last one created; nothing is
\* buffered for a file that is not open, nor for stderr, nor while no process runs; and
\* between the two halves of Reopen the file is closed.
FileOK ==
    /\ {atPath, handle} \subseteq {0, Len(files)}
    /\ handle = 0 => buffer["file"] = <<>>
    /\ buffer["stderr"] = <<>>
    /\ ~up => handle = 0 /\ (\A t \in Threads : pc[t] = "idle") /\ \A s \in Streams : buffer[s] = <<>>
    /\ \A t \in Threads : pc[t] = "open" => handle = 0 /\ task[t].sink = "file"

\* The parts in the cache are those of its second; a thread that is about to append them
\* finds its own second, and one that is about to write finds its own line in the scratch
\* buffer of its sink.
StampOK ==
    /\ cache.parts = cache.second
    /\ \A t \in Threads : pc[t] = "stamp" => cache.parts = Second[task[t].record]
    /\ \A t \in Threads :
          pc[t] = "put" => scratch[task[t].sink] = Line(task[t].record, Second[task[t].record])

LEMMA LocksStep ==
    ASSUME TypeOK, LocksOK, [Next]_vars
    PROVE  LocksOK'
<1> USE DEF threadVars, fileVars, history
<1>0. pc \in [Threads -> {"idle", "fill", "stamp", "put", "open"}]
      /\ task \in [Threads -> [record : Records, sink : SinkNames]]
  BY DEF TypeOK
<1>1. ASSUME NEW t \in Threads, NEW k \in SinkNames, MutexFree(k),
             \A u \in Threads : u # t => pc'[u] = pc[u] /\ task'[u] = task[u],
             task'[t].sink = k
      PROVE  LocksOK'
  BY <1>1 DEF LocksOK, MutexFree
<1>2. ASSUME \A u \in Threads : pc'[u] # "idle" => pc[u] # "idle" /\ task'[u] = task[u]
      PROVE  LocksOK'
  BY <1>2 DEF LocksOK
<1>3. ASSUME NEW t \in Threads, NEW k \in SinkNames, NEW r \in Records, Write(t, k, r)
      PROVE  LocksOK'
  BY <1>0, <1>1, <1>3 DEF Write
<1>4. ASSUME NEW t \in Threads, Reopen(t)
      PROVE  LocksOK'
  BY <1>0, <1>1, <1>4 DEF Reopen, SinkNames
<1>5. ASSUME NEW t \in Threads, Fill(t) \/ Stamp(t) \/ OpenToWrite(t) \/ Put(t) \/ ReopenOpen(t)
      PROVE  LocksOK'
  <2>1. task' = task /\ pc[t] # "idle" /\ \A u \in Threads : u # t => pc'[u] = pc[u]
    BY <1>0, <1>5 DEF Fill, Stamp, OpenToWrite, Put, ReopenOpen
  <2>2. QED
    BY <1>2, <2>1
<1>6. CASE \/ \E k \in SinkNames : Flush(k)
           \/ \E s \in Streams : \E n \in 1 .. Len(buffer[s]) - 1 : Spill(s, n)
           \/ Start \/ Stop \/ Crash \/ MoveAway \/ UNCHANGED vars
  <2>1. task' = task /\ (pc' = pc \/ pc' = [t \in Threads |-> "idle"])
    BY <1>6 DEF Flush, Spill, Start, Stop, Crash, MoveAway, vars
  <2>2. QED
    BY <1>2, <2>1
<1>7. QED
  BY <1>3, <1>4, <1>5, <1>6 DEF Next

LEMMA StampStep ==
    ASSUME TypeOK, LocksOK, FileOK, StampOK, [Next]_vars
    PROVE  StampOK'
<1> USE DEF threadVars, fileVars, history
<1>0. /\ pc \in [Threads -> {"idle", "fill", "stamp", "put", "open"}]
      /\ task \in [Threads -> [record : Records, sink : SinkNames]]
      /\ cache \in [second : Int, parts : Int] /\ scratch \in [SinkNames -> Seq(Halves)]
  BY DEF TypeOK
<1>1. ASSUME \A u \in Threads : pc'[u] \in {"stamp", "put"} => pc'[u] = pc[u] /\ task'[u] = task[u],
             scratch' = scratch, cache' = cache
      PROVE  StampOK'
  BY <1>1 DEF StampOK
<1>2. ASSUME NEW t \in Threads, Fill(t)
      PROVE  StampOK'
  <2>1. /\ \A u \in Threads : pc[u] # "stamp"
        /\ pc'[t] = "stamp" /\ \A u \in Threads : u # t => pc'[u] = pc[u]
        /\ task' = task /\ scratch' = scratch
    BY <1>0, <1>2 DEF Fill, CacheMutexFree
  <2>2. cache'.parts = Second[task[t].record] /\ cache'.second = Second[task[t].record]
    BY <1>2 DEF Fill, StampOK
  <2>3. QED
    BY <2>1, <2>2 DEF StampOK
<1>3. ASSUME NEW t \in Threads, Stamp(t)
      PROVE  StampOK'
  <2>1. pc[t] = "stamp" /\ pc'[t] = "put" /\ \A u \in Threads : u # t => pc'[u] = pc[u]
    BY <1>0, <1>3 DEF Stamp
  <2>2. cache' = cache /\ task' = task /\ cache.parts = Second[task[t].record]
    BY <1>3, <2>1 DEF Stamp, StampOK
  <2>3. scratch'[task[t].sink] = Line(task[t].record, Second[task[t].record])
    BY <1>0, <1>3, <2>2 DEF Stamp
  <2>4. ASSUME NEW u \in Threads, u # t, pc[u] = "put"
        PROVE  scratch'[task[u].sink] = scratch[task[u].sink]
    <3>1. task[u].sink # task[t].sink
      BY <2>1, <2>4 DEF LocksOK
    <3>2. QED
      BY <1>0, <1>3, <3>1 DEF Stamp
  <2>5. QED
    BY <2>1, <2>2, <2>3, <2>4 DEF StampOK
<1>4. ASSUME NEW t \in Threads, \/ \E k \in SinkNames, r \in Records : Write(t, k, r)
                                \/ OpenToWrite(t) \/ Put(t) \/ Reopen(t) \/ ReopenOpen(t)
      PROVE  StampOK'
  <2>1. /\ scratch' = scratch /\ cache' = cache /\ \A u \in Threads : u # t => pc'[u] = pc[u] /\ task'[u] = task[u]
        /\ pc'[t] \in {"stamp", "put"} => pc' = pc /\ task' = task
    BY <1>0, <1>4 DEF Write, OpenToWrite, Put, Reopen, ReopenOpen
  <2>2. QED
    BY <1>1, <2>1
<1>5. CASE Start
  <2>1. \A u \in Threads : pc'[u] = "idle"
    BY <1>5 DEF Start, FileOK
  <2>2. cache'.parts = cache'.second
    BY <1>5 DEF Start, NewCache
  <2>3. QED
    BY <2>1, <2>2 DEF StampOK
<1>6. CASE \/ \E k \in SinkNames : Flush(k)
           \/ \E s \in Streams : \E n \in 1 .. Len(buffer[s]) - 1 : Spill(s, n)
           \/ Stop \/ Crash \/ MoveAway \/ UNCHANGED vars
  <2>1. task' = task /\ scratch' = scratch /\ cache' = cache
        /\ (pc' = pc \/ pc' = [t \in Threads |-> "idle"])
    BY <1>6 DEF Flush, Spill, Stop, Crash, MoveAway, vars
  <2>2. QED
    BY <1>1, <2>1
<1>7. QED
  BY <1>2, <1>3, <1>4, <1>5, <1>6 DEF Next

\* The file that fopen opens is the last one.
LEMMA OpensLast ==
    ASSUME TypeOK, FileOK, Open
    PROVE  atPath' = Len(files') /\ handle' = Len(files') /\ Len(files') \in Nat \ {0}
<1>1. files \in Seq(Seq(Halves)) /\ Len(files) \in Nat /\ atPath \in {0, Len(files)}
  BY DEF TypeOK, FileOK
<1>2. CASE atPath = 0
  <2>1. files' = Append(files, <<>>) /\ atPath' = Len(files) + 1 /\ handle' = atPath'
    BY <1>2 DEF Open
  <2>2. Len(files') = Len(files) + 1
    BY <1>1, <2>1
  <2>3. QED
    BY <1>1, <2>1, <2>2
<1>3. CASE atPath # 0
  <2>1. Len(files') = Len(files) /\ atPath' = atPath /\ handle' = atPath'
    <3>1. files' = files \/ files' = [files EXCEPT ![atPath] = <<>>]
      BY <1>3 DEF Open
    <3>2. files \in [1 .. Len(files) -> Seq(Halves)] /\ <<>> \in Seq(Halves)
      BY <1>1
    <3>3. Len([files EXCEPT ![atPath] = <<>>]) = Len(files)
      <4>1. atPath \in 1 .. Len(files)
        BY <1>1, <1>3
      <4>2. QED
        BY <1>1, <3>2, <4>1, ExceptSeq
    <3>4. QED
      BY <1>3, <3>1, <3>3 DEF Open
  <2>2. QED
    BY <1>1, <1>3, <2>1
<1>4. QED
  BY <1>2, <1>3

LEMMA PassOnBuffers ==
    ASSUME TypeOK, FileOK, NEW s \in Streams, NEW text \in Seq(Halves), NEW n \in 0 .. Len(text),
           PassOn(s, text, n), s = "file" => handle # 0, s = "stderr" => n = Len(text),
           up, UNCHANGED <<up, handle, atPath>>,
           \A t \in Threads : pc'[t] = "open" => pc[t] = "open" /\ task'[t] = task[t]
    PROVE  FileOK'
<1>1. Len(files') = Len(files)
  BY PassOnTypes
<1>2. /\ buffer \in [Streams -> Seq(Halves)]
      /\ buffer' = [buffer EXCEPT ![s] = SubSeq(text, n + 1, Len(text))]
  BY DEF TypeOK, PassOn
<1>3. s = "stderr" => SubSeq(text, n + 1, Len(text)) = <<>>
  <2>1. Len(text) \in Nat
    OBVIOUS
  <2>2. QED
    BY <2>1, SubSeqEmpty
<1>4. buffer'["stderr"] = <<>>
  BY <1>2, <1>3 DEF FileOK, Streams
<1>5. handle = 0 => buffer'["file"] = <<>>
  BY <1>2 DEF FileOK, Streams
<1>6. QED
  BY <1>1, <1>4, <1>5 DEF FileOK

LEMMA FileStep ==
    ASSUME TypeOK, LocksOK, FileOK, [Next]_vars
    PROVE  FileOK'
<1> USE DEF threadVars, fileVars, history
<1>0. /\ pc \in [Threads -> {"idle", "fill", "stamp", "put", "open"}]
      /\ task \in [Threads -> [record : Records, sink : SinkNames]]
      /\ buffer \in [Streams -> Seq(Halves)] /\ files \in Seq(Seq(Halves))
      /\ up \in BOOLEAN
  BY DEF TypeOK
<1>1. ASSUME UNCHANGED <<atPath, handle, buffer, up>>, Len(files') = Len(files), up,
             \A u \in Threads : pc'[u] = "open" => pc[u] = "open" /\ task'[u] = task[u]
      PROVE  FileOK'
  BY <1>1 DEF FileOK
<1>2. ASSUME NEW t \in Threads, \/ \E k \in SinkNames, r \in Records : Write(t, k, r)
                                \/ Fill(t) \/ Stamp(t)
      PROVE  FileOK'
  <2>1. UNCHANGED <<files, atPath, handle, buffer, up>>
    BY <1>2 DEF Write, Fill, Stamp
  <2>2. \A u \in Threads : pc'[u] = "open" => pc[u] = "open" /\ task'[u] = task[u]
    BY <1>0, <1>2 DEF Write, Fill, Stamp
  <2>3. up
    BY <1>2 DEF Write, Fill, Stamp, FileOK
  <2>4. QED
    BY <1>1, <2>1, <2>2, <2>3
\* A thread that has the mutex of the file opens it, or fails to.
<1>3. ASSUME NEW t \in Threads, pc[t] # "idle", task[t].sink = "file", handle = 0, Open \/ OpenFails,
             UNCHANGED <<up, task, buffer>>, pc' = pc \/ pc' = [pc EXCEPT ![t] = "idle"],
             pc[t] = "open" => pc'[t] = "idle"
      PROVE  FileOK'
  <2>1. {atPath', handle'} \subseteq {0, Len(files')}
    BY <1>3, OpensLast, OpenFailsTypes DEF FileOK
  <2>2. up /\ buffer["file"] = <<>>
    BY <1>0, <1>3 DEF FileOK
  <2>3. \A u \in Threads : pc'[u] # "open"
    BY <1>0, <1>3 DEF FileOK, LocksOK
  <2>4. QED
    BY <1>3, <2>1, <2>2, <2>3 DEF FileOK
<1>4. ASSUME NEW t \in Threads, OpenToWrite(t)
      PROVE  FileOK'
  BY <1>0, <1>3, <1>4 DEF OpenToWrite
<1>5. ASSUME NEW t \in Threads, ReopenOpen(t)
      PROVE  FileOK'
  <2>1. handle = 0 /\ task[t].sink = "file" /\ pc[t] = "open"
    BY <1>5 DEF ReopenOpen, FileOK
  <2>2. pc' = [pc EXCEPT ![t] = "idle"] /\ UNCHANGED <<up, task, buffer>> /\ (Open \/ OpenFails)
    BY <1>5 DEF ReopenOpen
  <2>3. QED
    BY <1>0, <1>3, <2>1, <2>2
<1>6. ASSUME NEW t \in Threads, Put(t)
      PROVE  FileOK'
  <2> DEFINE r == task[t].record
             k == task[t].sink
             s == StreamOf(r, k)
             text == buffer[s] \o scratch[k]
             n == IF Through(s, k) THEN Len(text) ELSE 0
  <2>1. k \in SinkNames /\ s \in Streams /\ (s = "file" <=> k = "file") /\ (s = "stderr" => Through(s, k))
    BY <1>0, StreamTypes DEF Through
  <2>2. text \in Seq(Halves)
    BY <1>0, <2>1 DEF TypeOK
  <2>3. n \in 0 .. Len(text) /\ (s = "stderr" => n = Len(text))
    <3>1. n = Len(text) \/ (n = 0 /\ ~Through(s, k))
      OBVIOUS
    <3> HIDE DEF n, text, s, k
    <3>2. QED
      BY <2>1, <2>2, <3>1
  <2>4. /\ PassOn(s, text, n) /\ pc' = [pc EXCEPT ![t] = "idle"] /\ (s = "file" => handle # 0)
        /\ UNCHANGED <<up, task, atPath, handle>> /\ pc[t] = "put"
    BY <1>6, <2>1 DEF Put
  <2> HIDE DEF r, k, s, text, n
  <2>5. up /\ \A u \in Threads : pc'[u] = "open" => pc[u] = "open" /\ task'[u] = task[u]
    BY <1>0, <2>4 DEF FileOK
  <2>6. QED
    BY <2>1, <2>2, <2>3, <2>4, <2>5, PassOnBuffers
<1>7. ASSUME NEW t \in Threads, Reopen(t)
      PROVE  FileOK'
  <2>1. Len(files') = Len(files)
    BY <1>7, ClosedFiles DEF Reopen, Close
  <2>2. /\ up /\ up' = up /\ atPath' = atPath /\ handle' = 0
        /\ buffer' = [buffer EXCEPT !["file"] = <<>>]
    BY <1>7 DEF Reopen, Close
  <2>4. task'[t].sink = "file"
    BY <1>0, <1>7 DEF Reopen
  <2>5. buffer'["file"] = <<>> /\ buffer'["stderr"] = <<>>
    BY <1>0, <2>2 DEF FileOK, Streams
  <2>6. \A u \in Threads : pc'[u] = "open" => task'[u].sink = "file"
    BY <1>0, <1>7, <2>4 DEF Reopen, FileOK
  <2>7. QED
    BY <2>1, <2>2, <2>5, <2>6 DEF FileOK
<1>8. ASSUME NEW k \in SinkNames, Flush(k)
      PROVE  FileOK'
  <2>1. up /\ UNCHANGED <<up, pc, task, atPath, handle>>
    BY <1>8 DEF Flush
  <2>2. CASE UNCHANGED <<buffer, files, console>>
    BY <1>1, <2>1, <2>2
  <2>3. ASSUME NEW s \in Streams, PassOn(s, buffer[s], Len(buffer[s])), s = "file" => handle # 0
        PROVE  FileOK'
    <3>1. buffer[s] \in Seq(Halves) /\ Len(buffer[s]) \in 0 .. Len(buffer[s])
      BY <1>0
    <3>2. QED
      BY <2>1, <2>3, <3>1, PassOnBuffers
  <2>4. \/ UNCHANGED <<buffer, files, console>>
        \/ \E s \in Streams : PassOn(s, buffer[s], Len(buffer[s])) /\ (s = "file" => handle # 0)
    BY <1>8 DEF Flush, Streams
  <2>5. QED
    BY <2>2, <2>3, <2>4
<1>9. ASSUME NEW s \in Streams, NEW n \in 1 .. Len(buffer[s]) - 1, Spill(s, n)
      PROVE  FileOK'
  <2>1. buffer[s] \in Seq(Halves) /\ n \in 0 .. Len(buffer[s]) /\ buffer[s] # <<>>
    BY <1>0
  <2>2. s # "stderr" /\ (s = "file" => handle # 0) /\ up
    BY <1>0, <2>1 DEF FileOK
  <2>3. PassOn(s, buffer[s], n) /\ UNCHANGED <<pc, task, up, handle, atPath>>
    BY <1>9 DEF Spill
  <2>4. QED
    BY <2>1, <2>2, <2>3, PassOnBuffers
<1>10. CASE Start
  <2>1. {atPath', handle'} \subseteq {0, Len(files')}
    BY <1>10, OpensLast, OpenFailsTypes DEF FileOK, Start
  <2>2. up' = TRUE /\ pc' = pc /\ buffer' = buffer /\ ~up
    BY <1>10 DEF Start
  <2>3. QED
    BY <2>1, <2>2 DEF FileOK, Streams
<1>11. CASE Stop \/ Crash
  <2>1. Len(files') = Len(files)
    BY <1>11, ClosedFiles DEF Stop, Crash
  <2>2. /\ up' = FALSE /\ handle' = 0 /\ buffer' = [s \in Streams |-> <<>>] /\ atPath' = atPath
        /\ \A t \in Threads : pc'[t] = "idle"
    BY <1>11 DEF Stop, Crash
  <2>3. QED
    BY <2>1, <2>2 DEF FileOK, Streams
<1>12. CASE MoveAway
  BY <1>12 DEF MoveAway, FileOK
<1>13. CASE UNCHANGED vars
  BY <1>13 DEF vars, FileOK
<1>14. QED
  BY <1>2, <1>4, <1>5, <1>6, <1>7, <1>8, <1>9, <1>10, <1>11, <1>12, <1>13 DEF Next

\* The three together.
THEOREM ControlHolds == Spec => [](TypeOK /\ LocksOK /\ FileOK /\ StampOK)
<1>1. Init => LocksOK /\ FileOK /\ StampOK
  BY DEF Init, LocksOK, FileOK, StampOK, Streams, NewCache
<1>2. TypeOK /\ LocksOK /\ FileOK /\ StampOK /\ [Next]_vars => LocksOK' /\ FileOK' /\ StampOK'
  BY LocksStep, FileStep, StampStep
<1>3. QED
  BY <1>1, <1>2, TypesHold, PTL DEF Spec

-----------------------------------------------------------------------------
(* The texts of the file stream: the files, the buffer behind one of them. *)

\* Concatenation and equality of texts.
LEMMA ConcatThree == \A s, t, u \in Seq(Halves) : (s \o t) \o u = s \o (t \o u)
<1> TAKE s, t, u \in Seq(Halves)
<1>1. QED
  BY ConcatAssociative

LEMMA ConcatText ==
    /\ \A s, t \in Seq(Halves) : s \o t \in Seq(Halves)
    /\ \A s \in Seq(Halves) : s \o <<>> = s /\ <<>> \o s = s
<1>1. ASSUME NEW s \in Seq(Halves), NEW t \in Seq(Halves)
      PROVE  s \o t \in Seq(Halves)
  OBVIOUS
<1>2. ASSUME NEW s \in Seq(Halves)
      PROVE  s \o <<>> = s /\ <<>> \o s = s
  BY ConcatEmptySeq
<1>3. QED
  BY <1>1, <1>2

LEMMA FunctionIsText ==
    ASSUME NEW S, NEW n \in Nat, NEW f \in [1 .. n -> S]
    PROVE  f \in Seq(S) /\ Len(f) = n
  OBVIOUS

LEMMA OneElement ==
    ASSUME NEW S, NEW x \in S, NEW y
    PROVE  /\ <<x>> \in Seq(S) /\ Len(<<x>>) = 1 /\ <<x>> # <<>> /\ <<x>>[1] = x
           /\ [<<x>> EXCEPT ![1] = y] = <<y>>
  OBVIOUS

LEMMA SameTexts ==
    ASSUME NEW S, NEW s \in Seq(S), NEW t \in Seq(S), NEW n, Len(s) = n, Len(t) = n,
           \A i \in 1 .. n : s[i] = t[i]
    PROVE  s = t
<1>1. Len(s) = Len(t) /\ \A i \in 1 .. Len(s) : s[i] = t[i]
  OBVIOUS
<1>2. QED
  BY <1>1, SeqEqual

Joins(s, t, u, v) == s \o t = u \o v

\* Text i of some texts, with more at its end.
Extended(texts, i, more) == [texts EXCEPT ![i] = @ \o more]

FileTexts(fs, h, b) == [i \in DOMAIN fs |-> fs[i] \o IF i = h THEN b ELSE <<>>]

LEMMA FileTextsFacts ==
    ASSUME NEW fs \in Seq(Seq(Halves)), NEW h, NEW b \in Seq(Halves)
    PROVE  /\ FileTexts(fs, h, b) \in Seq(Seq(Halves)) /\ Len(FileTexts(fs, h, b)) = Len(fs)
           /\ \A i \in 1 .. Len(fs) :
                 FileTexts(fs, h, b)[i] = IF i = h THEN fs[i] \o b ELSE fs[i]
<1> DEFINE T == FileTexts(fs, h, b)
<1>1. DOMAIN fs = 1 .. Len(fs) /\ Len(fs) \in Nat /\ \A i \in 1 .. Len(fs) : fs[i] \in Seq(Halves)
  OBVIOUS
<1>2. ASSUME NEW i \in 1 .. Len(fs)
      PROVE  /\ fs[i] \o (IF i = h THEN b ELSE <<>>) = IF i = h THEN fs[i] \o b ELSE fs[i]
             /\ fs[i] \o (IF i = h THEN b ELSE <<>>) \in Seq(Halves)
  <2>1. fs[i] \in Seq(Halves)
    BY <1>1
  <2>2. fs[i] \o <<>> = fs[i]
    BY <2>1, ConcatEmptySeq
  <2>3. CASE i = h
    BY <2>1, <2>3
  <2>4. CASE i # h
    BY <2>1, <2>2, <2>4
  <2>5. QED
    BY <2>3, <2>4
<1>3. T = [i \in 1 .. Len(fs) |-> fs[i] \o IF i = h THEN b ELSE <<>>]
  BY <1>1 DEF FileTexts
<1>4. /\ T \in [1 .. Len(fs) -> Seq(Halves)]
      /\ \A i \in 1 .. Len(fs) : T[i] = IF i = h THEN fs[i] \o b ELSE fs[i]
  <2> HIDE DEF T
  <2>1. QED
    BY <1>2, <1>3
<1>5. T \in Seq(Seq(Halves)) /\ Len(T) = Len(fs)
  <2> HIDE DEF T
  <2>1. QED
    BY <1>1, <1>4, FunctionIsText
<1>6. QED
  BY <1>4, <1>5

\* With nothing in the buffer it does not matter where the buffer is.
LEMMA NothingBuffered ==
    ASSUME NEW fs \in Seq(Seq(Halves)), NEW h, NEW b, b = <<>>
    PROVE  FileTexts(fs, h, b) = fs
<1> DEFINE T == FileTexts(fs, h, b)
<1>1. b \in Seq(Halves)
  OBVIOUS
<1>2. /\ T \in Seq(Seq(Halves)) /\ Len(T) = Len(fs)
      /\ \A i \in 1 .. Len(fs) : T[i] = IF i = h THEN fs[i] \o b ELSE fs[i]
  BY ONLY <1>1, FileTextsFacts, fs \in Seq(Seq(Halves))
<1> HIDE DEF T
<1>3. ASSUME NEW i \in 1 .. Len(fs) PROVE T[i] = fs[i]
  <2>1. fs[i] \in Seq(Halves)
    OBVIOUS
  <2>2. fs[i] \o b = fs[i]
    BY <2>1, ConcatText
  <2>3. QED
    BY <1>2, <2>2
<1>4. T = fs
  BY <1>2, <1>3, SameTexts, SMTT(30)
<1>5. QED
  BY <1>4 DEF T

\* The buffer and a line behind it are divided in two, the first of which goes into the file.
LEMMA PassedOnToFile ==
    ASSUME NEW fs \in Seq(Seq(Halves)), NEW h \in 1 .. Len(fs), NEW b \in Seq(Halves),
           NEW line \in Seq(Halves), NEW first \in Seq(Halves), NEW rest \in Seq(Halves),
           Joins(first, rest, b, line), NEW gs, gs = Extended(fs, h, first)
    PROVE  FileTexts(gs, h, rest) = Extended(FileTexts(fs, h, b), h, line)
<1> DEFINE T  == FileTexts(fs, h, b)
           U  == FileTexts(gs, h, rest)
           V  == [T EXCEPT ![h] = T[h] \o line]
<1>1. fs[h] \in Seq(Halves) /\ fs[h] \o first \in Seq(Halves)
  OBVIOUS
<1>2. /\ gs \in Seq(Seq(Halves)) /\ Len(gs) = Len(fs)
      /\ \A i \in 1 .. Len(fs) : gs[i] = IF i = h THEN fs[h] \o first ELSE fs[i]
  BY <1>1, ExceptSeq DEF Extended
<1>3. /\ T \in Seq(Seq(Halves)) /\ Len(T) = Len(fs)
      /\ \A i \in 1 .. Len(fs) : T[i] = IF i = h THEN fs[i] \o b ELSE fs[i]
  BY FileTextsFacts
<1> HIDE DEF T
<1>4. /\ U \in Seq(Seq(Halves)) /\ Len(U) = Len(gs)
      /\ \A i \in 1 .. Len(gs) : U[i] = IF i = h THEN gs[i] \o rest ELSE gs[i]
  BY ONLY <1>2, rest \in Seq(Halves), FileTextsFacts
<1>5. T[h] = fs[h] \o b /\ T[h] \o line \in Seq(Halves)
  <2>1. T[h] = fs[h] \o b
    BY <1>3
  <2>2. QED
    BY ONLY <1>1, <2>1, ConcatText, b \in Seq(Halves), line \in Seq(Halves), Zenon
<1>6. /\ V \in Seq(Seq(Halves)) /\ Len(V) = Len(fs)
      /\ \A i \in 1 .. Len(fs) : V[i] = IF i = h THEN T[h] \o line ELSE T[i]
  BY <1>3, <1>5, ExceptSeq, SMTT(30)
<1> HIDE DEF U, V
<1>7. (fs[h] \o first) \o rest = (fs[h] \o b) \o line
  <2>1. ASSUME NEW a \in Seq(Halves) PROVE (a \o first) \o rest = (a \o b) \o line
    <3>1. (a \o first) \o rest = a \o (first \o rest)
      BY ConcatThree
    <3>2. (a \o b) \o line = a \o (b \o line)
      BY ConcatThree
    <3>3. QED
      BY <3>1, <3>2 DEF Joins
  <2>2. QED
    BY <1>1, <2>1
<1>8. \A i \in 1 .. Len(fs) : U[i] = V[i]
  BY <1>2, <1>3, <1>4, <1>5, <1>6, <1>7
<1>9. U = V
  <2>1. Len(U) = Len(fs)
    BY <1>2, <1>4
  <2>2. QED
    BY ONLY <1>4, <1>6, <1>8, <2>1, SameTexts, Zenon
<1>10. QED
  BY <1>9 DEF T, U, V, Extended

\* The buffer is written out and the file closed.
LEMMA ClosedTexts ==
    ASSUME NEW fs \in Seq(Seq(Halves)), NEW h \in 0 .. Len(fs), NEW b \in Seq(Halves),
           h = 0 => b = <<>>
    PROVE  FileTexts(IF h = 0 THEN fs ELSE [fs EXCEPT ![h] = @ \o b], 0, <<>>) = FileTexts(fs, h, b)
<1>1. CASE h = 0
  BY <1>1
<1>2. CASE h # 0
  <2> DEFINE gs == [fs EXCEPT ![h] = fs[h] \o b]
             T  == FileTexts(fs, h, b)
  <2>1. h \in 1 .. Len(fs) /\ fs[h] \o b \in Seq(Halves)
    BY <1>2
  <2>2. /\ gs \in Seq(Seq(Halves)) /\ Len(gs) = Len(fs)
        /\ \A i \in 1 .. Len(fs) : gs[i] = IF i = h THEN fs[h] \o b ELSE fs[i]
    BY <2>1, ExceptSeq
  <2>3. /\ T \in Seq(Seq(Halves)) /\ Len(T) = Len(fs)
        /\ \A i \in 1 .. Len(fs) : T[i] = IF i = h THEN fs[i] \o b ELSE fs[i]
    BY FileTextsFacts, SMTT(30)
  <2> HIDE DEF gs, T
  <2>4. \A i \in 1 .. Len(fs) : gs[i] = T[i]
    BY <2>2, <2>3
  <2>5. gs = T
    BY ONLY <2>2, <2>3, <2>4, SameTexts, Zenon
  <2>6. FileTexts(gs, 0, <<>>) = gs
    BY <2>2, NothingBuffered
  <2>7. QED
    BY <1>2, <2>5, <2>6 DEF gs, T
<1>3. QED
  BY <1>1, <1>2

\* The texts are those of fs, the last of them with b behind it.
Behind(texts, fs, b) ==
    \A i \in 1 .. Len(fs) : texts[i] = IF i = Len(fs) THEN fs[i] \o b ELSE fs[i]

\* Of the last text only the first n halves are left; the records of the others are in R.
LosesAfter(texts, rest, n, R) ==
    LET m == Len(texts)
    IN  /\ n \in 0 .. Len(texts[m])
        /\ rest = [texts EXCEPT ![m] = SubSeq(texts[m], 1, n)]
        /\ \A j \in n + 1 .. Len(texts[m]) : texts[m][j].record \in R

\* The buffer is lost.
LEMMA LostTexts ==
    ASSUME NEW fs \in Seq(Seq(Halves)), NEW T \in Seq(Seq(Halves)), NEW h \in 1 .. Len(fs),
           h = Len(fs), Len(T) = h, NEW b \in Seq(Halves), Behind(T, fs, b),
           NEW R, RecordsIn(b) \subseteq R
    PROVE  LosesAfter(T, fs, Len(fs[h]), R)
<1> DEFINE n == Len(fs[h])
           start == SubSeq(T[h], 1, n)
           V == [T EXCEPT ![h] = start]
<1>1. fs[h] \in Seq(Halves) /\ n \in Nat
  OBVIOUS
<1>2. \A i \in 1 .. Len(fs) : T[i] = IF i = h THEN fs[i] \o b ELSE fs[i]
  BY DEF Behind
<1>3. T[h] = fs[h] \o b
  BY <1>2
<1>4. /\ T[h] \in Seq(Halves) /\ Len(T[h]) = n + Len(b) /\ Len(b) \in Nat
      /\ \A i \in 1 .. Len(T[h]) : T[h][i] = IF i <= n THEN fs[h][i] ELSE b[i - n]
  BY <1>1, <1>3, ConcatProperties
<1>5. n \in 0 .. Len(T[h])
  BY <1>1, <1>4
<1> HIDE DEF n
<1>6. start \in Seq(Halves) /\ Len(start) = n /\ \A i \in 1 .. n : start[i] = T[h][i]
  BY <1>4, <1>5, Divided
<1> HIDE DEF start
<1>7. start = fs[h]
  <2>1. \A i \in 1 .. n : i \in 1 .. Len(T[h]) /\ i <= n
    BY <1>4, <1>5
  <2>2. \A i \in 1 .. n : start[i] = fs[h][i]
    BY <1>4, <1>6, <2>1
  <2>3. Len(fs[h]) = n
    BY DEF n
  <2>4. QED
    BY <1>1, <1>6, <2>2, <2>3, SameTexts
<1>8. V = fs
  <2>1. /\ V \in Seq(Seq(Halves)) /\ Len(V) = Len(T)
        /\ \A i \in 1 .. Len(T) : V[i] = IF i = h THEN start ELSE T[i]
    BY <1>6, ExceptSeq
  <2> HIDE DEF V
  <2>2. \A i \in 1 .. Len(fs) : V[i] = fs[i]
    BY <1>2, <1>7, <2>1
  <2>3. Len(V) = Len(fs)
    BY <2>1
  <2>4. QED
    BY ONLY <2>1, <2>2, <2>3, fs \in Seq(Seq(Halves)), SameTexts, Zenon
<1>9. ASSUME NEW j \in n + 1 .. Len(T[h]) PROVE T[h][j].record \in R
  <2>1. j - n \in 1 .. Len(b) /\ j \in 1 .. Len(T[h]) /\ ~(j <= n)
    BY <1>4, <1>5, <1>9
  <2>2. T[h][j] = b[j - n] /\ j - n \in DOMAIN b
    BY <1>4, <2>1
  <2>3. b[j - n].record \in RecordsIn(b)
    BY <2>2 DEF RecordsIn
  <2>4. QED
    BY <2>2, <2>3
<1>10. fs = [T EXCEPT ![Len(T)] = SubSeq(T[Len(T)], 1, n)]
  BY <1>8 DEF start
<1> HIDE DEF V, start
<1>11. LosesAfter(T, fs, n, R)
  BY <1>5, <1>9, <1>10 DEF LosesAfter
<1>12. QED
  BY <1>11 DEF n

-----------------------------------------------------------------------------
(* What a step does to the texts of a stream.                              *)

Writing(t) == pc[t] \in {"fill", "stamp", "put"}
InGiven(r) == \E s \in Streams : r \in ToSet(given[s])

\* Nothing; what fopen cuts off does not belong to this stream.
Kept(s) ==
    /\ Texts(s)' = Texts(s) /\ given'[s] = given[s]
    /\ cut \subseteq cut' /\ cut' \cap ToSet(given[s]) \subseteq cut
\* A line is put at the end of the last text.
Gains(s) ==
    \E r \in Records :
        /\ ~InGiven(r) /\ given' = [given EXCEPT ![s] = Append(@, r)]
        /\ Texts(s) # <<>>
        /\ Texts(s)' = Extended(Texts(s), Len(Texts(s)), Line(r, Second[r]))
        /\ UNCHANGED <<lost, cut>>
\* A file is created.
Grows(s) ==
    Texts(s)' = Append(Texts(s), <<>>) /\ UNCHANGED <<given, lost, cut>>
\* fopen cuts the file to nothing.
Empties(s) ==
    /\ s = "file" /\ Texts(s) # <<>>
    /\ Texts(s)' = [Texts(s) EXCEPT ![Len(Texts(s))] = <<>>]
    /\ cut' = cut \cup RecordsIn(Texts(s)[Len(Texts(s))]) /\ UNCHANGED <<given, lost>>
\* A crash takes the end that the C library held.
LosesEnd(s) ==
    /\ Texts(s) # <<>> /\ crashes' = crashes + 1 /\ UNCHANGED <<given, cut>>
    /\ \E n \in Nat : LosesAfter(Texts(s), Texts(s)', n, lost')

StreamStep(s) ==
    /\ lost \subseteq lost' /\ crashes <= crashes'
    /\ Kept(s) \/ Gains(s) \/ Grows(s) \/ Empties(s) \/ LosesEnd(s)

LEMMA TextsAre ==
    /\ Texts("file") = FileTexts(files, handle, buffer["file"])
    /\ Texts("file")' = FileTexts(files', handle', buffer'["file"])
    /\ \A s \in {"stdout", "stderr"} :
          /\ Texts(s) = <<console[s] \o buffer[s]>>
          /\ Texts(s)' = <<console'[s] \o buffer'[s]>>
  BY DEF Texts, FileTexts, FileText

LEMMA TextsTypes ==
    ASSUME TypeOK
    PROVE  /\ \A s \in Streams : Texts(s) \in Seq(Seq(Halves))
           /\ Len(Texts("file")) = Len(files)
           /\ \A s \in {"stdout", "stderr"} : Len(Texts(s)) = 1
<1>1. files \in Seq(Seq(Halves)) /\ buffer["file"] \in Seq(Halves)
  BY DEF TypeOK, Streams
<1>2. Texts("file") \in Seq(Seq(Halves)) /\ Len(Texts("file")) = Len(files)
  BY <1>1, TextsAre, FileTextsFacts
<1>3. ASSUME NEW s \in {"stdout", "stderr"}
      PROVE  Texts(s) \in Seq(Seq(Halves)) /\ Len(Texts(s)) = 1
  <2>1. console[s] \o buffer[s] \in Seq(Halves)
    <3>1. console[s] \in Seq(Halves) /\ buffer[s] \in Seq(Halves)
      BY DEF TypeOK, Streams
    <3>2. QED
      BY <3>1, ConcatText
  <2>2. Texts(s) = <<console[s] \o buffer[s]>>
    BY TextsAre
  <2>3. QED
    BY <2>1, <2>2, OneElement
<1>4. QED
  BY <1>2, <1>3 DEF Streams

\* PassOn of what a stream holds and a line more.
LEMMA PassOnEffect ==
    ASSUME TypeOK, FileOK, NEW s \in Streams, NEW line \in Seq(Halves),
           NEW n \in 0 .. Len(buffer[s] \o line), PassOn(s, buffer[s] \o line, n),
           handle' = handle, s = "file" => handle # 0
    PROVE  /\ Texts(s) # <<>>
           /\ Texts(s)' = Extended(Texts(s), Len(Texts(s)), line)
           /\ \A u \in Streams : u # s => Texts(u)' = Texts(u)
<1> DEFINE text == buffer[s] \o line
           first == SubSeq(text, 1, n)
           rest  == SubSeq(text, n + 1, Len(text))
<1>1. /\ files \in Seq(Seq(Halves)) /\ Len(files) \in Nat /\ handle \in {0, Len(files)}
      /\ buffer \in [Streams -> Seq(Halves)] /\ console \in [{"stdout", "stderr"} -> Seq(Halves)]
  BY SMTT(30) DEF TypeOK, FileOK
<1>2. text \in Seq(Halves) /\ n \in 0 .. Len(text)
  BY <1>1
<1>3. /\ buffer' = [buffer EXCEPT ![s] = rest]
      /\ s = "file" => files' = [files EXCEPT ![handle] = @ \o first] /\ console' = console
      /\ s # "file" => console' = [console EXCEPT ![s] = @ \o first] /\ files' = files
  BY DEF PassOn
<1> HIDE DEF text
<1>4. first \in Seq(Halves) /\ rest \in Seq(Halves) /\ first \o rest = text
  BY <1>2, Divided
<1>5. first \o rest = buffer[s] \o line
  BY <1>4 DEF text
<1> HIDE DEF first, rest
<1>6. /\ buffer'[s] = rest /\ \A u \in Streams : u # s => buffer'[u] = buffer[u]
      /\ buffer[s] \in Seq(Halves)
  BY <1>1, <1>3
<1>7. CASE s = "file"
  <2>1. handle \in 1 .. Len(files) /\ handle = Len(files)
    BY <1>1, <1>7
  <2>2. Texts(s) = FileTexts(files, handle, buffer[s]) /\ Texts(s)' = FileTexts(files', handle, rest)
    BY <1>6, <1>7, TextsAre
  <2>3. files' = Extended(files, handle, first)
    BY <1>3, <1>7 DEF Extended
  <2>4. Texts(s)' = Extended(Texts(s), handle, line)
    <3>1. FileTexts(files', handle, rest) = Extended(FileTexts(files, handle, buffer[s]), handle, line)
      <4>1. files \in Seq(Seq(Halves)) /\ buffer[s] \in Seq(Halves) /\ line \in Seq(Halves)
        BY <1>1, <1>6
      <4>2. Joins(first, rest, buffer[s], line)
        BY <1>5 DEF Joins
      <4>3. first \in Seq(Halves) /\ rest \in Seq(Halves) /\ handle \in 1 .. Len(files)
        BY <1>4, <2>1
      <4>4. QED
        BY ONLY <2>3, <4>1, <4>2, <4>3, PassedOnToFile
    <3>2. QED
      BY <2>2, <3>1
  <2>5. Len(Texts(s)) = handle
    BY <1>7, <2>1, TextsTypes
  <2>6. \A u \in Streams : u # s => Texts(u)' = Texts(u)
    <3>1. console' = console
      BY <1>3, <1>7
    <3>2. QED
      BY <1>6, <1>7, <3>1, TextsAre DEF Streams
  <2>7. Texts(s) # <<>>
    BY <2>1, <2>5
  <2>8. QED
    BY <2>4, <2>5, <2>6, <2>7
<1>8. CASE s # "file"
  <2>1. s \in {"stdout", "stderr"} /\ files' = files
    BY <1>3, <1>8 DEF Streams
  <2>2. console'[s] = console[s] \o first /\ console[s] \in Seq(Halves)
        /\ \A u \in {"stdout", "stderr"} : u # s => console'[u] = console[u]
    BY <1>1, <1>3, <1>8, <2>1
  <2>3. (console[s] \o first) \o rest = (console[s] \o buffer[s]) \o line
    <3>1. (console[s] \o first) \o rest = console[s] \o (first \o rest)
      BY <1>4, <2>2, ConcatThree
    <3>2. (console[s] \o buffer[s]) \o line = console[s] \o (buffer[s] \o line)
      BY <1>6, <2>2, ConcatThree
    <3>3. QED
      BY <1>5, <3>1, <3>2
  <2>4. Texts(s) = <<console[s] \o buffer[s]>> /\ Texts(s)' = <<(console[s] \o first) \o rest>>
    BY <1>6, <2>1, <2>2, TextsAre
  <2> DEFINE x == console[s] \o buffer[s]
  <2>5. Texts(s)' = Extended(Texts(s), 1, line) /\ Texts(s) # <<>> /\ Len(Texts(s)) = 1
    <3>1. Texts(s) = <<x>> /\ Texts(s)' = <<x \o line>>
      BY <2>3, <2>4
    <3>2. x \in Seq(Halves)
      BY <1>6, <2>2
    <3> HIDE DEF x
    <3>3. /\ Texts(s) # <<>> /\ Len(Texts(s)) = 1 /\ Texts(s)[1] = x
          /\ [Texts(s) EXCEPT ![1] = x \o line] = <<x \o line>>
      BY <3>1, <3>2, OneElement
    <3>4. QED
      BY <3>1, <3>3 DEF Extended
  <2>6. ASSUME NEW u \in Streams, u # s PROVE Texts(u)' = Texts(u)
    <3>1. CASE u = "file"
      BY <1>6, <1>8, <2>1, <3>1, TextsAre
    <3>2. CASE u # "file"
      <4>1. u \in {"stdout", "stderr"} /\ console'[u] = console[u] /\ buffer'[u] = buffer[u]
        BY <1>6, <2>2, <2>6, <3>2 DEF Streams
      <4>2. QED
        BY <4>1, TextsAre
    <3>3. QED
      BY <3>1, <3>2
  <2>7. QED
    BY <2>5, <2>6
<1>9. QED
  BY <1>7, <1>8

\* PassOn of what a stream holds: its texts stay.
LEMMA PassOnKeeps ==
    ASSUME TypeOK, FileOK, NEW s \in Streams, NEW n \in 0 .. Len(buffer[s]),
           PassOn(s, buffer[s], n), handle' = handle, s = "file" => handle # 0
    PROVE  \A u \in Streams : Texts(u)' = Texts(u)
<1>1. buffer[s] \in Seq(Halves)
  BY DEF TypeOK
<1>2. buffer[s] \o <<>> = buffer[s] /\ <<>> \in Seq(Halves)
  BY <1>1, ConcatText
<1>3. /\ Texts(s) # <<>>
      /\ Texts(s)' = Extended(Texts(s), Len(Texts(s)), <<>>)
      /\ \A u \in Streams : u # s => Texts(u)' = Texts(u)
  <2>1. PICK line : line = <<>>
    OBVIOUS
  <2>2. line \in Seq(Halves) /\ buffer[s] \o line = buffer[s]
    BY <1>2, <2>1
  <2>3. n \in 0 .. Len(buffer[s] \o line) /\ PassOn(s, buffer[s] \o line, n)
    BY <2>2
  <2>4. /\ Texts(s) # <<>>
        /\ Texts(s)' = Extended(Texts(s), Len(Texts(s)), line)
        /\ \A u \in Streams : u # s => Texts(u)' = Texts(u)
    BY <2>2, <2>3, PassOnEffect
  <2>5. QED
    BY <2>1, <2>4
<1>4. Texts(s) \in Seq(Seq(Halves))
  BY TextsTypes
<1>5. Texts(s)' = Texts(s)
  <2> DEFINE T == Texts(s)
             m == Len(T)
  <2>1. T \in Seq(Seq(Halves)) /\ T # <<>>
    BY <1>3, <1>4
  <2> HIDE DEF T
  <2>2. m \in 1 .. Len(T) /\ T[m] \in Seq(Halves)
    BY <2>1
  <2>3. T[m] \o <<>> = T[m]
    BY <2>2, ConcatText
  <2>4. [T EXCEPT ![m] = T[m] \o <<>>] = T
    BY <2>1, <2>2, <2>3
  <2>5. QED
    BY <1>3, <2>4 DEF T, Extended
<1>6. QED
  BY <1>3, <1>5

\* What is given has begun, no record twice and none while it is still in Write; what a
\* crash took, a flush covered or an fopen cut off had been given.
GivenOK ==
    /\ \A t \in Threads : Writing(t) => task[t].record \in begun /\ ~InGiven(task[t].record)
    /\ \A t, u \in Threads : t # u /\ Writing(t) /\ Writing(u) => task[t].record # task[u].record
    /\ \A s \in Streams : ToSet(given[s]) \subseteq begun
    /\ \A s, u \in Streams : \A i \in DOMAIN given[s], j \in DOMAIN given[u] :
          given[s][i] = given[u][j] => s = u /\ i = j
    /\ \A r \in lost \cup safe : InGiven(r)
    /\ cut \subseteq ToSet(given["file"])

\* The texts of a stream consist of whole lines of what was given to it.
TextsOK ==
    \A s \in Streams : \A i \in DOMAIN Texts(s) :
        RecordsIn(Texts(s)[i]) \subseteq ToSet(given[s]) /\ Whole(Texts(s)[i])

LEMMA QuietIsKept ==
    ASSUME NEW s, Texts(s)' = Texts(s), UNCHANGED <<given, cut>>
    PROVE  Kept(s)
  BY DEF Kept

\* What other streams were given is not cut off.
LEMMA CutIsOfFile ==
    ASSUME GivenOK, NEW s \in Streams, s # "file", NEW r, r \in ToSet(given["file"])
    PROVE  r \notin ToSet(given[s])
  BY DEF GivenOK, ToSet, Streams

LEMMA OpenEffect ==
    ASSUME TypeOK, FileOK, GivenOK, TextsOK, handle = 0, Open,
           UNCHANGED <<buffer, console, given, lost>>
    PROVE  \A s \in Streams : Kept(s) \/ Grows(s) \/ Empties(s)
<1>1. /\ files \in Seq(Seq(Halves)) /\ buffer["file"] = <<>> /\ buffer'["file"] = <<>>
      /\ files' \in Seq(Seq(Halves)) /\ atPath \in {0, Len(files)} /\ Len(files) \in Nat
  BY OpenTypes DEF TypeOK, FileOK
<1>2. Texts("file") = files /\ Texts("file")' = files'
  BY <1>1, TextsAre, NothingBuffered
<1>3. CASE cut' = cut
  <2>1. \A s \in Streams : s # "file" => Kept(s)
    BY <1>3, TextsAre DEF Kept, Streams
  <2>2. CASE files' = files
    BY <1>2, <1>3, <2>1, <2>2, QuietIsKept
  <2>3. CASE files' = Append(files, <<>>)
    BY <1>2, <1>3, <2>1, <2>3 DEF Grows
  <2>4. CASE files' # files /\ files' # Append(files, <<>>)
    <3>1. files' = [files EXCEPT ![atPath] = <<>>] /\ cut' = cut \cup RecordsIn(files[atPath]) /\ atPath = Len(files)
          /\ files # <<>>
      BY <1>1, <2>4 DEF Open
    <3>2. Empties("file")
      BY <1>2, <3>1 DEF Empties
    <3>3. QED
      BY <2>1, <3>2 DEF Streams
  <2>5. QED
    BY <2>2, <2>3, <2>4
<1>4. CASE cut' # cut
  <2>1. /\ files' = [files EXCEPT ![atPath] = <<>>] /\ cut' = cut \cup RecordsIn(files[atPath])
        /\ atPath = Len(files) /\ files # <<>> /\ atPath \in DOMAIN files
    BY <1>1, <1>4 DEF Open
  <2>2. Empties("file")
    BY <1>2, <2>1 DEF Empties
  <2>3. RecordsIn(files[atPath]) \subseteq ToSet(given["file"])
    BY <1>2, <2>1 DEF TextsOK, Streams
  <2>4. ASSUME NEW s \in Streams, s # "file" PROVE Kept(s)
    <3>1. RecordsIn(files[atPath]) \cap ToSet(given[s]) = {}
      BY <2>3, <2>4, CutIsOfFile
    <3>2. QED
      BY <2>1, <2>4, <3>1, TextsAre DEF Kept, Streams
  <2>5. QED
    BY <2>2, <2>4
<1>5. QED
  BY <1>3, <1>4

LEMMA OpenFailsEffect ==
    ASSUME TypeOK, FileOK, handle = 0, OpenFails, UNCHANGED <<buffer, console, given>>
    PROVE  \A s \in Streams : Kept(s)
<1>1. UNCHANGED <<files, handle, cut>>
  BY DEF OpenFails
<1>2. \A s \in Streams : Texts(s)' = Texts(s)
  BY <1>1, TextsAre DEF Streams
<1>3. QED
  BY <1>1, <1>2, QuietIsKept

\* The file is closed, or closed and stdout flushed.
LEMMA CloseEffect ==
    ASSUME TypeOK, FileOK, handle' = 0, buffer'["file"] = <<>>,
           files' = IF handle = 0 THEN files ELSE [files EXCEPT ![handle] = @ \o buffer["file"]],
           \A s \in {"stdout", "stderr"} :
               \/ UNCHANGED <<console[s], buffer[s]>>
               \/ console'[s] = console[s] \o buffer[s] /\ buffer'[s] = <<>>
    PROVE  \A s \in Streams : Texts(s)' = Texts(s)
<1>1. /\ files \in Seq(Seq(Halves)) /\ handle \in 0 .. Len(files) /\ buffer["file"] \in Seq(Halves)
      /\ handle = 0 => buffer["file"] = <<>>
  BY DEF TypeOK, FileOK, Streams
<1>2. Texts("file")' = Texts("file")
  <2>1. FileTexts(IF handle = 0 THEN files ELSE [files EXCEPT ![handle] = @ \o buffer["file"]], 0, <<>>)
            = FileTexts(files, handle, buffer["file"])
    BY <1>1, ClosedTexts
  <2>2. FileTexts(files', handle', buffer'["file"]) = FileTexts(files, handle, buffer["file"])
    BY <2>1
  <2>3. QED
    BY <2>2, TextsAre
<1>3. ASSUME NEW s \in {"stdout", "stderr"} PROVE Texts(s)' = Texts(s)
  <2>1. CASE UNCHANGED <<console[s], buffer[s]>>
    BY <2>1, TextsAre
  <2>2. CASE console'[s] = console[s] \o buffer[s] /\ buffer'[s] = <<>>
    <3>1. console[s] \o buffer[s] \in Seq(Halves)
      <4>1. console[s] \in Seq(Halves) /\ buffer[s] \in Seq(Halves)
        BY DEF TypeOK, Streams
      <4>2. QED
        BY <4>1, ConcatText
    <3>2. (console[s] \o buffer[s]) \o <<>> = console[s] \o buffer[s]
      BY <3>1, ConcatText
    <3>3. QED
      BY <2>2, <3>2, TextsAre
  <2>3. QED
    BY <2>1, <2>2
<1>4. QED
  BY <1>2, <1>3 DEF Streams

LEMMA CrashEffect ==
    ASSUME TypeOK, FileOK, Crash, NEW s \in Streams
    PROVE  Kept(s) \/ LosesEnd(s)
<1>1. /\ crashes' = crashes + 1 /\ UNCHANGED <<files, console, given, cut>>
      /\ lost' = lost \cup UNION {RecordsIn(buffer[u]) : u \in Streams}
      /\ handle' = 0 /\ \A u \in Streams : buffer'[u] = <<>>
  BY DEF Crash, history
<1>2. \A u \in Streams : buffer[u] \in Seq(Halves)
  BY DEF TypeOK
<1>3. ASSUME NEW fs \in Seq(Seq(Halves)), NEW h \in 1 .. Len(fs), h = Len(fs),
             Texts(s)' = fs, Behind(Texts(s), fs, buffer[s]), Len(Texts(s)) = h
      PROVE  LosesEnd(s)
  <2>1. Texts(s) \in Seq(Seq(Halves)) /\ Texts(s) # <<>>
    BY <1>3, TextsTypes
  <2>2. RecordsIn(buffer[s]) \subseteq lost' /\ buffer[s] \in Seq(Halves)
    BY <1>1, <1>2
  <2>3. LosesAfter(Texts(s), fs, Len(fs[h]), lost')
    BY ONLY <1>3, <2>1, <2>2, LostTexts
  <2>4. Len(fs[h]) \in Nat
    BY <1>3
  <2>5. QED
    BY <1>1, <1>3, <2>1, <2>3, <2>4 DEF LosesEnd
<1>4. CASE s = "file"
  <2>1. files \in Seq(Seq(Halves)) /\ handle \in {0, Len(files)} /\ Len(files) \in Nat
    BY DEF TypeOK, FileOK
  <2>2. Texts(s) = FileTexts(files, handle, buffer[s]) /\ Texts(s)' = files
    BY <1>1, <1>4, <2>1, TextsAre, NothingBuffered
  <2>3. CASE handle = 0
    <3>1. Texts(s)' = Texts(s)
      BY <1>4, <2>1, <2>2, <2>3, NothingBuffered DEF FileOK
    <3>2. QED
      BY <1>1, <3>1, QuietIsKept
  <2>4. CASE handle # 0
    <3>1. Behind(FileTexts(files, handle, buffer[s]), files, buffer[s])
          /\ Len(FileTexts(files, handle, buffer[s])) = Len(files)
      <4>1. buffer[s] \in Seq(Halves) /\ handle = Len(files) /\ files \in Seq(Seq(Halves))
        BY <1>2, <2>1, <2>4
      <4>2. QED
        BY ONLY <4>1, FileTextsFacts DEF Behind
    <3>2. Len(files) \in 1 .. Len(files)
      BY <2>1, <2>4
    <3>3. QED
      BY <1>3, <2>1, <2>2, <3>1, <3>2
  <2>5. QED
    BY <2>3, <2>4
<1>5. CASE s # "file"
  <2> DEFINE fs == <<console[s]>>
  <2>1. s \in {"stdout", "stderr"} /\ console[s] \in Seq(Halves)
    BY <1>5 DEF TypeOK, Streams
  <2>2. fs \in Seq(Seq(Halves)) /\ Len(fs) = 1 /\ fs[1] = console[s]
    BY <2>1, OneElement
  <2>3. Texts(s) = <<console[s] \o buffer[s]>> /\ Texts(s)' = <<console[s] \o buffer'[s]>>
    <3>1. console' = console
      BY <1>1
    <3>2. Texts(s) = <<console[s] \o buffer[s]>> /\ Texts(s)' = <<console'[s] \o buffer'[s]>>
      BY <2>1, TextsAre
    <3>3. QED
      BY <3>1, <3>2
  <2>4. Texts(s)' = fs
    <3>1. buffer'[s] = <<>>
      BY <1>1
    <3>2. console[s] \o buffer'[s] = console[s]
      BY <2>1, <3>1, ConcatText
    <3>3. QED
      BY <2>3, <3>2
  <2>5. Behind(Texts(s), fs, buffer[s]) /\ Len(Texts(s)) = 1
    <3>1. console[s] \o buffer[s] \in Seq(Halves)
      BY <1>2, <2>1, ConcatText
    <3>2. Len(Texts(s)) = 1 /\ Texts(s)[1] = console[s] \o buffer[s]
      <4> DEFINE x == console[s] \o buffer[s]
      <4>1. x \in Seq(Halves) /\ Texts(s) = <<x>>
        BY <2>3, <3>1
      <4> HIDE DEF x
      <4>2. Len(Texts(s)) = 1 /\ Texts(s)[1] = x
        BY <4>1, OneElement
      <4>3. QED
        BY <4>2 DEF x
    <3> HIDE DEF fs
    <3>3. Texts(s)[1] = fs[1] \o buffer[s]
      BY <2>2, <3>2
    <3>4. \A i \in 1 .. Len(fs) : i = 1 /\ i = Len(fs)
      BY <2>2
    <3>5. QED
      BY <3>2, <3>3, <3>4 DEF Behind
  <2> HIDE DEF fs
  <2>6. 1 \in 1 .. Len(fs)
    BY <2>2
  <2>7. QED
    BY <1>3, <2>2, <2>4, <2>5, <2>6
<1>6. QED
  BY <1>4, <1>5

\* Every step changes the texts of a stream in one of the five ways.
LEMMA StreamEffect ==
    ASSUME TypeOK, LocksOK, FileOK, StampOK, GivenOK, TextsOK, [Next]_vars, NEW s \in Streams
    PROVE  StreamStep(s)
<1> USE DEF threadVars, fileVars, history
<1>0. /\ task \in [Threads -> [record : Records, sink : SinkNames]]
      /\ buffer \in [Streams -> Seq(Halves)] /\ scratch \in [SinkNames -> Seq(Halves)]
      /\ given \in [Streams -> Seq(Records)] /\ crashes \in Nat
  BY DEF TypeOK
<1>1. lost \subseteq lost' /\ crashes <= crashes'
  <2>1. lost' = lost \/ lost' = lost \cup UNION {RecordsIn(buffer[u]) : u \in Streams}
    BY DEF Next, Write, Fill, Stamp, OpenToWrite, Put, Reopen, ReopenOpen, Flush, Spill, Start,
           Stop, Crash, MoveAway, vars
  <2>2. crashes' = crashes \/ crashes' = crashes + 1
    BY DEF Next, Write, Fill, Stamp, OpenToWrite, Put, Reopen, ReopenOpen, Flush, Spill, Start,
           Stop, Crash, MoveAway, vars
  <2>3. QED
    BY <1>0, <2>1, <2>2
\* Steps that leave the texts alone.
<1>2. ASSUME \A u \in Streams : Texts(u)' = Texts(u), UNCHANGED <<given, cut>>
      PROVE  StreamStep(s)
  <2>1. Kept(s)
    BY <1>2, QuietIsKept
  <2>2. QED
    BY <1>1, <2>1 DEF StreamStep
<1>3. ASSUME UNCHANGED <<files, handle, buffer, console, given, cut>>
      PROVE  StreamStep(s)
  <2>1. \A u \in Streams : Texts(u)' = Texts(u)
    BY <1>3, TextsAre DEF Streams
  <2>2. QED
    BY <1>2, <1>3, <2>1
<1>4. ASSUME NEW t \in Threads, \/ \E k \in SinkNames, r \in Records : Write(t, k, r)
                                \/ Fill(t) \/ Stamp(t)
      PROVE  StreamStep(s)
  BY <1>3, <1>4 DEF Write, Fill, Stamp
\* fopen.
<1>5. ASSUME handle = 0, Open \/ OpenFails, UNCHANGED <<buffer, console, given, lost>>
      PROVE  StreamStep(s)
  <2>1. CASE Open
    <3>1. Kept(s) \/ Grows(s) \/ Empties(s)
      BY <1>5, <2>1, OpenEffect
    <3>2. QED
      BY <1>1, <3>1 DEF StreamStep
  <2>2. CASE OpenFails
    <3>1. Kept(s)
      BY <1>5, <2>2, OpenFailsEffect
    <3>2. QED
      BY <1>1, <3>1 DEF StreamStep
  <2>3. QED
    BY <1>5, <2>1, <2>2
<1>6. ASSUME NEW t \in Threads, OpenToWrite(t)
      PROVE  StreamStep(s)
  <2>1. handle = 0 /\ (Open \/ OpenFails) /\ UNCHANGED <<buffer, console, given, lost>>
    BY <1>6 DEF OpenToWrite
  <2>2. QED
    BY <1>5, <2>1
<1>7. ASSUME NEW t \in Threads, ReopenOpen(t)
      PROVE  StreamStep(s)
  <2>1. handle = 0
    BY <1>7 DEF ReopenOpen, FileOK
  <2>2. (Open \/ OpenFails) /\ UNCHANGED <<buffer, console, given, lost>>
    BY <1>7 DEF ReopenOpen
  <2>3. QED
    BY <1>5, <2>1, <2>2
<1>8. CASE Start
  <2>1. handle = 0
    BY <1>8 DEF Start, FileOK
  <2>2. (Open \/ OpenFails) /\ UNCHANGED <<buffer, console, given, lost>>
    BY <1>8 DEF Start
  <2>3. QED
    BY <1>5, <2>1, <2>2
\* fwrite.
<1>9. ASSUME NEW t \in Threads, Put(t)
      PROVE  StreamStep(s)
  <2>1. PICK r \in Records, k \in SinkNames, d \in Streams :
            r = task[t].record /\ k = task[t].sink /\ d = StreamOf(r, k)
    BY <1>0, StreamTypes
  <2> DEFINE text == buffer[d] \o scratch[k]
             n == IF Through(d, k) THEN Len(text) ELSE 0
  <2>2. /\ pc[t] = "put" /\ (d = "file" => handle # 0) /\ PassOn(d, text, n) /\ handle' = handle
        /\ given' = [given EXCEPT ![d] = Append(@, r)] /\ UNCHANGED <<lost, cut>>
    <3>1. d = "file" <=> k = "file"
      BY <2>1, StreamTypes
    <3>2. pc[t] = "put" /\ (k = "file" => handle # 0) /\ handle' = handle /\ UNCHANGED <<lost, cut>>
      BY <1>9, <2>1 DEF Put
    <3>3. given' = [given EXCEPT ![d] = Append(@, r)]
      BY <1>9, <2>1 DEF Put
    <3>4. PassOn(d, text, n)
      BY <1>9, <2>1, Zenon DEF Put
    <3> HIDE DEF n, text
    <3>5. QED
      BY <3>1, <3>2, <3>3, <3>4
  <2>3. scratch[k] = Line(r, Second[r]) /\ ~InGiven(r)
    BY <2>1, <2>2 DEF StampOK, GivenOK, Writing
  <2>4. text \in Seq(Halves) /\ scratch[k] \in Seq(Halves)
    BY <1>0
  <2>5. n \in 0 .. Len(text)
    <3>1. n = Len(text) \/ n = 0
      OBVIOUS
    <3> HIDE DEF n, text
    <3>2. QED
      BY <2>4, <3>1
  <2>6. PICK line \in Seq(Halves) : line = Line(r, Second[r]) /\ line = scratch[k]
    BY <2>3, <2>4
  <2>7. text = buffer[d] \o line
    BY <2>6
  <2> HIDE DEF n, text
  <2>8. PICK m \in Nat : m \in 0 .. Len(buffer[d] \o line) /\ PassOn(d, buffer[d] \o line, m)
    BY <2>2, <2>5, <2>7
  <2>9. /\ Texts(d) # <<>>
        /\ Texts(d)' = Extended(Texts(d), Len(Texts(d)), line)
        /\ \A u \in Streams : u # d => Texts(u)' = Texts(u)
    BY <2>2, <2>8, PassOnEffect
  <2>10. CASE s = d
    <3>1. Gains(s)
      <4>1. /\ ~InGiven(r) /\ given' = [given EXCEPT ![s] = Append(@, r)] /\ Texts(s) # <<>>
            /\ UNCHANGED <<lost, cut>>
        BY <2>2, <2>3, <2>9, <2>10
      <4>2. Texts(s)' = Extended(Texts(s), Len(Texts(s)), Line(r, Second[r]))
        BY <2>6, <2>9, <2>10
      <4>3. QED
        BY <4>1, <4>2 DEF Gains
    <3>2. QED
      BY <1>1, <3>1 DEF StreamStep
  <2>11. CASE s # d
    <3>1. Kept(s)
      BY <1>0, <2>2, <2>9, <2>11 DEF Kept
    <3>2. QED
      BY <1>1, <3>1 DEF StreamStep
  <2>12. QED
    BY <2>10, <2>11
<1>10. ASSUME NEW u \in Streams, NEW n \in 0 .. Len(buffer[u]), PassOn(u, buffer[u], n),
              UNCHANGED <<handle, given, cut>>, u = "file" => handle # 0
       PROVE  StreamStep(s)
  BY <1>2, <1>10, PassOnKeeps
<1>11. ASSUME NEW k \in SinkNames, Flush(k)
       PROVE  StreamStep(s)
  <2>1. UNCHANGED <<handle, given, cut>>
    BY <1>11 DEF Flush
  <2>2. CASE UNCHANGED <<buffer, files, console>>
    BY <1>3, <2>1, <2>2
  <2>3. \/ UNCHANGED <<buffer, files, console>>
        \/ \E u \in Streams : PassOn(u, buffer[u], Len(buffer[u])) /\ (u = "file" => handle # 0)
    BY <1>11 DEF Flush, Streams
  <2>4. \A u \in Streams : Len(buffer[u]) \in 0 .. Len(buffer[u])
    BY <1>0
  <2>5. QED
    BY <1>10, <2>1, <2>2, <2>3, <2>4
<1>12. ASSUME NEW u \in Streams, NEW n \in 1 .. Len(buffer[u]) - 1, Spill(u, n)
       PROVE  StreamStep(s)
  <2>1. PassOn(u, buffer[u], n) /\ UNCHANGED <<handle, given, cut>>
    BY <1>12 DEF Spill
  <2>2. buffer[u] \in Seq(Halves) /\ n \in 0 .. Len(buffer[u]) /\ buffer[u] # <<>>
    BY <1>0
  <2>3. u = "file" => handle # 0
    BY <2>2 DEF FileOK
  <2>4. QED
    BY <1>10, <2>1, <2>2, <2>3
\* fclose.
<1>13. ASSUME NEW t \in Threads, Reopen(t)
       PROVE  StreamStep(s)
  <2>1. /\ handle' = 0 /\ UNCHANGED <<console, given, cut>>
        /\ buffer' = [buffer EXCEPT !["file"] = <<>>]
        /\ files' = IF handle = 0 THEN files ELSE [files EXCEPT ![handle] = @ \o buffer["file"]]
    BY <1>13 DEF Reopen, Close
  <2>2. buffer'["file"] = <<>> /\ \A u \in {"stdout", "stderr"} : UNCHANGED <<console[u], buffer[u]>>
    BY <1>0, <2>1 DEF Streams
  <2>3. \A u \in Streams : Texts(u)' = Texts(u)
    BY <2>1, <2>2, CloseEffect
  <2>4. QED
    BY <1>2, <2>1, <2>3
<1>14. CASE Stop
  <2>1. /\ handle' = 0 /\ UNCHANGED <<given, cut>> /\ buffer' = [u \in Streams |-> <<>>]
        /\ console' = [console EXCEPT !["stdout"] = @ \o buffer["stdout"]]
        /\ files' = IF handle = 0 THEN files ELSE [files EXCEPT ![handle] = @ \o buffer["file"]]
    BY <1>14 DEF Stop
  <2>2. console \in [{"stdout", "stderr"} -> Seq(Halves)] /\ buffer["stderr"] = <<>>
    BY DEF TypeOK, FileOK
  <2>3. \A u \in Streams : buffer'[u] = <<>>
    BY <2>1
  <2>4. console'["stdout"] = console["stdout"] \o buffer["stdout"] /\ console'["stderr"] = console["stderr"]
    BY <2>1, <2>2
  <2>5. \A u \in {"stdout", "stderr"} :
            \/ UNCHANGED <<console[u], buffer[u]>>
            \/ console'[u] = console[u] \o buffer[u] /\ buffer'[u] = <<>>
    BY <2>2, <2>3, <2>4 DEF Streams
  <2>6. buffer'["file"] = <<>>
    BY <2>3 DEF Streams
  <2>7. \A u \in Streams : Texts(u)' = Texts(u)
    BY <2>1, <2>5, <2>6, CloseEffect
  <2>8. QED
    BY <1>2, <2>1, <2>7
<1>15. CASE Crash
  <2>1. Kept(s) \/ LosesEnd(s)
    BY <1>15, CrashEffect
  <2>2. QED
    BY <1>1, <2>1 DEF StreamStep
<1>16. CASE MoveAway \/ UNCHANGED vars
  BY <1>3, <1>16 DEF MoveAway, vars
<1>17. QED
  BY <1>4, <1>6, <1>7, <1>8, <1>9, <1>11, <1>12, <1>13, <1>14, <1>15, <1>16 DEF Next

-----------------------------------------------------------------------------
(* What is given, once and to one stream.                                  *)

LEMMA RecordsOfConcat ==
    ASSUME NEW s \in Seq(Halves), NEW t \in Seq(Halves)
    PROVE  RecordsIn(t) \subseteq RecordsIn(s \o t)
<1> SUFFICES ASSUME NEW i \in DOMAIN t PROVE t[i].record \in RecordsIn(s \o t)
  BY DEF RecordsIn
<1>1. Len(s) \in Nat /\ Len(t) \in Nat /\ i \in 1 .. Len(t)
  OBVIOUS
<1>2. Len(s \o t) = Len(s) + Len(t) /\ (s \o t)[Len(s) + i] = t[i]
  BY <1>1, ConcatProperties
<1>3. Len(s) + i \in DOMAIN (s \o t)
  BY <1>1, <1>2, ConcatProperties
<1>4. QED
  BY <1>2, <1>3 DEF RecordsIn

\* What the C library holds belongs to the last text of its stream.
LEMMA BufferedIsGiven ==
    ASSUME TypeOK, FileOK, TextsOK, NEW s \in Streams
    PROVE  RecordsIn(buffer[s]) \subseteq ToSet(given[s])
<1>1. /\ files \in Seq(Seq(Halves)) /\ handle \in {0, Len(files)} /\ Len(files) \in Nat
      /\ buffer[s] \in Seq(Halves)
  BY DEF TypeOK, FileOK
<1>2. ASSUME NEW i \in DOMAIN Texts(s), NEW t \in Seq(Halves), Texts(s)[i] = t \o buffer[s]
      PROVE  RecordsIn(buffer[s]) \subseteq ToSet(given[s])
  BY <1>1, <1>2, RecordsOfConcat DEF TextsOK
<1>3. CASE s = "file" /\ handle = 0
  BY <1>3 DEF FileOK, RecordsIn
<1>4. CASE s = "file" /\ handle # 0
  <2>1. handle \in 1 .. Len(files) /\ files[handle] \in Seq(Halves) /\ handle \in DOMAIN Texts(s)
    BY <1>1, <1>4, TextsTypes
  <2>2. Texts(s)[handle] = files[handle] \o buffer[s]
    <3>1. Texts(s) = [i \in DOMAIN files |-> FileText(i)] /\ handle \in DOMAIN files
      BY <1>1, <1>4, <2>1 DEF Texts
    <3>2. Texts(s)[handle] = FileText(handle)
      BY <3>1
    <3>3. QED
      BY <1>4, <3>2 DEF FileText
  <2>3. QED
    BY <1>2, <2>1, <2>2
<1>5. CASE s # "file"
  <2>1. s \in {"stdout", "stderr"} /\ console[s] \in Seq(Halves)
    BY <1>5 DEF TypeOK, Streams
  <2>2. 1 \in DOMAIN Texts(s) /\ Texts(s)[1] = console[s] \o buffer[s]
    <3> DEFINE x == console[s] \o buffer[s]
    <3>1. x \in Seq(Halves) /\ Texts(s) = <<x>>
      BY <1>1, <2>1, TextsAre, ConcatText
    <3> HIDE DEF x
    <3>2. Texts(s) \in Seq(Seq(Halves)) /\ Len(Texts(s)) = 1 /\ Texts(s)[1] = x
      BY <3>1, OneElement
    <3>3. QED
      BY <3>2 DEF x
  <2>3. QED
    BY <1>2, <2>1, <2>2
<1>6. QED
  BY <1>3, <1>4, <1>5

\* The invariant, with the tasks in one part and the streams in the other.
TasksGiven ==
    /\ \A t \in Threads : Writing(t) => task[t].record \in begun /\ ~InGiven(task[t].record)
    /\ \A t, u \in Threads : t # u /\ Writing(t) /\ Writing(u) => task[t].record # task[u].record
    /\ \A s \in Streams : ToSet(given[s]) \subseteq begun
GivenOnce ==
    \A s, u \in Streams : \A i \in DOMAIN given[s], j \in DOMAIN given[u] :
        given[s][i] = given[u][j] => s = u /\ i = j
FatesGiven ==
    /\ \A r \in lost \cup safe : InGiven(r)
    /\ cut \subseteq ToSet(given["file"])

LEMMA GivenParts == GivenOK <=> TasksGiven /\ GivenOnce /\ FatesGiven
  BY DEF GivenOK, TasksGiven, GivenOnce, FatesGiven

LEMMA GivenAppend ==
    ASSUME TypeOK, NEW d \in Streams, NEW r \in Records, given' = [given EXCEPT ![d] = Append(@, r)]
    PROVE  /\ \A s \in Streams : ToSet(given'[s]) = ToSet(given[s]) \cup (IF s = d THEN {r} ELSE {})
           /\ \A s \in Streams : Len(given'[s]) = Len(given[s]) + IF s = d THEN 1 ELSE 0
           /\ \A s \in Streams : \A i \in 1 .. Len(given[s]) : given'[s][i] = given[s][i]
           /\ given'[d][Len(given[d]) + 1] = r
<1>1. given \in [Streams -> Seq(Records)]
  BY DEF TypeOK
<1> DEFINE g == given[d]
           h == Append(g, r)
<1>2. /\ h \in Seq(Records) /\ g \in Seq(Records) /\ Len(h) = Len(g) + 1 /\ Len(g) \in Nat
      /\ h[Len(g) + 1] = r /\ \A i \in 1 .. Len(g) : h[i] = g[i]
  BY <1>1, AppendProperties
<1>3. given'[d] = h /\ \A s \in Streams : s # d => given'[s] = given[s]
  BY <1>1
<1> HIDE DEF h
<1>4. ToSet(h) = ToSet(g) \cup {r}
  <2>1. DOMAIN h = 1 .. Len(g) + 1 /\ DOMAIN g = 1 .. Len(g)
    BY <1>2
  <2>2. DOMAIN h = DOMAIN g \cup {Len(g) + 1}
    BY <1>2, <2>1
  <2>3. \A i \in DOMAIN g : h[i] = g[i]
    BY <1>2, <2>1
  <2>4. QED
    BY <1>2, <2>2, <2>3, SMTT(30) DEF ToSet
<1>5. ASSUME NEW s \in Streams
      PROVE  /\ ToSet(given'[s]) = ToSet(given[s]) \cup (IF s = d THEN {r} ELSE {})
             /\ Len(given'[s]) = Len(given[s]) + IF s = d THEN 1 ELSE 0
             /\ \A i \in 1 .. Len(given[s]) : given'[s][i] = given[s][i]
  <2>1. CASE s = d
    BY <1>2, <1>3, <1>4, <2>1
  <2>2. CASE s # d
    <3>1. given'[s] = given[s] /\ Len(given[s]) \in Nat
      BY <1>1, <1>3, <2>2
    <3>2. QED
      BY <2>2, <3>1
  <2>3. QED
    BY <2>1, <2>2
<1>6. given'[d][Len(given[d]) + 1] = r
  BY <1>2, <1>3
<1>7. QED
  BY <1>5, <1>6

LEMMA GivenStep ==
    ASSUME TypeOK, LocksOK, FileOK, GivenOK, TextsOK, [Next]_vars
    PROVE  GivenOK'
<1> USE DEF threadVars, fileVars, history
<1>0. /\ TasksGiven /\ GivenOnce /\ FatesGiven
      /\ pc \in [Threads -> {"idle", "fill", "stamp", "put", "open"}]
      /\ task \in [Threads -> [record : Records, sink : SinkNames]]
      /\ given \in [Streams -> Seq(Records)]
  BY GivenParts DEF TypeOK
<1>h. SUFFICES TasksGiven' /\ GivenOnce' /\ FatesGiven'
  BY DEF GivenOK, TasksGiven, GivenOnce, FatesGiven
<1>1. ASSUME given' = given
      PROVE  /\ GivenOnce' /\ \A r : InGiven(r)' <=> InGiven(r)
             /\ \A s \in Streams : ToSet(given'[s]) = ToSet(given[s])
  BY <1>0, <1>1 DEF GivenOnce, InGiven
<1>2. ASSUME given' = given, begun' = begun,
             \A t \in Threads : Writing(t)' => Writing(t) /\ task'[t].record = task[t].record
      PROVE  TasksGiven'
  BY <1>0, <1>1, <1>2 DEF TasksGiven
<1>3. ASSUME UNCHANGED <<given, lost, safe, cut>>
      PROVE  GivenOnce' /\ FatesGiven'
  BY <1>0, <1>1, <1>3 DEF FatesGiven, Streams
<1>4. ASSUME UNCHANGED <<given, lost, safe, cut, begun>>,
             \A t \in Threads : Writing(t)' => Writing(t) /\ task'[t].record = task[t].record
      PROVE  TasksGiven' /\ GivenOnce' /\ FatesGiven'
  BY <1>2, <1>3, <1>4
<1>5. ASSUME NEW t \in Threads, NEW k \in SinkNames, NEW r \in Records, Write(t, k, r)
      PROVE  TasksGiven' /\ GivenOnce' /\ FatesGiven'
  <2>1. GivenOnce' /\ FatesGiven'
    BY <1>3, <1>5 DEF Write
  <2>2. /\ r \notin begun /\ begun' = begun \cup {r} /\ given' = given
        /\ task'[t].record = r /\ pc'[t] = "fill"
        /\ \A u \in Threads : u # t => pc'[u] = pc[u] /\ task'[u] = task[u]
    BY <1>0, <1>5 DEF Write
  <2>3. \A s \in Streams : ToSet(given'[s]) \subseteq begun'
    BY <1>0, <2>2 DEF TasksGiven
  <2>4. ~InGiven(r)
    BY <1>0, <2>2 DEF TasksGiven, InGiven
  <2>5. \A u \in Threads : u # t /\ Writing(u)' =>
            /\ Writing(u) /\ task'[u].record = task[u].record
            /\ task[u].record \in begun /\ task[u].record # r /\ ~InGiven(task[u].record)
    BY <1>0, <2>2 DEF TasksGiven, Writing
  <2>6. \A u \in Threads : Writing(u)' => task'[u].record \in begun' /\ ~InGiven(task'[u].record)
    BY <2>2, <2>4, <2>5
  <2>7. \A u \in Threads : Writing(u)' => ~InGiven(task[u].record)'
    BY <2>2, <2>6 DEF InGiven
  <2>8. \A u, v \in Threads : u # v /\ Writing(u)' /\ Writing(v)' => task'[u].record # task'[v].record
    BY <1>0, <2>2, <2>5 DEF TasksGiven
  <2>9. TasksGiven'
    BY <2>3, <2>6, <2>7, <2>8 DEF TasksGiven
  <2>10. QED
    BY <2>1, <2>9
<1>6. ASSUME NEW t \in Threads, Fill(t) \/ Stamp(t) \/ Reopen(t)
      PROVE  TasksGiven' /\ GivenOnce' /\ FatesGiven'
  <2>1. UNCHANGED <<given, lost, safe, cut, begun>>
    BY <1>6 DEF Fill, Stamp, Reopen
  <2>2. ASSUME NEW u \in Threads, Writing(u)'
        PROVE  Writing(u) /\ task'[u].record = task[u].record
    BY <1>0, <1>6, <2>2 DEF Fill, Stamp, Reopen, Writing
  <2>3. QED
    BY <1>4, <2>1, <2>2
\* fopen.
<1>7. ASSUME handle = 0, Open \/ OpenFails,
             UNCHANGED <<given, lost, safe, begun, task>>,
             \A u \in Threads : pc'[u] = pc[u] \/ pc'[u] = "idle"
      PROVE  TasksGiven' /\ GivenOnce' /\ FatesGiven'
  <2>1. TasksGiven'
    BY <1>2, <1>7 DEF Writing
  <2>2. GivenOnce' /\ \A r \in lost' \cup safe' : InGiven(r)'
    BY <1>0, <1>1, <1>7 DEF FatesGiven
  <2>3. cut' \subseteq ToSet(given["file"])
    <3>1. CASE cut' = cut
      BY <1>0, <3>1 DEF FatesGiven
    <3>2. CASE cut' # cut
      <4>1. cut' = cut \cup RecordsIn(files[atPath]) /\ atPath # 0
        BY <1>7, <3>2 DEF Open, OpenFails
      <4>2. /\ files \in Seq(Seq(Halves)) /\ atPath \in DOMAIN files /\ buffer["file"] = <<>>
        BY <1>7, <4>1 DEF TypeOK, FileOK
      <4>3. Texts("file") = files
        BY <4>2, TextsAre, NothingBuffered
      <4>4. RecordsIn(files[atPath]) \subseteq ToSet(given["file"])
        BY <4>2, <4>3 DEF TextsOK, Streams
      <4>5. QED
        BY <1>0, <4>1, <4>4 DEF FatesGiven
    <3>3. QED
      BY <3>1, <3>2
  <2>4. QED
    BY <1>7, <2>1, <2>2, <2>3 DEF FatesGiven
<1>8. ASSUME NEW t \in Threads, OpenToWrite(t)
      PROVE  TasksGiven' /\ GivenOnce' /\ FatesGiven'
  <2>1. /\ handle = 0 /\ (Open \/ OpenFails) /\ UNCHANGED <<given, lost, safe, begun, task>>
        /\ \A u \in Threads : pc'[u] = pc[u] \/ pc'[u] = "idle"
    BY <1>0, <1>8 DEF OpenToWrite
  <2>2. QED
    BY <1>7, <2>1
<1>9. ASSUME NEW t \in Threads, ReopenOpen(t)
      PROVE  TasksGiven' /\ GivenOnce' /\ FatesGiven'
  <2>1. handle = 0
    BY <1>9 DEF ReopenOpen, FileOK
  <2>2. /\ (Open \/ OpenFails) /\ UNCHANGED <<given, lost, safe, begun, task>>
        /\ \A u \in Threads : pc'[u] = pc[u] \/ pc'[u] = "idle"
    BY <1>0, <1>9 DEF ReopenOpen
  <2>3. QED
    BY <1>7, <2>1, <2>2
<1>10. CASE Start
  <2>1. /\ handle = 0 /\ (Open \/ OpenFails) /\ UNCHANGED <<given, lost, safe, begun, task, pc>>
    BY <1>10 DEF Start, FileOK
  <2>2. QED
    BY <1>7, <2>1
\* fwrite.
<1>11. ASSUME NEW t \in Threads, Put(t)
       PROVE  TasksGiven' /\ GivenOnce' /\ FatesGiven'
  <2>1. PICK r \in Records, k \in SinkNames, d \in Streams :
            r = task[t].record /\ k = task[t].sink /\ d = StreamOf(r, k)
    BY <1>0, StreamTypes
  <2>2. /\ pc[t] = "put" /\ UNCHANGED <<lost, cut, begun, task>> /\ pc' = [pc EXCEPT ![t] = "idle"]
        /\ safe' \subseteq safe \cup {r}
    BY <1>11, <2>1 DEF Put
  <2>3. given' = [given EXCEPT ![d] = Append(@, r)]
    BY <1>11, <2>1 DEF Put
  <2>4. /\ \A s \in Streams : ToSet(given'[s]) = ToSet(given[s]) \cup (IF s = d THEN {r} ELSE {})
        /\ \A s \in Streams : Len(given'[s]) = Len(given[s]) + IF s = d THEN 1 ELSE 0
        /\ \A s \in Streams : \A i \in 1 .. Len(given[s]) : given'[s][i] = given[s][i]
        /\ given'[d][Len(given[d]) + 1] = r
    BY <2>3, GivenAppend
  <2>5. \A q : InGiven(q)' <=> InGiven(q) \/ q = r
    BY <2>4 DEF InGiven
  <2>6. ~InGiven(r) /\ r \in begun
    BY <1>0, <2>1, <2>2 DEF TasksGiven, Writing
  <2>7. TasksGiven'
    <3>1. \A u \in Threads : Writing(u)' => u # t /\ Writing(u) /\ task'[u] = task[u]
      BY <1>0, <2>2 DEF Writing
    <3>2. \A u \in Threads : Writing(u)' => task[u].record # r
      BY <1>0, <2>1, <2>2, <3>1 DEF TasksGiven, Writing
    <3>3. \A u \in Threads : Writing(u)' => ~InGiven(task[u].record)'
      <4>1. ASSUME NEW u \in Threads, Writing(u)' PROVE ~InGiven(task[u].record)'
        <5>1. PICK q : q = task[u].record /\ q # r /\ ~InGiven(q) /\ task'[u] = task[u]
          BY <1>0, <3>1, <3>2, <4>1 DEF TasksGiven
        <5>2. ~InGiven(q)'
          BY <2>5, <5>1
        <5>3. QED
          BY <5>1, <5>2 DEF InGiven
      <4>2. QED
        BY <4>1
    <3>4. \A s \in Streams : ToSet(given'[s]) \subseteq begun'
      BY <1>0, <2>2, <2>4, <2>6 DEF TasksGiven
    <3>5. QED
      BY <1>0, <2>2, <3>1, <3>3, <3>4 DEF TasksGiven
  <2>8. GivenOnce'
    <3> SUFFICES ASSUME NEW s \in Streams, NEW u \in Streams, NEW i \in DOMAIN given'[s],
                        NEW j \in DOMAIN given'[u], given'[s][i] = given'[u][j]
                 PROVE  s = u /\ i = j
      BY DEF GivenOnce
    <3>1. \A v \in Streams : given[v] \in Seq(Records) /\ given'[v] \in Seq(Records)
      BY <1>0, <2>3
    <3>2. \A v \in Streams : \A h \in DOMAIN given'[v] :
              \/ h \in DOMAIN given[v] /\ given'[v][h] = given[v][h] /\ given[v][h] # r
              \/ v = d /\ h = Len(given[d]) + 1 /\ given'[v][h] = r
      <4> SUFFICES ASSUME NEW v \in Streams, NEW h \in DOMAIN given'[v]
                   PROVE  \/ h \in DOMAIN given[v] /\ given'[v][h] = given[v][h] /\ given[v][h] # r
                          \/ v = d /\ h = Len(given[d]) + 1 /\ given'[v][h] = r
        OBVIOUS
      <4>1. /\ DOMAIN given[v] = 1 .. Len(given[v]) /\ DOMAIN given'[v] = 1 .. Len(given'[v])
            /\ Len(given[v]) \in Nat
        BY <3>1
      <4>2. CASE h \in 1 .. Len(given[v])
        <5>1. given[v][h] # r
          BY <2>6, <4>1, <4>2 DEF InGiven, ToSet
        <5>2. QED
          BY <2>4, <4>1, <4>2, <5>1
      <4>3. CASE h \notin 1 .. Len(given[v])
        <5>1. v = d /\ h = Len(given[v]) + 1
          <6>1. Len(given'[v]) = Len(given[v]) + IF v = d THEN 1 ELSE 0
            BY <2>4
          <6>2. h \in 1 .. Len(given'[v])
            BY <4>1
          <6>3. CASE v = d
            BY <4>1, <4>3, <6>1, <6>2, <6>3
          <6>4. CASE v # d
            BY <4>1, <4>3, <6>1, <6>2, <6>4
          <6>5. QED
            BY <6>3, <6>4
        <5>2. QED
          BY <2>4, <5>1
      <4>4. QED
        BY <4>2, <4>3
    <3>3. QED
      BY <1>0, <3>2 DEF GivenOnce
  <2>9. FatesGiven'
    <3>1. \A q \in lost' \cup safe' : InGiven(q)'
      BY <1>0, <2>2, <2>5 DEF FatesGiven
    <3>2. cut' \subseteq ToSet(given'["file"])
      BY <1>0, <2>2, <2>4 DEF FatesGiven, Streams
    <3>3. QED
      BY <3>1, <3>2 DEF FatesGiven
  <2>10. QED
    BY <2>7, <2>8, <2>9
<1>12. ASSUME NEW k \in SinkNames, Flush(k)
       PROVE  TasksGiven' /\ GivenOnce' /\ FatesGiven'
  <2>1. /\ UNCHANGED <<given, lost, cut, begun, task, pc>>
        /\ \A r \in safe' : r \in safe \/ \E u \in Streams : r \in ToSet(given[u])
    BY <1>12 DEF Flush, Streams
  <2>2. TasksGiven'
    BY <1>2, <2>1 DEF Writing
  <2>3. GivenOnce' /\ FatesGiven'
    <3>1. \A r \in lost' \cup safe' : InGiven(r)
      BY <1>0, <2>1 DEF FatesGiven, InGiven
    <3>2. QED
      BY <1>0, <1>1, <2>1, <3>1 DEF FatesGiven, Streams
  <2>4. QED
    BY <2>2, <2>3
<1>13. CASE Crash
  <2>1. /\ UNCHANGED <<given, safe, cut, begun, task>> /\ \A t \in Threads : pc'[t] = "idle"
        /\ lost' = lost \cup UNION {RecordsIn(buffer[s]) : s \in Streams}
    BY <1>13 DEF Crash
  <2>2. TasksGiven'
    BY <1>2, <2>1 DEF Writing
  <2>3. \A r \in lost' \cup safe' : InGiven(r)
    BY <1>0, <2>1, BufferedIsGiven DEF FatesGiven, InGiven
  <2>4. QED
    BY <1>0, <1>1, <2>1, <2>2, <2>3 DEF FatesGiven, Streams
<1>14. CASE \/ \E s \in Streams : \E n \in 1 .. Len(buffer[s]) - 1 : Spill(s, n)
            \/ Stop \/ MoveAway \/ UNCHANGED vars
  <2>1. UNCHANGED <<given, lost, safe, cut, begun, task, pc>>
    BY <1>14 DEF Spill, Stop, MoveAway, vars
  <2>2. QED
    BY <1>4, <2>1 DEF Writing
<1>15. QED
  BY <1>5, <1>6, <1>8, <1>9, <1>10, <1>11, <1>12, <1>13, <1>14 DEF Next

-----------------------------------------------------------------------------
(* Heads and torn lines, and what the changes of texts do to them.         *)

TextsType == Seq(Seq(Halves))

HeadAt(T, i, j) == i \in 1 .. Len(T) /\ j \in 1 .. Len(T[i]) /\ T[i][j].part = "head"
TornAt(T, i, j) == HeadAt(T, i, j) /\ (j = Len(T[i]) \/ ~Matches(T[i][j], T[i][j + 1]))

LEMMA PlacesAre ==
    ASSUME NEW T \in TextsType
    PROVE  /\ \A i, j : <<i, j>> \in Heads(T) <=> HeadAt(T, i, j)
           /\ \A p \in Heads(T) : \E i, j \in Nat : p = <<i, j>>
           /\ \A i, j : <<i, j>> \in Torn(T) <=> TornAt(T, i, j)
           /\ Torn(T) \subseteq Heads(T)
<1>1. /\ DOMAIN T = 1 .. Len(T) /\ Len(T) \in Nat
      /\ \A i \in 1 .. Len(T) : T[i] \in Seq(Halves) /\ DOMAIN T[i] = 1 .. Len(T[i]) /\ Len(T[i]) \in Nat
  BY DEF TextsType
<1>2. ASSUME NEW i, NEW j
      PROVE  <<i, j>> \in Heads(T) <=> HeadAt(T, i, j)
  BY <1>1 DEF Heads, HeadAt
<1>3. ASSUME NEW p \in Heads(T)
      PROVE  \E i, j \in Nat : p = <<i, j>>
  <2>1. PICK i \in DOMAIN T : p \in {i} \X DOMAIN T[i]
    BY DEF Heads
  <2>2. i \in Nat /\ DOMAIN T[i] \subseteq Nat
    BY <1>1, <2>1
  <2>3. QED
    BY <2>1, <2>2
<1>4. Torn(T) \subseteq Heads(T)
  BY DEF Torn
<1>5. ASSUME NEW i, NEW j
      PROVE  <<i, j>> \in Torn(T) <=> TornAt(T, i, j)
  BY <1>2 DEF Torn, TornAt
<1>6. QED
  BY <1>2, <1>3, <1>4, <1>5

\* U is T with the line of r at the end of the last text; with an empty text behind it;
\* with only the first n halves of the last text.
HasLine(T, U, m, k, r) ==
    /\ m = Len(T) /\ m \in Nat \ {0} /\ Len(U) = m /\ \A i \in 1 .. m - 1 : U[i] = T[i]
    /\ k = Len(T[m]) /\ k \in Nat /\ Len(U[m]) = k + 2 /\ \A j \in 1 .. k : U[m][j] = T[m][j]
    /\ U[m][k + 1] = [record |-> r, part |-> "head", second |-> Second[r]]
    /\ U[m][k + 2] = [record |-> r, part |-> "tail", second |-> Second[r]]
HasText(T, U, m) ==
    /\ m = Len(T) /\ m \in Nat /\ Len(U) = m + 1 /\ Len(U[m + 1]) = 0
    /\ \A i \in 1 .. m : U[i] = T[i]
HasLost(T, U, m, n, R) ==
    /\ m = Len(T) /\ m \in Nat \ {0} /\ Len(U) = m /\ \A i \in 1 .. m - 1 : U[i] = T[i]
    /\ n \in 0 .. Len(T[m]) /\ Len(T[m]) \in Nat /\ Len(U[m]) = n /\ \A j \in 1 .. n : U[m][j] = T[m][j]
    /\ \A j \in n + 1 .. Len(T[m]) : T[m][j].record \in R

LEMMA EmptyText == \E e \in Seq(Halves) : e = <<>> /\ Len(e) = 0
<1>1. <<>> \in Seq(Halves) /\ Len(<<>>) = 0
  OBVIOUS
<1>2. QED
  BY <1>1

LEMMA ExtendedHasLine ==
    ASSUME NEW T \in TextsType, T # <<>>, NEW r \in Records, NEW m, m = Len(T),
           NEW U, U = Extended(T, m, Line(r, Second[r]))
    PROVE  U \in TextsType /\ HasLine(T, U, m, Len(T[m]), r)
<1> DEFINE line == Line(r, Second[r])
           t == T[m]
<1>1. /\ line \in Seq(Halves) /\ Len(line) = 2
      /\ line[1] = [record |-> r, part |-> "head", second |-> Second[r]]
      /\ line[2] = [record |-> r, part |-> "tail", second |-> Second[r]]
  <2>1. Second[r] \in Int
    BY TransportSinksAssumption
  <2>2. QED
    BY <2>1, LineFacts
<1>2. m \in Nat \ {0} /\ m \in 1 .. Len(T) /\ t \in Seq(Halves) /\ Len(t) \in Nat
  BY DEF TextsType
<1> HIDE DEF line
<1>3. PICK w : w = t \o line
  OBVIOUS
<1>4. /\ w \in Seq(Halves) /\ Len(w) = Len(t) + 2
      /\ \A i \in 1 .. Len(t) + 2 : w[i] = IF i <= Len(t) THEN t[i] ELSE line[i - Len(t)]
  <2>1. /\ t \o line \in Seq(Halves) /\ Len(t \o line) = Len(t) + Len(line)
        /\ \A i \in 1 .. Len(t) + Len(line) :
              (t \o line)[i] = IF i <= Len(t) THEN t[i] ELSE line[i - Len(t)]
    <3>1. ASSUME NEW a \in Seq(Halves), NEW b \in Seq(Halves)
          PROVE  /\ a \o b \in Seq(Halves) /\ Len(a \o b) = Len(a) + Len(b)
                 /\ \A i \in 1 .. Len(a) + Len(b) : (a \o b)[i] = IF i <= Len(a) THEN a[i] ELSE b[i - Len(a)]
      BY ConcatProperties
    <3>2. QED
      BY <1>1, <1>2, <3>1
  <2>2. QED
    BY <1>1, <1>3, <2>1
<1>5. \A j \in 1 .. Len(t) : j \in 1 .. Len(t) + 2 /\ j <= Len(t)
  BY <1>2
<1>6. w[Len(t) + 1] = line[1] /\ w[Len(t) + 2] = line[2]
  <2>1. Len(t) + 1 \in 1 .. Len(t) + 2 /\ Len(t) + 2 \in 1 .. Len(t) + 2
        /\ ~(Len(t) + 1 <= Len(t)) /\ ~(Len(t) + 2 <= Len(t))
        /\ (Len(t) + 1) - Len(t) = 1 /\ (Len(t) + 2) - Len(t) = 2
    BY <1>2
  <2>2. QED
    BY <1>4, <2>1
<1>7. U = [T EXCEPT ![m] = w]
  BY <1>3 DEF Extended, line
<1>8. U \in Seq(Seq(Halves)) /\ Len(U) = Len(T) /\ \A i \in 1 .. Len(T) : U[i] = IF i = m THEN w ELSE T[i]
  BY <1>2, <1>4, <1>7, ExceptSeq DEF TextsType
<1>9. U[m] = w /\ \A i \in 1 .. m - 1 : U[i] = T[i]
  <2>1. \A i \in 1 .. m - 1 : i \in 1 .. Len(T) /\ i # m
    BY <1>2
  <2>2. QED
    BY <1>2, <1>8, <2>1
<1>10. QED
  BY <1>1, <1>2, <1>4, <1>5, <1>6, <1>8, <1>9 DEF HasLine, TextsType

LEMMA AppendHasText ==
    ASSUME NEW T \in TextsType, NEW U, U = Append(T, <<>>)
    PROVE  U \in TextsType /\ HasText(T, U, Len(T))
<1>1. PICK e \in Seq(Halves) : e = <<>> /\ Len(e) = 0
  BY EmptyText
<1>2. U = Append(T, e) /\ T \in Seq(Seq(Halves)) /\ Len(T) \in Nat
  BY <1>1 DEF TextsType
<1>3. /\ U \in Seq(Seq(Halves)) /\ Len(U) = Len(T) + 1 /\ U[Len(T) + 1] = e
      /\ \A i \in 1 .. Len(T) : U[i] = T[i]
  BY <1>2, AppendProperties
<1>4. QED
  BY <1>1, <1>2, <1>3 DEF HasText, TextsType

LEMMA LosesAfterHasLost ==
    ASSUME NEW T \in TextsType, T # <<>>, NEW U, NEW n \in Nat, NEW R, LosesAfter(T, U, n, R)
    PROVE  U \in TextsType /\ HasLost(T, U, Len(T), n, R)
<1> DEFINE m == Len(T)
<1>1. m \in Nat \ {0} /\ m \in 1 .. Len(T) /\ T[m] \in Seq(Halves) /\ Len(T[m]) \in Nat
  BY DEF TextsType
<1>2. /\ n \in 0 .. Len(T[m]) /\ U = [T EXCEPT ![m] = SubSeq(T[m], 1, n)]
      /\ \A j \in n + 1 .. Len(T[m]) : T[m][j].record \in R
  BY DEF LosesAfter
<1>3. PICK w : w = SubSeq(T[m], 1, n)
  OBVIOUS
<1>4. w \in Seq(Halves) /\ Len(w) = n /\ \A j \in 1 .. n : w[j] = T[m][j]
  BY <1>1, <1>2, <1>3, Divided
<1>5. U = [T EXCEPT ![m] = w]
  BY <1>2, <1>3
<1>6. U \in Seq(Seq(Halves)) /\ Len(U) = Len(T) /\ \A i \in 1 .. Len(T) : U[i] = IF i = m THEN w ELSE T[i]
  BY <1>1, <1>4, <1>5, ExceptSeq DEF TextsType
<1>7. U[m] = w /\ \A i \in 1 .. m - 1 : U[i] = T[i]
  <2>1. \A i \in 1 .. m - 1 : i \in 1 .. Len(T) /\ i # m
    BY <1>1
  <2>2. QED
    BY <1>1, <1>6, <2>1
<1>8. QED
  BY <1>1, <1>2, <1>4, <1>6, <1>7 DEF HasLost, TextsType

LEMMA EmptiedHasLost ==
    ASSUME NEW T \in TextsType, T # <<>>, NEW U, U = [T EXCEPT ![Len(T)] = <<>>]
    PROVE  U \in TextsType /\ HasLost(T, U, Len(T), 0, RecordsIn(T[Len(T)]))
<1> DEFINE m == Len(T)
<1>1. m \in Nat \ {0} /\ m \in 1 .. Len(T) /\ T[m] \in Seq(Halves) /\ Len(T[m]) \in Nat
  BY DEF TextsType
<1>2. PICK e \in Seq(Halves) : e = <<>> /\ Len(e) = 0
  BY EmptyText
<1>3. U = [T EXCEPT ![m] = e]
  BY <1>2
<1>4. U \in Seq(Seq(Halves)) /\ Len(U) = Len(T) /\ \A i \in 1 .. Len(T) : U[i] = IF i = m THEN e ELSE T[i]
  BY <1>1, <1>3, ExceptSeq DEF TextsType
<1>5. U[m] = e /\ \A i \in 1 .. m - 1 : U[i] = T[i]
  <2>1. \A i \in 1 .. m - 1 : i \in 1 .. Len(T) /\ i # m
    BY <1>1
  <2>2. QED
    BY <1>1, <1>4, <2>1
<1>6. \A j \in 0 + 1 .. Len(T[m]) : T[m][j].record \in RecordsIn(T[m])
  BY <1>1 DEF RecordsIn
<1>7. 0 \in 0 .. Len(T[m]) /\ Len(U[m]) = 0 /\ \A j \in 1 .. 0 : U[m][j] = T[m][j]
  BY <1>1, <1>2, <1>5
<1>8. m = Len(T) /\ Len(U) = m
  BY <1>4
<1> HIDE DEF m
<1>9. HasLost(T, U, m, 0, RecordsIn(T[m]))
  BY <1>1, <1>5, <1>6, <1>7, <1>8 DEF HasLost
<1>10. QED
  BY <1>4, <1>9 DEF m, TextsType

LEMMA LineAdded ==
    ASSUME NEW T \in TextsType, NEW U \in TextsType, NEW m, NEW k, NEW r, HasLine(T, U, m, k, r)
    PROVE  /\ \A i, j : HeadAt(U, i, j) <=> HeadAt(T, i, j) \/ (i = m /\ j = k + 1)
           /\ \A i, j : HeadAt(T, i, j) => U[i][j] = T[i][j]
           /\ \A i, j : TornAt(U, i, j) => TornAt(T, i, j)
<1> USE DEF HasLine
<1>1. ASSUME NEW i, NEW j
      PROVE  HeadAt(U, i, j) <=> HeadAt(T, i, j) \/ (i = m /\ j = k + 1)
  <2>1. CASE i \in 1 .. m - 1
    <3>1. U[i] = T[i] /\ i \in 1 .. Len(T) /\ i \in 1 .. Len(U) /\ i # m
      BY <2>1
    <3>2. QED
      BY <3>1, Zenon DEF HeadAt
  <2>2. CASE i = m
    <3>1. CASE j \in 1 .. k
      BY <2>2, <3>1 DEF HeadAt
    <3>2. CASE j = k + 1 \/ j = k + 2
      BY <2>2, <3>2 DEF HeadAt
    <3>3. CASE j \notin 1 .. k + 2
      BY <2>2, <3>3 DEF HeadAt
    <3>4. QED
      BY <3>1, <3>2, <3>3
  <2>3. CASE i \notin 1 .. m
    BY <2>3 DEF HeadAt
  <2>4. QED
    BY <2>1, <2>2, <2>3
<1>2. ASSUME NEW i, NEW j, HeadAt(T, i, j)
      PROVE  U[i][j] = T[i][j]
  BY <1>2 DEF HeadAt
<1>3. ASSUME NEW i, NEW j, TornAt(U, i, j)
      PROVE  TornAt(T, i, j)
  <2>1. HeadAt(T, i, j) \/ (i = m /\ j = k + 1)
    BY <1>1, <1>3 DEF TornAt
  <2>2. CASE i = m /\ j = k + 1
    <3>1. Matches(U[m][k + 1], U[m][k + 2]) /\ j + 1 = k + 2 /\ j # Len(U[m])
      BY <2>2 DEF Matches
    <3>2. QED
      BY <1>3, <2>2, <3>1 DEF TornAt
  <2>3. CASE HeadAt(T, i, j)
    <3>1. CASE i # m
      <4>1. i \in 1 .. m - 1
        BY <2>3, <3>1 DEF HeadAt
      <4>2. U[i] = T[i]
        BY <4>1
      <4>3. QED
        BY <1>3, <2>3, <4>2 DEF TornAt
    <3>2. CASE i = m /\ j = k
      BY <2>3, <3>2 DEF TornAt
    <3>3. CASE i = m /\ j # k
      <4>1. j \in 1 .. k /\ j + 1 \in 1 .. k
        BY <2>3, <3>3 DEF HeadAt
      <4>2. U[i][j] = T[i][j] /\ U[i][j + 1] = T[i][j + 1] /\ j # Len(U[i])
        BY <3>3, <4>1
      <4>3. QED
        BY <1>3, <2>3, <4>2 DEF TornAt
    <3>4. QED
      BY <3>1, <3>2, <3>3
  <2>4. QED
    BY <2>1, <2>2, <2>3
<1>4. QED
  BY <1>1, <1>2, <1>3

LEMMA TextAdded ==
    ASSUME NEW T \in TextsType, NEW U \in TextsType, NEW m, HasText(T, U, m)
    PROVE  /\ \A i, j : HeadAt(U, i, j) <=> HeadAt(T, i, j)
           /\ \A i, j : HeadAt(T, i, j) => U[i][j] = T[i][j]
           /\ \A i, j : TornAt(U, i, j) => TornAt(T, i, j)
<1> USE DEF HasText
<1>1. ASSUME NEW i, NEW j
      PROVE  HeadAt(U, i, j) <=> HeadAt(T, i, j)
  <2>1. CASE i \in 1 .. m
    BY <2>1 DEF HeadAt
  <2>2. CASE i \notin 1 .. m
    <3>1. ~HeadAt(T, i, j)
      BY <2>2 DEF HeadAt
    <3>2. ASSUME HeadAt(U, i, j) PROVE FALSE
      <4>1. i = m + 1 /\ j \in 1 .. 0
        BY <2>2, <3>2 DEF HeadAt
      <4>2. QED
        BY <4>1
    <3>3. QED
      BY <3>1, <3>2
  <2>3. QED
    BY <2>1, <2>2
<1>2. ASSUME NEW i, NEW j, HeadAt(T, i, j)
      PROVE  U[i] = T[i]
  <2>1. i \in 1 .. m
    BY <1>2 DEF HeadAt
  <2>2. \A h \in 1 .. m : U[h] = T[h]
    OBVIOUS
  <2>3. QED
    BY ONLY <2>1, <2>2
<1>3. ASSUME NEW i, NEW j, TornAt(U, i, j)
      PROVE  TornAt(T, i, j)
  BY <1>1, <1>2, <1>3 DEF TornAt
<1>4. QED
  BY <1>1, <1>2, <1>3

LEMMA EndLost ==
    ASSUME NEW T \in TextsType, NEW U \in TextsType, NEW m, NEW n, NEW R, HasLost(T, U, m, n, R)
    PROVE  /\ \A i, j : HeadAt(U, i, j) <=> HeadAt(T, i, j) /\ ~(i = m /\ j > n)
           /\ \A i, j : HeadAt(U, i, j) => U[i][j] = T[i][j]
           /\ \A i, j : TornAt(U, i, j) => TornAt(T, i, j) \/ (i = m /\ j = n /\ n > 0)
<1> USE DEF HasLost
<1>1. ASSUME NEW i, NEW j
      PROVE  HeadAt(U, i, j) <=> HeadAt(T, i, j) /\ ~(i = m /\ j > n)
  <2>1. CASE i \in 1 .. m - 1
    BY <2>1 DEF HeadAt
  <2>2. CASE i = m
    <3>1. CASE j \in 1 .. n
      BY <2>2, <3>1 DEF HeadAt
    <3>2. CASE j \notin 1 .. n
      BY <2>2, <3>2 DEF HeadAt
    <3>3. QED
      BY <3>1, <3>2
  <2>3. CASE i \notin 1 .. m
    BY <2>3 DEF HeadAt
  <2>4. QED
    BY <2>1, <2>2, <2>3
<1>2. ASSUME NEW i, NEW j, HeadAt(U, i, j)
      PROVE  U[i][j] = T[i][j]
  BY <1>2 DEF HeadAt
<1>3. ASSUME NEW i, NEW j, TornAt(U, i, j)
      PROVE  TornAt(T, i, j) \/ (i = m /\ j = n /\ n > 0)
  <2>1. HeadAt(U, i, j) /\ HeadAt(T, i, j) /\ ~(i = m /\ j > n)
    BY <1>1, <1>3 DEF TornAt
  <2>2. CASE i # m
    <3>1. U[i] = T[i]
      BY <2>1, <2>2 DEF HeadAt
    <3>2. QED
      BY <1>3, <2>1, <3>1 DEF TornAt
  <2>3. CASE i = m /\ j = n
    BY <2>1, <2>3 DEF HeadAt
  <2>4. CASE i = m /\ j # n
    <3>1. j \in 1 .. n /\ j + 1 \in 1 .. n
      BY <2>1, <2>4 DEF HeadAt
    <3>2. U[i][j] = T[i][j] /\ U[i][j + 1] = T[i][j + 1] /\ j # Len(U[i])
      BY <2>4, <3>1
    <3>3. QED
      BY <1>3, <2>1, <3>2 DEF TornAt
  <2>5. QED
    BY <2>2, <2>3, <2>4
<1>4. QED
  BY <1>1, <1>2, <1>3

-----------------------------------------------------------------------------
(* The texts consist of whole lines, torn ones apart.                      *)

AllWhole(T, G) == \A i \in 1 .. Len(T) : RecordsIn(T[i]) \subseteq G /\ Whole(T[i])

LEMMA TextTypes ==
    ASSUME NEW T \in TextsType, NEW i \in 1 .. Len(T)
    PROVE  T[i] \in Seq(Halves) /\ Len(T[i]) \in Nat /\ DOMAIN T[i] = 1 .. Len(T[i])
  BY DEF TextsType

LEMMA LineAddedWhole ==
    ASSUME NEW T \in TextsType, NEW U \in TextsType, NEW m, NEW k, NEW r, HasLine(T, U, m, k, r),
           NEW G, AllWhole(T, G)
    PROVE  AllWhole(U, G \cup {r})
<1> USE DEF HasLine
<1>1. ASSUME NEW i \in 1 .. Len(U), i # m
      PROVE  RecordsIn(U[i]) \subseteq G \cup {r} /\ Whole(U[i])
  <2>1. i \in 1 .. m - 1
    BY <1>1
  <2>2. i \in 1 .. Len(T) /\ U[i] = T[i]
    BY <2>1
  <2>3. QED
    BY <2>2 DEF AllWhole
<1>2. /\ DOMAIN U[m] = 1 .. k + 2 /\ DOMAIN T[m] = 1 .. k /\ m \in 1 .. Len(T)
      /\ RecordsIn(T[m]) \subseteq G /\ Whole(T[m])
  BY TextTypes DEF AllWhole
<1>3. \A i \in DOMAIN U[m] : i \in 1 .. k \/ i = k + 1 \/ i = k + 2
  BY <1>2
<1>4. RecordsIn(U[m]) \subseteq G \cup {r}
  <2>1. ASSUME NEW i \in DOMAIN U[m] PROVE U[m][i].record \in G \cup {r}
    <3>1. CASE i \in 1 .. k
      <4>1. U[m][i] = T[m][i] /\ T[m][i].record \in RecordsIn(T[m])
        BY <1>2, <3>1 DEF RecordsIn
      <4>2. QED
        BY <1>2, <4>1
    <3>2. CASE i = k + 1
      BY <3>2
    <3>3. CASE i = k + 2
      BY <3>3
    <3>4. QED
      BY <1>3, <3>1, <3>2, <3>3
  <2>2. QED
    BY <2>1 DEF RecordsIn
<1>5. Whole(U[m])
  <2>1. ASSUME NEW i \in DOMAIN U[m]
        PROVE  /\ U[m][i].second = Second[U[m][i].record]
               /\ U[m][i].part = "tail" => i > 1 /\ Matches(U[m][i - 1], U[m][i])
    <3>1. CASE i \in 1 .. k
      <4>1. U[m][i] = T[m][i] /\ i \in DOMAIN T[m]
        BY <1>2, <3>1
      <4>2. i > 1 => i - 1 \in 1 .. k
        BY <3>1
      <4>3. i > 1 => U[m][i - 1] = T[m][i - 1]
        BY <4>2
      <4>4. QED
        BY <1>2, <4>1, <4>3 DEF Whole
    <3>2. CASE i = k + 1
      BY <3>2
    <3>3. CASE i = k + 2
      <4>1. i > 1 /\ i - 1 = k + 1
        BY <3>3
      <4>2. QED
        BY <3>3, <4>1 DEF Matches
    <3>4. QED
      BY <1>3, <3>1, <3>2, <3>3
  <2>2. QED
    BY <2>1 DEF Whole
<1>6. QED
  BY <1>1, <1>4, <1>5 DEF AllWhole

LEMMA TextAddedWhole ==
    ASSUME NEW T \in TextsType, NEW U \in TextsType, NEW m, HasText(T, U, m), NEW G, AllWhole(T, G)
    PROVE  AllWhole(U, G)
<1>1. ASSUME NEW i \in 1 .. Len(U)
      PROVE  RecordsIn(U[i]) \subseteq G /\ Whole(U[i])
  <2>1. CASE i \in 1 .. m
    <3>1. i \in 1 .. Len(T) /\ U[i] = T[i]
      BY <2>1 DEF HasText
    <3>2. QED
      BY <3>1 DEF AllWhole
  <2>2. CASE i \notin 1 .. m
    <3>1. i = m + 1 /\ Len(U[i]) = 0
      BY <2>2 DEF HasText
    <3>2. DOMAIN U[i] = {}
      BY <3>1, TextTypes
    <3>3. QED
      BY <3>2 DEF RecordsIn, Whole
  <2>3. QED
    BY <2>1, <2>2
<1>2. QED
  BY <1>1 DEF AllWhole

LEMMA EndLostWhole ==
    ASSUME NEW T \in TextsType, NEW U \in TextsType, NEW m, NEW n, NEW R, HasLost(T, U, m, n, R),
           NEW G, AllWhole(T, G)
    PROVE  AllWhole(U, G)
<1> USE DEF HasLost
<1>1. ASSUME NEW i \in 1 .. Len(U), i # m
      PROVE  RecordsIn(U[i]) \subseteq G /\ Whole(U[i])
  <2>1. i \in 1 .. m - 1
    BY <1>1
  <2>2. i \in 1 .. Len(T) /\ U[i] = T[i]
    BY <2>1
  <2>3. QED
    BY <2>2 DEF AllWhole
<1>2. /\ DOMAIN U[m] = 1 .. n /\ DOMAIN T[m] = 1 .. Len(T[m]) /\ m \in 1 .. Len(T)
      /\ RecordsIn(T[m]) \subseteq G /\ Whole(T[m])
  BY TextTypes DEF AllWhole
<1>3. \A i \in 1 .. n : U[m][i] = T[m][i] /\ i \in DOMAIN T[m]
  BY <1>2
<1>4. RecordsIn(U[m]) \subseteq G
  BY <1>2, <1>3 DEF RecordsIn
<1>5. Whole(U[m])
  <2>1. ASSUME NEW i \in 1 .. n
        PROVE  /\ U[m][i].second = Second[U[m][i].record]
               /\ U[m][i].part = "tail" => i > 1 /\ Matches(U[m][i - 1], U[m][i])
    <3>1. i > 1 => i - 1 \in 1 .. n
      OBVIOUS
    <3>2. i > 1 => U[m][i - 1] = T[m][i - 1]
      BY <3>1
    <3>3. QED
      BY <1>2, <1>3, <3>2 DEF Whole
  <2>2. QED
    BY <1>2, <2>1 DEF Whole
<1>6. QED
  BY <1>1, <1>4, <1>5 DEF AllWhole

LEMMA TextsTypesNext == (TypeOK => \A s \in Streams : Texts(s) \in Seq(Seq(Halves)))'
<1>1. TypeOK => \A s \in Streams : Texts(s) \in Seq(Seq(Halves))
  BY TextsTypes
<1>2. QED
  BY <1>1, PTL

\* The changes of the texts, in these terms.
LEMMA ChangeOfTexts ==
    ASSUME TypeOK, TypeOK', NEW s \in Streams, StreamStep(s)
    PROVE  /\ Texts(s) \in TextsType /\ Texts(s)' \in TextsType
           /\ \/ Kept(s)
              \/ \E r \in Records :
                    /\ ~InGiven(r) /\ given' = [given EXCEPT ![s] = Append(@, r)]
                    /\ UNCHANGED <<lost, cut>>
                    /\ HasLine(Texts(s), Texts(s)', Len(Texts(s)), Len(Texts(s)[Len(Texts(s))]), r)
              \/ UNCHANGED <<given, lost, cut>> /\ HasText(Texts(s), Texts(s)', Len(Texts(s)))
              \/ /\ s = "file" /\ UNCHANGED <<given, lost>>
                 /\ cut' = cut \cup RecordsIn(Texts(s)[Len(Texts(s))])
                 /\ HasLost(Texts(s), Texts(s)', Len(Texts(s)), 0, RecordsIn(Texts(s)[Len(Texts(s))]))
              \/ /\ crashes' = crashes + 1 /\ UNCHANGED <<given, cut>>
                 /\ \E n \in Nat : HasLost(Texts(s), Texts(s)', Len(Texts(s)), n, lost')
<1>1. Texts(s) \in TextsType /\ Texts(s)' \in TextsType
  <2>1. \A u \in Streams : Texts(u) \in Seq(Seq(Halves))
    BY TextsTypes
  <2>2. (\A u \in Streams : Texts(u) \in Seq(Seq(Halves)))'
    BY TextsTypesNext
  <2>3. QED
    BY <2>1, <2>2 DEF TextsType
<1>2. CASE Kept(s)
  BY <1>1, <1>2
<1>3. CASE Gains(s)
  <2>1. PICK r \in Records :
            /\ ~InGiven(r) /\ given' = [given EXCEPT ![s] = Append(@, r)] /\ Texts(s) # <<>>
            /\ Texts(s)' = Extended(Texts(s), Len(Texts(s)), Line(r, Second[r]))
            /\ UNCHANGED <<lost, cut>>
    BY <1>3 DEF Gains
  <2>2. HasLine(Texts(s), Texts(s)', Len(Texts(s)), Len(Texts(s)[Len(Texts(s))]), r)
    BY <1>1, <2>1, ExtendedHasLine
  <2>3. QED
    BY <1>1, <2>1, <2>2
<1>4. CASE Grows(s)
  <2>1. HasText(Texts(s), Texts(s)', Len(Texts(s))) /\ UNCHANGED <<given, lost, cut>>
    BY <1>1, <1>4, AppendHasText DEF Grows
  <2>2. QED
    BY <1>1, <2>1
<1>5. CASE Empties(s)
  <2>1. /\ HasLost(Texts(s), Texts(s)', Len(Texts(s)), 0, RecordsIn(Texts(s)[Len(Texts(s))]))
        /\ s = "file" /\ UNCHANGED <<given, lost>> /\ cut' = cut \cup RecordsIn(Texts(s)[Len(Texts(s))])
    BY <1>1, <1>5, EmptiedHasLost DEF Empties
  <2>2. QED
    BY <1>1, <2>1
<1>6. CASE LosesEnd(s)
  <2>1. PICK n \in Nat : LosesAfter(Texts(s), Texts(s)', n, lost')
    BY <1>6 DEF LosesEnd
  <2>2. HasLost(Texts(s), Texts(s)', Len(Texts(s)), n, lost')
    BY <1>1, <1>6, <2>1, LosesAfterHasLost DEF LosesEnd
  <2>3. crashes' = crashes + 1 /\ UNCHANGED <<given, cut>>
    BY <1>6 DEF LosesEnd
  <2>4. QED
    BY <1>1, <2>2, <2>3
<1>7. QED
  BY <1>2, <1>3, <1>4, <1>5, <1>6 DEF StreamStep

LEMMA TextsStep ==
    ASSUME TypeOK, TypeOK', LocksOK, FileOK, StampOK, GivenOK, TextsOK, [Next]_vars
    PROVE  TextsOK'
<1>1. ASSUME NEW s \in Streams
      PROVE  AllWhole(Texts(s)', ToSet(given'[s]))
  <2>1. StreamStep(s)
    BY StreamEffect
  <2>2. PICK T \in TextsType, U \in TextsType : T = Texts(s) /\ U = Texts(s)'
    BY <2>1, ChangeOfTexts
  <2>3. AllWhole(T, ToSet(given[s]))
    BY <2>2 DEF TextsOK, AllWhole, TextsType
  <2>4. CASE Kept(s)
    BY <2>2, <2>3, <2>4 DEF Kept
  <2>5. ASSUME NEW r \in Records, given' = [given EXCEPT ![s] = Append(@, r)],
               HasLine(T, U, Len(T), Len(T[Len(T)]), r)
        PROVE  AllWhole(U, ToSet(given'[s]))
    <3>1. AllWhole(U, ToSet(given[s]) \cup {r})
      BY <2>3, <2>5, LineAddedWhole, SMTT(30)
    <3>2. ToSet(given'[s]) = ToSet(given[s]) \cup {r}
      BY <2>5, GivenAppend, ZenonT(60)
    <3>3. QED
      BY <3>1, <3>2
  <2>6. CASE given' = given /\ HasText(T, U, Len(T))
    BY <2>2, <2>3, <2>6, TextAddedWhole
  <2>7. ASSUME given' = given, NEW n, NEW R, HasLost(T, U, Len(T), n, R)
        PROVE  AllWhole(U, ToSet(given'[s]))
    BY <2>3, <2>7, EndLostWhole
  <2>8. AllWhole(U, ToSet(given'[s]))
    BY <2>1, <2>2, <2>4, <2>5, <2>6, <2>7, ChangeOfTexts
  <2>9. QED
    BY <2>2, <2>8
<1>2. ASSUME NEW s \in Streams, NEW i \in DOMAIN Texts(s)'
      PROVE  RecordsIn(Texts(s)'[i]) \subseteq ToSet(given'[s]) /\ Whole(Texts(s)'[i])
  <2>1. Texts(s)' \in Seq(Seq(Halves))
    BY TextsTypesNext
  <2>2. i \in 1 .. Len(Texts(s)')
    BY <2>1
  <2>3. QED
    BY <1>1, <2>2 DEF AllWhole
<1>3. QED
  BY <1>2 DEF TextsOK

TornOK == \A s \in Streams : IsFiniteSet(Torn(Texts(s))) /\ Cardinality(Torn(Texts(s))) <= crashes

\* The torn lines after a change are among those before, but for one that a crash tore.
LEMMA TornAdded ==
    ASSUME NEW T \in TextsType, NEW U \in TextsType, NEW m,
           (\E k, r : HasLine(T, U, m, k, r)) \/ HasText(T, U, m) \/ \E R : HasLost(T, U, m, 0, R)
    PROVE  Torn(U) \subseteq Torn(T)
<1>1. \A i, j : TornAt(U, i, j) => TornAt(T, i, j)
  <2>1. CASE \E k, r : HasLine(T, U, m, k, r)
    BY <2>1, LineAdded
  <2>2. CASE HasText(T, U, m)
    BY <2>2, TextAdded
  <2>3. CASE \E R : HasLost(T, U, m, 0, R)
    BY <2>3, EndLost
  <2>4. QED
    BY <2>1, <2>2, <2>3
<1>2. ASSUME NEW p \in Torn(U) PROVE p \in Torn(T)
  <2>1. PICK i \in Nat, j \in Nat : p = <<i, j>>
    BY PlacesAre
  <2>2. TornAt(U, i, j)
    BY <2>1, PlacesAre
  <2>3. QED
    BY <1>1, <2>1, <2>2, PlacesAre
<1>3. QED
  BY <1>2

LEMMA TornByCrash ==
    ASSUME NEW T \in TextsType, NEW U \in TextsType, NEW m, NEW n, NEW R, HasLost(T, U, m, n, R)
    PROVE  Torn(U) \subseteq Torn(T) \cup {<<m, n>>}
<1>1. \A i, j : TornAt(U, i, j) => TornAt(T, i, j) \/ (i = m /\ j = n)
  BY EndLost
<1>2. ASSUME NEW p \in Torn(U) PROVE p \in Torn(T) \cup {<<m, n>>}
  <2>1. PICK i \in Nat, j \in Nat : p = <<i, j>>
    BY PlacesAre
  <2>2. TornAt(U, i, j)
    BY <2>1, PlacesAre
  <2>3. TornAt(T, i, j) => p \in Torn(T)
    BY <2>1, PlacesAre
  <2>4. QED
    BY <1>1, <2>1, <2>2, <2>3
<1>3. QED
  BY <1>2

LEMMA TornStep ==
    ASSUME TypeOK, TypeOK', LocksOK, FileOK, StampOK, GivenOK, TextsOK, TornOK, [Next]_vars
    PROVE  TornOK'
<1> SUFFICES ASSUME NEW s \in Streams
             PROVE  IsFiniteSet(Torn(Texts(s)')) /\ Cardinality(Torn(Texts(s)')) <= crashes'
  BY DEF TornOK
<1>1. StreamStep(s)
  BY StreamEffect
<1>2. PICK T \in TextsType, U \in TextsType : T = Texts(s) /\ U = Texts(s)'
  BY <1>1, ChangeOfTexts
<1>3. /\ IsFiniteSet(Torn(T)) /\ Cardinality(Torn(T)) <= crashes /\ Cardinality(Torn(T)) \in Nat
      /\ crashes \in Nat /\ crashes' \in Nat /\ crashes <= crashes'
  BY <1>1, <1>2, FS_CardinalityType DEF TornOK, TypeOK, StreamStep
<1>4. ASSUME Torn(U) \subseteq Torn(T)
      PROVE  IsFiniteSet(Torn(U)) /\ Cardinality(Torn(U)) <= crashes'
  <2>1. /\ IsFiniteSet(Torn(U)) /\ Cardinality(Torn(U)) <= Cardinality(Torn(T))
    BY <1>3, <1>4, FS_Subset
  <2>2. Cardinality(Torn(U)) \in Nat
    BY <2>1, FS_CardinalityType
  <2>3. QED
    BY <1>3, <2>1, <2>2
<1>5. ASSUME crashes' = crashes + 1, NEW x, Torn(U) \subseteq Torn(T) \cup {x}
      PROVE  IsFiniteSet(Torn(U)) /\ Cardinality(Torn(U)) <= crashes'
  <2>1. /\ IsFiniteSet(Torn(T) \cup {x}) /\ Cardinality(Torn(T) \cup {x}) <= Cardinality(Torn(T)) + 1
    <3>1. /\ IsFiniteSet(Torn(T) \cup {x})
          /\ Cardinality(Torn(T) \cup {x}) =
                IF x \in Torn(T) THEN Cardinality(Torn(T)) ELSE Cardinality(Torn(T)) + 1
      BY <1>3, FS_AddElement
    <3>2. QED
      BY <1>3, <3>1
  <2>2. /\ IsFiniteSet(Torn(U)) /\ Cardinality(Torn(U)) <= Cardinality(Torn(T) \cup {x})
    BY <1>5, <2>1, FS_Subset
  <2>3. Cardinality(Torn(U)) \in Nat /\ Cardinality(Torn(T) \cup {x}) \in Nat
    BY <2>1, <2>2, FS_CardinalityType
  <2>4. QED
    BY <1>3, <1>5, <2>1, <2>2, <2>3
<1>6. \/ T = U
      \/ \E r : HasLine(T, U, Len(T), Len(T[Len(T)]), r)
      \/ HasText(T, U, Len(T))
      \/ \E R : HasLost(T, U, Len(T), 0, R)
      \/ crashes' = crashes + 1 /\ \E n, R : HasLost(T, U, Len(T), n, R)
  BY <1>1, <1>2, ChangeOfTexts DEF Kept
<1>7. \/ Torn(U) \subseteq Torn(T)
      \/ crashes' = crashes + 1 /\ \E x : Torn(U) \subseteq Torn(T) \cup {x}
  BY <1>6, TornAdded, TornByCrash
<1>8. QED
  BY <1>2, <1>4, <1>5, <1>7

Lines == LocksOK /\ FileOK /\ StampOK /\ GivenOK /\ TextsOK /\ TornOK

LEMMA LinesInvariant == Spec => [](TypeOK /\ Lines)
<1>1. Init => Lines
  <2> SUFFICES ASSUME Init PROVE Lines
    OBVIOUS
  <2>1. LocksOK /\ FileOK /\ StampOK
    BY DEF Init, LocksOK, FileOK, StampOK, Streams, NewCache
  <2>2. GivenOK
    BY DEF Init, GivenOK, Writing, ToSet, Streams
  <2>3. ASSUME NEW s \in Streams
        PROVE  /\ \A i \in DOMAIN Texts(s) : DOMAIN Texts(s)[i] = {}
    <3>1. CASE s = "file"
      BY <3>1 DEF Init, Texts
    <3>2. CASE s # "file"
      <4>1. Texts(s) = <<console[s] \o buffer[s]>> /\ console[s] = <<>> /\ buffer[s] = <<>>
        BY <3>2 DEF Init, Texts, Streams
      <4>2. PICK e \in Seq(Halves) : e = <<>> /\ Len(e) = 0
        BY EmptyText
      <4>3. console[s] \o buffer[s] = e
        BY <4>1, <4>2, ConcatText
      <4>4. Texts(s) = <<e>> /\ DOMAIN e = {}
        BY <4>1, <4>2, <4>3
      <4>5. QED
        BY <4>4
    <3>3. QED
      BY <3>1, <3>2
  <2>4. TextsOK
    BY <2>3 DEF TextsOK, RecordsIn, Whole
  <2>5. TornOK
    <3>1. ASSUME NEW s \in Streams PROVE Torn(Texts(s)) = {}
      BY <2>3 DEF Torn, Heads
    <3>2. PICK none : none = {} /\ IsFiniteSet(none) /\ Cardinality(none) <= crashes
      <4>1. IsFiniteSet({}) /\ Cardinality({}) = 0 /\ crashes = 0
        BY FS_EmptySet DEF Init
      <4>2. QED
        BY <4>1
    <3>3. QED
      BY <3>1, <3>2 DEF TornOK
  <2>6. QED
    BY <2>1, <2>2, <2>4, <2>5 DEF Lines
<1>2. TypeOK /\ TypeOK' /\ Lines /\ [Next]_vars => Lines'
  <2> SUFFICES ASSUME TypeOK, TypeOK', Lines, [Next]_vars PROVE Lines'
    OBVIOUS
  <2> USE DEF Lines
  <2>1. LocksOK' /\ FileOK' /\ StampOK'
    BY LocksStep, FileStep, StampStep
  <2>2. GivenOK' /\ TextsOK' /\ TornOK'
    BY GivenStep, TextsStep, TornStep
  <2>3. QED
    BY <2>1, <2>2
<1>3. QED
  BY <1>1, <1>2, TypesHold, PTL DEF Spec

\* LinesWhole: whatever threads write at once, and however the file is moved and opened
\* again, every line bears the second of its own record, nothing is glued into the middle
\* of one, and a crash tears at most the last one of a stream.
THEOREM LinesStayWhole == Spec => []LinesWhole
<1>1. TypeOK /\ Lines => LinesWhole
  <2> SUFFICES ASSUME TypeOK, Lines, NEW s \in Streams
               PROVE  /\ \A text \in ToSet(Texts(s)) : Whole(text)
                      /\ Cardinality(Torn(Texts(s))) <= crashes
    BY DEF LinesWhole
  <2>1. QED
    BY DEF Lines, TextsOK, TornOK, ToSet
<1>2. QED
  BY <1>1, LinesInvariant, PTL

-----------------------------------------------------------------------------
(* Which records the texts have, and in which order.                       *)

Survivors(T, g, L, C) == {RecordAt(T, p) : p \in Heads(T)} \ L = ToSet(g) \ (L \cup C)
Ordered(T, g) ==
    \A p, q \in Heads(T) : \A i, j \in DOMAIN g :
        /\ Precedes(p, q)
        /\ g[i] = RecordAt(T, p) /\ g[j] = RecordAt(T, q)
        => i < j

HasHead(T, i, j, r) == HeadAt(T, i, j) /\ T[i][j].record = r
Before(i, j, k, l) == i < k \/ (i = k /\ j < l)

LEMMA SurvivorsAre ==
    ASSUME NEW T \in TextsType, NEW g, NEW L, NEW C
    PROVE  Survivors(T, g, L, C)
               <=> \A r : r \notin L => ((\E i, j : HasHead(T, i, j, r)) <=> r \in ToSet(g) /\ r \notin C)
<1> DEFINE X == {RecordAt(T, p) : p \in Heads(T)}
<1>1. ASSUME NEW r
      PROVE  r \in X <=> \E i, j : HasHead(T, i, j, r)
  <2>1. ASSUME r \in X PROVE \E i, j : HasHead(T, i, j, r)
    <3>1. PICK p \in Heads(T) : r = RecordAt(T, p)
      BY <2>1
    <3>2. PICK i \in Nat, j \in Nat : p = <<i, j>>
      BY PlacesAre
    <3>3. HeadAt(T, i, j) /\ r = T[i][j].record
      BY <3>1, <3>2, PlacesAre DEF RecordAt
    <3>4. QED
      BY <3>3 DEF HasHead
  <2>2. ASSUME NEW i, NEW j, HasHead(T, i, j, r) PROVE r \in X
    <3>1. <<i, j>> \in Heads(T) /\ RecordAt(T, <<i, j>>) = r
      BY <2>2, PlacesAre DEF HasHead, RecordAt
    <3>2. QED
      BY <3>1
  <2>3. QED
    BY <2>1, <2>2
<1>2. Survivors(T, g, L, C) <=> X \ L = ToSet(g) \ (L \cup C)
  BY DEF Survivors
<1> HIDE DEF X
<1>3. X \ L = ToSet(g) \ (L \cup C) <=> \A r : r \notin L => (r \in X <=> r \in ToSet(g) /\ r \notin C)
  OBVIOUS
<1>4. QED
  BY <1>1, <1>2, <1>3

LEMMA OrderedIs ==
    ASSUME NEW T \in TextsType, NEW g
    PROVE  Ordered(T, g)
               <=> \A i, j, k, l : \A a, b \in DOMAIN g :
                      /\ HasHead(T, i, j, g[a]) /\ HasHead(T, k, l, g[b]) /\ Before(i, j, k, l)
                      => a < b
<1> DEFINE InOrder == \A i, j, k, l : \A a, b \in DOMAIN g :
                          /\ HasHead(T, i, j, g[a]) /\ HasHead(T, k, l, g[b]) /\ Before(i, j, k, l)
                          => a < b
<1>1. ASSUME Ordered(T, g), NEW i, NEW j, NEW k, NEW l, NEW a \in DOMAIN g, NEW b \in DOMAIN g,
             HasHead(T, i, j, g[a]), HasHead(T, k, l, g[b]), Before(i, j, k, l)
      PROVE  a < b
  <2>1. <<i, j>> \in Heads(T) /\ RecordAt(T, <<i, j>>) = g[a]
    BY <1>1, PlacesAre DEF HasHead, RecordAt
  <2>2. <<k, l>> \in Heads(T) /\ RecordAt(T, <<k, l>>) = g[b]
    BY <1>1, PlacesAre DEF HasHead, RecordAt
  <2>3. Precedes(<<i, j>>, <<k, l>>)
    BY <1>1 DEF Before, Precedes
  <2>4. QED
    BY <1>1, <2>1, <2>2, <2>3 DEF Ordered
<1>2. ASSUME InOrder, NEW p \in Heads(T), NEW q \in Heads(T), NEW a \in DOMAIN g, NEW b \in DOMAIN g,
             Precedes(p, q), g[a] = RecordAt(T, p), g[b] = RecordAt(T, q)
      PROVE  a < b
  <2>1. PICK i \in Nat, j \in Nat : p = <<i, j>>
    BY PlacesAre
  <2>2. PICK k \in Nat, l \in Nat : q = <<k, l>>
    BY PlacesAre
  <2>3. HasHead(T, i, j, g[a])
    BY <1>2, <2>1, PlacesAre DEF HasHead, RecordAt
  <2>4. HasHead(T, k, l, g[b])
    BY <1>2, <2>2, PlacesAre DEF HasHead, RecordAt
  <2>5. Before(i, j, k, l)
    BY <1>2, <2>1, <2>2 DEF Before, Precedes
  <2>6. QED
    BY <1>2, <2>3, <2>4, <2>5
<1>3. QED
  BY <1>1, <1>2 DEF Ordered

\* A head's record was given; a given record has one head.
LEMMA HeadGiven ==
    ASSUME NEW T \in TextsType, NEW G, AllWhole(T, G), NEW i, NEW j, NEW r, HasHead(T, i, j, r)
    PROVE  r \in G
<1>1. i \in 1 .. Len(T) /\ j \in DOMAIN T[i] /\ T[i][j].record = r
  BY TextTypes DEF HasHead, HeadAt
<1>2. r \in RecordsIn(T[i])
  BY <1>1 DEF RecordsIn
<1>3. QED
  BY <1>1, <1>2 DEF AllWhole

LEMMA OneHead ==
    ASSUME NEW T \in TextsType, NEW g \in Seq(Records), Ordered(T, g), NEW r, r \in ToSet(g),
           NEW i, NEW j, NEW k, NEW l, HasHead(T, i, j, r), HasHead(T, k, l, r)
    PROVE  i = k /\ j = l
<1>1. PICK a \in DOMAIN g : g[a] = r
  BY DEF ToSet
<1>2. a \in Nat /\ ~(a < a)
  OBVIOUS
<1>3. ~Before(i, j, k, l) /\ ~Before(k, l, i, j)
  BY <1>1, <1>2, OrderedIs
<1>4. i \in Nat /\ j \in Nat /\ k \in Nat /\ l \in Nat
  BY TextTypes DEF HasHead, HeadAt
<1>5. QED
  BY <1>3, <1>4 DEF Before

\* Each of the changes.
LEMMA LineSurvives ==
    ASSUME NEW T \in TextsType, NEW U \in TextsType, NEW m, NEW k, NEW r, HasLine(T, U, m, k, r),
           NEW g, NEW h, NEW L, NEW C, ToSet(h) = ToSet(g) \cup {r}, r \notin L, r \notin C,
           Survivors(T, g, L, C)
    PROVE  Survivors(U, h, L, C)
<1>1. HasHead(U, m, k + 1, r)
  <2>1. HeadAt(U, m, k + 1)
    BY LineAdded
  <2>2. QED
    BY <2>1 DEF HasLine, HasHead
<1>2. ASSUME NEW q
      PROVE  (\E i, j : HasHead(U, i, j, q)) <=> q = r \/ \E i, j : HasHead(T, i, j, q)
  <2>1. ASSUME NEW i, NEW j, HasHead(U, i, j, q) PROVE q = r \/ HasHead(T, i, j, q)
    BY <1>1, <2>1, LineAdded DEF HasHead
  <2>2. ASSUME NEW i, NEW j, HasHead(T, i, j, q) PROVE HasHead(U, i, j, q)
    BY <2>2, LineAdded DEF HasHead
  <2>3. QED
    BY <1>1, <2>1, <2>2
<1>3. \A q : q \notin L => ((\E i, j : HasHead(T, i, j, q)) <=> q \in ToSet(g) /\ q \notin C)
  BY SurvivorsAre
<1>4. \A q : q \notin L => ((\E i, j : HasHead(U, i, j, q)) <=> q \in ToSet(h) /\ q \notin C)
  BY <1>2, <1>3
<1>5. QED
  BY <1>4, SurvivorsAre

LEMMA LineOrdered ==
    ASSUME NEW T \in TextsType, NEW U \in TextsType, NEW m, NEW k, NEW r, HasLine(T, U, m, k, r),
           NEW g \in Seq(Records), NEW h \in Seq(Records), Len(h) = Len(g) + 1,
           \A i \in 1 .. Len(g) : h[i] = g[i], h[Len(g) + 1] = r,
           r \notin ToSet(g), AllWhole(T, ToSet(g)), Ordered(T, g)
    PROVE  Ordered(U, h)
<1>1. /\ Len(g) \in Nat /\ DOMAIN g = 1 .. Len(g) /\ DOMAIN h = 1 .. Len(g) + 1
      /\ \A a \in 1 .. Len(g) : g[a] # r
  BY DEF ToSet
<1>2. ASSUME NEW i, NEW j, NEW a \in DOMAIN h, HasHead(U, i, j, h[a])
      PROVE  \/ a \in DOMAIN g /\ h[a] = g[a] /\ HasHead(T, i, j, g[a])
             \/ a = Len(g) + 1 /\ i = m /\ j = k + 1
  <2>1. HeadAt(T, i, j) \/ (i = m /\ j = k + 1)
    BY <1>2, LineAdded DEF HasHead
  <2>2. CASE HeadAt(T, i, j)
    <3>1. HasHead(T, i, j, h[a])
      BY <1>2, <2>2, LineAdded DEF HasHead
    <3>2. h[a] \in ToSet(g)
      BY <3>1, HeadGiven
    <3>3. a \in 1 .. Len(g)
      BY <1>1, <3>2
    <3>4. QED
      BY <1>1, <3>1, <3>3
  <2>3. CASE i = m /\ j = k + 1
    <3>1. h[a] = r
      BY <1>2, <2>3 DEF HasHead, HasLine
    <3>2. a = Len(g) + 1
      BY <1>1, <3>1
    <3>3. QED
      BY <2>3, <3>2
  <2>4. QED
    BY <2>1, <2>2, <2>3
<1>3. ASSUME NEW i, NEW j, NEW p, NEW q, NEW a \in DOMAIN h, NEW b \in DOMAIN h,
             HasHead(U, i, j, h[a]), HasHead(U, p, q, h[b]), Before(i, j, p, q)
      PROVE  a < b
  <2>1. CASE a \in DOMAIN g /\ h[a] = g[a] /\ HasHead(T, i, j, g[a])
    <3>1. CASE b \in DOMAIN g /\ h[b] = g[b] /\ HasHead(T, p, q, g[b])
      BY <1>3, <2>1, <3>1, OrderedIs
    <3>2. CASE b = Len(g) + 1
      BY <1>1, <2>1, <3>2
    <3>3. QED
      BY <1>2, <1>3, <3>1, <3>2
  <2>2. CASE a = Len(g) + 1 /\ i = m /\ j = k + 1
    <3>1. CASE HasHead(T, p, q, g[b])
      <4>1. p \in Nat /\ q \in Nat /\ (p < m \/ (p = m /\ q < k + 1)) /\ m \in Nat /\ k \in Nat
        BY <3>1, TextTypes DEF HasHead, HeadAt, HasLine
      <4>2. QED
        BY <1>3, <2>2, <4>1 DEF Before
    <3>2. CASE p = m /\ q = k + 1
      BY <1>3, <2>2, <3>2 DEF Before, HasLine
    <3>3. QED
      BY <1>2, <1>3, <3>1, <3>2
  <2>3. QED
    BY <1>2, <1>3, <2>1, <2>2
<1>4. QED
  BY <1>3, OrderedIs

LEMMA TextSurvives ==
    ASSUME NEW T \in TextsType, NEW U \in TextsType, NEW m, HasText(T, U, m),
           NEW g, NEW L, NEW C, Survivors(T, g, L, C), Ordered(T, g)
    PROVE  Survivors(U, g, L, C) /\ Ordered(U, g)
<1>1. \A i, j, r : HasHead(U, i, j, r) <=> HasHead(T, i, j, r)
  BY TextAdded DEF HasHead
<1>2. Survivors(U, g, L, C)
  BY <1>1, SurvivorsAre
<1>3. Ordered(U, g)
  BY <1>1, OrderedIs
<1>4. QED
  BY <1>2, <1>3

LEMMA LossOrdered ==
    ASSUME NEW T \in TextsType, NEW U \in TextsType, NEW m, NEW n, NEW R, HasLost(T, U, m, n, R),
           NEW g, Ordered(T, g)
    PROVE  Ordered(U, g)
<1>1. \A i, j, r : HasHead(U, i, j, r) => HasHead(T, i, j, r)
  BY EndLost DEF HasHead
<1>2. QED
  BY <1>1, OrderedIs

\* A crash: what was in the end that it took is lost.
LEMMA LossSurvives ==
    ASSUME NEW T \in TextsType, NEW U \in TextsType, NEW m, NEW n, NEW R, HasLost(T, U, m, n, R),
           NEW g, NEW L, NEW C, L \subseteq R, Survivors(T, g, L, C)
    PROVE  Survivors(U, g, R, C)
<1>1. ASSUME NEW r, r \notin R
      PROVE  (\E i, j : HasHead(U, i, j, r)) <=> \E i, j : HasHead(T, i, j, r)
  <2>1. ASSUME NEW i, NEW j, HasHead(U, i, j, r) PROVE HasHead(T, i, j, r)
    BY <2>1, EndLost DEF HasHead
  <2>2. ASSUME NEW i, NEW j, HasHead(T, i, j, r) PROVE HasHead(U, i, j, r)
    <3>1. ~(i = m /\ j > n)
      <4> SUFFICES ASSUME i = m, j > n PROVE FALSE
        OBVIOUS
      <4>1. j \in n + 1 .. Len(T[m])
        BY <2>2 DEF HasHead, HeadAt, HasLost
      <4>2. T[m][j].record \in R
        BY <4>1 DEF HasLost
      <4>3. QED
        BY <1>1, <2>2, <4>2 DEF HasHead
    <3>2. HeadAt(U, i, j)
      BY <2>2, <3>1, EndLost DEF HasHead
    <3>3. QED
      BY <2>2, <3>2, EndLost DEF HasHead
  <2>3. QED
    BY <2>1, <2>2
<1>2. \A r : r \notin L => ((\E i, j : HasHead(T, i, j, r)) <=> r \in ToSet(g) /\ r \notin C)
  BY SurvivorsAre
<1>3. \A r : r \notin R => ((\E i, j : HasHead(U, i, j, r)) <=> r \in ToSet(g) /\ r \notin C)
  BY <1>1, <1>2
<1>4. QED
  BY <1>3, SurvivorsAre

\* fopen: what was in the file is cut off; the other files have none of its records.
LEMMA CutSurvives ==
    ASSUME NEW T \in TextsType, NEW U \in TextsType, NEW m, NEW R, R = RecordsIn(T[m]),
           HasLost(T, U, m, 0, R), NEW g \in Seq(Records), NEW L, NEW C,
           AllWhole(T, ToSet(g)), Ordered(T, g), Survivors(T, g, L, C)
    PROVE  Survivors(U, g, L, C \cup R)
<1>1. \A r : r \notin L => ((\E i, j : HasHead(T, i, j, r)) <=> r \in ToSet(g) /\ r \notin C)
  BY SurvivorsAre
<1>2. m \in 1 .. Len(T) /\ DOMAIN T[m] = 1 .. Len(T[m]) /\ Len(T[m]) \in Nat
  BY TextTypes DEF HasLost
\* A record in the file has its head there.
<1>3. ASSUME NEW r \in R PROVE \E j : HasHead(T, m, j, r)
  <2>1. PICK j \in DOMAIN T[m] : T[m][j].record = r
    BY DEF RecordsIn
  <2>2. T[m][j] \in Halves
    BY <1>2, <2>1, TextTypes
  <2>3. CASE T[m][j].part = "head"
    BY <1>2, <2>1, <2>3 DEF HasHead, HeadAt
  <2>4. CASE T[m][j].part = "tail"
    <3>1. j > 1 /\ Matches(T[m][j - 1], T[m][j])
      BY <1>2, <2>1, <2>4 DEF AllWhole, Whole
    <3>2. j - 1 \in 1 .. Len(T[m])
      BY <1>2, <2>1, <3>1
    <3>3. HasHead(T, m, j - 1, r)
      BY <1>2, <2>1, <3>1, <3>2 DEF HasHead, HeadAt, Matches
    <3>4. QED
      BY <3>3
  <2>5. QED
    BY <2>2, <2>3, <2>4 DEF Halves
<1>4. ASSUME NEW r
      PROVE  (\E i, j : HasHead(U, i, j, r)) <=> r \notin R /\ \E i, j : HasHead(T, i, j, r)
  <2>1. ASSUME NEW i, NEW j, HasHead(U, i, j, r) PROVE HasHead(T, i, j, r) /\ r \notin R
    <3>1. HasHead(T, i, j, r) /\ i # m
      <4>1. HeadAt(U, i, j) /\ HeadAt(T, i, j) /\ ~(i = m /\ j > 0) /\ U[i][j] = T[i][j]
        BY <2>1, EndLost DEF HasHead
      <4>2. j > 0
        BY <4>1, TextTypes DEF HeadAt
      <4>3. QED
        BY <2>1, <4>1, <4>2 DEF HasHead
    <3>2. r \in ToSet(g)
      BY <3>1, HeadGiven
    <3>3. QED
      BY <1>3, <3>1, <3>2, OneHead
  <2>2. ASSUME NEW i, NEW j, HasHead(T, i, j, r), r \notin R PROVE HasHead(U, i, j, r)
    <3>1. i # m
      BY <1>2, <2>2 DEF HasHead, HeadAt, RecordsIn
    <3>2. HeadAt(U, i, j)
      BY <2>2, <3>1, EndLost DEF HasHead
    <3>3. QED
      BY <2>2, <3>2, EndLost DEF HasHead
  <2>3. QED
    BY <2>1, <2>2
<1>5. \A r : r \notin L => ((\E i, j : HasHead(U, i, j, r)) <=> r \in ToSet(g) /\ r \notin C \cup R)
  BY <1>1, <1>4
<1>6. QED
  BY <1>5, SurvivorsAre

SurviveOK == \A s \in Streams : Survivors(Texts(s), given[s], lost, cut) /\ Ordered(Texts(s), given[s])

LEMMA SurviveStep ==
    ASSUME TypeOK, TypeOK', LocksOK, FileOK, StampOK, GivenOK, TextsOK, SurviveOK, [Next]_vars
    PROVE  SurviveOK'
<1> SUFFICES ASSUME NEW s \in Streams
             PROVE  Survivors(Texts(s)', given'[s], lost', cut') /\ Ordered(Texts(s)', given'[s])
  BY DEF SurviveOK, Survivors, Ordered
<1>1. StreamStep(s) /\ lost \subseteq lost'
  BY StreamEffect DEF StreamStep
<1>2. PICK T \in TextsType, U \in TextsType : T = Texts(s) /\ U = Texts(s)'
  BY <1>1, ChangeOfTexts
<1>3. PICK g \in Seq(Records), h \in Seq(Records), L \in SUBSET Records, K \in SUBSET Records,
           C \in SUBSET Records, D \in SUBSET Records :
          /\ g = given[s] /\ h = given'[s] /\ L = lost /\ K = lost' /\ C = cut /\ D = cut'
  BY DEF TypeOK
<1>4. Survivors(T, g, L, C) /\ Ordered(T, g) /\ AllWhole(T, ToSet(g)) /\ L \subseteq K
  BY <1>1, <1>2, <1>3 DEF SurviveOK, TextsOK, AllWhole, TextsType
<1>5. CASE Kept(s)
  <2>1. T = U /\ g = h /\ C \subseteq D /\ D \cap ToSet(g) \subseteq C
    BY <1>2, <1>3, <1>5 DEF Kept
  <2>2. Survivors(U, h, K, D) /\ Ordered(U, h)
    BY <1>4, <2>1 DEF Survivors
  <2>3. QED
    BY <1>2, <1>3, <2>2
<1>6. ASSUME NEW r \in Records, ~InGiven(r), given' = [given EXCEPT ![s] = Append(@, r)],
             UNCHANGED <<lost, cut>>, HasLine(T, U, Len(T), Len(T[Len(T)]), r)
      PROVE  Survivors(U, h, K, D) /\ Ordered(U, h)
  <2>1. r \notin L /\ r \notin C /\ r \notin ToSet(g) /\ K = L /\ D = C
    BY <1>3, <1>6 DEF GivenOK, InGiven, Streams
  <2>2. /\ ToSet(h) = ToSet(g) \cup {r} /\ Len(h) = Len(g) + 1
        /\ (\A i \in 1 .. Len(g) : h[i] = g[i]) /\ h[Len(g) + 1] = r
    <3>1. /\ ToSet(given'[s]) = ToSet(given[s]) \cup {r} /\ Len(given'[s]) = Len(given[s]) + 1
          /\ (\A i \in 1 .. Len(given[s]) : given'[s][i] = given[s][i])
          /\ given'[s][Len(given[s]) + 1] = r
      BY <1>6, GivenAppend
    <3>2. QED
      BY <1>3, <3>1
  <2>3. Survivors(U, h, L, C)
    BY <1>4, <1>6, <2>1, <2>2, LineSurvives
  <2>4. Ordered(U, h)
    BY <1>4, <1>6, <2>1, <2>2, LineOrdered
  <2>5. QED
    BY <2>1, <2>3, <2>4
<1>7. ASSUME UNCHANGED <<given, lost, cut>>, HasText(T, U, Len(T))
      PROVE  Survivors(U, h, K, D) /\ Ordered(U, h)
  <2>1. g = h /\ L = K /\ C = D
    BY <1>3, <1>7
  <2>2. QED
    BY <1>4, <1>7, <2>1, TextSurvives
<1>8. ASSUME UNCHANGED <<given, lost>>, cut' = cut \cup RecordsIn(T[Len(T)]),
             HasLost(T, U, Len(T), 0, RecordsIn(T[Len(T)]))
      PROVE  Survivors(U, h, K, D) /\ Ordered(U, h)
  <2>1. PICK R : R = RecordsIn(T[Len(T)])
    OBVIOUS
  <2>2. g = h /\ L = K /\ D = C \cup R
    BY <1>3, <1>8, <2>1
  <2>3. HasLost(T, U, Len(T), 0, R)
    BY <1>8, <2>1
  <2>4. QED
    BY <1>4, <2>1, <2>2, <2>3, CutSurvives, LossOrdered
<1>9. ASSUME UNCHANGED <<given, cut>>, NEW n, HasLost(T, U, Len(T), n, K)
      PROVE  Survivors(U, h, K, D) /\ Ordered(U, h)
  <2>1. g = h /\ C = D
    BY <1>3, <1>9
  <2>2. QED
    BY <1>4, <1>9, <2>1, LossSurvives, LossOrdered
<1>10. \/ Kept(s)
       \/ \E r \in Records :
             /\ ~InGiven(r) /\ given' = [given EXCEPT ![s] = Append(@, r)]
             /\ UNCHANGED <<lost, cut>> /\ HasLine(T, U, Len(T), Len(T[Len(T)]), r)
       \/ UNCHANGED <<given, lost, cut>> /\ HasText(T, U, Len(T))
       \/ /\ UNCHANGED <<given, lost>> /\ cut' = cut \cup RecordsIn(T[Len(T)])
          /\ HasLost(T, U, Len(T), 0, RecordsIn(T[Len(T)]))
       \/ UNCHANGED <<given, cut>> /\ \E n : HasLost(T, U, Len(T), n, K)
  BY <1>1, <1>2, <1>3, ChangeOfTexts
<1>11. QED
  BY <1>2, <1>3, <1>5, <1>6, <1>7, <1>8, <1>9, <1>10

-----------------------------------------------------------------------------
(* What a flush has covered, and the option append.                        *)

\* The C library holds nothing that a flush has covered, a crash took nothing of that
\* kind, and with append set nothing was cut off.
SafeOK ==
    /\ \A s \in Streams : RecordsIn(buffer[s]) \cap safe = {}
    /\ safe \cap lost = {}
    /\ options.append => cut = {}

LEMMA RecordsOfRest ==
    ASSUME NEW t \in Seq(Halves), NEW n \in 0 .. Len(t)
    PROVE  /\ RecordsIn(SubSeq(t, n + 1, Len(t))) \subseteq RecordsIn(t)
           /\ n = Len(t) => RecordsIn(SubSeq(t, n + 1, Len(t))) = {}
<1> DEFINE rest == SubSeq(t, n + 1, Len(t))
<1>1. /\ rest \in Seq(Halves) /\ Len(rest) = Len(t) - n
      /\ \A i \in 1 .. Len(t) - n : rest[i] = t[n + i]
  BY Divided
<1> HIDE DEF rest
<1>2. Len(t) \in Nat /\ n \in Nat /\ DOMAIN rest = 1 .. Len(t) - n /\ DOMAIN t = 1 .. Len(t)
  BY <1>1
<1>3. \A i \in DOMAIN rest : n + i \in DOMAIN t /\ rest[i] = t[n + i]
  BY <1>1, <1>2
<1>4. RecordsIn(rest) \subseteq RecordsIn(t)
  BY <1>3 DEF RecordsIn
<1>5. n = Len(t) => DOMAIN rest = {}
  BY <1>2
<1>6. n = Len(t) => RecordsIn(rest) = {}
  BY <1>5 DEF RecordsIn
<1>7. QED
  BY <1>4, <1>6 DEF rest

LEMMA RecordsOfBoth ==
    ASSUME NEW s \in Seq(Halves), NEW t \in Seq(Halves)
    PROVE  RecordsIn(s \o t) \subseteq RecordsIn(s) \cup RecordsIn(t)
<1>1. PICK w : w = s \o t
  OBVIOUS
<1>2. /\ w \in Seq(Halves) /\ Len(w) = Len(s) + Len(t) /\ Len(s) \in Nat /\ Len(t) \in Nat
      /\ \A i \in 1 .. Len(s) + Len(t) : w[i] = IF i <= Len(s) THEN s[i] ELSE t[i - Len(s)]
  BY <1>1, ConcatProperties
<1>3. ASSUME NEW i \in DOMAIN w PROVE w[i].record \in RecordsIn(s) \cup RecordsIn(t)
  <2>1. i \in 1 .. Len(s) + Len(t)
    BY <1>2
  <2>2. CASE i <= Len(s)
    <3>1. w[i] = s[i] /\ i \in DOMAIN s
      BY <1>2, <2>1, <2>2
    <3>2. QED
      BY <3>1 DEF RecordsIn
  <2>3. CASE ~(i <= Len(s))
    <3>1. w[i] = t[i - Len(s)] /\ i - Len(s) \in DOMAIN t
      BY <1>2, <2>1, <2>3
    <3>2. QED
      BY <3>1 DEF RecordsIn
  <2>4. QED
    BY <2>2, <2>3
<1>4. RecordsIn(w) \subseteq RecordsIn(s) \cup RecordsIn(t)
  BY <1>3 DEF RecordsIn
<1>5. QED
  BY <1>1, <1>4

\* The records in the buffers after PassOn.
LEMMA PassOnRecords ==
    ASSUME TypeOK, NEW s \in Streams, NEW text \in Seq(Halves), NEW n \in 0 .. Len(text),
           PassOn(s, text, n)
    PROVE  /\ RecordsIn(buffer'[s]) \subseteq RecordsIn(text)
           /\ n = Len(text) => RecordsIn(buffer'[s]) = {}
           /\ \A u \in Streams : u # s => buffer'[u] = buffer[u]
<1>1. buffer \in [Streams -> Seq(Halves)]
  BY DEF TypeOK
<1>2. PICK rest : rest = SubSeq(text, n + 1, Len(text))
  OBVIOUS
<1>3. buffer' = [buffer EXCEPT ![s] = rest]
  BY <1>2 DEF PassOn
<1>4. RecordsIn(rest) \subseteq RecordsIn(text) /\ (n = Len(text) => RecordsIn(rest) = {})
  BY <1>2, RecordsOfRest
<1>5. QED
  BY <1>1, <1>3, <1>4

LEMMA SafeStep ==
    ASSUME TypeOK, LocksOK, FileOK, StampOK, GivenOK, TextsOK, SafeOK, [Next]_vars
    PROVE  SafeOK'
<1> USE DEF threadVars, fileVars, history
<1>0. /\ task \in [Threads -> [record : Records, sink : SinkNames]]
      /\ buffer \in [Streams -> Seq(Halves)] /\ scratch \in [SinkNames -> Seq(Halves)]
  BY DEF TypeOK
<1>1. options.append => cut' = {}
  <2>1. cut' = cut \/ Open
    BY DEF Next, Write, Fill, Stamp, OpenToWrite, Put, Reopen, ReopenOpen, Flush, Spill, Start,
           Stop, Crash, MoveAway, OpenFails, vars
  <2>2. CASE Open
    BY <2>2 DEF Open, SafeOK
  <2>3. QED
    BY <2>1, <2>2 DEF SafeOK
<1>2. options' = options
  BY DEF Next, Write, Fill, Stamp, OpenToWrite, Put, Reopen, ReopenOpen, Flush, Spill, Start,
         Stop, Crash, MoveAway, vars
<1>3. ASSUME NEW r, InGiven(r)
      PROVE  r \in safe => ~\E s \in Streams : r \in RecordsIn(buffer[s])
  BY DEF SafeOK
<1>4. ASSUME UNCHANGED <<safe, lost>>, \A s \in Streams : RecordsIn(buffer'[s]) \subseteq RecordsIn(buffer[s])
      PROVE  SafeOK'
  BY <1>1, <1>2, <1>4 DEF SafeOK
<1>5. ASSUME NEW t \in Threads,
             \/ \E k \in SinkNames, r \in Records : Write(t, k, r)
             \/ Fill(t) \/ Stamp(t) \/ OpenToWrite(t) \/ ReopenOpen(t)
      PROVE  SafeOK'
  <2>1. UNCHANGED <<safe, lost, buffer>>
    BY <1>5 DEF Write, Fill, Stamp, OpenToWrite, ReopenOpen
  <2>2. QED
    BY <1>4, <2>1
\* fwrite: the record is new; if it is flushed nothing is left in the buffer.
<1>6. ASSUME NEW t \in Threads, Put(t)
      PROVE  SafeOK'
  <2>1. PICK r \in Records, k \in SinkNames, d \in Streams :
            r = task[t].record /\ k = task[t].sink /\ d = StreamOf(r, k)
    BY <1>0, StreamTypes
  <2>2. PICK text : text = buffer[d] \o scratch[k]
    OBVIOUS
  <2>3. PICK n : n = IF Through(d, k) THEN Len(text) ELSE 0
    OBVIOUS
  <2>4. PassOn(d, text, n) /\ pc[t] = "put" /\ lost' = lost
    BY <1>6, <2>1, <2>2, <2>3, Zenon DEF Put
  <2>5. safe' = IF options.autoFlush[k] THEN safe \cup {r} ELSE safe
    BY <1>6, <2>1 DEF Put
  <2>6. scratch[k] = Line(r, Second[r]) /\ ~InGiven(r)
    BY <2>1, <2>4 DEF StampOK, GivenOK, Writing
  <2>7. r \notin safe /\ r \notin lost
    BY <2>6 DEF GivenOK
  <2>8. \A s \in Streams : r \notin RecordsIn(buffer[s])
    BY <2>6, BufferedIsGiven DEF InGiven
  <2>9. text \in Seq(Halves) /\ RecordsIn(text) \subseteq RecordsIn(buffer[d]) \cup {r}
    <3>1. RecordsIn(scratch[k]) \subseteq {r}
      BY <2>6 DEF RecordsIn, Line
    <3>2. buffer[d] \in Seq(Halves) /\ scratch[k] \in Seq(Halves)
      BY <1>0
    <3>3. buffer[d] \o scratch[k] \in Seq(Halves)
      BY <3>2, ConcatText
    <3>4. RecordsIn(buffer[d] \o scratch[k]) \subseteq RecordsIn(buffer[d]) \cup RecordsIn(scratch[k])
      BY <3>2, RecordsOfBoth
    <3>5. QED
      BY <2>2, <3>1, <3>3, <3>4
  <2>10. n \in 0 .. Len(text) /\ (options.autoFlush[k] => n = Len(text))
    BY <2>3, <2>9 DEF Through
  <2>11. /\ RecordsIn(buffer'[d]) \subseteq RecordsIn(text)
         /\ n = Len(text) => RecordsIn(buffer'[d]) = {}
         /\ \A u \in Streams : u # d => buffer'[u] = buffer[u]
    BY <2>4, <2>9, <2>10, PassOnRecords
  <2>12. ASSUME NEW s \in Streams PROVE RecordsIn(buffer'[s]) \cap safe' = {}
    <3>1. CASE s = d
      BY <2>5, <2>7, <2>9, <2>10, <2>11, <3>1 DEF SafeOK
    <3>2. CASE s # d
      BY <2>5, <2>8, <2>11, <3>2 DEF SafeOK
    <3>3. QED
      BY <3>1, <3>2
  <2>13. safe' \cap lost' = {}
    BY <2>4, <2>5, <2>7 DEF SafeOK
  <2>14. QED
    BY <1>1, <1>2, <2>12, <2>13 DEF SafeOK
<1>7. ASSUME NEW t \in Threads, Reopen(t)
      PROVE  SafeOK'
  <2>1. UNCHANGED <<safe, lost>> /\ buffer' = [buffer EXCEPT !["file"] = <<>>]
    BY <1>7 DEF Reopen, Close
  <2>2. ASSUME NEW s \in Streams PROVE RecordsIn(buffer'[s]) \subseteq RecordsIn(buffer[s])
    <3>1. buffer'[s] = buffer[s] \/ buffer'[s] = <<>>
      BY <1>0, <2>1
    <3>2. QED
      BY <3>1 DEF RecordsIn
  <2>3. QED
    BY <1>4, <2>1, <2>2
\* Flush leaves nothing in the buffers of the streams that it covers.
<1>8. ASSUME NEW k \in SinkNames, Flush(k)
      PROVE  SafeOK'
  <2>1. PICK s \in Streams, F \in SUBSET Streams :
            /\ s = IF k = "file" THEN "file" ELSE "stdout"
            /\ F = IF k = "file" THEN {"file"} ELSE {"stdout", "stderr"}
    BY DEF Streams
  <2>2. /\ lost' = lost /\ safe' = safe \cup ((UNION {ToSet(given[u]) : u \in F}) \ lost)
        /\ \/ k = "file" /\ handle = 0 /\ buffer' = buffer
           \/ PassOn(s, buffer[s], Len(buffer[s]))
    <3>1. lost' = lost /\ safe' = safe \cup ((UNION {ToSet(given[u]) : u \in F}) \ lost)
      BY <1>8, <2>1 DEF Flush
    <3>2. \/ k = "file" /\ handle = 0 /\ buffer' = buffer
          \/ PassOn(s, buffer[s], Len(buffer[s]))
      BY <1>8, <2>1 DEF Flush
    <3>3. QED
      BY <3>1, <3>2
  <2>3. buffer[s] \in Seq(Halves) /\ Len(buffer[s]) \in 0 .. Len(buffer[s])
    BY <1>0
  <2>4. /\ RecordsIn(buffer'[s]) = {} /\ \A u \in Streams : u # s => buffer'[u] = buffer[u]
    <3>1. CASE k = "file" /\ handle = 0 /\ buffer' = buffer
      BY <2>1, <3>1 DEF FileOK, RecordsIn
    <3>2. CASE PassOn(s, buffer[s], Len(buffer[s]))
      BY <2>3, <3>2, PassOnRecords
    <3>3. QED
      BY <2>2, <3>1, <3>2
  <2>5. ASSUME NEW u \in Streams, NEW r \in RecordsIn(buffer'[u]) PROVE r \notin safe'
    <3>1. u # s /\ r \in RecordsIn(buffer[u])
      BY <2>4, <2>5
    <3>2. r \notin safe /\ r \in ToSet(given[u])
      BY <3>1, BufferedIsGiven DEF SafeOK
    <3>3. u \notin F
      BY <2>1, <3>1 DEF FileOK, RecordsIn
    <3>4. \A v \in F : r \notin ToSet(given[v])
      BY <2>1, <3>2, <3>3 DEF GivenOK, ToSet
    <3>5. QED
      BY <2>2, <3>2, <3>4
  <2>6. safe' \cap lost' = {}
    BY <2>2 DEF SafeOK
  <2>7. QED
    BY <1>1, <1>2, <2>5, <2>6 DEF SafeOK
<1>9. ASSUME NEW s \in Streams, NEW n \in 1 .. Len(buffer[s]) - 1, Spill(s, n)
      PROVE  SafeOK'
  <2>1. buffer[s] \in Seq(Halves) /\ n \in 0 .. Len(buffer[s])
    BY <1>0
  <2>2. PassOn(s, buffer[s], n) /\ UNCHANGED <<safe, lost>>
    BY <1>9 DEF Spill
  <2>3. RecordsIn(buffer'[s]) \subseteq RecordsIn(buffer[s])
        /\ \A u \in Streams : u # s => buffer'[u] = buffer[u]
    BY <2>1, <2>2, PassOnRecords
  <2>4. QED
    BY <1>4, <2>2, <2>3
<1>10. CASE Crash
  <2>1. /\ safe' = safe /\ lost' = lost \cup UNION {RecordsIn(buffer[s]) : s \in Streams}
        /\ \A s \in Streams : buffer'[s] = <<>>
    BY <1>10 DEF Crash
  <2>2. safe' \cap lost' = {}
    BY <2>1 DEF SafeOK
  <2>3. \A s \in Streams : RecordsIn(buffer'[s]) = {}
    BY <2>1 DEF RecordsIn
  <2>4. QED
    BY <1>1, <1>2, <2>2, <2>3 DEF SafeOK
<1>11. CASE Start \/ Stop \/ MoveAway \/ UNCHANGED vars
  <2>1. UNCHANGED <<safe, lost>> /\ \A s \in Streams : buffer'[s] = buffer[s] \/ buffer'[s] = <<>>
    BY <1>11 DEF Start, Stop, MoveAway, vars
  <2>2. \A s \in Streams : RecordsIn(buffer'[s]) \subseteq RecordsIn(buffer[s])
    BY <2>1 DEF RecordsIn
  <2>3. QED
    BY <1>4, <2>1, <2>2
<1>12. QED
  BY <1>5, <1>6, <1>7, <1>8, <1>9, <1>10, <1>11 DEF Next

\* GivenSurvive: every stream has, each once and in the order of their fwrite, the records
\* given to it that neither a crash took from the buffer nor an fopen cut off; a crash
\* takes none that Flush or autoFlush has covered, and with append set an fopen cuts none.
THEOREM GivenRecordsSurvive == Spec => []GivenSurvive
<1>1. Init => SurviveOK /\ SafeOK
  <2> SUFFICES ASSUME Init PROVE SurviveOK /\ SafeOK
    OBVIOUS
  <2>1. ASSUME NEW s \in Streams PROVE Heads(Texts(s)) = {}
    <3>1. CASE s = "file"
      BY <3>1 DEF Init, Texts, Heads
    <3>2. CASE s # "file"
      <4>1. Texts(s) = <<console[s] \o buffer[s]>> /\ console[s] = <<>> /\ buffer[s] = <<>>
        BY <3>2 DEF Init, Texts, Streams
      <4>2. PICK e \in Seq(Halves) : e = <<>> /\ Len(e) = 0
        BY EmptyText
      <4>3. console[s] \o buffer[s] = e
        BY <4>1, <4>2, ConcatText
      <4>4. Texts(s) = <<e>> /\ DOMAIN e = {}
        BY <4>1, <4>2, <4>3
      <4>5. QED
        BY <4>4 DEF Heads
    <3>3. QED
      BY <3>1, <3>2
  <2>2. \A s \in Streams : ToSet(given[s]) = {}
    BY DEF Init, ToSet
  <2>3. SurviveOK
    BY <2>1, <2>2 DEF SurviveOK, Survivors, Ordered
  <2>4. SafeOK
    BY DEF Init, SafeOK
  <2>5. QED
    BY <2>3, <2>4
<1>2. TypeOK /\ TypeOK' /\ Lines /\ SurviveOK /\ SafeOK /\ [Next]_vars => SurviveOK' /\ SafeOK'
  BY SurviveStep, SafeStep DEF Lines
<1>3. SurviveOK /\ SafeOK => GivenSurvive
  BY DEF SurviveOK, SafeOK, Survivors, Ordered, GivenSurvive
<1>4. QED
  BY <1>1, <1>2, <1>3, TypesHold, LinesInvariant, PTL DEF Spec
=============================================================================
