------------------------ MODULE RotatingFileSinkProofs ------------------------
(***************************************************************************)
(* Theorems of RotatingFileSink, for every number of files, every set of   *)
(* options and any number of crashes, of failures and of files moved away: *)
(* its types, what becomes of a record, the order of the files, what they  *)
(* hold at most.                                                           *)
(***************************************************************************)
EXTENDS RotatingFileSink, RecursionLemmas, SequenceTheorems

-----------------------------------------------------------------------------
(* Sequences of records.                                                   *)

Records == Seq(RecordType)

LEMMA RecordFacts ==
    ASSUME NEW r \in RecordType
    PROVE  /\ r.id \in 1 .. MaxRecords /\ r.size \in Nat \ {0} /\ r.id \in Nat
           /\ r.day \in 1 .. MaxDays /\ r.run \in 1 .. MaxRuns
<1>1. /\ r.id \in 1 .. MaxRecords /\ r.size \in Sizes
      /\ r.day \in 1 .. MaxDays /\ r.run \in 1 .. MaxRuns
  BY DEF RecordType
<1>2. Sizes \subseteq Nat \ {0} /\ MaxRecords \in Nat
  BY RotatingFileSinkAssumption
<1>3. r.id \in Nat
  BY <1>1, <1>2
<1>4. QED
  BY <1>1, <1>2, <1>3

LEMMA EmptyFacts ==
    /\ <<>> \in Records /\ Len(<<>>) = 0 /\ Members(<<>>) = {} /\ Ids(<<>>) = {}
    /\ Ascending(<<>>) /\ \A s : Before(<<>>, s) /\ Before(s, <<>>)
<1>1. <<>> \in Records /\ Len(<<>>) = 0 /\ 1 .. 0 = {}
  BY DEF Records
<1>2. Members(<<>>) = {}
  BY <1>1 DEF Members
<1>3. QED
  BY <1>1, <1>2 DEF Ids, Ascending, Before

LEMMA MemberFacts ==
    ASSUME NEW s \in Records
    PROVE  /\ Len(s) \in Nat /\ DOMAIN s = 1 .. Len(s)
           /\ Members(s) \subseteq RecordType
           /\ \A i \in 1 .. Len(s) : s[i] \in RecordType /\ s[i] \in Members(s)
           /\ \A r \in Members(s) : \E i \in 1 .. Len(s) : r = s[i]
           /\ \A r \in Members(s) : r.id \in Ids(s)
           /\ Ids(s) \subseteq 1 .. MaxRecords
           /\ Members(s) = {} => s = <<>>
<1>1. Len(s) \in Nat /\ DOMAIN s = 1 .. Len(s) /\ \A i \in 1 .. Len(s) : s[i] \in RecordType
  BY DEF Records
<1>2. Members(s) = {} => s = <<>>
  <2>1. ASSUME Members(s) = {} PROVE s = <<>>
    <3>1. Len(s) = 0
      BY <1>1, <2>1 DEF Members
    <3>2. QED
      BY <3>1 DEF Records
  <2>2. QED
    BY <2>1
<1>3. Members(s) \subseteq RecordType
  BY <1>1 DEF Members
<1>4. Ids(s) \subseteq 1 .. MaxRecords
  BY <1>3, RecordFacts DEF Ids
<1>5. QED
  BY <1>1, <1>2, <1>3, <1>4 DEF Members, Ids

LEMMA ConcatFacts ==
    ASSUME NEW s \in Records, NEW t \in Records
    PROVE  /\ s \o t \in Records /\ Len(s \o t) = Len(s) + Len(t)
           /\ \A i \in 1 .. Len(s) : (s \o t)[i] = s[i]
           /\ \A i \in 1 .. Len(t) : (s \o t)[Len(s) + i] = t[i]
           /\ Members(s \o t) = Members(s) \cup Members(t)
           /\ Ids(s \o t) = Ids(s) \cup Ids(t)
<1>1. /\ s \o t \in Records /\ Len(s \o t) = Len(s) + Len(t)
      /\ \A i \in 1 .. Len(s) : (s \o t)[i] = s[i]
      /\ \A i \in 1 .. Len(t) : (s \o t)[Len(s) + i] = t[i]
      /\ Len(s) \in Nat /\ Len(t) \in Nat
  BY DEF Records
<1> DEFINE st == s \o t
<1> HIDE DEF st
<1>2. /\ Len(st) = Len(s) + Len(t) /\ \A i \in 1 .. Len(s) : st[i] = s[i]
      /\ \A i \in 1 .. Len(t) : st[Len(s) + i] = t[i]
  BY <1>1 DEF st
<1>3. Members(st) \subseteq Members(s) \cup Members(t)
  <2>1. SUFFICES ASSUME NEW i \in 1 .. Len(st) PROVE st[i] \in Members(s) \cup Members(t)
    BY DEF Members
  <2>2. CASE i \in 1 .. Len(s)
    BY <1>2, <2>2 DEF Members
  <2>3. CASE i \notin 1 .. Len(s)
    <3>1. i - Len(s) \in 1 .. Len(t) /\ Len(s) + (i - Len(s)) = i
      BY <1>1, <1>2, <2>1, <2>3
    <3>2. st[i] = t[i - Len(s)]
      BY <1>2, <3>1
    <3>3. QED
      BY <3>1, <3>2 DEF Members
  <2>4. QED
    BY <2>2, <2>3
<1>4. Members(s) \cup Members(t) \subseteq Members(st)
  <2>1. ASSUME NEW i \in 1 .. Len(s) PROVE s[i] \in Members(st)
    <3>1. i \in 1 .. Len(st)
      BY <1>1, <1>2
    <3>2. QED
      BY <1>2, <3>1 DEF Members
  <2>2. ASSUME NEW i \in 1 .. Len(t) PROVE t[i] \in Members(st)
    <3>1. Len(s) + i \in 1 .. Len(st)
      BY <1>1, <1>2
    <3>2. QED
      BY <1>2, <3>1 DEF Members
  <2>3. QED
    BY <2>1, <2>2 DEF Members
<1>5. Members(st) = Members(s) \cup Members(t)
  BY <1>3, <1>4
<1>6. QED
  BY <1>1, <1>5 DEF Ids, st

LEMMA ConcatThree == \A s, t, u \in Records : (s \o t) \o u = s \o (t \o u)
<1> TAKE s, t, u \in Records
<1>1. QED
  BY ConcatAssociative DEF Records

LEMMA AscendingConcat ==
    ASSUME NEW s \in Records, NEW t \in Records, Ascending(s), Ascending(t), Before(s, t)
    PROVE  Ascending(s \o t)
<1> DEFINE st == s \o t
<1>1. /\ Len(st) = Len(s) + Len(t) /\ \A i \in 1 .. Len(s) : st[i] = s[i]
      /\ \A i \in 1 .. Len(t) : st[Len(s) + i] = t[i]
      /\ Len(s) \in Nat /\ Len(t) \in Nat
  BY ConcatFacts, MemberFacts
<1> HIDE DEF st
<1>2. SUFFICES ASSUME NEW i \in 1 .. Len(st), NEW j \in 1 .. Len(st), i < j
               PROVE  st[i].id < st[j].id
  BY DEF Ascending, st
<1>3. CASE j \in 1 .. Len(s)
  <2>1. i \in 1 .. Len(s)
    BY <1>1, <1>2, <1>3
  <2>2. QED
    BY <1>1, <1>2, <1>3, <2>1 DEF Ascending
<1>4. CASE j \notin 1 .. Len(s)
  <2> DEFINE b == j - Len(s)
  <2>1. b \in 1 .. Len(t) /\ st[j] = t[b]
    <3>1. b \in 1 .. Len(t) /\ Len(s) + b = j
      BY <1>1, <1>4
    <3>2. QED
      BY <1>1, <3>1
  <2>2. CASE i \in 1 .. Len(s)
    BY <1>1, <2>1, <2>2 DEF Before, Members
  <2>3. CASE i \notin 1 .. Len(s)
    <3> DEFINE a == i - Len(s)
    <3>1. a \in 1 .. Len(t) /\ Len(s) + a = i /\ a < b
      BY <1>1, <1>2, <2>3
    <3>2. st[i] = t[a]
      BY <1>1, <3>1
    <3>3. QED
      BY <2>1, <3>1, <3>2 DEF Ascending
  <2>4. QED
    BY <2>2, <2>3
<1>5. QED
  BY <1>3, <1>4

-----------------------------------------------------------------------------
(* The length of a file.                                                   *)

\* f sums up the sizes of the records of s.
SumStep(s, f) == [n \in 0 .. Len(s) |-> IF n = 0 THEN 0 ELSE f[n - 1] + s[n].size]

Sums(f, s) ==
    /\ f[0] = 0 /\ \A n \in 0 .. Len(s) : f[n] \in Nat
    /\ \A n \in 1 .. Len(s) : f[n] = f[n - 1] + s[n].size

LEMMA LengthSums ==
    ASSUME NEW s \in Records
    PROVE  \E f : Sums(f, s) /\ Length(s) = f[Len(s)]
<1> DEFINE N == Len(s)
           step == [c \in (1 .. N) \X Nat |-> c[2] + s[c[1]].size]
<1>0. N \in Nat /\ \A n \in 1 .. N : s[n].size \in Nat
  BY MemberFacts, RecordFacts
<1>1. step \in [(1 .. N) \X Nat -> Nat]
  BY <1>0
<1>2. PICK f : Recurs(f, N, Nat, 0, step)
  <2> HIDE DEF step, N
  <2>1. QED
    BY <1>0, <1>1, RecursionExists
<1>3. f = SumStep(s, f)
  <2>1. ASSUME NEW n \in 1 .. N PROVE f[n] = f[n - 1] + s[n].size
    <3>1. n - 1 \in 0 .. N
      BY <1>0
    <3>2. <<n, f[n - 1]>> \in (1 .. N) \X Nat
      BY <1>2, <3>1 DEF Recurs
    <3>3. QED
      BY <1>2, <3>2 DEF Recurs
  <2>2. QED
    BY <1>2, <2>1 DEF SumStep, Recurs
<1> DEFINE sum == CHOOSE sum : sum = [n \in 0 .. Len(s) |->
                                         IF n = 0 THEN 0 ELSE sum[n - 1] + s[n].size]
<1>4. sum = SumStep(s, sum) /\ Length(s) = sum[Len(s)]
  <2>1. sum = SumStep(s, sum)
    BY <1>3 DEF SumStep
  <2>2. QED
    BY <2>1 DEF Length
<1> HIDE DEF sum, step
<1>5. sum[0] = 0 /\ \A n \in 1 .. N : sum[n] = sum[n - 1] + s[n].size
  BY <1>0, <1>4, SMTT(30) DEF SumStep
<1> DEFINE Natural == {n \in Nat : n <= N => sum[n] \in Nat}
<1>6. 0 \in Natural
  BY <1>5
<1>7. ASSUME NEW n \in Nat, n \in Natural PROVE n + 1 \in Natural
  <2>1. SUFFICES ASSUME n + 1 <= N PROVE sum[n + 1] \in Nat
    OBVIOUS
  <2>2. n + 1 \in 1 .. N /\ sum[n] \in Nat
    BY <1>0, <1>7, <2>1
  <2>3. sum[n + 1] = sum[n] + s[n + 1].size
    BY <1>5, <2>2
  <2>4. QED
    BY <1>0, <2>2, <2>3
<1>8. Nat \subseteq Natural
  <2> HIDE DEF Natural
  <2>1. QED
    BY <1>6, <1>7, NatSetInduction
<1>9. Sums(sum, s)
  BY <1>0, <1>5, <1>8 DEF Sums
<1>10. QED
  BY <1>4, <1>9

LEMMA LengthFacts ==
    /\ Length(<<>>) = 0
    /\ \A s \in Records : Length(s) \in Nat
    /\ \A r \in RecordType : Length(<<r>>) = r.size
<1>1. Length(<<>>) = 0
  BY LengthSums, EmptyFacts DEF Sums
<1>2. ASSUME NEW s \in Records PROVE Length(s) \in Nat
  <2>1. PICK f : Sums(f, s) /\ Length(s) = f[Len(s)]
    BY LengthSums
  <2>2. QED
    BY <2>1, MemberFacts DEF Sums
<1>3. ASSUME NEW r \in RecordType PROVE Length(<<r>>) = r.size
  <2> DEFINE s == <<r>>
  <2>1. s \in Records /\ Len(s) = 1 /\ s[1] = r
    BY DEF Records
  <2> HIDE DEF s
  <2>2. PICK f : Sums(f, s) /\ Length(s) = f[Len(s)]
    BY <2>1, LengthSums
  <2>3. f[1] = f[0] + r.size /\ f[0] = 0 /\ r.size \in Nat
    BY <2>1, <2>2, RecordFacts DEF Sums
  <2>4. QED
    BY <2>1, <2>2, <2>3 DEF s
<1>4. QED
  BY <1>1, <1>2, <1>3

LEMMA LengthConcat ==
    ASSUME NEW s \in Records, NEW t \in Records
    PROVE  Length(s \o t) = Length(s) + Length(t)
<1>1. PICK f : Sums(f, s) /\ Length(s) = f[Len(s)]
  BY LengthSums
<1>2. PICK g : Sums(g, t) /\ Length(t) = g[Len(t)]
  BY LengthSums
<1>3. PICK h : Sums(h, s \o t) /\ Length(s \o t) = h[Len(s \o t)]
  BY LengthSums, ConcatFacts
<1> DEFINE st == s \o t
<1>4. /\ Len(st) = Len(s) + Len(t) /\ \A i \in 1 .. Len(s) : st[i] = s[i]
      /\ \A i \in 1 .. Len(t) : st[Len(s) + i] = t[i]
      /\ Len(s) \in Nat /\ Len(t) \in Nat
  BY ConcatFacts, MemberFacts
<1>5. Sums(h, st) /\ Length(st) = h[Len(st)]
  BY <1>3
<1> HIDE DEF st
<1> DEFINE First == {n \in Nat : n <= Len(s) => h[n] = f[n]}
           Second == {n \in Nat : n <= Len(t) => h[Len(s) + n] = f[Len(s)] + g[n]}
<1>6. Nat \subseteq First
  <2>1. 0 \in First
    BY <1>1, <1>5 DEF Sums
  <2>2. ASSUME NEW n \in Nat, n \in First PROVE n + 1 \in First
    <3>1. SUFFICES ASSUME n + 1 <= Len(s) PROVE h[n + 1] = f[n + 1]
      OBVIOUS
    <3>2. n + 1 \in 1 .. Len(s) /\ n + 1 \in 1 .. Len(st) /\ (n + 1) - 1 = n /\ h[n] = f[n]
      BY <1>4, <2>2, <3>1
    <3>3. f[n + 1] = f[n] + s[n + 1].size /\ h[n + 1] = h[n] + st[n + 1].size
      BY <1>1, <1>5, <3>2 DEF Sums
    <3>4. QED
      BY <1>4, <3>2, <3>3
  <2>3. QED
    <3> HIDE DEF First
    <3>1. QED
      BY <2>1, <2>2, NatSetInduction
<1>7. Nat \subseteq Second
  <2>1. 0 \in Second
    <3>1. h[Len(s)] = f[Len(s)] /\ g[0] = 0 /\ f[Len(s)] \in Nat
      BY <1>1, <1>2, <1>4, <1>6 DEF Sums
    <3>2. Len(s) + 0 = Len(s) /\ f[Len(s)] + 0 = f[Len(s)]
      BY <1>4, <3>1
    <3>3. QED
      BY <3>1, <3>2
  <2>2. ASSUME NEW n \in Nat, n \in Second PROVE n + 1 \in Second
    <3>1. SUFFICES ASSUME n + 1 <= Len(t) PROVE h[Len(s) + (n + 1)] = f[Len(s)] + g[n + 1]
      OBVIOUS
    <3> DEFINE m == Len(s) + (n + 1)
    <3>2. n + 1 \in 1 .. Len(t) /\ n \in 0 .. Len(t) /\ m \in 1 .. Len(st)
          /\ (n + 1) - 1 = n /\ m - 1 = Len(s) + n /\ h[Len(s) + n] = f[Len(s)] + g[n]
      BY <1>4, <2>2, <3>1
    <3> HIDE DEF m
    <3>3. g[n + 1] = g[n] + t[n + 1].size /\ h[m] = h[Len(s) + n] + st[m].size
      BY <1>2, <1>5, <3>2 DEF Sums
    <3>4. st[m] = t[n + 1] /\ t[n + 1].size \in Nat /\ g[n] \in Nat /\ f[Len(s)] \in Nat
      BY <1>1, <1>2, <1>4, <3>2, MemberFacts, RecordFacts, SMTT(30) DEF Sums, m
    <3>5. h[m] = (f[Len(s)] + g[n]) + t[n + 1].size
      BY <3>2, <3>3, <3>4
    <3>6. (f[Len(s)] + g[n]) + t[n + 1].size = f[Len(s)] + g[n + 1]
      BY <3>3, <3>4
    <3>7. QED
      BY <3>5, <3>6 DEF m
  <2>3. QED
    <3> HIDE DEF Second
    <3>1. QED
      BY <2>1, <2>2, NatSetInduction
<1>8. h[Len(s) + Len(t)] = f[Len(s)] + g[Len(t)]
  BY <1>4, <1>7
<1>9. QED
  BY <1>1, <1>2, <1>4, <1>5, <1>8 DEF st
-----------------------------------------------------------------------------
(* The inductive invariants.                                               *)

\* Between these calls into the file system no file is open.
ClosedAt == {"down", "reopen", "detect_open", "remove", "shift", "move", "rotate_open"}

Control ==
    /\ pc \in ClosedAt => handle = "none"
    /\ pc \in {"down", "idle", "reopen", "flush"} => pending = <<>>
    /\ pc = "shift" => index \in 2 .. options.maxFiles
    /\ pc = "move" => index = 1 /\ options.maxFiles >= 1
    /\ pc # "down" => runs >= 1
    /\ pc = "detect" => handle # "none"

\* A path that names no file has no records, and neither has the path itself while the
\* open file has been moved away from it; else the open file is the one of the path.
FilesOK ==
    /\ \A k \in 0 .. MaxSlots : ~slot[k].exists => slot[k].records = <<>>
    /\ handle = "away" => slot[0].records = <<>>
    /\ handle = "path" => slot[0].exists

Types == TypeOK /\ Control /\ FilesOK

\* The files, the buffer and the record of Write are in the order they were issued.
OrderInv ==
    /\ FilesInOrder
    /\ \A k \in 0 .. MaxSlots : Before(slot[k].records, pending)
    /\ Before(buffer, pending)
    /\ \A k \in 0 .. MaxSlots : \A r \in Members(slot[k].records) : r.id <= issued
    /\ \A r \in Members(buffer) \cup Members(pending) : r.id <= issued

\* What is not written out yet came after the last flush.
DurableInv == \A r \in Members(buffer) \cup Members(pending) : r.id > durable

\* Under the name that the next rename takes there is nothing, or what had to stay there.
RotationInv == pc \in {"shift", "move"} => Ids(slot[index].records) \subseteq kept

\* The file that the sink writes to, with what is still in its buffer.
Current == slot[0].records \o (IF handle = "path" THEN buffer ELSE <<>>)

\* Nothing, or what had to stay.
Fresh(s) == s = <<>> \/ Ids(s) \cap kept # {}

SizeInv ==
    /\ SizeBounded
    /\ handle = "path" => bytes = Length(Current)
    /\ options.maxFileBytes > 0 =>
        /\ pc = "detect_open" => Fresh(slot[0].records)
        /\ (pc \in {"decide", "append"} /\ handle = "none") => Fresh(slot[0].records)
        /\ pc = "rotate_open" => Fresh(slot[0].records)
        /\ (pc = "append" /\ handle = "path") =>
               \/ Fresh(Current)
               \/ Length(Current) + pending[1].size <= options.maxFileBytes

\* The records of this process in s that did not have to stay are of the day dateKey.
OfDateKey(s) ==
    \A r \in Members(s) : r.run = runs /\ r.id \notin kept => r.day = dateKey

OneDay(s) == \A r, q \in Members(s) : r.run = q.run /\ {r.id, q.id} \cap kept = {} => r.day = q.day

\* The calls of a rotation up to the one that gives the path another name.
RotatingAt == {"rotate", "remove", "shift", "move"}

\* The records of a file were written by this process or an earlier one, those of the
\* buffer by this one.
RunsInv ==
    /\ \A k \in 0 .. MaxSlots : \A r \in Members(slot[k].records) : r.run <= runs
    /\ \A r \in Members(buffer) \cup Members(pending) : r.run = runs

DayInv ==
    (options.rotateDailyLocal /\ options.maxFileBytes = 0) =>
        /\ \A k \in 0 .. MaxSlots : OneDay(slot[k].records)
        /\ OneDay(Current)
        /\ (pc # "down" /\ (pc \in RotatingAt => pending = <<>>)) => OfDateKey(Current)
        /\ (pc \in RotatingAt \cup {"append", "rotate_open"} /\ pending # <<>>) =>
               pending[1].day = dateKey

-----------------------------------------------------------------------------
(* What the steps do to the files, and to the record of Write.             *)

Untouched == UNCHANGED <<slot, away, handle, buffer, bytes, lost, crashed, kept>>

WritesOut ==
    /\ FlushBuffer /\ handle' \in {handle, "none"}
    /\ handle' # "none" => bytes' = bytes
    /\ UNCHANGED <<lost, crashed, kept>>

Opens == handle = "none" /\ OpenFile /\ UNCHANGED <<away, buffer, crashed, kept>>

FailsToOpen ==
    handle = "none" /\ handle' = "none" /\ UNCHANGED <<slot, away, buffer, lost, crashed, kept>>

Removes(k) ==
    handle = "none" /\ (Remove(k) \/ Stays(k)) /\ UNCHANGED <<away, sinkVars, crashed>>

Renames(k) ==
    handle = "none" /\ (Rename(k, k + 1) \/ Stays(k)) /\ UNCHANGED <<away, sinkVars, crashed>>

Waits == UNCHANGED <<pending, issued, givenUp>>

Accepts ==
    /\ pc = "idle" /\ issued < MaxRecords /\ issued' = issued + 1
    /\ \E size \in Sizes :
          pending' = <<[id |-> issued + 1, size |-> size, day |-> today, run |-> runs]>>
    /\ UNCHANGED givenUp

Rejects ==
    /\ pc = "idle" /\ issued < MaxRecords /\ issued' = issued + 1 /\ UNCHANGED pending
    /\ givenUp' = givenUp \cup {issued + 1}

GivesUp ==
    /\ pending' = <<>> /\ UNCHANGED issued
    /\ givenUp' = givenUp \cup Ids(pending)

Effect ==
    \/ Untouched /\ (Waits \/ Accepts)
    \/ WritesOut /\ Waits
    \/ Opens /\ (Waits \/ Accepts)
    \/ FailsToOpen /\ (Waits \/ Rejects \/ GivesUp)
    \/ \E k \in 0 .. MaxSlots : Removes(k) /\ Waits
    \/ \E k \in 0 .. MaxSlots : k + 1 \in 0 .. MaxSlots /\ Renames(k) /\ Waits
    \/ AppendRecord \/ Crash \/ MoveAway \/ CreateAgain

LEMMA OptionFacts ==
    ASSUME TypeOK
    PROVE  /\ MaxSlots \in Nat /\ options.maxFiles \in 0 .. MaxSlots
           /\ options.maxFileBytes \in Nat /\ options.append \in BOOLEAN
           /\ options.rotateDailyLocal \in BOOLEAN
BY RotatingFileSinkAssumption DEF TypeOK, Options

LEMMA StepEffect ==
    ASSUME Types, [Next]_vars
    PROVE  Effect
<1>0. Control /\ TypeOK
  BY DEF Types
<1> USE DEF Effect
<1>1. CASE UNCHANGED vars
  BY <1>1 DEF vars, fileVars, sinkVars, callVars, pastVars, Untouched, Waits
<1>2. CASE Start
  <2>1. handle = "none" /\ Waits /\ UNCHANGED <<away, buffer, crashed, kept>>
    BY <1>0, <1>2 DEF Start, Goto, Control, ClosedAt, Waits
  <2>2. QED
    BY <1>2, <2>1 DEF Start, Opens, FailsToOpen, OpenFails
<1>3. CASE Stop
  BY <1>3 DEF Stop, Goto, CloseFile, WritesOut, Waits, pastVars
<1>4. CASE Reopen
  BY <1>4 DEF Reopen, Goto, CloseFile, WritesOut, Waits, pastVars
<1>5. CASE Flush
  BY <1>5 DEF Flush, WritesOut, Waits, callVars
<1>6. CASE ForceRotate
  BY <1>6 DEF ForceRotate, Goto, Untouched, Waits, fileVars, sinkVars, pastVars
<1>7. ASSUME NEW size \in Sizes, BeginWrite(size) PROVE Effect
  <2>1. CASE handle # "none"
    <3>1. Untouched /\ Accepts
      BY <1>7, <2>1 DEF BeginWrite, Untouched, Accepts
    <3>2. QED
      BY <3>1
  <2>2. CASE handle = "none" /\ OpenFile /\ UNCHANGED givenUp
    <3>1. /\ UNCHANGED <<away, buffer, crashed, kept, givenUp>>
          /\ pc = "idle" /\ issued < MaxRecords /\ issued' = issued + 1
      BY <1>7, <2>2 DEF BeginWrite
    <3>2. \/ pending' = <<[id |-> issued + 1, size |-> size, day |-> today, run |-> runs]>>
          \/ UNCHANGED <<pc, pending>> /\ handle' = "none"
      BY <1>7, <2>2 DEF BeginWrite, OpenFails
    <3>3. handle' # "none"
      BY <2>2 DEF OpenFile
    <3>4. Opens /\ Accepts
      BY <2>2, <3>1, <3>2, <3>3 DEF Opens, Accepts
    <3>5. QED
      BY <3>4
  <2>3. CASE handle = "none" /\ OpenFails /\ givenUp' = givenUp \cup {issued + 1}
             /\ UNCHANGED <<pc, pending>>
    <3>1. /\ UNCHANGED <<away, buffer, crashed, kept>>
          /\ pc = "idle" /\ issued < MaxRecords /\ issued' = issued + 1
      BY <1>7, <2>3 DEF BeginWrite
    <3>2. FailsToOpen /\ Rejects
      BY <2>3, <3>1 DEF FailsToOpen, Rejects, OpenFails
    <3>3. QED
      BY <3>2
  <2>4. QED
    BY <1>7, <2>1, <2>2, <2>3 DEF BeginWrite
<1>8. CASE ReopenOpen
  <2>1. handle = "none" /\ Waits /\ UNCHANGED <<away, buffer, crashed, kept>>
    BY <1>0, <1>8 DEF ReopenOpen, Goto, Control, ClosedAt, Waits
  <2>2. QED
    BY <1>8, <2>1 DEF ReopenOpen, Opens, FailsToOpen, OpenFails
<1>9. CASE DetectExternalRotation
  <2>1. Waits /\ UNCHANGED <<bytes, lost, crashed, kept>>
    BY <1>9 DEF DetectExternalRotation, Goto, Waits, pastVars
  <2>2. (FlushBuffer /\ handle' = "none") \/ UNCHANGED <<slot, away, handle, buffer>>
    BY <1>9 DEF DetectExternalRotation, CloseFile, fileVars
  <2>3. QED
    BY <2>1, <2>2 DEF WritesOut, Untouched
<1>10. CASE DetectOpen
  <2>1. handle = "none" /\ Waits /\ UNCHANGED <<away, buffer, crashed, kept>>
    BY <1>0, <1>10 DEF DetectOpen, Goto, Control, ClosedAt, Waits
  <2>2. QED
    BY <1>10, <2>1 DEF DetectOpen, Opens, FailsToOpen, OpenFails
<1>11. CASE Decide
  BY <1>11 DEF Decide, Goto, Untouched, Waits, fileVars, pastVars
<1>12. CASE AppendOpen
  <2>1. handle = "none" /\ UNCHANGED <<away, buffer, issued, crashed, kept>>
    BY <1>12 DEF AppendOpen
  <2>2. QED
    BY <1>12, <2>1 DEF AppendOpen, Opens, FailsToOpen, OpenFails, Waits, GivesUp
<1>13. CASE AutoFlush
  BY <1>13 DEF AutoFlush, Goto, WritesOut, Waits
<1>14. CASE RotateClose
  BY <1>14 DEF RotateClose, Goto, CloseFile, WritesOut, Waits, pastVars
<1>15. CASE RotateRemove
  <2>1. handle = "none" /\ Waits /\ UNCHANGED <<away, sinkVars, crashed>>
    BY <1>0, <1>15 DEF RotateRemove, Goto, Control, ClosedAt, Waits
  <2>2. options.maxFiles \in 0 .. MaxSlots
    BY <1>0, OptionFacts
  <2>3. Remove(options.maxFiles) \/ Stays(options.maxFiles)
    BY <1>15 DEF RotateRemove
  <2>4. Removes(options.maxFiles)
    BY <2>1, <2>3 DEF Removes
  <2>5. QED
    BY <2>1, <2>2, <2>4
<1>16. CASE RotateShift
  <2> DEFINE k == index - 1
  <2>1. handle = "none" /\ Waits /\ UNCHANGED <<away, sinkVars, crashed>>
    BY <1>0, <1>16 DEF RotateShift, Goto, Control, ClosedAt, Waits
  <2>2. k \in 0 .. MaxSlots /\ k + 1 \in 0 .. MaxSlots /\ k + 1 = index
    BY <1>0, <1>16, OptionFacts DEF RotateShift, Goto, Control
  <2>3. Rename(k, index) \/ Stays(k)
    BY <1>16 DEF RotateShift
  <2>4. Renames(k)
    BY <2>1, <2>2, <2>3 DEF Renames
  <2>5. QED
    BY <2>1, <2>2, <2>4
<1>17. CASE RotateMove
  <2>1. handle = "none" /\ Waits /\ UNCHANGED <<away, sinkVars, crashed>>
    BY <1>0, <1>17 DEF RotateMove, Goto, Control, ClosedAt, Waits
  <2>2. 0 \in 0 .. MaxSlots /\ 0 + 1 \in 0 .. MaxSlots /\ 0 + 1 = 1
    BY <1>0, <1>17, OptionFacts DEF RotateMove, Goto, Control
  <2>3. Rename(0, 1) \/ Stays(0)
    BY <1>17 DEF RotateMove
  <2>4. Renames(0)
    BY <2>1, <2>2, <2>3 DEF Renames
  <2>5. QED
    BY <2>1, <2>2, <2>4
<1>18. CASE RotateOpen
  <2>1. handle = "none" /\ Waits /\ UNCHANGED <<away, buffer, crashed, kept>>
    BY <1>0, <1>18 DEF RotateOpen, Goto, Control, ClosedAt, Waits
  <2>2. QED
    BY <1>18, <2>1 DEF RotateOpen, Opens, FailsToOpen
<1>19. CASE StdioFlush
  BY <1>19 DEF StdioFlush, WritesOut, Waits, callVars, pastVars
<1>20. CASE Midnight
  BY <1>20 DEF Midnight, Untouched, Waits, fileVars, sinkVars, callVars, pastVars
<1>21. QED
  BY <1>1, <1>2, <1>3, <1>4, <1>5, <1>6, <1>7, <1>8, <1>9, <1>10, <1>11, <1>12, <1>13,
     <1>14, <1>15, <1>16, <1>17, <1>18, <1>19, <1>20
     DEF Next, Call, Continue, World

-----------------------------------------------------------------------------
(* Types.                                                                  *)

SlotType == [exists : BOOLEAN, records : Records]

\* The parts of Types that go together.
StoredOK ==
    /\ slot \in [0 .. MaxSlots -> SlotType] /\ handle \in {"none", "path", "away"}
    /\ buffer \in Records /\ (buffer # <<>> => handle # "none")
    /\ FilesOK

CountsOK ==
    /\ options \in Options /\ bytes \in Nat /\ dateKey \in {-1} \cup 1 .. MaxDays
    /\ issued \in 0 .. MaxRecords /\ durable \in 0 .. issued
    /\ today \in 1 .. MaxDays /\ runs \in 0 .. MaxRuns /\ moves \in Nat
    /\ faults \in Nat /\ moves + faults <= MaxMishaps

PlaceOK ==
    /\ pc \in Locations /\ index \in 0 .. MaxSlots
    /\ pending \in Records /\ Len(pending) <= 1
    /\ pc \in {"detect", "detect_open", "decide", "append"} => pending # <<>>
    /\ Control

PastOK == away \cup lost \cup crashed \cup givenUp \cup kept \subseteq 1 .. MaxRecords

LEMMA TypeParts ==
    /\ Types <=> StoredOK /\ CountsOK /\ PlaceOK /\ PastOK
    /\ Types' <=> StoredOK' /\ CountsOK' /\ PlaceOK' /\ PastOK'
BY DEF Types, TypeOK, StoredOK, CountsOK, PlaceOK, PastOK, SlotType, Records

\* The record of Write.
LEMMA PendingFacts ==
    ASSUME PlaceOK
    PROVE  /\ pending \in Records
           /\ pending # <<>> => pending[1] \in RecordType /\ pending = <<pending[1]>>
           /\ pending # <<>> => Members(pending) = {pending[1]} /\ Ids(pending) = {pending[1].id}
<1>1. pending \in Records /\ Len(pending) <= 1 /\ Len(pending) \in Nat
  BY MemberFacts DEF PlaceOK
<1>2. ASSUME pending # <<>>
      PROVE  /\ pending[1] \in RecordType /\ pending = <<pending[1]>>
             /\ Members(pending) = {pending[1]} /\ Ids(pending) = {pending[1].id}
  <2>1. Len(pending) = 1
    <3>1. Len(pending) # 0
      BY <1>1, <1>2 DEF Records
    <3>2. QED
      BY <1>1, <3>1
  <2>2. pending[1] \in RecordType /\ pending = <<pending[1]>>
    BY <1>1, <2>1 DEF Records
  <2>3. Members(pending) = {pending[1]}
    BY <2>1 DEF Members
  <2>4. QED
    BY <2>2, <2>3 DEF Ids
<1>3. QED
  BY <1>1, <1>2

LEMMA SlotFacts ==
    ASSUME StoredOK, MaxSlots \in Nat
    PROVE  /\ 0 \in 0 .. MaxSlots
           /\ \A k \in 0 .. MaxSlots : slot[k] \in SlotType /\ slot[k].records \in Records
                                       /\ slot[k].exists \in BOOLEAN
BY DEF StoredOK, SlotType

\* Writing the buffer out: to the path, or to the file that was moved away.
LEMMA Flushed ==
    ASSUME StoredOK, MaxSlots \in Nat, FlushBuffer
    PROVE  /\ slot' \in [0 .. MaxSlots -> SlotType] /\ buffer' = <<>>
           /\ \A k \in 0 .. MaxSlots :
                 /\ slot'[k].exists = slot[k].exists
                 /\ slot'[k].records = IF k = 0 /\ handle = "path"
                                       THEN slot[0].records \o buffer ELSE slot[k].records
           /\ away' = IF handle = "away" THEN away \cup Ids(buffer) ELSE away
<1>1. slot \in [0 .. MaxSlots -> SlotType] /\ slot[0] \in SlotType /\ 0 \in 0 .. MaxSlots
      /\ buffer \in Records /\ slot[0].records \in Records
  BY SlotFacts DEF StoredOK
<1> DEFINE file == [slot[0] EXCEPT !.records = slot[0].records \o buffer]
<1>2. slot' = IF handle = "path" THEN [slot EXCEPT ![0] = file] ELSE slot
  BY DEF FlushBuffer
<1>3. file \in SlotType /\ file.exists = slot[0].exists /\ file.records = slot[0].records \o buffer
  <2>1. slot[0].records \o buffer \in Records
    BY <1>1, ConcatFacts
  <2>2. QED
    BY <1>1, <2>1 DEF SlotType
<1> HIDE DEF file
<1>4. slot' \in [0 .. MaxSlots -> SlotType]
  BY <1>1, <1>2, <1>3
<1>5. ASSUME NEW k \in 0 .. MaxSlots
      PROVE  /\ slot'[k].exists = slot[k].exists
             /\ slot'[k].records = IF k = 0 /\ handle = "path"
                                   THEN slot[0].records \o buffer ELSE slot[k].records
  BY <1>1, <1>2, <1>3
<1>6. QED
  BY <1>4, <1>5 DEF FlushBuffer

\* Opening the path: with append its records stay.
LEMMA Opened ==
    ASSUME StoredOK, MaxSlots \in Nat, OpenFile
    PROVE  /\ slot' \in [0 .. MaxSlots -> SlotType] /\ handle' = "path"
           /\ \A k \in 0 .. MaxSlots : k # 0 => slot'[k] = slot[k]
           /\ slot'[0].exists
           /\ slot'[0].records = IF options.append THEN slot[0].records ELSE <<>>
           /\ bytes' = Length(slot'[0].records) /\ bytes' \in Nat
           /\ lost' = IF options.append THEN lost ELSE lost \cup Ids(slot[0].records)
<1>1. slot \in [0 .. MaxSlots -> SlotType] /\ 0 \in 0 .. MaxSlots /\ slot[0].records \in Records
  BY SlotFacts DEF StoredOK
<1> DEFINE contents == IF options.append THEN slot[0].records ELSE <<>>
           file == File(contents)
<1>2. /\ handle' = "path" /\ slot' = [slot EXCEPT ![0] = file] /\ bytes' = Length(contents)
      /\ lost' = IF options.append THEN lost ELSE lost \cup Ids(slot[0].records)
  BY DEF OpenFile
<1>3. contents \in Records
  BY <1>1, EmptyFacts
<1> HIDE DEF contents
<1>4. file \in SlotType /\ file.exists /\ file.records = contents
  BY <1>3 DEF File, SlotType
<1> HIDE DEF file
<1>5. slot' \in [0 .. MaxSlots -> SlotType] /\ slot'[0] = file
      /\ \A k \in 0 .. MaxSlots : k # 0 => slot'[k] = slot[k]
  BY <1>1, <1>2, <1>4
<1>6. bytes' = Length(slot'[0].records) /\ bytes' \in Nat
  BY <1>2, <1>3, <1>4, <1>5, LengthFacts
<1>7. QED
  BY <1>2, <1>4, <1>5, <1>6 DEF contents

\* Removing a file, and giving a file the next name, if it exists.
LEMMA Removed ==
    ASSUME StoredOK, MaxSlots \in Nat, NEW k \in 0 .. MaxSlots, Remove(k)
    PROVE  /\ slot' \in [0 .. MaxSlots -> SlotType]
           /\ slot'[k].records = <<>> /\ \A l \in 0 .. MaxSlots : l # k => slot'[l] = slot[l]
<1>1. NoFile \in SlotType /\ NoFile.records = <<>>
  BY EmptyFacts DEF NoFile, SlotType
<1>2. QED
  BY <1>1 DEF Remove, StoredOK

LEMMA Renamed ==
    ASSUME StoredOK, MaxSlots \in Nat, NEW k \in 0 .. MaxSlots, k + 1 \in 0 .. MaxSlots,
           Rename(k, k + 1), slot[k].exists
    PROVE  /\ slot' \in [0 .. MaxSlots -> SlotType]
           /\ slot'[k].records = <<>> /\ slot'[k + 1] = slot[k]
           /\ \A l \in 0 .. MaxSlots : l # k /\ l # k + 1 => slot'[l] = slot[l]
           /\ lost' = lost \cup Ids(slot[k + 1].records)
<1>1. NoFile \in SlotType /\ NoFile.records = <<>>
  BY EmptyFacts DEF NoFile, SlotType
<1>2. slot' = [slot EXCEPT ![k + 1] = slot[k], ![k] = NoFile] /\ k # k + 1
      /\ lost' = lost \cup Ids(slot[k + 1].records)
  BY DEF Rename
<1>3. QED
  BY <1>1, <1>2 DEF StoredOK

\* The path is moved away, or created again.
LEMMA MovedAway ==
    ASSUME StoredOK, MaxSlots \in Nat, MoveAway
    PROVE  /\ slot' \in [0 .. MaxSlots -> SlotType] /\ slot'[0].records = <<>>
           /\ \A k \in 0 .. MaxSlots : k # 0 => slot'[k] = slot[k]
<1>1. NoFile \in SlotType /\ NoFile.records = <<>> /\ 0 \in 0 .. MaxSlots
  BY EmptyFacts DEF NoFile, SlotType
<1>2. QED
  BY <1>1 DEF MoveAway, StoredOK

LEMMA CreatedAgain ==
    ASSUME StoredOK, MaxSlots \in Nat, CreateAgain
    PROVE  /\ slot' \in [0 .. MaxSlots -> SlotType]
           /\ \A k \in 0 .. MaxSlots : slot'[k].records = slot[k].records
           /\ \A k \in 0 .. MaxSlots : k # 0 => slot'[k] = slot[k]
           /\ slot'[0].exists
<1>1. File(<<>>) \in SlotType /\ File(<<>>).records = <<>> /\ 0 \in 0 .. MaxSlots
      /\ File(<<>>).exists
  BY EmptyFacts DEF File, SlotType
<1>2. slot[0].records = <<>>
  BY <1>1 DEF CreateAgain, StoredOK, FilesOK
<1>3. QED
  BY <1>1, <1>2 DEF CreateAgain, StoredOK

LEMMA StoredStep ==
    ASSUME Types, Effect
    PROVE  StoredOK'
<1>0. StoredOK /\ PlaceOK /\ MaxSlots \in Nat /\ 0 \in 0 .. MaxSlots
  BY TypeParts, OptionFacts DEF Types
<1>1. /\ slot \in [0 .. MaxSlots -> SlotType] /\ handle \in {"none", "path", "away"}
      /\ buffer \in Records /\ (buffer # <<>> => handle # "none")
      /\ \A k \in 0 .. MaxSlots : ~slot[k].exists => slot[k].records = <<>>
      /\ handle = "away" => slot[0].records = <<>>
      /\ handle = "path" => slot[0].exists
  BY <1>0 DEF StoredOK, FilesOK
<1> USE DEF StoredOK, FilesOK
<1>2. CASE Untouched
  BY <1>1, <1>2 DEF Untouched
<1>3. CASE WritesOut
  <2>1. /\ slot' \in [0 .. MaxSlots -> SlotType] /\ buffer' = <<>>
        /\ \A k \in 0 .. MaxSlots :
              /\ slot'[k].exists = slot[k].exists
              /\ slot'[k].records = IF k = 0 /\ handle = "path"
                                    THEN slot[0].records \o buffer ELSE slot[k].records
    BY <1>0, <1>3, Flushed DEF WritesOut
  <2>2. handle' \in {handle, "none"}
    BY <1>3 DEF WritesOut
  <2>3. \A k \in 0 .. MaxSlots : ~slot'[k].exists => slot'[k].records = <<>>
    BY <1>0, <1>1, <2>1
  <2>4. QED
    BY <1>0, <1>1, <2>1, <2>2, <2>3, EmptyFacts
<1>4. CASE Opens
  <2>1. /\ slot' \in [0 .. MaxSlots -> SlotType] /\ handle' = "path" /\ slot'[0].exists
        /\ \A k \in 0 .. MaxSlots : k # 0 => slot'[k] = slot[k]
    BY <1>0, <1>4, Opened DEF Opens
  <2>2. buffer' = buffer
    BY <1>4 DEF Opens
  <2>3. QED
    BY <1>1, <2>1, <2>2
<1>5. CASE FailsToOpen
  BY <1>1, <1>5 DEF FailsToOpen
<1>6. ASSUME NEW k \in 0 .. MaxSlots, Removes(k) PROVE StoredOK'
  <2>1. UNCHANGED <<handle, buffer>> /\ handle = "none"
    BY <1>6 DEF Removes, sinkVars
  <2>2. CASE Stays(k)
    BY <1>1, <2>1, <2>2 DEF Stays
  <2>3. CASE Remove(k)
    <3>1. /\ slot' \in [0 .. MaxSlots -> SlotType]
          /\ slot'[k].records = <<>> /\ \A l \in 0 .. MaxSlots : l # k => slot'[l] = slot[l]
      BY <1>0, <2>3, Removed
    <3>2. QED
      BY <1>1, <2>1, <3>1
  <2>4. QED
    BY <1>6, <2>2, <2>3 DEF Removes
<1>7. ASSUME NEW k \in 0 .. MaxSlots, k + 1 \in 0 .. MaxSlots, Renames(k) PROVE StoredOK'
  <2>1. UNCHANGED <<handle, buffer>> /\ handle = "none"
    BY <1>7 DEF Renames, sinkVars
  <2>2. CASE slot' = slot
    BY <1>1, <2>1, <2>2
  <2>3. CASE Rename(k, k + 1) /\ slot[k].exists
    <3>1. /\ slot' \in [0 .. MaxSlots -> SlotType]
          /\ slot'[k].records = <<>> /\ slot'[k + 1] = slot[k]
          /\ \A l \in 0 .. MaxSlots : l # k /\ l # k + 1 => slot'[l] = slot[l]
      BY <1>0, <1>7, <2>3, Renamed
    <3>2. QED
      BY <1>1, <2>1, <2>3, <3>1
  <2>4. QED
    BY <1>7, <2>2, <2>3 DEF Renames, Rename, Stays
<1>8. CASE AppendRecord
  <2>1. pending \in Records /\ buffer \o pending \in Records
    BY <1>0, <1>1, PendingFacts, ConcatFacts
  <2>2. buffer' = buffer \o pending /\ UNCHANGED <<slot, handle>> /\ handle # "none"
    BY <1>8 DEF AppendRecord, fileVars
  <2>3. QED
    BY <1>1, <2>1, <2>2
<1>9. CASE Crash
  BY <1>1, <1>9, EmptyFacts DEF Crash, fileVars
<1>10. CASE MoveAway
  <2>1. /\ slot' \in [0 .. MaxSlots -> SlotType] /\ slot'[0].records = <<>>
        /\ \A k \in 0 .. MaxSlots : k # 0 => slot'[k] = slot[k]
    BY <1>0, <1>10, MovedAway
  <2>2. buffer' = buffer /\ handle' = IF handle = "path" THEN "away" ELSE handle
    BY <1>10 DEF MoveAway
  <2>3. QED
    BY <1>1, <2>1, <2>2
<1>11. CASE CreateAgain
  <2>1. /\ slot' \in [0 .. MaxSlots -> SlotType] /\ slot'[0].exists
        /\ \A k \in 0 .. MaxSlots : slot'[k].records = slot[k].records
        /\ \A k \in 0 .. MaxSlots : k # 0 => slot'[k] = slot[k]
    BY <1>0, <1>11, CreatedAgain
  <2>2. UNCHANGED <<handle, buffer>>
    BY <1>11 DEF CreateAgain, sinkVars
  <2>3. QED
    BY <1>0, <1>1, <2>1, <2>2
<1>12. QED
  BY <1>2, <1>3, <1>4, <1>5, <1>6, <1>7, <1>8, <1>9, <1>10, <1>11 DEF Effect

LEMMA PastStep ==
    ASSUME Types, Effect
    PROVE  PastOK'
<1>0. StoredOK /\ PlaceOK /\ PastOK /\ CountsOK /\ MaxSlots \in Nat /\ MaxRecords \in Nat
  BY TypeParts, OptionFacts, RotatingFileSinkAssumption DEF Types
<1>1. /\ \A k \in 0 .. MaxSlots : Ids(slot[k].records) \subseteq 1 .. MaxRecords
      /\ Ids(buffer) \subseteq 1 .. MaxRecords /\ Ids(pending) \subseteq 1 .. MaxRecords
      /\ Ids(buffer \o pending) \subseteq 1 .. MaxRecords
      /\ 0 \in 0 .. MaxSlots
      /\ issued < MaxRecords => issued + 1 \in 1 .. MaxRecords
  <2>1. buffer \in Records /\ pending \in Records /\ buffer \o pending \in Records
    BY <1>0, ConcatFacts DEF StoredOK, PlaceOK
  <2>2. \A k \in 0 .. MaxSlots : slot[k].records \in Records
    BY <1>0, SlotFacts
  <2>3. issued < MaxRecords => issued + 1 \in 1 .. MaxRecords
    BY <1>0 DEF CountsOK
  <2>4. QED
    BY <1>0, <2>1, <2>2, <2>3, MemberFacts
<1>2. /\ away \subseteq 1 .. MaxRecords /\ lost \subseteq 1 .. MaxRecords
      /\ crashed \subseteq 1 .. MaxRecords /\ givenUp \subseteq 1 .. MaxRecords
      /\ kept \subseteq 1 .. MaxRecords
  BY <1>0 DEF PastOK
<1>3. away' \subseteq 1 .. MaxRecords
  <2>1. away' \subseteq away \cup Ids(buffer) \cup Ids(slot[0].records)
    BY DEF Effect, Untouched, WritesOut, FlushBuffer, Opens, FailsToOpen, Removes, Renames,
           AppendRecord, Crash, MoveAway, CreateAgain, fileVars
  <2>2. QED
    BY <1>1, <1>2, <2>1
<1>4. lost' \subseteq 1 .. MaxRecords
  <2>1. \/ lost' = lost
        \/ \E k \in 0 .. MaxSlots : lost' = lost \cup Ids(slot[k].records)
    BY <1>1 DEF Effect, Untouched, WritesOut, Opens, OpenFile, FailsToOpen, Removes, Remove,
           Renames, Rename, Stays, AppendRecord, Crash, MoveAway, CreateAgain, pastVars
  <2>2. QED
    BY <1>1, <1>2, <2>1
<1>5. crashed' \subseteq 1 .. MaxRecords
  <2>1. \/ crashed' = crashed
        \/ crashed' = crashed \cup Ids(buffer \o pending)
    BY DEF Effect, Untouched, WritesOut, Opens, FailsToOpen, Removes,
           Renames, AppendRecord, Crash, MoveAway, CreateAgain, pastVars
  <2>2. QED
    BY <1>1, <1>2, <2>1
<1>6. givenUp' \subseteq 1 .. MaxRecords
  <2>1. \/ givenUp' = givenUp
        \/ issued < MaxRecords /\ givenUp' = givenUp \cup {issued + 1}
        \/ givenUp' = givenUp \cup Ids(pending)
    BY DEF Effect, Waits, Accepts, Rejects, GivesUp, AppendRecord, Crash, MoveAway,
           CreateAgain, pastVars
  <2>2. QED
    BY <1>1, <1>2, <2>1
<1>7. kept' \subseteq 1 .. MaxRecords
  <2>1. \/ kept' = kept
        \/ \E k \in 0 .. MaxSlots : kept' = kept \cup Ids(slot[k].records)
    BY DEF Effect, Untouched, WritesOut, Opens, FailsToOpen, Removes, Remove,
           Renames, Rename, Stays, AppendRecord, Crash, MoveAway, CreateAgain, pastVars
  <2>2. QED
    BY <1>1, <1>2, <2>1
<1>8. QED
  BY <1>3, <1>4, <1>5, <1>6, <1>7 DEF PastOK

LEMMA CountsStep ==
    ASSUME Types, [Next]_vars
    PROVE  CountsOK'
<1>0. CountsOK /\ PlaceOK /\ StoredOK /\ MaxSlots \in Nat /\ MaxRecords \in Nat /\ MaxRuns \in Nat
      /\ MaxDays \in Nat \ {0} /\ MaxMishaps \in Nat
  BY TypeParts, OptionFacts, RotatingFileSinkAssumption DEF Types
<1>1. /\ issued \in 0 .. MaxRecords /\ durable \in 0 .. issued /\ runs \in 0 .. MaxRuns
      /\ today \in 1 .. MaxDays /\ moves \in Nat /\ faults \in Nat /\ moves + faults <= MaxMishaps
      /\ bytes \in Nat /\ dateKey \in {-1} \cup 1 .. MaxDays /\ options \in Options
  BY <1>0 DEF CountsOK
<1>2. OpenFile => bytes' \in Nat
  BY <1>0, Opened
<1>3. pc = "append" \/ pc = "decide" => pending[1].size \in Nat /\ pending[1].day \in 1 .. MaxDays
  <2>1. pc = "append" \/ pc = "decide" => pending[1] \in RecordType
    BY <1>0, PendingFacts DEF PlaceOK
  <2>2. QED
    BY <2>1, RecordFacts
<1> USE DEF CountsOK, Goto, worldVars, pastVars, sinkVars
<1>4. CASE UNCHANGED vars
  BY <1>0, <1>1, <1>4 DEF vars
<1>5. CASE Start
  <2>1. /\ runs < MaxRuns /\ runs' = runs + 1 /\ (bytes' = bytes \/ OpenFile)
        /\ UNCHANGED <<options, dateKey, issued, durable, today, moves, faults>>
    BY <1>5 DEF Start, OpenFails
  <2>2. QED
    BY <1>0, <1>1, <1>2, <2>1
<1>6. CASE Stop
  BY <1>0, <1>1, <1>6 DEF Stop
<1>7. CASE Reopen
  BY <1>0, <1>1, <1>7 DEF Reopen
<1>8. CASE Flush
  BY <1>0, <1>1, <1>8 DEF Flush
<1>9. CASE ForceRotate
  BY <1>0, <1>1, <1>9 DEF ForceRotate
<1>10. ASSUME NEW size \in Sizes, BeginWrite(size) PROVE CountsOK'
  <2>1. /\ issued < MaxRecords /\ issued' = issued + 1 /\ (bytes' = bytes \/ OpenFile)
        /\ UNCHANGED <<options, dateKey, durable, today, runs, moves, faults>>
    BY <1>10 DEF BeginWrite, OpenFails
  <2>2. QED
    BY <1>0, <1>1, <1>2, <2>1
<1>11. CASE ReopenOpen
  BY <1>0, <1>1, <1>2, <1>11 DEF ReopenOpen, OpenFails
<1>12. CASE DetectExternalRotation
  BY <1>0, <1>1, <1>12 DEF DetectExternalRotation
<1>13. CASE DetectOpen
  BY <1>0, <1>1, <1>2, <1>13 DEF DetectOpen, OpenFails
<1>14. CASE Decide
  BY <1>0, <1>1, <1>3, <1>14 DEF Decide
<1>15. CASE AppendOpen
  BY <1>0, <1>1, <1>2, <1>15 DEF AppendOpen, OpenFails
<1>16. CASE AppendRecord
  BY <1>0, <1>1, <1>3, <1>16 DEF AppendRecord
<1>17. CASE AutoFlush
  BY <1>0, <1>1, <1>17 DEF AutoFlush
<1>18. CASE RotateClose
  BY <1>0, <1>1, <1>18 DEF RotateClose
<1>19. CASE RotateRemove
  <2>1. /\ faults' = faults \/ (moves + faults < MaxMishaps /\ faults' = faults + 1)
        /\ UNCHANGED <<options, bytes, dateKey, issued, durable, today, runs, moves>>
    BY <1>19 DEF RotateRemove, Remove, Rename, Stays
  <2>2. QED
    BY <1>0, <1>1, <2>1
<1>20. CASE RotateShift
  <2>1. /\ faults' = faults \/ (moves + faults < MaxMishaps /\ faults' = faults + 1)
        /\ UNCHANGED <<options, bytes, dateKey, issued, durable, today, runs, moves>>
    BY <1>20 DEF RotateShift, Remove, Rename, Stays
  <2>2. QED
    BY <1>0, <1>1, <2>1
<1>21. CASE RotateMove
  <2>1. /\ faults' = faults \/ (moves + faults < MaxMishaps /\ faults' = faults + 1)
        /\ UNCHANGED <<options, bytes, dateKey, issued, durable, today, runs, moves>>
    BY <1>21 DEF RotateMove, Remove, Rename, Stays
  <2>2. QED
    BY <1>0, <1>1, <2>1
<1>22. CASE RotateOpen
  BY <1>0, <1>1, <1>2, <1>22 DEF RotateOpen
<1>23. CASE StdioFlush
  BY <1>0, <1>1, <1>23 DEF StdioFlush
<1>24. CASE Crash
  BY <1>0, <1>1, <1>24 DEF Crash
<1>25. CASE MoveAway
  BY <1>0, <1>1, <1>25 DEF MoveAway
<1>26. CASE CreateAgain
  BY <1>0, <1>1, <1>26 DEF CreateAgain
<1>27. CASE Midnight
  BY <1>0, <1>1, <1>27 DEF Midnight
<1>28. QED
  BY <1>4, <1>5, <1>6, <1>7, <1>8, <1>9, <1>10, <1>11, <1>12, <1>13, <1>14, <1>15, <1>16, <1>17, <1>18, <1>19, <1>20, <1>21, <1>22, <1>23, <1>24, <1>25, <1>26, <1>27
     DEF Next, Call, Continue, World

\* A record that Write begins with.
LEMMA NewRecord ==
    ASSUME Types, NEW size \in Sizes, pc = "idle", issued < MaxRecords
    PROVE  [id |-> issued + 1, size |-> size, day |-> today, run |-> runs] \in RecordType
<1>1. MaxRecords \in Nat /\ issued \in 0 .. MaxRecords /\ today \in 1 .. MaxDays
      /\ runs \in 0 .. MaxRuns /\ runs >= 1 /\ MaxRuns \in Nat
  BY TypeParts, RotatingFileSinkAssumption DEF Types, CountsOK, Control
<1>2. issued + 1 \in 1 .. MaxRecords /\ runs \in 1 .. MaxRuns
  BY <1>1
<1>3. QED
  BY <1>1, <1>2 DEF RecordType

LEMMA PlaceStep ==
    ASSUME Types, [Next]_vars
    PROVE  PlaceOK'
<1>0. CountsOK /\ PlaceOK /\ StoredOK /\ MaxSlots \in Nat /\ options.maxFiles \in 0 .. MaxSlots
      /\ pending \in Records /\ Len(<<>>) = 0 /\ <<>> \in Records /\ Len(pending) <= 1
  BY TypeParts, OptionFacts, EmptyFacts DEF Types, PlaceOK
<1>1. /\ pc \in Locations /\ index \in 0 .. MaxSlots
      /\ pc \in {"detect", "detect_open", "decide", "append"} => pending # <<>>
      /\ Control /\ runs \in Nat
  BY <1>0 DEF PlaceOK, CountsOK
<1>2. OpenFile => handle' = "path"
  BY DEF OpenFile
<1>3. \A n \in 0 .. MaxSlots : n - 1 \in Int
  BY <1>0
<1> USE DEF Goto, worldVars, pastVars, sinkVars, callVars
<1> USE DEF PlaceOK, Control, ClosedAt, Locations
<1>4. CASE UNCHANGED vars
  BY <1>0, <1>1, <1>4 DEF vars
<1>5. CASE Start
  BY <1>0, <1>1, <1>2, <1>5 DEF Start, OpenFails
<1>6. CASE Stop
  BY <1>0, <1>1, <1>6 DEF Stop, CloseFile
<1>7. CASE Reopen
  BY <1>0, <1>1, <1>7 DEF Reopen, CloseFile
<1>8. CASE Flush
  BY <1>0, <1>1, <1>8 DEF Flush
<1>9. CASE ForceRotate
  BY <1>0, <1>1, <1>9 DEF ForceRotate
<1>10. ASSUME NEW size \in Sizes, BeginWrite(size) PROVE PlaceOK'
  <2> DEFINE record == [id |-> issued + 1, size |-> size, day |-> today, run |-> runs]
  <2>1. pc = "idle" /\ record \in RecordType /\ UNCHANGED <<options, index, runs>>
    BY <1>10, NewRecord DEF BeginWrite
  <2>2. \/ pc' = "detect" /\ pending' = <<record>> /\ handle' # "none"
        \/ UNCHANGED <<pc, pending>> /\ handle' = "none"
    BY <1>2, <1>10 DEF BeginWrite, OpenFails
  <2> HIDE DEF record
  <2>3. <<record>> \in Records /\ Len(<<record>>) = 1 /\ <<record>> # <<>>
    BY <2>1 DEF Records
  <2>4. CASE pc' = "detect" /\ pending' = <<record>> /\ handle' # "none"
    BY <1>0, <1>1, <2>1, <2>3, <2>4
  <2>5. CASE UNCHANGED <<pc, pending>> /\ handle' = "none"
    BY <1>0, <1>1, <2>1, <2>5
  <2>6. QED
    BY <2>2, <2>4, <2>5
<1>11. CASE ReopenOpen
  BY <1>0, <1>1, <1>2, <1>11 DEF ReopenOpen, OpenFails
<1>12. CASE DetectExternalRotation
  BY <1>0, <1>1, <1>12 DEF DetectExternalRotation, CloseFile
<1>13. CASE DetectOpen
  BY <1>0, <1>1, <1>2, <1>13 DEF DetectOpen, OpenFails
<1>14. CASE Decide
  BY <1>0, <1>1, <1>14 DEF Decide
<1>15. CASE AppendOpen
  BY <1>0, <1>1, <1>2, <1>15 DEF AppendOpen, OpenFails
<1>16. CASE AppendRecord
  BY <1>0, <1>1, <1>16 DEF AppendRecord
<1>17. CASE AutoFlush
  BY <1>0, <1>1, <1>17 DEF AutoFlush
<1>18. CASE RotateClose
  BY <1>0, <1>1, <1>18 DEF RotateClose, CloseFile
<1>19. CASE RotateRemove
  BY <1>0, <1>1, <1>19 DEF RotateRemove
<1>20. CASE RotateShift
  BY <1>0, <1>1, <1>20 DEF RotateShift, AfterShift
<1>21. CASE RotateMove
  BY <1>0, <1>1, <1>21 DEF RotateMove
<1>22. CASE RotateOpen
  BY <1>0, <1>1, <1>2, <1>22 DEF RotateOpen, AfterRotation
<1>23. CASE StdioFlush
  BY <1>0, <1>1, <1>23 DEF StdioFlush
<1>24. CASE Crash
  BY <1>0, <1>1, <1>24 DEF Crash
<1>25. CASE MoveAway
  BY <1>0, <1>1, <1>25 DEF MoveAway
<1>26. CASE CreateAgain
  BY <1>0, <1>1, <1>26 DEF CreateAgain
<1>27. CASE Midnight
  BY <1>0, <1>1, <1>27 DEF Midnight
<1>28. QED
  BY <1>4, <1>5, <1>6, <1>7, <1>8, <1>9, <1>10, <1>11, <1>12, <1>13, <1>14, <1>15, <1>16, <1>17, <1>18, <1>19, <1>20, <1>21, <1>22, <1>23, <1>24, <1>25, <1>26, <1>27
     DEF Next, Call, Continue, World

LEMMA TypesStep == Types /\ [Next]_vars => Types'
BY StepEffect, StoredStep, PastStep, CountsStep, PlaceStep, TypeParts

LEMMA TypesInit == Init => Types
<1>1. SUFFICES ASSUME Init PROVE Types
  OBVIOUS
<1>2. /\ Configurations \subseteq Options /\ MaxSlots \in Nat /\ MaxRecords \in Nat /\ MaxRuns \in Nat
      /\ MaxDays \in Nat \ {0} /\ MaxMishaps \in Nat
  BY RotatingFileSinkAssumption
<1>3. NoFile \in SlotType /\ NoFile.records = <<>> /\ Len(<<>>) = 0 /\ <<>> \in Records
  BY EmptyFacts DEF NoFile, SlotType
<1>4. StoredOK
  BY <1>1, <1>2, <1>3 DEF Init, StoredOK, FilesOK
<1>5. CountsOK
  BY <1>1, <1>2 DEF Init, CountsOK
<1>6. PlaceOK
  BY <1>1, <1>2, <1>3 DEF Init, PlaceOK, Control, ClosedAt, Locations
<1>7. PastOK
  BY <1>1 DEF Init, PastOK
<1>8. QED
  BY <1>4, <1>5, <1>6, <1>7, TypeParts

\* Every variable has its type; Write holds a record exactly while it has one to append,
\* and only an open file has a buffer.
THEOREM TypeCorrect == Spec => []TypeOK
<1>1. Types => TypeOK
  BY DEF Types
<1>2. QED
  BY <1>1, TypesInit, TypesStep, PTL DEF Spec

LEMMA TypesInvariant == Spec => []Types
BY TypesInit, TypesStep, PTL DEF Spec

-----------------------------------------------------------------------------
(* What becomes of a record.                                               *)

\* The records that are, or have been, in a file or a buffer.
Written == OnDisk \cup Ids(buffer) \cup away \cup lost \cup crashed

LEMMA OnDiskFacts ==
    /\ \A x : x \in OnDisk <=> \E k \in 0 .. MaxSlots : x \in Ids(slot[k].records)
    /\ \A x : x \in OnDisk' <=> \E k \in 0 .. MaxSlots : x \in Ids(slot'[k].records)
BY DEF OnDisk

\* No handling of the files makes a record vanish.
LEMMA FilesConserved ==
    ASSUME Types,
           \/ Untouched \/ WritesOut \/ Opens \/ FailsToOpen \/ MoveAway \/ CreateAgain
           \/ \E k \in 0 .. MaxSlots : Removes(k)
           \/ \E k \in 0 .. MaxSlots : k + 1 \in 0 .. MaxSlots /\ Renames(k)
    PROVE  Written' = Written
<1>0. StoredOK /\ MaxSlots \in Nat /\ 0 \in 0 .. MaxSlots /\ buffer \in Records
      /\ (handle = "none" => buffer = <<>>) /\ handle \in {"none", "path", "away"}
  BY TypeParts, OptionFacts DEF Types, StoredOK
<1>1. CASE Untouched
  BY <1>1 DEF Untouched, Written, OnDisk
<1>2. CASE WritesOut
  <2>1. /\ buffer' = <<>> /\ Ids(buffer') = {}
        /\ away' = IF handle = "away" THEN away \cup Ids(buffer) ELSE away
        /\ \A k \in 0 .. MaxSlots :
              slot'[k].records = IF k = 0 /\ handle = "path"
                                 THEN slot[0].records \o buffer ELSE slot[k].records
        /\ UNCHANGED <<lost, crashed>>
    BY <1>0, <1>2, Flushed, EmptyFacts DEF WritesOut
  <2>2. Ids(slot[0].records \o buffer) = Ids(slot[0].records) \cup Ids(buffer)
    BY <1>0, SlotFacts, ConcatFacts
  <2>3. CASE handle = "path"
    <3>1. \A x : x \in OnDisk' <=> x \in OnDisk \/ x \in Ids(buffer)
      <4>1. \A k \in 0 .. MaxSlots : Ids(slot'[k].records) =
                IF k = 0 THEN Ids(slot[0].records) \cup Ids(buffer) ELSE Ids(slot[k].records)
        BY <2>1, <2>2, <2>3
      <4>2. QED
        BY <1>0, <4>1, OnDiskFacts
    <3>2. QED
      BY <2>1, <2>3, <3>1 DEF Written
  <2>4. CASE handle # "path"
    <3>1. \A k \in 0 .. MaxSlots : slot'[k].records = slot[k].records
      BY <2>1, <2>4
    <3>2. OnDisk' = OnDisk
      BY <3>1, OnDiskFacts
    <3>3. handle = "none" => Ids(buffer) = {}
      BY <1>0, EmptyFacts
    <3>4. QED
      BY <1>0, <2>1, <2>4, <3>2, <3>3 DEF Written
  <2>5. QED
    BY <2>3, <2>4
<1>3. CASE Opens
  <2>1. /\ slot'[0].records = IF options.append THEN slot[0].records ELSE <<>>
        /\ lost' = IF options.append THEN lost ELSE lost \cup Ids(slot[0].records)
        /\ \A k \in 0 .. MaxSlots : k # 0 => slot'[k] = slot[k]
        /\ UNCHANGED <<away, buffer, crashed>>
    BY <1>0, <1>3, Opened DEF Opens
  <2>2. CASE options.append
    <3>1. \A k \in 0 .. MaxSlots : slot'[k].records = slot[k].records
      BY <2>1, <2>2
    <3>2. QED
      BY <2>1, <2>2, <3>1, OnDiskFacts DEF Written
  <2>3. CASE ~options.append
    <3>1. \A x : x \in OnDisk' \/ x \in Ids(slot[0].records) <=> x \in OnDisk
      <4>1. Ids(slot'[0].records) = {}
        BY <2>1, <2>3, EmptyFacts
      <4>2. QED
        BY <1>0, <2>1, <4>1, OnDiskFacts
    <3>2. QED
      BY <2>1, <2>3, <3>1 DEF Written
  <2>4. QED
    BY <2>2, <2>3
<1>4. CASE FailsToOpen
  BY <1>4 DEF FailsToOpen, Written, OnDisk
<1>5. CASE MoveAway
  <2>1. /\ slot'[0].records = <<>> /\ \A k \in 0 .. MaxSlots : k # 0 => slot'[k] = slot[k]
        /\ away' = away \cup Ids(slot[0].records) /\ UNCHANGED <<buffer, lost, crashed>>
    BY <1>0, <1>5, MovedAway DEF MoveAway, pastVars
  <2>2. \A x : x \in OnDisk' \/ x \in Ids(slot[0].records) <=> x \in OnDisk
    <3>1. Ids(slot'[0].records) = {}
      BY <2>1, EmptyFacts
    <3>2. QED
      BY <1>0, <2>1, <3>1, OnDiskFacts
  <2>3. QED
    BY <2>1, <2>2 DEF Written
<1>6. CASE CreateAgain
  <2>1. /\ \A k \in 0 .. MaxSlots : slot'[k].records = slot[k].records
        /\ UNCHANGED <<away, buffer, lost, crashed>>
    BY <1>0, <1>6, CreatedAgain DEF CreateAgain, sinkVars, pastVars
  <2>2. QED
    BY <2>1, OnDiskFacts DEF Written
<1>7. ASSUME NEW k \in 0 .. MaxSlots, Removes(k) PROVE Written' = Written
  <2>1. UNCHANGED <<away, buffer, crashed>>
    BY <1>7 DEF Removes, sinkVars
  <2>2. CASE Stays(k)
    BY <2>1, <2>2 DEF Stays, Written, OnDisk
  <2>3. CASE Remove(k)
    <3>1. /\ slot'[k].records = <<>> /\ \A l \in 0 .. MaxSlots : l # k => slot'[l] = slot[l]
          /\ lost' = lost \cup Ids(slot[k].records)
      BY <1>0, <2>3, Removed DEF Remove
    <3>2. \A x : x \in OnDisk' \/ x \in Ids(slot[k].records) <=> x \in OnDisk
      <4>1. Ids(slot'[k].records) = {}
        BY <3>1, EmptyFacts
      <4>2. QED
        BY <3>1, <4>1, OnDiskFacts
    <3>3. QED
      BY <2>1, <3>1, <3>2 DEF Written
  <2>4. QED
    BY <1>7, <2>2, <2>3 DEF Removes
<1>8. ASSUME NEW k \in 0 .. MaxSlots, k + 1 \in 0 .. MaxSlots, Renames(k)
      PROVE  Written' = Written
  <2>1. UNCHANGED <<away, buffer, crashed>>
    BY <1>8 DEF Renames, sinkVars
  <2>2. CASE slot' = slot /\ lost' = lost
    BY <2>1, <2>2 DEF Written, OnDisk
  <2>3. CASE Rename(k, k + 1) /\ slot[k].exists
    <3>1. /\ slot'[k].records = <<>> /\ slot'[k + 1] = slot[k] /\ k # k + 1
          /\ \A l \in 0 .. MaxSlots : l # k /\ l # k + 1 => slot'[l] = slot[l]
          /\ lost' = lost \cup Ids(slot[k + 1].records)
      BY <1>0, <1>8, <2>3, Renamed
    <3>2. \A x : x \in OnDisk' \/ x \in Ids(slot[k + 1].records) <=> x \in OnDisk
      <4>1. Ids(slot'[k].records) = {}
        BY <3>1, EmptyFacts
      <4>2. QED
        BY <1>8, <3>1, <4>1, OnDiskFacts
    <3>3. QED
      BY <2>1, <3>1, <3>2 DEF Written
  <2>4. QED
    BY <1>8, <2>2, <2>3 DEF Renames, Rename, Stays
<1>9. QED
  BY <1>1, <1>2, <1>3, <1>4, <1>5, <1>6, <1>7, <1>8

LEMMA AccountedStep ==
    ASSUME Types, Types', RecordsAccounted, Effect
    PROVE  RecordsAccounted'
<1>0. PlaceOK /\ StoredOK /\ buffer \in Records /\ pending \in Records /\ issued \in Nat
  BY TypeParts, RotatingFileSinkAssumption DEF Types, PlaceOK, StoredOK, CountsOK
<1>1. 1 .. issued = Written \cup Ids(pending) \cup givenUp
  BY DEF RecordsAccounted, Written
<1>2. SUFFICES 1 .. issued' = Written' \cup Ids(pending') \cup givenUp'
  BY DEF RecordsAccounted, Written
<1>3. 1 .. (issued + 1) = (1 .. issued) \cup {issued + 1}
  BY <1>0
<1>4. pc = "idle" => Ids(pending) = {}
  BY <1>0, EmptyFacts DEF PlaceOK, Control
<1>5. Accepts => Ids(pending') = {issued + 1}
  <2>1. SUFFICES ASSUME Accepts PROVE Ids(pending') = {issued + 1}
    OBVIOUS
  <2>2. PICK size \in Sizes :
            pending' = <<[id |-> issued + 1, size |-> size, day |-> today, run |-> runs]>>
    BY <2>1 DEF Accepts
  <2> DEFINE record == [id |-> issued + 1, size |-> size, day |-> today, run |-> runs]
  <2>3. record.id = issued + 1
    OBVIOUS
  <2> HIDE DEF record
  <2>4. Members(<<record>>) = {record}
    BY DEF Members
  <2>5. QED
    BY <2>2, <2>3, <2>4 DEF Ids, record
<1>6. CASE Written' = Written /\ (Waits \/ Accepts \/ Rejects \/ GivesUp)
  <2>1. CASE Waits
    BY <1>1, <1>6, <2>1 DEF Waits
  <2>2. CASE Accepts
    <3>1. issued' = issued + 1 /\ givenUp' = givenUp /\ Ids(pending) = {}
      BY <1>4, <2>2 DEF Accepts
    <3>2. QED
      BY <1>1, <1>3, <1>5, <1>6, <2>2, <3>1
  <2>3. CASE Rejects
    <3>1. issued' = issued + 1 /\ givenUp' = givenUp \cup {issued + 1} /\ pending' = pending
      BY <2>3 DEF Rejects
    <3>2. QED
      BY <1>1, <1>3, <1>6, <3>1
  <2>4. CASE GivesUp
    <3>1. issued' = issued /\ givenUp' = givenUp \cup Ids(pending) /\ Ids(pending') = {}
      BY <2>4, EmptyFacts DEF GivesUp
    <3>2. QED
      BY <1>1, <1>6, <3>1
  <2>5. QED
    BY <1>6, <2>1, <2>2, <2>3, <2>4
<1>7. CASE AppendRecord
  <2>1. /\ buffer' = buffer \o pending /\ pending' = <<>>
        /\ UNCHANGED <<slot, away, lost, crashed, givenUp, issued>>
    BY <1>7 DEF AppendRecord, Goto, fileVars, pastVars
  <2>2. Ids(buffer') = Ids(buffer) \cup Ids(pending) /\ Ids(pending') = {}
    BY <1>0, <2>1, ConcatFacts, EmptyFacts
  <2>3. Written' = Written \cup Ids(pending)
    BY <2>1, <2>2 DEF Written, OnDisk
  <2>4. QED
    BY <1>1, <2>1, <2>2, <2>3
<1>8. CASE Crash
  <2>1. /\ buffer' = <<>> /\ pending' = <<>> /\ crashed' = crashed \cup Ids(buffer \o pending)
        /\ UNCHANGED <<slot, away, lost, givenUp, issued>>
    BY <1>8 DEF Crash, fileVars
  <2>2. Ids(buffer \o pending) = Ids(buffer) \cup Ids(pending) /\ Ids(<<>>) = {}
    BY <1>0, ConcatFacts, EmptyFacts
  <2>3. Written' = Written \cup Ids(pending)
    BY <2>1, <2>2 DEF Written, OnDisk
  <2>4. QED
    BY <1>1, <2>1, <2>2, <2>3
<1>9. CASE MoveAway \/ CreateAgain
  <2>1. Waits
    BY <1>9 DEF MoveAway, CreateAgain, Waits, callVars, pastVars
  <2>2. QED
    BY <1>6, <1>9, <2>1, FilesConserved
<1>10. QED
  BY <1>6, <1>7, <1>8, <1>9, FilesConserved DEF Effect

\* A record that Write was given is in a file or a buffer, about to be written, in a file
\* that was moved away or deleted, was lost in a crash, or was given up since the path
\* could not be opened.
THEOREM EveryRecordAccounted == Spec => []RecordsAccounted
<1>1. Init => RecordsAccounted
  <2>1. SUFFICES ASSUME Init PROVE RecordsAccounted
    OBVIOUS
  <2>2. OnDisk = {}
    BY <2>1, EmptyFacts DEF Init, OnDisk, NoFile
  <2>3. Ids(buffer) = {} /\ Ids(pending) = {} /\ 1 .. issued = {}
    BY <2>1, EmptyFacts DEF Init
  <2>4. QED
    BY <2>1, <2>2, <2>3 DEF Init, RecordsAccounted
<1>2. Types /\ Types' /\ RecordsAccounted /\ [Next]_vars => RecordsAccounted'
  BY StepEffect, AccountedStep
<1>3. QED
  BY <1>1, <1>2, TypesInvariant, PTL DEF Spec

-----------------------------------------------------------------------------
(* The order of the files.                                                 *)

\* Files that are the same or have become empty, with a buffer that is the same or empty,
\* stay in order; the record of Write is the same, gone, or the newest of all.
LEMMA OrderKept ==
    ASSUME Types, OrderInv,
           \A k \in 0 .. MaxSlots : slot'[k].records \in {slot[k].records, <<>>},
           buffer' \in {buffer, <<>>},
           \/ issued' = issued /\ pending' \in {pending, <<>>}
           \/ issued' = issued + 1 /\ pending' \in {pending, <<>>}
           \/ issued' = issued + 1 /\ \E r : r.id = issued + 1 /\ Members(pending') = {r}
    PROVE  OrderInv'
<1>0. /\ issued \in Nat
      /\ \A k \in 0 .. MaxSlots : \A r \in Members(slot[k].records) : r.id \in Nat
      /\ \A r \in Members(buffer) \cup Members(pending) : r.id \in Nat
  <2>1. /\ buffer \in Records /\ pending \in Records /\ issued \in 0 .. MaxRecords
        /\ \A k \in 0 .. MaxSlots : slot[k].records \in Records
    BY TypeParts, OptionFacts, SlotFacts DEF Types, StoredOK, PlaceOK, CountsOK
  <2>2. QED
    BY <2>1, MemberFacts, RecordFacts
<1>1. /\ \A k \in 0 .. MaxSlots : Members(slot'[k].records) \subseteq Members(slot[k].records)
      /\ Members(buffer') \subseteq Members(buffer)
  BY EmptyFacts
<1>2. FilesInOrder'
  <2>1. \A k \in 0 .. MaxSlots : Ascending(slot'[k].records) /\ Before(slot'[k].records, buffer')
    BY <1>1, EmptyFacts DEF OrderInv, FilesInOrder, Before
  <2>2. \A k, l \in 0 .. MaxSlots : k < l => Before(slot'[l].records, slot'[k].records)
    BY <1>1 DEF OrderInv, FilesInOrder, Before
  <2>3. Ascending(buffer')
    BY EmptyFacts DEF OrderInv, FilesInOrder
  <2>4. QED
    BY <2>1, <2>2, <2>3 DEF FilesInOrder
<1>3. issued' \in Nat /\ issued <= issued'
  BY <1>0
<1>4. /\ \A k \in 0 .. MaxSlots : \A r \in Members(slot'[k].records) : r.id <= issued'
      /\ \A r \in Members(buffer') : r.id <= issued'
  <2>1. ASSUME NEW k \in 0 .. MaxSlots, NEW r \in Members(slot'[k].records)
        PROVE  r.id <= issued'
    <3>1. r \in Members(slot[k].records)
      BY <1>1
    <3>2. r.id \in Nat /\ r.id <= issued
      BY <1>0, <3>1 DEF OrderInv
    <3>3. QED
      BY <1>0, <1>3, <3>2
  <2>2. ASSUME NEW r \in Members(buffer') PROVE r.id <= issued'
    <3>1. r.id \in Nat /\ r.id <= issued
      BY <1>0, <1>1 DEF OrderInv
    <3>2. QED
      BY <1>0, <1>3, <3>1
  <2>3. QED
    BY <2>1, <2>2
<1>5. CASE pending' \in {pending, <<>>}
  <2>1. Members(pending') \subseteq Members(pending)
    BY <1>5, EmptyFacts
  <2>2. \A r \in Members(pending') : r.id <= issued'
    BY <1>0, <1>3, <2>1 DEF OrderInv
  <2>3. /\ \A k \in 0 .. MaxSlots : Before(slot'[k].records, pending')
        /\ Before(buffer', pending')
    BY <1>1, <2>1 DEF OrderInv, Before
  <2>4. QED
    BY <1>2, <1>4, <2>2, <2>3 DEF OrderInv
<1>6. CASE issued' = issued + 1 /\ \E r : r.id = issued + 1 /\ Members(pending') = {r}
  <2>1. PICK r : r.id = issued + 1 /\ Members(pending') = {r}
    BY <1>6
  <2>2. \A q \in Members(pending') : q.id = issued + 1 /\ q.id <= issued'
    BY <1>0, <1>6, <2>1
  <2>3. /\ \A k \in 0 .. MaxSlots : Before(slot'[k].records, pending')
        /\ Before(buffer', pending')
    BY <1>0, <1>1, <2>2, SMTT(30) DEF OrderInv, Before
  <2>4. QED
    BY <1>2, <1>4, <2>2, <2>3 DEF OrderInv
<1>7. QED
  BY <1>5, <1>6

LEMMA OrderStep ==
    ASSUME Types, OrderInv, Effect
    PROVE  OrderInv'
<1>0. /\ StoredOK /\ PlaceOK /\ MaxSlots \in Nat /\ 0 \in 0 .. MaxSlots
      /\ buffer \in Records /\ pending \in Records
      /\ \A k \in 0 .. MaxSlots : slot[k].records \in Records
  BY TypeParts, OptionFacts, SlotFacts DEF Types, StoredOK, PlaceOK
<1>1. ASSUME Waits \/ Accepts \/ Rejects \/ GivesUp
      PROVE  \/ issued' = issued /\ pending' \in {pending, <<>>}
             \/ issued' = issued + 1 /\ pending' \in {pending, <<>>}
             \/ issued' = issued + 1 /\ \E r : r.id = issued + 1 /\ Members(pending') = {r}
  <2>1. ASSUME Accepts
        PROVE  issued' = issued + 1 /\ \E r : r.id = issued + 1 /\ Members(pending') = {r}
    <3>1. PICK size \in Sizes :
              pending' = <<[id |-> issued + 1, size |-> size, day |-> today, run |-> runs]>>
      BY <2>1 DEF Accepts
    <3> DEFINE record == [id |-> issued + 1, size |-> size, day |-> today, run |-> runs]
    <3>2. record.id = issued + 1
      OBVIOUS
    <3> HIDE DEF record
    <3>3. Members(<<record>>) = {record}
      BY DEF Members
    <3>4. Members(pending') = {record}
      BY <3>1, <3>3 DEF record
    <3>5. QED
      BY <2>1, <3>2, <3>4 DEF Accepts
  <2>2. QED
    BY <1>1, <2>1 DEF Waits, Rejects, GivesUp
<1>2. CASE Untouched /\ (Waits \/ Accepts)
  BY <1>1, <1>2, OrderKept DEF Untouched
<1>3. CASE WritesOut /\ Waits
  <2>1. /\ buffer' = <<>>
        /\ \A k \in 0 .. MaxSlots :
              slot'[k].records = IF k = 0 /\ handle = "path"
                                 THEN slot[0].records \o buffer ELSE slot[k].records
    BY <1>0, <1>3, Flushed DEF WritesOut
  <2>2. CASE handle # "path"
    BY <1>1, <1>3, <2>1, <2>2, OrderKept
  <2>3. CASE handle = "path"
    <3> DEFINE file == slot[0].records \o buffer
    <3>1. /\ slot'[0].records = file
          /\ \A k \in 0 .. MaxSlots : k # 0 => slot'[k].records = slot[k].records
      BY <1>0, <2>1, <2>3
    <3>2. Members(file) = Members(slot[0].records) \cup Members(buffer)
      BY <1>0, ConcatFacts
    <3>3. Ascending(file)
      BY <1>0, AscendingConcat DEF OrderInv, FilesInOrder
    <3> HIDE DEF file
    <3>4. \A k \in 0 .. MaxSlots : k # 0 => 0 < k /\ ~(k < 0)
      BY <1>0
    <3>5. ASSUME NEW k \in 0 .. MaxSlots, NEW l \in 0 .. MaxSlots, k < l
          PROVE  Before(slot'[l].records, slot'[k].records)
      <4>1. l # 0
        BY <1>0, <3>5
      <4>2. CASE k = 0
        BY <1>0, <3>1, <3>2, <3>5, <4>1, <4>2 DEF OrderInv, FilesInOrder, Before
      <4>3. CASE k # 0
        BY <3>1, <3>5, <4>1, <4>3 DEF OrderInv, FilesInOrder
      <4>4. QED
        BY <4>2, <4>3
    <3>6. FilesInOrder'
      <4>1. \A k \in 0 .. MaxSlots : Ascending(slot'[k].records) /\ Before(slot'[k].records, buffer')
        BY <2>1, <3>1, <3>3, EmptyFacts DEF OrderInv, FilesInOrder
      <4>2. QED
        BY <2>1, <3>5, <4>1, EmptyFacts DEF FilesInOrder
    <3>7. UNCHANGED <<pending, issued>>
      BY <1>3 DEF Waits
    <3>8. \A k \in 0 .. MaxSlots : Before(slot'[k].records, pending')
      BY <3>1, <3>2, <3>7 DEF OrderInv, Before
    <3>9. \A k \in 0 .. MaxSlots : \A r \in Members(slot'[k].records) : r.id <= issued'
      BY <1>0, <3>1, <3>2, <3>7 DEF OrderInv
    <3>10. \A r \in Members(buffer') \cup Members(pending') : r.id <= issued'
      BY <2>1, <3>7, EmptyFacts DEF OrderInv
    <3>11. QED
      BY <2>1, <3>6, <3>8, <3>9, <3>10, EmptyFacts DEF OrderInv
  <2>4. QED
    BY <2>2, <2>3
<1>4. CASE Opens /\ (Waits \/ Accepts)
  <2>1. /\ \A k \in 0 .. MaxSlots : slot'[k].records \in {slot[k].records, <<>>}
        /\ buffer' = buffer
    BY <1>0, <1>4, Opened DEF Opens
  <2>2. QED
    BY <1>1, <1>4, <2>1, OrderKept
<1>5. CASE FailsToOpen /\ (Waits \/ Rejects \/ GivesUp)
  BY <1>1, <1>5, OrderKept DEF FailsToOpen
<1>6. ASSUME NEW k \in 0 .. MaxSlots, Removes(k), Waits PROVE OrderInv'
  <2>1. \A l \in 0 .. MaxSlots : slot'[l].records \in {slot[l].records, <<>>}
    BY <1>0, <1>6, Removed DEF Removes, Stays
  <2>2. buffer' = buffer
    BY <1>6 DEF Removes, sinkVars
  <2>3. QED
    BY <1>1, <1>6, <2>1, <2>2, OrderKept
<1>7. ASSUME NEW k \in 0 .. MaxSlots, k + 1 \in 0 .. MaxSlots, Renames(k), Waits
      PROVE  OrderInv'
  <2>1. UNCHANGED <<buffer, pending, issued>>
    BY <1>7 DEF Renames, sinkVars, Waits
  <2>2. CASE slot' = slot
    BY <1>1, <1>7, <2>1, <2>2, OrderKept
  <2>3. CASE Rename(k, k + 1) /\ slot[k].exists
    <3>1. /\ slot'[k].records = <<>> /\ slot'[k + 1] = slot[k] /\ k # k + 1
          /\ \A l \in 0 .. MaxSlots : l # k /\ l # k + 1 => slot'[l] = slot[l]
      BY <1>0, <1>7, <2>3, Renamed
    <3>2. ASSUME NEW i \in 0 .. MaxSlots, NEW j \in 0 .. MaxSlots, i < j
          PROVE  Before(slot'[j].records, slot'[i].records)
      <4>1. CASE i = k \/ j = k
        BY <3>1, <4>1, EmptyFacts
      <4>2. CASE i # k /\ j = k + 1
        <5>1. i < k /\ slot'[i] = slot[i] /\ slot'[j] = slot[k]
          BY <1>0, <3>1, <3>2, <4>2
        <5>2. QED
          BY <5>1 DEF OrderInv, FilesInOrder
      <4>3. CASE i = k + 1 /\ j # k
        <5>1. k < j /\ j # k + 1 /\ slot'[j] = slot[j] /\ slot'[i] = slot[k]
          BY <1>0, <3>1, <3>2, <4>3
        <5>2. QED
          BY <5>1 DEF OrderInv, FilesInOrder
      <4>4. CASE i \notin {k, k + 1} /\ j \notin {k, k + 1}
        BY <3>1, <3>2, <4>4 DEF OrderInv, FilesInOrder
      <4>5. QED
        BY <4>1, <4>2, <4>3, <4>4
    <3>3. \A l \in 0 .. MaxSlots : \/ slot'[l].records = <<>>
                                   \/ slot'[l].records = slot[l].records
                                   \/ slot'[l].records = slot[k].records
      BY <3>1
    <3>4. FilesInOrder'
      <4>1. \A l \in 0 .. MaxSlots : Ascending(slot'[l].records) /\ Before(slot'[l].records, buffer')
        BY <2>1, <3>3, EmptyFacts DEF OrderInv, FilesInOrder
      <4>2. QED
        BY <2>1, <3>2, <4>1 DEF FilesInOrder, OrderInv
    <3>5. /\ \A l \in 0 .. MaxSlots : Before(slot'[l].records, pending')
          /\ \A l \in 0 .. MaxSlots : \A r \in Members(slot'[l].records) : r.id <= issued'
      BY <2>1, <3>3, EmptyFacts DEF OrderInv
    <3>6. QED
      BY <2>1, <3>4, <3>5 DEF OrderInv
  <2>4. QED
    BY <1>7, <2>2, <2>3 DEF Renames, Rename, Stays
<1>8. CASE AppendRecord
  <2>1. /\ buffer' = buffer \o pending /\ pending' = <<>> /\ UNCHANGED <<slot, issued>>
    BY <1>8 DEF AppendRecord, Goto, fileVars
  <2>2. Members(buffer') = Members(buffer) \cup Members(pending) /\ Members(pending') = {}
    BY <1>0, <2>1, ConcatFacts, EmptyFacts
  <2>3. Ascending(buffer')
    <3>1. Ascending(pending)
      <4>1. Len(pending) \in Nat /\ Len(pending) <= 1
        BY <1>0, MemberFacts DEF PlaceOK
      <4>2. QED
        BY <4>1 DEF Ascending
    <3>2. QED
      BY <1>0, <2>1, <3>1, AscendingConcat DEF OrderInv, FilesInOrder
  <2>4. FilesInOrder'
    BY <2>1, <2>2, <2>3 DEF OrderInv, FilesInOrder, Before
  <2>5. QED
    BY <2>1, <2>2, <2>4, EmptyFacts DEF OrderInv
<1>9. CASE Crash
  BY <1>9, OrderKept DEF Crash, fileVars
<1>10. CASE MoveAway
  <2>1. \A k \in 0 .. MaxSlots : slot'[k].records \in {slot[k].records, <<>>}
    BY <1>0, <1>10, MovedAway
  <2>2. UNCHANGED <<buffer, pending, issued>>
    BY <1>10 DEF MoveAway, callVars
  <2>3. QED
    BY <2>1, <2>2, OrderKept
<1>11. CASE CreateAgain
  <2>1. \A k \in 0 .. MaxSlots : slot'[k].records \in {slot[k].records, <<>>}
    BY <1>0, <1>11, CreatedAgain
  <2>2. UNCHANGED <<buffer, pending, issued>>
    BY <1>11 DEF CreateAgain, sinkVars, callVars
  <2>3. QED
    BY <2>1, <2>2, OrderKept
<1>12. QED
  BY <1>2, <1>3, <1>4, <1>5, <1>6, <1>7, <1>8, <1>9, <1>10, <1>11 DEF Effect

LEMMA OrderInvariant == Spec => []OrderInv
<1>1. Init => OrderInv
  <2>1. SUFFICES ASSUME Init PROVE OrderInv
    OBVIOUS
  <2>2. \A k \in 0 .. MaxSlots : slot[k].records = <<>>
    BY <2>1 DEF Init, NoFile
  <2>3. buffer = <<>> /\ pending = <<>>
    BY <2>1 DEF Init
  <2>4. QED
    BY <2>2, <2>3, EmptyFacts DEF OrderInv, FilesInOrder
<1>2. Types /\ OrderInv /\ [Next]_vars => OrderInv'
  BY StepEffect, OrderStep
<1>3. QED
  BY <1>1, <1>2, TypesInvariant, PTL DEF Spec

\* Read from the highest number down to the path, the files give the records in the order
\* they were written, and none twice, wherever a rotation was cut short.
THEOREM FilesStayInOrder == Spec => []FilesInOrder
<1>1. OrderInv => FilesInOrder
  BY DEF OrderInv
<1>2. QED
  BY <1>1, OrderInvariant, PTL

-----------------------------------------------------------------------------
(* What a flush has covered.                                               *)

\* A step adds to the buffer only the record of Write, and to that only a new record.
LEMMA UnflushedStep ==
    ASSUME Types, Effect
    PROVE  /\ Members(buffer') \subseteq Members(buffer) \cup Members(pending)
           /\ \A r \in Members(pending') : r \in Members(pending) \/ r.id = issued + 1
<1>0. /\ StoredOK /\ PlaceOK /\ MaxSlots \in Nat /\ buffer \in Records /\ pending \in Records
  BY TypeParts, OptionFacts DEF Types, StoredOK, PlaceOK
<1>1. Accepts => \A r \in Members(pending') : r.id = issued + 1
  <2>1. SUFFICES ASSUME Accepts PROVE \A r \in Members(pending') : r.id = issued + 1
    OBVIOUS
  <2>2. PICK size \in Sizes :
            pending' = <<[id |-> issued + 1, size |-> size, day |-> today, run |-> runs]>>
    BY <2>1 DEF Accepts
  <2> DEFINE record == [id |-> issued + 1, size |-> size, day |-> today, run |-> runs]
  <2>3. record.id = issued + 1 /\ pending' = <<record>>
    BY <2>2
  <2> HIDE DEF record
  <2>4. Members(<<record>>) = {record}
    BY DEF Members
  <2>5. QED
    BY <2>3, <2>4
<1>2. /\ buffer' \in {buffer, <<>>, buffer \o pending}
      /\ pending' \in {pending, <<>>} \/ Accepts
  BY DEF Effect, Untouched, WritesOut, FlushBuffer, Opens, FailsToOpen, Removes, Renames,
         AppendRecord, Crash, MoveAway, CreateAgain, Waits, Rejects, GivesUp, sinkVars, callVars
<1>3. Members(buffer \o pending) = Members(buffer) \cup Members(pending)
  BY <1>0, ConcatFacts
<1>4. QED
  BY <1>1, <1>2, <1>3, EmptyFacts

LEMMA DurableStep ==
    ASSUME Types, DurableInv, [Next]_vars
    PROVE  DurableInv' /\ \A n \in crashed' \ crashed : n > durable
<1>0. /\ StoredOK /\ PlaceOK /\ buffer \in Records /\ pending \in Records /\ Effect
      /\ issued \in Nat /\ durable \in 0 .. issued
  BY TypeParts, StepEffect DEF Types, StoredOK, PlaceOK, CountsOK
<1>1. durable' = durable \/ (buffer' = <<>> /\ pending' = <<>>)
  <2>1. Flush \/ AutoFlush => buffer' = <<>> /\ pending' = <<>>
    BY <1>0 DEF Flush, AutoFlush, Goto, FlushBuffer, callVars, PlaceOK, Control
  <2>2. CASE Flush \/ AutoFlush
    BY <2>1, <2>2
  <2>3. CASE ~(Flush \/ AutoFlush)
    BY <2>3 DEF Next, Call, Continue, World, Start, Stop, Reopen, ForceRotate, BeginWrite,
       ReopenOpen, DetectExternalRotation, DetectOpen, Decide, AppendOpen, AppendRecord,
       RotateClose, RotateRemove, RotateShift, RotateMove, RotateOpen, StdioFlush, Crash,
       MoveAway, CreateAgain, Midnight, vars, pastVars
  <2>4. QED
    BY <2>2, <2>3
<1>2. issued + 1 > durable
  BY <1>0
<1>3. DurableInv'
  <2>1. CASE buffer' = <<>> /\ pending' = <<>>
    BY <2>1, EmptyFacts DEF DurableInv
  <2>2. CASE durable' = durable
    <3>1. \A r \in Members(buffer') \cup Members(pending') : r.id > durable
      BY <1>0, <1>2, UnflushedStep DEF DurableInv
    <3>2. QED
      BY <2>2, <3>1 DEF DurableInv
  <2>3. QED
    BY <1>1, <2>1, <2>2
<1>4. ASSUME NEW n \in crashed' \ crashed PROVE n > durable
  <2>1. n \in Ids(buffer \o pending)
    BY <1>0 DEF Effect, Untouched, WritesOut, Opens, FailsToOpen, Removes, Renames,
       AppendRecord, Crash, MoveAway, CreateAgain, pastVars
  <2>2. n \in Ids(buffer) \cup Ids(pending)
    BY <1>0, <2>1, ConcatFacts
  <2>3. QED
    BY <2>2 DEF Ids, DurableInv
<1>5. QED
  BY <1>3, <1>4

LEMMA DurableInvariant == Spec => []DurableInv
<1>1. Init => DurableInv
  BY EmptyFacts DEF Init, DurableInv
<1>2. Types /\ DurableInv /\ [Next]_vars => DurableInv'
  BY DurableStep
<1>3. QED
  BY <1>1, <1>2, TypesInvariant, PTL DEF Spec

\* A crash takes no record that a flush has covered.
THEOREM FlushedRecordsSurvive == Spec => FlushedSurvives
<1>1. Types /\ DurableInv /\ [Next]_vars => [\A n \in crashed' \ crashed : n > durable]_vars
  BY DurableStep
<1>2. QED
  BY <1>1, TypesInvariant, DurableInvariant, PTL DEF Spec, FlushedSurvives

-----------------------------------------------------------------------------
(* What a rotation deletes.                                                *)

\* A rename of a rotation takes a name under which there is nothing, or what had to stay.
LEMMA RotationStep ==
    ASSUME Types, RotationInv, [Next]_vars
    PROVE  RotationInv'
<1>0. /\ StoredOK /\ PlaceOK /\ MaxSlots \in Nat /\ options.maxFiles \in 0 .. MaxSlots
      /\ 0 \in 0 .. MaxSlots
  BY TypeParts, OptionFacts, SlotFacts DEF Types
<1>1. \A k \in 0 .. MaxSlots : ~slot[k].exists => Ids(slot[k].records) = {}
  BY <1>0, EmptyFacts DEF StoredOK, FilesOK
<1>2. /\ pc = "shift" => index \in 1 .. MaxSlots
      /\ pc = "move" => index = 1 /\ 1 \in 1 .. MaxSlots
  BY <1>0 DEF PlaceOK, Control
<1>3. CASE RotateRemove
  <2> DEFINE k == options.maxFiles
  <2>1. index' = k /\ (Remove(k) \/ Stays(k))
    BY <1>3 DEF RotateRemove
  <2>2. CASE Remove(k)
    BY <1>0, <2>1, <2>2, Removed, EmptyFacts DEF RotationInv
  <2>3. CASE Stays(k)
    BY <2>1, <2>3 DEF Stays, RotationInv
  <2>4. QED
    BY <2>1, <2>2, <2>3
<1>4. CASE RotateShift
  <2> DEFINE k == index - 1
  <2>1. k \in 0 .. MaxSlots /\ k + 1 \in 0 .. MaxSlots /\ k + 1 = index /\ index' = k
    BY <1>0, <1>2, <1>4 DEF RotateShift, Goto
  <2>2. Rename(k, k + 1) \/ Stays(k)
    BY <1>4, <2>1 DEF RotateShift
  <2> HIDE DEF k
  <2>3. CASE Rename(k, k + 1) /\ slot[k].exists
    BY <1>0, <2>1, <2>3, Renamed, EmptyFacts DEF RotationInv
  <2>4. CASE Rename(k, k + 1) /\ ~slot[k].exists
    BY <1>1, <2>1, <2>4 DEF Rename, RotationInv
  <2>5. CASE Stays(k)
    BY <2>1, <2>5 DEF Stays, RotationInv
  <2>6. QED
    BY <2>2, <2>3, <2>4, <2>5
<1>5. CASE ~(RotateRemove \/ RotateShift)
  <2>1. SUFFICES ASSUME pc' \in {"shift", "move"}
                 PROVE  Ids(slot'[index'].records) \subseteq kept'
    BY DEF RotationInv
  <2>2. pc' = pc /\ index' = index /\ kept' = kept
    BY <1>5, <2>1 DEF Next, Call, Continue, World, Start, Stop, Reopen, Flush, ForceRotate,
       BeginWrite, ReopenOpen, DetectExternalRotation, DetectOpen, Decide, AppendOpen,
       AppendRecord, AutoFlush, RotateClose, RotateMove, RotateOpen, StdioFlush, Crash,
       MoveAway, CreateAgain, Midnight, vars, callVars, pastVars, Goto, AfterRotation
  <2>3. index # 0 /\ index \in 0 .. MaxSlots
    BY <1>0, <1>2, <2>1, <2>2
  <2>4. handle = "none" /\ buffer = <<>>
    BY <1>0, <2>1, <2>2 DEF PlaceOK, Control, ClosedAt, StoredOK
  <2>5. slot' = slot \/ MoveAway \/ CreateAgain
    BY <1>5, <2>1, <2>2, <2>4 DEF Next, Call, Continue, World, Start, Stop, Reopen, Flush,
       ForceRotate, BeginWrite, ReopenOpen, DetectExternalRotation, DetectOpen, Decide,
       AppendOpen, AppendRecord, AutoFlush, RotateClose, RotateMove, RotateOpen, StdioFlush,
       Crash, Midnight, vars, fileVars, Goto
  <2>6. slot'[index] = slot[index]
    BY <1>0, <2>3, <2>5, MovedAway, CreatedAgain
  <2>7. QED
    BY <2>1, <2>2, <2>6 DEF RotationInv
<1>6. QED
  BY <1>3, <1>4, <1>5

LEMMA RotationInvariant == Spec => []RotationInv
<1>1. Init => RotationInv
  BY DEF Init, RotationInv
<1>2. Types /\ RotationInv /\ [Next]_vars => RotationInv'
  BY RotationStep
<1>3. QED
  BY <1>1, <1>2, TypesInvariant, PTL DEF Spec

LEMMA ExpiryStep ==
    ASSUME Types, RotationInv, [Next]_vars, options.append
    PROVE  lost' \ lost \subseteq Ids(slot[options.maxFiles].records) \cup kept
<1>0. Control
  BY DEF Types
<1>1. CASE RotateRemove
  BY <1>1 DEF RotateRemove, Remove, Stays
<1>2. CASE RotateShift
  BY <1>2 DEF RotateShift, Goto, Rename, Stays, RotationInv
<1>3. CASE RotateMove
  BY <1>0, <1>3 DEF RotateMove, Goto, Rename, Stays, RotationInv, Control
<1>4. CASE ~(RotateRemove \/ RotateShift \/ RotateMove)
  <2>1. lost' = lost
    BY <1>4 DEF Next, Call, Continue, World, Start, Stop, Reopen, Flush, ForceRotate,
       BeginWrite, ReopenOpen, DetectExternalRotation, DetectOpen, Decide, AppendOpen,
       AppendRecord, AutoFlush, RotateClose, RotateOpen, StdioFlush, Crash, MoveAway,
       CreateAgain, Midnight, OpenFile, OpenFails, vars, pastVars
  <2>2. QED
    BY <2>1
<1>5. QED
  BY <1>1, <1>2, <1>3, <1>4

\* With append, what a step deletes or replaces was in the file with the highest number,
\* or in one that a rotation could not rename or remove.
THEOREM OldestExpires == Spec => OnlyOldestExpires
<1>1. Types /\ RotationInv /\ [Next]_vars
      => [options.append => lost' \ lost \subseteq Ids(slot[options.maxFiles].records) \cup kept]_vars
  BY ExpiryStep
<1>2. QED
  BY <1>1, TypesInvariant, RotationInvariant, PTL DEF Spec, OnlyOldestExpires

-----------------------------------------------------------------------------
(* What the files hold, with what is in the buffer.                        *)

\* The files, with what is still in the buffer of the one that is open.
Contents(k) == IF k = 0 THEN Current ELSE slot[k].records

LEMMA ContentsFacts ==
    ASSUME Types, Types'
    PROVE  /\ \A k \in 0 .. MaxSlots : Contents(k) \in Records /\ Contents(k)' \in Records
           /\ handle # "path" => Current = slot[0].records
           /\ handle = "path" => Current = slot[0].records \o buffer
           /\ handle' # "path" => Current' = slot'[0].records
           /\ handle' = "path" => Current' = slot'[0].records \o buffer'
           /\ buffer = <<>> => Current = slot[0].records
           /\ buffer' = <<>> => Current' = slot'[0].records
<1>1. /\ StoredOK /\ StoredOK' /\ MaxSlots \in Nat /\ 0 \in 0 .. MaxSlots
  BY TypeParts, OptionFacts DEF Types
<1>2. /\ \A k \in 0 .. MaxSlots : slot[k].records \in Records /\ slot'[k].records \in Records
      /\ buffer \in Records /\ buffer' \in Records /\ <<>> \in Records
  BY <1>1, EmptyFacts DEF StoredOK, SlotType
<1>3. \A s \in Records : s \o <<>> = s
  BY DEF Records
<1>4. /\ handle # "path" => Current = slot[0].records
      /\ handle = "path" => Current = slot[0].records \o buffer
      /\ buffer = <<>> => Current = slot[0].records
  BY <1>1, <1>2, <1>3 DEF Current
<1>5. /\ handle' # "path" => Current' = slot'[0].records
      /\ handle' = "path" => Current' = slot'[0].records \o buffer'
      /\ buffer' = <<>> => Current' = slot'[0].records
  BY <1>1, <1>2, <1>3 DEF Current
<1>6. Current \in Records /\ Current' \in Records
  <2>1. \A s, u \in Records : s \o u \in Records
    BY ConcatFacts
  <2>2. slot[0].records \o buffer \in Records /\ slot'[0].records \o buffer' \in Records
    BY <1>1, <1>2, <2>1
  <2>3. QED
    BY <1>1, <1>2, <1>4, <1>5, <2>2
<1>7. QED
  BY <1>2, <1>4, <1>5, <1>6 DEF Contents

\* What a step does to that: a file stays as it is or is emptied, takes the next name,
\* receives the record of Write, or loses the buffer to a crash.
Keeps == \A k \in 0 .. MaxSlots : Contents(k)' \in {Contents(k), <<>>}
Shifts ==
    \E k \in 0 .. MaxSlots :
        /\ k + 1 \in 0 .. MaxSlots /\ Contents(k + 1)' = Contents(k)
        /\ \A l \in 0 .. MaxSlots : l # k + 1 => Contents(l)' \in {Contents(l), <<>>}
Receives ==
    /\ AppendRecord /\ handle = "path" /\ Current' = Current \o pending
    /\ \A k \in 0 .. MaxSlots : k # 0 => Contents(k)' = Contents(k)
Loses ==
    /\ Crash /\ Current' = slot[0].records
    /\ \A k \in 0 .. MaxSlots : k # 0 => Contents(k)' = Contents(k)

LEMMA ContentsStep ==
    ASSUME Types, Types', Effect
    PROVE  /\ Keeps \/ Shifts \/ Receives \/ Loses
           /\ slot'[0].records \in {slot[0].records, Current, <<>>}
<1>0. /\ StoredOK /\ StoredOK' /\ PlaceOK /\ MaxSlots \in Nat /\ 0 \in 0 .. MaxSlots
      /\ handle = "none" => buffer = <<>>
      /\ handle = "path" => slot[0].exists
  BY TypeParts, OptionFacts DEF Types, StoredOK, FilesOK
<1>1. /\ handle # "path" => Current = slot[0].records
      /\ handle = "path" => Current = slot[0].records \o buffer
      /\ handle' # "path" => Current' = slot'[0].records
      /\ handle' = "path" => Current' = slot'[0].records \o buffer'
      /\ buffer = <<>> => Current = slot[0].records
      /\ buffer' = <<>> => Current' = slot'[0].records
  BY ContentsFacts
<1>2. CASE Untouched
  <2>1. Current' = Current /\ slot' = slot
    BY <1>2 DEF Untouched, Current
  <2>2. QED
    BY <2>1 DEF Keeps, Contents
<1>3. CASE WritesOut
  <2>1. /\ buffer' = <<>>
        /\ \A k \in 0 .. MaxSlots :
              slot'[k].records = IF k = 0 /\ handle = "path"
                                 THEN slot[0].records \o buffer ELSE slot[k].records
    BY <1>0, <1>3, Flushed DEF WritesOut
  <2>2. slot'[0].records = Current /\ Current' = Current
    BY <1>0, <1>1, <2>1
  <2>3. QED
    BY <2>1, <2>2 DEF Keeps, Contents
<1>4. CASE Opens
  <2>1. /\ slot'[0].records \in {slot[0].records, <<>>}
        /\ \A k \in 0 .. MaxSlots : k # 0 => slot'[k] = slot[k]
        /\ buffer' = <<>> /\ buffer = <<>>
    BY <1>0, <1>4, Opened DEF Opens
  <2>2. QED
    BY <1>1, <2>1 DEF Keeps, Contents
<1>5. CASE FailsToOpen
  <2>1. slot' = slot /\ buffer' = <<>> /\ buffer = <<>>
    BY <1>0, <1>5 DEF FailsToOpen
  <2>2. QED
    BY <1>1, <2>1 DEF Keeps, Contents
<1>6. ASSUME NEW k \in 0 .. MaxSlots, Removes(k)
      PROVE  Keeps /\ slot'[0].records \in {slot[0].records, <<>>}
  <2>1. buffer = <<>> /\ buffer' = <<>>
    BY <1>0, <1>6 DEF Removes, sinkVars
  <2>2. \A l \in 0 .. MaxSlots : slot'[l].records \in {slot[l].records, <<>>}
    BY <1>0, <1>6, Removed DEF Removes, Stays
  <2>3. QED
    BY <1>0, <1>1, <2>1, <2>2 DEF Keeps, Contents
<1>7. ASSUME NEW k \in 0 .. MaxSlots, k + 1 \in 0 .. MaxSlots, Renames(k)
      PROVE  (Keeps \/ Shifts) /\ slot'[0].records \in {slot[0].records, <<>>}
  <2>1. buffer = <<>> /\ buffer' = <<>> /\ k + 1 # 0
    BY <1>0, <1>7 DEF Renames, sinkVars
  <2>2. CASE slot' = slot
    BY <1>1, <2>1, <2>2 DEF Keeps, Contents
  <2>3. CASE Rename(k, k + 1) /\ slot[k].exists
    <3>1. /\ slot'[k].records = <<>> /\ slot'[k + 1] = slot[k]
          /\ \A l \in 0 .. MaxSlots : l # k /\ l # k + 1 => slot'[l] = slot[l]
      BY <1>0, <1>7, <2>3, Renamed
    <3>2. \A l \in 0 .. MaxSlots : l # k + 1 => slot'[l].records \in {slot[l].records, <<>>}
      BY <3>1
    <3>3. Contents(k + 1)' = Contents(k)
      BY <1>1, <2>1, <3>1 DEF Contents
    <3>4. \A l \in 0 .. MaxSlots : l # k + 1 => Contents(l)' \in {Contents(l), <<>>}
      BY <1>0, <1>1, <2>1, <3>2 DEF Contents
    <3>5. QED
      BY <1>0, <1>7, <2>1, <3>2, <3>3, <3>4 DEF Shifts
  <2>4. QED
    BY <1>7, <2>2, <2>3 DEF Renames, Rename, Stays
<1>8. CASE AppendRecord
  <2>1. slot' = slot /\ handle' = handle /\ buffer' = buffer \o pending
    BY <1>8 DEF AppendRecord, fileVars
  <2>2. CASE handle # "path"
    BY <1>1, <2>1, <2>2 DEF Keeps, Contents
  <2>3. CASE handle = "path"
    <3>1. slot[0].records \in Records /\ buffer \in Records /\ pending \in Records
      BY <1>0, SlotFacts DEF StoredOK, PlaceOK
    <3>2. slot[0].records \o (buffer \o pending) = (slot[0].records \o buffer) \o pending
      BY <3>1, ConcatThree, Zenon
    <3>3. Current' = Current \o pending
      BY <1>1, <2>1, <2>3, <3>2
    <3>4. QED
      BY <1>8, <2>1, <2>3, <3>3 DEF Receives, Contents
  <2>4. QED
    BY <2>2, <2>3
<1>9. CASE Crash
  <2>1. slot' = slot /\ handle' = "none"
    BY <1>9 DEF Crash, fileVars
  <2>2. QED
    BY <1>1, <1>9, <2>1 DEF Loses, Contents
<1>10. CASE MoveAway
  <2>1. /\ slot'[0].records = <<>> /\ \A k \in 0 .. MaxSlots : k # 0 => slot'[k] = slot[k]
        /\ handle' # "path"
    BY <1>0, <1>10, MovedAway DEF MoveAway, StoredOK
  <2>2. QED
    BY <1>1, <2>1 DEF Keeps, Contents
<1>11. CASE CreateAgain
  <2>1. /\ \A k \in 0 .. MaxSlots : slot'[k].records = slot[k].records
        /\ handle' = handle /\ handle # "path" /\ buffer' = buffer
    BY <1>0, <1>11, CreatedAgain DEF CreateAgain, sinkVars
  <2>2. QED
    BY <1>0, <1>1, <2>1 DEF Keeps, Contents
<1>12. QED
  BY <1>2, <1>3, <1>4, <1>5, <1>6, <1>7, <1>8, <1>9, <1>10, <1>11 DEF Effect

\* What had to stay is in no buffer, and a record of Write is not among it.
KeptInv ==
    /\ kept \subseteq 1 .. issued
    /\ (Ids(buffer) \cup Ids(pending)) \cap kept = {}

LEMMA KeptStep ==
    ASSUME Types, OrderInv, KeptInv, Effect
    PROVE  KeptInv' /\ kept \subseteq kept'
<1>0. /\ StoredOK /\ PlaceOK /\ MaxSlots \in Nat /\ issued \in Nat
      /\ buffer \in Records /\ pending \in Records
      /\ \A k \in 0 .. MaxSlots : slot[k].records \in Records
      /\ handle = "none" => buffer = <<>>
      /\ issued' \in {issued, issued + 1}
  <2>1. StoredOK /\ PlaceOK /\ CountsOK /\ MaxSlots \in Nat
    BY TypeParts, OptionFacts DEF Types
  <2>2. issued' \in {issued, issued + 1}
    BY DEF Effect, Waits, Accepts, Rejects, GivesUp, AppendRecord, Goto, Crash, MoveAway,
           CreateAgain
  <2>3. issued \in Nat
    BY <2>1, RotatingFileSinkAssumption DEF CountsOK
  <2>4. QED
    BY <2>1, <2>2, <2>3, SlotFacts DEF StoredOK, PlaceOK
<1>1. (1 .. issued) \subseteq 1 .. issued'
  BY <1>0
<1>2. /\ Ids(buffer') \subseteq Ids(buffer) \cup Ids(pending)
      /\ \A n \in Ids(pending') : n \in Ids(pending) \/ n = issued + 1
  BY UnflushedStep DEF Ids
<1>3. issued + 1 \notin kept
  BY <1>0 DEF KeptInv
<1>4. CASE kept' = kept
  BY <1>1, <1>2, <1>3, <1>4 DEF KeptInv
<1>5. ASSUME NEW k \in 0 .. MaxSlots, Stays(k), handle = "none", UNCHANGED <<buffer, pending, issued>>
      PROVE  KeptInv' /\ kept \subseteq kept'
  <2>1. Ids(slot[k].records) \subseteq 1 .. issued
    <3>1. ASSUME NEW r \in Members(slot[k].records) PROVE r.id \in 1 .. issued
      <4>1. r.id \in 1 .. MaxRecords /\ MaxRecords \in Nat
        BY <1>0, MemberFacts, RecordFacts, RotatingFileSinkAssumption
      <4>2. r.id <= issued
        BY DEF OrderInv
      <4>3. QED
        BY <1>0, <4>1, <4>2
    <3>2. QED
      BY <3>1 DEF Ids
  <2>2. Ids(slot[k].records) \cap Ids(pending) = {}
    <3>1. \A r \in Members(slot[k].records), q \in Members(pending) :
              r.id < q.id /\ r.id \in Nat /\ q.id \in Nat
      BY <1>0, MemberFacts, RecordFacts DEF OrderInv, Before
    <3>2. \A r \in Members(slot[k].records), q \in Members(pending) : r.id # q.id
      BY <3>1
    <3>3. QED
      BY <3>2 DEF Ids
  <2>3. Ids(buffer) = {}
    BY <1>0, <1>5, EmptyFacts
  <2>4. QED
    BY <1>5, <2>1, <2>2, <2>3 DEF Stays, KeptInv
<1>6. QED
  <2>1. \/ kept' = kept
        \/ \E k \in 0 .. MaxSlots :
              Stays(k) /\ handle = "none" /\ UNCHANGED <<buffer, pending, issued>>
    BY DEF Effect, Untouched, WritesOut, Opens, FailsToOpen, Removes, Renames, Remove, Rename,
           AppendRecord, Crash, MoveAway, CreateAgain, Waits, sinkVars, pastVars
  <2>2. QED
    BY <1>4, <1>5, <2>1

-----------------------------------------------------------------------------
(* How the operations come to their calls.                                 *)

\* The steps that leave the operation where it is, but for those of a Write.
Quiet == UNCHANGED vars \/ StdioFlush \/ MoveAway \/ CreateAgain \/ Midnight

LEMMA Arrivals ==
    ASSUME [Next]_vars
    PROVE  /\ options' = options
           /\ pc' = "detect_open" => (DetectExternalRotation /\ Moved) \/ (Quiet /\ pc' = pc)
           /\ pc' = "decide" =>
                  \/ DetectExternalRotation /\ ~Moved
                  \/ DetectOpen
                  \/ Quiet /\ pc' = pc
           /\ pc' = "append" => Decide \/ RotateOpen \/ AppendOpen \/ (Quiet /\ pc' = pc)
           /\ pc' = "rotate_open" =>
                  \/ RotateRemove /\ options.maxFiles = 0
                  \/ RotateMove
                  \/ Quiet /\ pc' = pc
<1> USE DEF Start, Call, Stop, Reopen, Flush, ForceRotate, BeginWrite, Continue, ReopenOpen,
            AppendRecord, AutoFlush, RotateClose, RotateShift, World, Crash, Quiet, Goto, callVars
<1>1. options' = options
  BY DEF Next, DetectExternalRotation, DetectOpen, Decide, AppendOpen, RotateRemove, RotateMove,
         RotateOpen, StdioFlush, MoveAway, CreateAgain, Midnight, vars
<1>2. pc' = "detect_open" => (DetectExternalRotation /\ Moved) \/ (Quiet /\ pc' = pc)
  BY DEF Next, DetectExternalRotation, DetectOpen, Decide, AppendOpen, RotateRemove, RotateMove,
         RotateOpen, StdioFlush, MoveAway, CreateAgain, Midnight, vars, AfterShift, AfterRotation
<1>3. pc' = "decide" =>
          (DetectExternalRotation /\ ~Moved) \/ DetectOpen \/ (Quiet /\ pc' = pc)
  BY DEF Next, DetectExternalRotation, Decide, AppendOpen, RotateRemove, RotateMove,
         RotateOpen, StdioFlush, MoveAway, CreateAgain, Midnight, vars, AfterShift, AfterRotation
<1>4. pc' = "append" => Decide \/ RotateOpen \/ AppendOpen \/ (Quiet /\ pc' = pc)
  BY DEF Next, DetectExternalRotation, DetectOpen, RotateRemove, RotateMove,
         StdioFlush, MoveAway, CreateAgain, Midnight, vars, AfterShift
<1>5. pc' = "rotate_open" =>
          (RotateRemove /\ options.maxFiles = 0) \/ RotateMove \/ (Quiet /\ pc' = pc)
  BY DEF Next, DetectExternalRotation, DetectOpen, Decide, AppendOpen, RotateRemove,
         RotateOpen, StdioFlush, MoveAway, CreateAgain, Midnight, vars, AfterShift, AfterRotation
<1>6. QED
  BY <1>1, <1>2, <1>3, <1>4, <1>5

\* What goes on while the operation waits: an open file keeps its contents as long as it
\* has the path, and the path loses them at most.
LEMMA QuietFacts ==
    ASSUME Types, Types', Quiet
    PROVE  /\ UNCHANGED <<options, pc, index, pending, dateKey, bytes, runs, kept>>
           /\ handle' = "none" <=> handle = "none"
           /\ handle' = "path" => handle = "path"
           /\ handle = "path" /\ handle' = "path" => Current' = Current
           /\ handle = "none" => slot'[0].records \in {slot[0].records, <<>>}
           /\ Current' \in {Current, <<>>}
<1>0. /\ StoredOK /\ MaxSlots \in Nat /\ 0 \in 0 .. MaxSlots
      /\ handle = "none" => buffer = <<>>
      /\ handle = "path" => slot[0].exists
  BY TypeParts, OptionFacts DEF Types, StoredOK, FilesOK
<1>1. /\ handle # "path" => Current = slot[0].records
      /\ handle = "path" => Current = slot[0].records \o buffer
      /\ handle' # "path" => Current' = slot'[0].records
      /\ buffer' = <<>> => Current' = slot'[0].records
  BY ContentsFacts
<1>2. CASE UNCHANGED vars \/ Midnight
  BY <1>2 DEF vars, fileVars, sinkVars, callVars, worldVars, pastVars, Midnight, Current
<1>3. CASE StdioFlush
  <2>1. /\ buffer' = <<>>
        /\ slot'[0].records = IF handle = "path" THEN slot[0].records \o buffer
                              ELSE slot[0].records
    BY <1>0, <1>3, Flushed DEF StdioFlush
  <2>2. UNCHANGED <<options, pc, index, pending, dateKey, bytes, runs, kept, handle>>
    BY <1>3 DEF StdioFlush, callVars, worldVars, pastVars
  <2>3. Current' = Current /\ handle # "none"
    BY <1>0, <1>1, <1>3, <2>1 DEF StdioFlush
  <2>4. QED
    BY <2>2, <2>3
<1>4. CASE MoveAway
  <2>1. slot'[0].records = <<>>
    BY <1>0, <1>4, MovedAway
  <2>2. /\ UNCHANGED <<options, pc, index, pending, dateKey, bytes, runs, kept>>
        /\ handle' = IF handle = "path" THEN "away" ELSE handle
    BY <1>4 DEF MoveAway, callVars, pastVars
  <2>3. QED
    BY <1>1, <2>1, <2>2
<1>5. CASE CreateAgain
  <2>1. slot'[0].records = slot[0].records /\ handle # "path"
    BY <1>0, <1>5, CreatedAgain DEF CreateAgain
  <2>2. UNCHANGED <<options, pc, index, pending, dateKey, bytes, runs, kept, handle>>
    BY <1>5 DEF CreateAgain, sinkVars, callVars, worldVars, pastVars
  <2>3. QED
    BY <1>1, <2>1, <2>2
<1>6. QED
  BY <1>2, <1>3, <1>4, <1>5 DEF Quiet

-----------------------------------------------------------------------------
(* The length of the files.                                                *)

\* A file of the length that SizeBounded allows, with max for maxFileBytes and what had to
\* stay.
Bounded(s, max, stayed) == Length(s) <= max \/ Len(s) = 1 \/ Ids(s) \cap stayed # {}

LEMMA SizeParts ==
    ASSUME Types, Types'
    PROVE  /\ SizeBounded <=>
                (options.maxFileBytes > 0 =>
                    \A k \in 0 .. MaxSlots : Bounded(Contents(k), options.maxFileBytes, kept))
           /\ SizeBounded' <=>
                (options'.maxFileBytes > 0 =>
                    \A k \in 0 .. MaxSlots : Bounded(Contents(k)', options'.maxFileBytes, kept'))
<1>1. /\ StoredOK /\ StoredOK' /\ MaxSlots \in Nat /\ 0 \in 0 .. MaxSlots
  BY TypeParts, OptionFacts DEF Types
<1>2. \A k \in 0 .. MaxSlots : slot[k].records \in Records /\ slot'[k].records \in Records
  BY <1>1 DEF StoredOK, SlotType
<1>3. \A s \in Records : s \o <<>> = s
  BY DEF Records
<1>4. /\ \A k \in 0 .. MaxSlots :
             slot[k].records \o (IF k = 0 /\ handle = "path" THEN buffer ELSE <<>>) = Contents(k)
      /\ \A k \in 0 .. MaxSlots :
             slot'[k].records \o (IF k = 0 /\ handle' = "path" THEN buffer' ELSE <<>>)
                 = Contents(k)'
  BY <1>1, <1>2, <1>3 DEF Contents, Current
<1>5. QED
  BY <1>4 DEF SizeBounded, Bounded

\* A step that leaves a file alone, empties it, or takes the unwritten end of it keeps it
\* within the bound; so does a record for a file that has room for it or none in it.
LEMMA BoundedFacts ==
    ASSUME NEW max \in Nat \ {0}, NEW stayed, NEW more, stayed \subseteq more,
           NEW s \in Records, Bounded(s, max, stayed)
    PROVE  /\ Bounded(s, max, more)
           /\ \A t, u \in Records : s = t \o u /\ Ids(u) \cap stayed = {} => Bounded(t, max, more)
<1>1. Bounded(s, max, more)
  BY DEF Bounded
<1>2. ASSUME NEW t \in Records, NEW u \in Records, s = t \o u, Ids(u) \cap stayed = {}
      PROVE  Bounded(t, max, more)
  <2>1. /\ Len(s) = Len(t) + Len(u) /\ Length(s) = Length(t) + Length(u)
        /\ Ids(s) = Ids(t) \cup Ids(u)
        /\ Len(t) \in Nat /\ Len(u) \in Nat /\ Length(t) \in Nat /\ Length(u) \in Nat
    BY <1>2, ConcatFacts, LengthConcat, MemberFacts, LengthFacts
  <2>2. CASE Length(s) <= max
    BY <2>1, <2>2 DEF Bounded
  <2>3. CASE Len(s) = 1
    <3>1. Len(t) = 1 \/ Len(t) = 0
      <4>1. \A a, b \in Nat : a + b = 1 => a = 1 \/ a = 0
        OBVIOUS
      <4>2. Len(t) + Len(u) = 1 /\ Len(t) \in Nat /\ Len(u) \in Nat
        BY <2>1, <2>3, Zenon
      <4>3. QED
        BY <4>1, <4>2, Zenon
    <3>2. Len(t) = 0 => t = <<>>
      BY DEF Records
    <3>3. QED
      BY <3>1, <3>2, LengthFacts DEF Bounded
  <2>4. CASE Ids(s) \cap stayed # {}
    BY <1>2, <2>1, <2>4 DEF Bounded
  <2>5. QED
    BY <2>2, <2>3, <2>4 DEF Bounded
<1>3. QED
  BY <1>1, <1>2

LEMMA SizeBoundedStep ==
    ASSUME Types, Types', OrderInv, KeptInv, SizeInv, Effect, options' = options
    PROVE  SizeBounded'
<1>0. /\ StoredOK /\ PlaceOK /\ MaxSlots \in Nat /\ 0 \in 0 .. MaxSlots /\ kept \subseteq kept'
      /\ buffer \in Records /\ pending \in Records /\ slot[0].records \in Records
      /\ <<>> \in Records
      /\ options.maxFileBytes \in Nat
  BY TypeParts, OptionFacts, SlotFacts, KeptStep, EmptyFacts DEF Types, StoredOK, PlaceOK
<1> DEFINE max == options.maxFileBytes
<1>1. SUFFICES ASSUME max > 0
               PROVE  \A k \in 0 .. MaxSlots : Bounded(Contents(k)', max, kept')
  BY SizeParts
<1>2. \A k \in 0 .. MaxSlots : Contents(k) \in Records /\ Bounded(Contents(k), max, kept)
  BY <1>1, SizeParts, ContentsFacts DEF SizeInv
<1>3. max \in Nat \ {0}
  BY <1>0, <1>1
<1>4. SizeInv /\ max > 0
  BY <1>1
<1> HIDE DEF max
<1>5. Bounded(<<>>, max, kept')
  BY <1>3, LengthFacts DEF Bounded
<1>6. \A k \in 0 .. MaxSlots : Bounded(Contents(k), max, kept')
  BY <1>0, <1>2, <1>3, BoundedFacts
<1>7. CASE Keeps
  BY <1>5, <1>6, <1>7 DEF Keeps
<1>8. CASE Shifts
  BY <1>5, <1>6, <1>8 DEF Shifts
<1>9. CASE Receives
  <2>1. pc = "append" /\ handle = "path" /\ pending # <<>> /\ kept' = kept
    BY <1>0, <1>9 DEF Receives, AppendRecord, Goto, PlaceOK, pastVars
  <2>2. \/ Fresh(Current)
        \/ Length(Current) + pending[1].size <= max
    BY <1>4, <2>1 DEF SizeInv, max
  <2>3. pending[1] \in RecordType /\ Length(pending) = pending[1].size /\ Len(pending) = 1
    <3>1. pending[1] \in RecordType /\ pending = <<pending[1]>>
      BY <1>0, <2>1, PendingFacts
    <3>2. Length(<<pending[1]>>) = pending[1].size
      BY <3>1, LengthFacts
    <3>3. QED
      BY <3>1, <3>2
  <2>4. Current \in Records /\ Current' = Current \o pending
    BY <1>0, <1>2, <1>9 DEF Receives, Contents
  <2>5. /\ Length(Current \o pending) = Length(Current) + Length(pending)
        /\ Len(Current \o pending) = Len(Current) + Len(pending)
        /\ Ids(Current \o pending) = Ids(Current) \cup Ids(pending)
    BY <1>0, <2>4, LengthConcat, ConcatFacts
  <2>6. Bounded(Current', max, kept')
    <3>1. CASE Current = <<>>
      <4>1. Len(Current) = 0
        BY <3>1
      <4>2. Len(Current') = 1
        BY <2>3, <2>4, <2>5, <4>1
      <4>3. QED
        BY <4>2 DEF Bounded
    <3>2. CASE Ids(Current) \cap kept # {}
      BY <2>1, <2>4, <2>5, <3>2 DEF Bounded
    <3>3. CASE Length(Current) + pending[1].size <= max
      BY <2>3, <2>4, <2>5, <3>3 DEF Bounded
    <3>4. QED
      BY <2>2, <3>1, <3>2, <3>3 DEF Fresh
  <2>7. Contents(0)' = Current'
    BY DEF Contents
  <2>8. QED
    BY <1>6, <1>9, <2>6, <2>7 DEF Receives
<1>10. CASE Loses
  <2>1. Current = slot[0].records \/ Current = slot[0].records \o buffer
    BY ContentsFacts
  <2>2. Bounded(Current, max, kept) /\ Current \in Records
    BY <1>0, <1>2 DEF Contents
  <2>3. Ids(buffer) \cap kept = {}
    BY DEF KeptInv
  <2>4. Bounded(slot[0].records, max, kept')
    BY <1>0, <1>3, <2>1, <2>2, <2>3, BoundedFacts
  <2>5. Contents(0)' = slot[0].records
    BY <1>10 DEF Loses, Contents
  <2>6. QED
    BY <1>6, <1>10, <2>4, <2>5 DEF Loses
<1>11. QED
  BY <1>7, <1>8, <1>9, <1>10, ContentsStep

\* The sink knows how long its file is.
LEMMA BytesStep ==
    ASSUME Types, Types', SizeInv, Effect, handle' = "path"
    PROVE  bytes' = Length(Current')
<1>0. /\ StoredOK /\ PlaceOK /\ MaxSlots \in Nat /\ 0 \in 0 .. MaxSlots
      /\ buffer \in Records /\ pending \in Records
      /\ handle = "none" => buffer = <<>>
      /\ handle = "path" => slot[0].exists
      /\ handle = "path" => bytes = Length(Current)
  BY TypeParts, OptionFacts DEF Types, StoredOK, PlaceOK, FilesOK, SizeInv
<1>1. /\ handle # "path" => Current = slot[0].records
      /\ handle = "path" => Current = slot[0].records \o buffer
      /\ buffer' = <<>> => Current' = slot'[0].records
      /\ Current \in Records
  BY <1>0, ContentsFacts DEF Contents
<1>2. CASE Untouched
  <2>1. Current' = Current /\ bytes' = bytes /\ handle' = handle
    BY <1>2 DEF Untouched, Current
  <2>2. QED
    BY <1>0, <2>1
<1>3. CASE WritesOut
  <2>1. handle = "path" /\ bytes' = bytes
    BY <1>3 DEF WritesOut
  <2>2. buffer' = <<>> /\ slot'[0].records = slot[0].records \o buffer
    BY <1>0, <1>3, <2>1, Flushed DEF WritesOut
  <2>3. QED
    BY <1>0, <1>1, <2>1, <2>2
<1>4. CASE Opens
  <2>1. bytes' = Length(slot'[0].records) /\ buffer' = <<>>
    BY <1>0, <1>4, Opened DEF Opens
  <2>2. QED
    BY <1>1, <2>1
<1>5. CASE AppendRecord
  <2>1. /\ slot' = slot /\ handle = "path" /\ buffer' = buffer \o pending /\ pending # <<>>
        /\ bytes' = bytes + pending[1].size
    BY <1>0, <1>5 DEF AppendRecord, Goto, fileVars, PlaceOK
  <2>2. pending[1] \in RecordType /\ pending = <<pending[1]>>
    BY <1>0, <2>1, PendingFacts
  <2>3. Length(pending) = pending[1].size
    <3>1. Length(<<pending[1]>>) = pending[1].size
      BY <2>2, LengthFacts
    <3>2. QED
      BY <2>2, <3>1
  <2>4. Length(Current \o pending) = Length(Current) + Length(pending)
    BY <1>0, <1>1, LengthConcat
  <2>5. Current' = Current \o pending
    <3>1. slot[0].records \in Records
      BY <1>0, SlotFacts
    <3>2. (slot[0].records \o buffer) \o pending = slot[0].records \o (buffer \o pending)
      BY <1>0, <3>1, ConcatThree, Zenon
    <3>3. QED
      BY <1>1, <2>1, <3>2, ContentsFacts
  <2>6. QED
    BY <1>0, <2>1, <2>3, <2>4, <2>5
<1>6. CASE CreateAgain
  BY <1>0, <1>6 DEF CreateAgain, sinkVars
<1>7. QED
  BY <1>2, <1>3, <1>4, <1>5, <1>6
     DEF Effect, FailsToOpen, Removes, Renames, Crash, MoveAway, sinkVars

\* A rotation leaves nothing under the path, or what had to stay.
LEMMA RotatedFacts ==
    ASSUME Types,
           (RotateRemove /\ options.maxFiles = 0) \/ RotateMove
    PROVE  slot'[0].records = <<>> \/ (slot' = slot /\ Ids(slot[0].records) \subseteq kept')
<1>0. /\ StoredOK /\ PlaceOK /\ MaxSlots \in Nat /\ 0 \in 0 .. MaxSlots
      /\ ~slot[0].exists => slot[0].records = <<>>
  BY TypeParts, OptionFacts DEF Types, StoredOK, FilesOK
<1>1. CASE RotateRemove /\ options.maxFiles = 0
  <2>1. Remove(0) \/ Stays(0)
    BY <1>1 DEF RotateRemove
  <2>2. QED
    BY <1>0, <2>1, Removed DEF Stays
<1>2. CASE RotateMove
  <2>1. 0 + 1 \in 0 .. MaxSlots /\ 0 + 1 = 1
    BY <1>0, <1>2, OptionFacts DEF RotateMove, Goto, PlaceOK, Control, Types
  <2>2. Rename(0, 0 + 1) \/ Stays(0)
    BY <1>2, <2>1 DEF RotateMove
  <2>3. CASE Rename(0, 0 + 1) /\ slot[0].exists
    BY <1>0, <2>1, <2>3, Renamed
  <2>4. CASE Rename(0, 0 + 1) /\ ~slot[0].exists
    BY <1>0, <2>4 DEF Rename
  <2>5. QED
    BY <2>2, <2>3, <2>4 DEF Stays
<1>3. QED
  BY <1>1, <1>2

\* The calls that open the path, and what is under it then.
LEMMA OpeningFacts ==
    ASSUME Types, Types', DetectOpen \/ RotateOpen \/ AppendOpen
    PROVE  /\ handle = "none" /\ kept' = kept /\ Current = slot[0].records
           /\ dateKey' = dateKey /\ runs' = runs
           /\ Current' \in {Current, <<>>} /\ slot'[0].records = Current'
           /\ pending' = pending \/ (pc' = "idle" /\ pending' = <<>>)
           /\ AppendOpen => handle' = "path" \/ pc' = "idle"
<1>0. /\ StoredOK /\ PlaceOK /\ MaxSlots \in Nat /\ 0 \in 0 .. MaxSlots
      /\ handle = "none" => buffer = <<>>
  BY TypeParts, OptionFacts DEF Types, StoredOK
<1>1. /\ handle = "none" /\ kept' = kept /\ dateKey' = dateKey /\ runs' = runs
      /\ pending' = pending \/ (pc' = "idle" /\ pending' = <<>>)
      /\ buffer' = buffer
  BY <1>0 DEF DetectOpen, RotateOpen, AppendOpen, Goto, PlaceOK, Control, ClosedAt, worldVars
<1>2. OpenFile \/ (slot' = slot /\ handle' = "none")
  BY DEF DetectOpen, RotateOpen, AppendOpen, OpenFails
<1>3. buffer = <<>> /\ buffer' = <<>>
  BY <1>0, <1>1
<1>4. slot'[0].records \in {slot[0].records, <<>>}
  BY <1>0, <1>2, Opened
<1>5. Current = slot[0].records /\ Current' = slot'[0].records
  BY <1>3, ContentsFacts
<1>6. AppendOpen => handle' = "path" \/ pc' = "idle"
  BY DEF AppendOpen, OpenFile
<1>7. QED
  BY <1>1, <1>4, <1>5, <1>6

LEMMA SizeInvStep ==
    ASSUME Types, Types', OrderInv, KeptInv, SizeInv, [Next]_vars
    PROVE  SizeInv'
<1>0. /\ StoredOK /\ PlaceOK /\ MaxSlots \in Nat /\ 0 \in 0 .. MaxSlots
      /\ Effect /\ options' = options /\ kept \subseteq kept'
      /\ handle = "away" => slot[0].records = <<>>
      /\ handle = "path" => bytes = Length(Current)
      /\ handle = "none" => buffer = <<>>
      /\ handle \in {"none", "path", "away"}
  BY TypeParts, OptionFacts, StepEffect, KeptStep, Arrivals DEF Types, StoredOK, FilesOK, SizeInv
<1>1. SizeBounded'
  BY <1>0, SizeBoundedStep
<1>2. handle' = "path" => bytes' = Length(Current')
  BY <1>0, BytesStep
<1>3. ASSUME options.maxFileBytes > 0
      PROVE  /\ pc' = "detect_open" => Fresh(slot[0].records)'
             /\ (pc' \in {"decide", "append"} /\ handle' = "none") => Fresh(slot[0].records)'
             /\ pc' = "rotate_open" => Fresh(slot[0].records)'
             /\ (pc' = "append" /\ handle' = "path") =>
                    \/ Fresh(Current)'
                    \/ Length(Current') + pending'[1].size <= options.maxFileBytes
  <2>1. /\ pc = "detect_open" => Fresh(slot[0].records)
        /\ (pc \in {"decide", "append"} /\ handle = "none") => Fresh(slot[0].records)
        /\ pc = "rotate_open" => Fresh(slot[0].records)
        /\ (pc = "append" /\ handle = "path") =>
               \/ Fresh(Current)
               \/ Length(Current) + pending[1].size <= options.maxFileBytes
    BY <1>3 DEF SizeInv
  <2>2. pc \in {"detect_open", "rotate_open"} => handle = "none"
    BY <1>0 DEF PlaceOK, Control, ClosedAt
  <2>3. ASSUME Quiet, handle = "none", Fresh(slot[0].records) PROVE Fresh(slot[0].records)'
    BY <2>3, QuietFacts DEF Fresh
  <2>4. ASSUME pc' = "detect_open" PROVE Fresh(slot[0].records)'
    <3>1. CASE DetectExternalRotation /\ Moved
      <4>1. handle = "away" /\ slot[0].records = <<>>
        BY <1>0, <3>1 DEF Moved
      <4>2. slot' = slot
        BY <3>1, <4>1 DEF DetectExternalRotation, CloseFile, FlushBuffer
      <4>3. QED
        BY <4>1, <4>2 DEF Fresh
    <3>2. CASE Quiet /\ pc' = pc
      BY <2>1, <2>2, <2>3, <2>4, <3>2
    <3>3. QED
      BY <2>4, <3>1, <3>2, Arrivals
  <2>5. ASSUME pc' = "rotate_open" PROVE Fresh(slot[0].records)'
    <3>1. CASE (RotateRemove /\ options.maxFiles = 0) \/ RotateMove
      <4>1. slot'[0].records = <<>> \/ (slot' = slot /\ Ids(slot[0].records) \subseteq kept')
        BY <3>1, RotatedFacts
      <4>2. slot[0].records \in Records
        BY <1>0, SlotFacts
      <4>3. slot[0].records = <<>> \/ Ids(slot[0].records) # {}
        BY <4>2, MemberFacts DEF Ids
      <4>4. QED
        BY <4>1, <4>3 DEF Fresh
    <3>2. CASE Quiet /\ pc' = pc
      BY <2>1, <2>2, <2>3, <2>5, <3>2
    <3>3. QED
      BY <2>5, <3>1, <3>2, Arrivals
  <2>6. ASSUME pc' = "decide", handle' = "none" PROVE Fresh(slot[0].records)'
    <3>1. CASE DetectExternalRotation /\ ~Moved
      BY <1>0, <2>6, <3>1 DEF DetectExternalRotation, Goto, PlaceOK, Control
    <3>2. CASE DetectOpen
      BY <2>1, <3>2, OpeningFacts DEF DetectOpen, Goto, Fresh
    <3>3. CASE Quiet /\ pc' = pc
      BY <2>1, <2>3, <2>6, <3>3, QuietFacts
    <3>4. QED
      BY <2>6, <3>1, <3>2, <3>3, Arrivals
  <2>7. ASSUME pc' = "append", handle' = "none" PROVE Fresh(slot[0].records)'
    <3>1. CASE Decide
      BY <2>1, <2>7, <3>1 DEF Decide, Goto, fileVars, pastVars, Fresh
    <3>2. CASE RotateOpen
      BY <2>1, <3>2, OpeningFacts DEF RotateOpen, Goto, Fresh
    <3>3. CASE AppendOpen
      BY <2>7, <3>3, OpeningFacts
    <3>4. CASE Quiet /\ pc' = pc
      BY <2>1, <2>3, <2>7, <3>4, QuietFacts
    <3>5. QED
      BY <2>7, <3>1, <3>2, <3>3, <3>4, Arrivals
  <2>8. ASSUME pc' = "append", handle' = "path"
        PROVE  \/ Fresh(Current)'
               \/ Length(Current') + pending'[1].size <= options.maxFileBytes
    <3>1. CASE Decide
      <4>1. ~TooLong(pending[1]) /\ UNCHANGED <<slot, handle, buffer, pending>>
        BY <2>8, <3>1 DEF Decide, Goto, fileVars
      <4>2. handle = "path" /\ Current' = Current /\ pending' = pending
        BY <2>8, <4>1 DEF Current
      <4>3. /\ bytes \in Nat /\ options.maxFileBytes \in Nat
            /\ pending # <<>>
        BY <1>0, <3>1, TypeParts, OptionFacts DEF Types, CountsOK, PlaceOK, Decide, Goto
      <4>4. pending[1].size \in Nat
        BY <1>0, <4>3, PendingFacts, RecordFacts
      <4>5. bytes + pending[1].size <= options.maxFileBytes
        BY <1>3, <4>1, <4>3, <4>4 DEF TooLong
      <4>6. QED
        BY <1>0, <4>2, <4>5
    <3>2. CASE RotateOpen \/ AppendOpen
      BY <2>1, <2>8, <3>2, OpeningFacts DEF RotateOpen, AppendOpen, Goto, Fresh
    <3>3. CASE Quiet /\ pc' = pc
      BY <2>1, <2>8, <3>3, QuietFacts DEF Fresh
    <3>4. QED
      BY <2>8, <3>1, <3>2, <3>3, Arrivals
  <2>9. QED
    BY <2>4, <2>5, <2>6, <2>7, <2>8
<1>4. QED
  BY <1>0, <1>1, <1>2, <1>3 DEF SizeInv

LEMMA KeptInvariant == Spec => []KeptInv
<1>1. Init => KeptInv
  BY EmptyFacts DEF Init, KeptInv
<1>2. Types /\ OrderInv /\ KeptInv /\ [Next]_vars => KeptInv'
  BY StepEffect, KeptStep
<1>3. QED
  BY <1>1, <1>2, TypesInvariant, OrderInvariant, PTL DEF Spec

LEMMA SizeInvariant == Spec => []SizeInv
<1>1. Init => SizeInv
  <2>1. SUFFICES ASSUME Init PROVE SizeInv
    OBVIOUS
  <2>2. Configurations \subseteq Options /\ <<>> \o <<>> = <<>>
    BY RotatingFileSinkAssumption
  <2>3. options.maxFileBytes \in Nat
    BY <2>1, <2>2 DEF Init, Options
  <2>4. \A k \in 0 .. MaxSlots : slot[k].records = <<>>
    BY <2>1 DEF Init, NoFile
  <2>5. SizeBounded
    BY <2>1, <2>2, <2>3, <2>4, LengthFacts DEF Init, SizeBounded
  <2>6. QED
    BY <2>1, <2>5 DEF Init, SizeInv
<1>2. Types /\ Types' /\ OrderInv /\ KeptInv /\ SizeInv /\ [Next]_vars => SizeInv'
  BY SizeInvStep
<1>3. QED
  BY <1>1, <1>2, TypesInvariant, OrderInvariant, KeptInvariant, PTL DEF Spec

\* No file is longer than maxFileBytes but for one that holds a single record, whatever is
\* still in the buffer, and for one that a rotation could not rename or remove.
THEOREM FilesStayBounded == Spec => []SizeBounded
<1>1. SizeInv => SizeBounded
  BY DEF SizeInv
<1>2. QED
  BY <1>1, SizeInvariant, PTL

-----------------------------------------------------------------------------
(* The days of the files.                                                  *)

\* The record of Write, the day the sink believes in and the number of the process change
\* only where the invariant allows for it.
LEMMA DayFacts ==
    ASSUME Types, [Next]_vars
    PROVE  /\ Start \/ runs' = runs
           /\ pc' # "down" =>
                  \/ Start
                  \/ Decide
                  \/ /\ UNCHANGED <<dateKey, runs>> /\ pc # "down"
                     /\ pc \in RotatingAt => pc' \in RotatingAt \cup {"rotate_open"}
                                             /\ pending' = pending
           /\ pc' \in RotatingAt \cup {"append", "rotate_open"} =>
                  \/ Decide
                  \/ pending' = <<>>
                  \/ pc \in RotatingAt \cup {"append", "rotate_open"}
                     /\ UNCHANGED <<pending, dateKey>>
<1>0. pc \in {"down", "idle"} => pending = <<>>
  BY DEF Types, Control
<1> USE DEF Stop, Reopen, Flush, ForceRotate, BeginWrite, ReopenOpen, DetectExternalRotation,
            DetectOpen, AppendOpen, AppendRecord, AutoFlush, RotateClose, RotateRemove,
            RotateShift, RotateMove, RotateOpen, StdioFlush, Crash, MoveAway, CreateAgain,
            Midnight, Goto, AfterShift, AfterRotation, RotatingAt,
            sinkVars, callVars, worldVars, vars
<1>1. Start \/ runs' = runs
  BY DEF Next, Call, Continue, World, Decide
<1>2. pc' # "down" =>
          \/ Start
          \/ Decide
          \/ /\ UNCHANGED <<dateKey, runs>> /\ pc # "down"
             /\ pc \in RotatingAt => pc' \in RotatingAt \cup {"rotate_open"} /\ pending' = pending
  BY DEF Next, Call, Continue, World
<1>3. pc' \in RotatingAt \cup {"append", "rotate_open"} =>
          \/ Decide
          \/ pending' = <<>>
          \/ pc \in RotatingAt \cup {"append", "rotate_open"} /\ UNCHANGED <<pending, dateKey>>
  BY <1>0 DEF Next, Call, Continue, World, Start
<1>4. QED
  BY <1>1, <1>2, <1>3

LEMMA RunsStep ==
    ASSUME Types, Types', RunsInv, [Next]_vars
    PROVE  RunsInv' /\ \A r \in Members(Current) : r.run <= runs
<1>0. /\ StoredOK /\ PlaceOK /\ MaxSlots \in Nat /\ 0 \in 0 .. MaxSlots /\ Effect
      /\ buffer \in Records /\ pending \in Records
      /\ \A k \in 0 .. MaxSlots : slot[k].records \in Records
      /\ handle = "none" => buffer = <<>>
      /\ runs \in Nat
  <2>1. StoredOK /\ PlaceOK /\ CountsOK /\ MaxSlots \in Nat /\ Effect
    BY TypeParts, OptionFacts, StepEffect DEF Types
  <2>2. QED
    BY <2>1, SlotFacts, RotatingFileSinkAssumption DEF StoredOK, PlaceOK, CountsOK
<1>1. \A k \in 0 .. MaxSlots : \A r \in Members(Contents(k)) : r.run \in Nat /\ r.run <= runs
  <2>1. ASSUME NEW k \in 0 .. MaxSlots, NEW r \in Members(Contents(k))
        PROVE  r.run \in Nat /\ r.run <= runs
    <3>1. Members(slot[0].records \o buffer) = Members(slot[0].records) \cup Members(buffer)
      BY <1>0, ConcatFacts
    <3>2. Contents(k) = slot[k].records \/ (k = 0 /\ Contents(k) = slot[0].records \o buffer)
      BY ContentsFacts DEF Contents
    <3>3. r.run <= runs
      <4>1. CASE Contents(k) = slot[k].records
        BY <2>1, <4>1 DEF RunsInv
      <4>2. CASE Contents(k) = slot[0].records \o buffer
        <5>1. r \in Members(slot[0].records) \/ r \in Members(buffer)
          BY <2>1, <3>1, <4>2
        <5>2. QED
          BY <1>0, <5>1 DEF RunsInv
      <4>3. QED
        BY <3>2, <4>1, <4>2
    <3>4. Contents(k) \in Records /\ MaxRuns \in Nat
      BY ContentsFacts, RotatingFileSinkAssumption
    <3>5. r.run \in 1 .. MaxRuns
      BY <2>1, <3>4, MemberFacts, RecordFacts
    <3>6. QED
      BY <3>3, <3>4, <3>5
  <2>2. QED
    BY <2>1
<1>2. \A r \in Members(slot[0].records) : r.run \in Nat /\ r.run <= runs
  <2>1. \A r \in Members(slot[0].records) : r.run \in 1 .. MaxRuns /\ MaxRuns \in Nat
    BY <1>0, MemberFacts, RecordFacts, RotatingFileSinkAssumption
  <2>2. QED
    BY <1>0, <2>1 DEF RunsInv
<1>3. \A r \in Members(pending) : r.run = runs
  BY DEF RunsInv
<1>4. runs' \in Nat /\ runs <= runs'
  BY <1>0, DayFacts DEF Start
<1>5. \A k \in 0 .. MaxSlots : \A r \in Members(Contents(k)') : r.run \in Nat /\ r.run <= runs
  <2>1. Current \in Records
    BY <1>0, ContentsFacts DEF Contents
  <2>2. Members(Current \o pending) = Members(Current) \cup Members(pending)
    BY <1>0, <2>1, ConcatFacts
  <2>3. CASE Keeps \/ Shifts
    BY <1>1, <2>3, EmptyFacts DEF Keeps, Shifts
  <2>4. CASE Receives
    <3>1. \A r \in Members(Current') : r.run \in Nat /\ r.run <= runs
      BY <1>0, <1>1, <1>3, <2>2, <2>4 DEF Receives, Contents
    <3>2. QED
      BY <1>1, <2>4, <3>1 DEF Receives, Contents
  <2>5. CASE Loses
    BY <1>1, <1>2, <2>5 DEF Loses, Contents
  <2>6. QED
    BY <1>0, <2>3, <2>4, <2>5, ContentsStep
<1>6. ASSUME NEW k \in 0 .. MaxSlots, NEW r \in Members(slot'[k].records) PROVE r.run <= runs'
  <2>1. r.run \in Nat /\ r.run <= runs
    <3>1. CASE k = 0
      BY <1>0, <1>1, <1>2, <1>6, <3>1, ContentsStep, EmptyFacts DEF Contents
    <3>2. CASE k # 0
      BY <1>5, <1>6, <3>2 DEF Contents
    <3>3. QED
      BY <3>1, <3>2
  <2>2. QED
    BY <1>0, <1>4, <2>1
<1>7. \A r \in Members(buffer') \cup Members(pending') : r.run = runs'
  <2>1. CASE Start
    <3>1. buffer' = <<>> /\ pending' = <<>>
      BY <1>0, <2>1 DEF Start, Goto, PlaceOK, Control, ClosedAt
    <3>2. QED
      BY <3>1, EmptyFacts
  <2>2. CASE runs' = runs
    <3>1. Members(buffer') \subseteq Members(buffer) \cup Members(pending)
      BY <1>0, UnflushedStep
    <3>2. \A r \in Members(pending') : r.run = runs
      <4>1. CASE Accepts
        <5>1. PICK size \in Sizes :
                  pending' = <<[id |-> issued + 1, size |-> size, day |-> today, run |-> runs]>>
          BY <4>1 DEF Accepts
        <5> DEFINE record == [id |-> issued + 1, size |-> size, day |-> today, run |-> runs]
        <5>2. record.run = runs /\ pending' = <<record>>
          BY <5>1
        <5> HIDE DEF record
        <5>3. Members(<<record>>) = {record}
          BY DEF Members
        <5>4. QED
          BY <5>2, <5>3
      <4>2. CASE pending' \in {pending, <<>>}
        BY <1>3, <4>2, EmptyFacts
      <4>3. QED
        BY <1>0, <4>1, <4>2
           DEF Effect, Waits, Rejects, GivesUp, AppendRecord, Crash, MoveAway, CreateAgain,
               callVars
    <3>3. QED
      BY <2>2, <3>1, <3>2 DEF RunsInv
  <2>3. QED
    BY <2>1, <2>2, DayFacts
<1>8. QED
  BY <1>0, <1>1, <1>6, <1>7 DEF RunsInv, Contents

LEMMA DayInvStep ==
    ASSUME Types, Types', OrderInv, KeptInv, RunsInv, RunsInv', DayInv, [Next]_vars
    PROVE  DayInv'
<1>0. /\ StoredOK /\ PlaceOK /\ MaxSlots \in Nat /\ 0 \in 0 .. MaxSlots /\ Effect
      /\ options' = options /\ kept \subseteq kept' /\ runs \in Nat
      /\ pending \in Records
  <2>1. StoredOK /\ PlaceOK /\ CountsOK /\ MaxSlots \in Nat /\ Effect
    BY TypeParts, OptionFacts, StepEffect DEF Types
  <2>2. QED
    BY <2>1, SlotFacts, KeptStep, Arrivals, RotatingFileSinkAssumption
       DEF StoredOK, PlaceOK, CountsOK
<1>1. SUFFICES ASSUME options.rotateDailyLocal, options.maxFileBytes = 0
               PROVE  /\ \A k \in 0 .. MaxSlots : OneDay(slot[k].records)'
                      /\ OneDay(Current)'
                      /\ (pc' # "down" /\ (pc' \in RotatingAt => pending' = <<>>)) =>
                             OfDateKey(Current)'
                      /\ (pc' \in RotatingAt \cup {"append", "rotate_open"} /\ pending' # <<>>) =>
                             pending'[1].day = dateKey'
  BY <1>0 DEF DayInv
<1>2. /\ \A k \in 0 .. MaxSlots : OneDay(slot[k].records)
      /\ \A k \in 0 .. MaxSlots : OneDay(Contents(k))
      /\ (pc # "down" /\ (pc \in RotatingAt => pending = <<>>)) => OfDateKey(Current)
      /\ (pc \in RotatingAt \cup {"append", "rotate_open"} /\ pending # <<>>) =>
             pending[1].day = dateKey
  BY <1>1 DEF DayInv, Contents
<1>3. Current \in Records /\ Members(Current \o pending) = Members(Current) \cup Members(pending)
      /\ \A r \in Members(Current) : r.run \in Nat /\ r.run <= runs /\ r.day # -1
  <2>1. Current \in Records
    BY <1>0, ContentsFacts DEF Contents
  <2>2. MaxRuns \in Nat /\ MaxDays \in Nat
    BY RotatingFileSinkAssumption
  <2>3. \A r \in Members(Current) : r.run \in Nat /\ r.day # -1
    BY <2>1, <2>2, MemberFacts, RecordFacts
  <2>4. QED
    BY <1>0, <2>1, <2>3, ConcatFacts, RunsStep
<1>4. Receives => /\ pending # <<>> /\ Members(pending) = {pending[1]}
                  /\ pending[1].day = dateKey /\ pending[1].run = runs
                  /\ OfDateKey(Current) /\ kept' = kept
                  /\ dateKey' = dateKey /\ runs' = runs
  <2>1. SUFFICES ASSUME Receives PROVE
                  /\ pending # <<>> /\ Members(pending) = {pending[1]}
                  /\ pending[1].day = dateKey /\ pending[1].run = runs
                  /\ OfDateKey(Current) /\ kept' = kept
                  /\ dateKey' = dateKey /\ runs' = runs
    OBVIOUS
  <2>2. pc = "append" /\ kept' = kept /\ dateKey' = dateKey /\ runs' = runs
    BY <2>1 DEF Receives, AppendRecord, Goto, pastVars, worldVars
  <2>3. pending # <<>> /\ Members(pending) = {pending[1]}
    BY <1>0, <2>2, PendingFacts DEF PlaceOK
  <2>4. pending[1].run = runs
    BY <2>3 DEF RunsInv
  <2>5. QED
    BY <1>2, <2>2, <2>3, <2>4 DEF RotatingAt
<1>5. ASSUME Receives
      PROVE  /\ \A r \in Members(Current \o pending) : r.run = runs /\ r.id \notin kept => r.day = dateKey
             /\ \A r, q \in Members(Current \o pending) :
                    r.run = q.run /\ {r.id, q.id} \cap kept' = {} => r.day = q.day
  <2>1. \A r \in Members(Current) : r.run = runs /\ r.id \notin kept => r.day = dateKey
    BY <1>4, <1>5 DEF OfDateKey
  <2>2. \A r, q \in Members(Current) : r.run = q.run /\ {r.id, q.id} \cap kept = {} => r.day = q.day
    BY <1>0, <1>2 DEF OneDay, Contents
  <2>3. \A r \in Members(Current \o pending) : r \in Members(Current) \/ r = pending[1]
    BY <1>3, <1>4, <1>5
  <2>4. \A r \in Members(Current \o pending) : r.run = runs /\ r.id \notin kept => r.day = dateKey
    BY <1>4, <1>5, <2>1, <2>3
  <2>5. ASSUME NEW r \in Members(Current \o pending), NEW q \in Members(Current \o pending),
               r.run = q.run, {r.id, q.id} \cap kept' = {}
        PROVE  r.day = q.day
    <3>1. CASE r \in Members(Current) /\ q \in Members(Current)
      BY <1>4, <1>5, <2>2, <2>5, <3>1
    <3>2. CASE r = pending[1] \/ q = pending[1]
      BY <1>4, <1>5, <2>4, <2>5, <3>2
    <3>3. QED
      BY <2>3, <3>1, <3>2
  <2>6. QED
    BY <2>4, <2>5
<1>6. \A k \in 0 .. MaxSlots : OneDay(Contents(k))'
  <2>1. CASE Keeps
    BY <1>0, <1>2, <2>1, EmptyFacts DEF Keeps, OneDay
  <2>2. CASE Shifts
    BY <1>0, <1>2, <2>2, EmptyFacts DEF Shifts, OneDay
  <2>3. CASE Receives
    <3>1. OneDay(Current)'
      BY <1>5, <2>3 DEF Receives, OneDay
    <3>2. \A k \in 0 .. MaxSlots : k # 0 => OneDay(Contents(k))'
      BY <1>0, <1>2, <2>3 DEF Receives, OneDay
    <3>3. QED
      BY <3>1, <3>2 DEF Contents
  <2>4. CASE Loses
    BY <1>0, <1>2, <2>4 DEF Loses, OneDay, Contents
  <2>5. QED
    BY <1>0, <2>1, <2>2, <2>3, <2>4, ContentsStep
<1>7. ASSUME NEW k \in 0 .. MaxSlots PROVE OneDay(slot[k].records)'
  <2>1. CASE k = 0
    BY <1>0, <1>2, <2>1, ContentsStep, EmptyFacts DEF OneDay, Contents
  <2>2. CASE k # 0
    BY <1>6, <2>2 DEF Contents
  <2>3. QED
    BY <2>1, <2>2
<1>8. ASSUME pc' # "down", pc' \in RotatingAt => pending' = <<>>
      PROVE  OfDateKey(Current)'
  <2>1. CASE Start
    <3>1. runs' = runs + 1 /\ buffer' = <<>>
      BY <1>0, <2>1 DEF Start, Goto, PlaceOK, Control, ClosedAt, StoredOK
    <3>2. Members(Current') \subseteq Members(Current)
      <4>1. Current' = slot'[0].records /\ Current = slot[0].records
        BY <1>0, <2>1, <3>1, ContentsFacts DEF Start, Goto, PlaceOK, Control, ClosedAt
      <4>2. QED
        BY <1>0, <4>1, ContentsStep, EmptyFacts
    <3>3. \A r \in Members(Current') : r.run # runs'
      BY <1>0, <1>3, <3>1, <3>2
    <3>4. QED
      BY <3>3 DEF OfDateKey
  <2>2. CASE Decide
    <3>1. /\ pc = "decide" /\ UNCHANGED <<slot, handle, buffer, runs, kept, pending>>
          /\ dateKey' = pending[1].day
          /\ pc' = IF NewDay(pending[1]) THEN "rotate" ELSE "append"
      BY <1>1, <2>2 DEF Decide, Goto, fileVars, worldVars, pastVars, TooLong
    <3>2. pending # <<>>
      BY <1>0, <3>1 DEF PlaceOK
    <3>3. ~NewDay(pending[1])
      BY <1>8, <3>1, <3>2 DEF RotatingAt
    <3>4. dateKey = -1 \/ dateKey' = dateKey
      BY <1>1, <3>1, <3>3 DEF NewDay
    <3>5. OfDateKey(Current) /\ Current' = Current
      BY <1>2, <3>1 DEF RotatingAt, Current
    <3>6. CASE dateKey = -1
      BY <1>3, <3>1, <3>5, <3>6 DEF OfDateKey
    <3>7. CASE dateKey' = dateKey
      BY <3>1, <3>5, <3>7 DEF OfDateKey
    <3>8. QED
      BY <3>4, <3>6, <3>7
  <2>3. CASE /\ UNCHANGED <<dateKey, runs>> /\ pc # "down"
             /\ pc \in RotatingAt => pc' \in RotatingAt \cup {"rotate_open"} /\ pending' = pending
    <3>1. CASE pc \in RotatingAt => pending = <<>>
      <4>1. \A r \in Members(Current) : r.run = runs /\ r.id \notin kept => r.day = dateKey
        BY <1>2, <2>3, <3>1 DEF OfDateKey
      <4>2. Current' \in {Current, <<>>} \/ (Receives /\ Current' = Current \o pending)
        <5>1. ~Loses
          BY <1>8 DEF Loses, Crash
        <5>2. Contents(0)' = Current' /\ Contents(0) = Current
          BY DEF Contents
        <5>3. Shifts => Current' \in {Current, <<>>}
          BY <1>0, <5>2 DEF Shifts
        <5>4. QED
          BY <1>0, <5>1, <5>2, <5>3, ContentsStep DEF Keeps, Receives
      <4>3. CASE Current' \in {Current, <<>>}
        BY <1>0, <2>3, <4>1, <4>3, EmptyFacts DEF OfDateKey
      <4>4. CASE Receives /\ Current' = Current \o pending
        BY <1>4, <1>5, <4>4 DEF OfDateKey
      <4>5. QED
        BY <4>2, <4>3, <4>4
    <3>2. CASE pc \in RotatingAt /\ pending # <<>>
      <4>1. pc' = "rotate_open"
        BY <1>8, <2>3, <3>2
      <4>2. (RotateRemove /\ options.maxFiles = 0) \/ RotateMove
        BY <3>2, <4>1, Arrivals DEF RotatingAt
      <4>3. slot'[0].records = <<>> \/ (slot' = slot /\ Ids(slot[0].records) \subseteq kept')
        BY <4>2, RotatedFacts
      <4>4. handle' = "none"
        BY <4>1, TypeParts DEF Types, Control, ClosedAt
      <4>5. Current' = slot'[0].records
        BY <4>4, ContentsFacts
      <4>6. \A r \in Members(Current') : r.id \in kept'
        BY <4>3, <4>5, EmptyFacts DEF Ids
      <4>7. QED
        BY <4>6 DEF OfDateKey
    <3>3. QED
      BY <3>1, <3>2
  <2>4. QED
    BY <1>8, <2>1, <2>2, <2>3, DayFacts
<1>9. ASSUME pc' \in RotatingAt \cup {"append", "rotate_open"}, pending' # <<>>
      PROVE  pending'[1].day = dateKey'
  <2>1. CASE Decide
    BY <1>1, <2>1 DEF Decide, Goto, TooLong
  <2>2. CASE pc \in RotatingAt \cup {"append", "rotate_open"} /\ UNCHANGED <<pending, dateKey>>
    BY <1>2, <1>9, <2>2
  <2>3. QED
    BY <1>9, <2>1, <2>2, DayFacts
<1>10. QED
  BY <1>0, <1>6, <1>7, <1>8, <1>9 DEF Contents

LEMMA RunsInvariant == Spec => []RunsInv
<1>1. Init => RunsInv
  BY EmptyFacts DEF Init, NoFile, RunsInv
<1>2. Types /\ Types' /\ RunsInv /\ [Next]_vars => RunsInv'
  BY RunsStep
<1>3. QED
  BY <1>1, <1>2, TypesInvariant, PTL DEF Spec

LEMMA DayInvariant == Spec => []DayInv
<1>1. Init => DayInv
  <2>1. SUFFICES ASSUME Init PROVE DayInv
    OBVIOUS
  <2>2. \A k \in 0 .. MaxSlots : slot[k].records = <<>>
    BY <2>1 DEF Init, NoFile
  <2>3. \A s \in {<<>>} : s \o <<>> = <<>>
    OBVIOUS
  <2>4. Current = <<>>
    BY <2>1, <2>2, <2>3, RotatingFileSinkAssumption DEF Init, Current
  <2>5. QED
    BY <2>1, <2>2, <2>4, EmptyFacts DEF Init, DayInv, OneDay
<1>2. Types /\ Types' /\ OrderInv /\ KeptInv /\ RunsInv /\ RunsInv' /\ DayInv /\ [Next]_vars
      => DayInv'
  BY DayInvStep
<1>3. QED
  BY <1>1, <1>2, TypesInvariant, OrderInvariant, KeptInvariant, RunsInvariant, PTL DEF Spec

\* Without a limit on the size, the records that one process writes into one file are of
\* one local day, but for those of a file that a rotation could not rename.
THEOREM OneDayPerFileHolds == Spec => []OneDayPerFileWithoutLimit
<1>1. DayInv => OneDayPerFileWithoutLimit
  BY DEF DayInv, OneDay, OneDayPerFileWithoutLimit, OneDayPerFile
<1>2. QED
  BY <1>1, DayInvariant, PTL
=============================================================================
