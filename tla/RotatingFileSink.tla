--------------------------- MODULE RotatingFileSink ---------------------------
(***************************************************************************)
(* RotatingFileSink (include/NGIN/Log/Sinks/RotatingFileSink.hpp,          *)
(* src/NGIN/Log/Sinks/RotatingFileSink.cpp) over a file system that other  *)
(* processes use too, in a process that may crash and start again.         *)
(*                                                                         *)
(* m_mutex serialises the operations, so one operation runs at a time; but *)
(* a crash, or a tool that moves the log file away, can come between two   *)
(* of its calls into the file system.  pc is the next such call.           *)
(*                                                                         *)
(* The record with number n is [id |-> n, size, day, run]: its length once *)
(* formatted, its local day and the process that wrote it.  Time does not  *)
(* go backwards.  A file is the sequence of its records; slot 0 is         *)
(* m_options.path and slot k is path.k.                                    *)
(***************************************************************************)
EXTENDS Integers, Sequences

CONSTANTS
    Configurations,   \* the RotatingFileSinkOptions the process may be given
    MaxSlots,         \* bound on maxFiles
    Sizes,            \* lengths of formatted records
    MaxRecords,       \* bound on the Write calls, over all runs
    MaxDays,          \* bound on the days
    MaxRuns,          \* bound on the times the process starts
    OpenMayFail,      \* may fopen fail?
    MaxMishaps        \* bound on the times a tool moves the log file away and the calls
                      \* of rename and remove that fail, together

Options ==
    [append : BOOLEAN, autoFlush : BOOLEAN, maxFileBytes : Nat, maxFiles : 0 .. MaxSlots,
     rotateAtStartup : BOOLEAN, rotateDailyLocal : BOOLEAN, detectExternalRotation : BOOLEAN]

ASSUME RotatingFileSinkAssumption ==
    /\ MaxSlots \in Nat /\ Configurations \subseteq Options
    /\ Sizes \subseteq Nat \ {0}
    /\ MaxRecords \in Nat /\ MaxDays \in Nat \ {0} /\ MaxRuns \in Nat
    /\ OpenMayFail \in BOOLEAN /\ MaxMishaps \in Nat

VARIABLES
    options,   \* m_options, the same in every run of the process
    slot,      \* slot[k]: the file of that name, or NoFile
    away,      \* the numbers of the records in files that a tool has moved away
    handle,    \* m_file: "none", "path", or "away" when its file has been moved
    buffer,    \* the records in the buffer of m_file
    bytes,     \* m_currentFileBytes
    dateKey,   \* m_lastLocalDateKey
    pc,        \* the next call of the operation that runs, "idle", or "down"
    index,     \* index, the local variable of RotateLocked
    pending,   \* the record Write is about to append, as a sequence of at most one
    issued,    \* the number of Write calls
    today,     \* the local day
    runs,      \* the number of times the process has started
    moves,     \* the number of times a tool has moved the log file away
    lost,      \* history: the numbers of the records that were in a file deleted,
               \* replaced or truncated
    durable,   \* history: the number of the last record covered by a flush
    crashed,   \* history: the numbers of the records that were in a buffer, or about
               \* to be, when the process crashed
    givenUp,   \* history: the numbers of the records that Write gave up, the path
               \* could not be opened
    faults,    \* the number of calls of rename and remove that have failed
    kept       \* history: the numbers of the records in a file that a rotation
               \* could not rename or remove

fileVars  == <<slot, away>>
sinkVars  == <<handle, buffer, bytes, dateKey>>
callVars  == <<pc, index, pending>>
worldVars == <<today, runs, moves>>
pastVars  == <<lost, durable, crashed, givenUp, faults, kept>>
vars == <<options, fileVars, sinkVars, callVars, issued, worldVars, pastVars>>

-----------------------------------------------------------------------------
NoFile == [exists |-> FALSE, records |-> <<>>]
File(s) == [exists |-> TRUE, records |-> s]

Members(s) == {s[i] : i \in 1 .. Len(s)}
Ids(s) == {r.id : r \in Members(s)}

\* The length of a file of at most MaxRecords records.
Length(s) ==
    LET sum[n \in 0 .. Len(s)] == IF n = 0 THEN 0 ELSE sum[n - 1] + s[n].size
    IN  sum[Len(s)]

\* The file that m_file writes to receives what its buffer held.
FlushBufferNot == UNCHANGED <<slot, away, buffer>>
FlushBuffer ==
    /\ buffer' = <<>>
    /\ slot' = IF handle = "path"
               THEN [slot EXCEPT ![0].records = @ \o buffer] ELSE slot
    /\ away' = IF handle = "away" THEN away \cup Ids(buffer) ELSE away

\* CloseFileLocked: fflush, fclose.
CloseFile == FlushBuffer /\ handle' = "none"

\* OpenFileLocked: fopen with "ab" or "wb", then the size the path has and the identity
\* of the file, in one step.  A tool that moved the file between these calls would leave
\* m_currentFileBytes 0 for a file that the path no longer names.
OpenFile ==
    LET contents == IF options.append THEN slot[0].records ELSE <<>>
    IN  /\ handle' = "path"
        /\ slot' = [slot EXCEPT ![0] = File(contents)]
        /\ bytes' = Length(contents)
        /\ lost' = IF options.append THEN lost ELSE lost \cup Ids(slot[0].records)

OpenFails ==
    /\ OpenMayFail
    /\ handle' = "none"
    /\ UNCHANGED <<slot, bytes, lost>>

\* Only the beginning of a Write counts a record, and no step changes the options.
Goto(from, to) == pc = from /\ pc' = to /\ UNCHANGED <<options, issued>>

-----------------------------------------------------------------------------
(* The constructor, the destructor, Reopen, Flush, ForceRotate.            *)

Start ==
    /\ Goto("down", IF options.rotateAtStartup THEN "rotate" ELSE "idle")
    /\ runs < MaxRuns /\ runs' = runs + 1
    /\ OpenFile \/ OpenFails
    /\ UNCHANGED <<away, buffer, dateKey, index, pending, today, moves, durable,
                   crashed, givenUp, faults, kept>>

Stop ==
    /\ Goto("idle", "down")
    /\ CloseFile
    /\ bytes' = 0 /\ dateKey' = -1
    /\ UNCHANGED <<index, pending, worldVars, pastVars>>

\* Reopen closes the file...
Reopen ==
    /\ Goto("idle", "reopen")
    /\ CloseFile
    /\ UNCHANGED <<bytes, dateKey, index, pending, worldVars, pastVars>>

\* ... and opens it again.
ReopenOpen ==
    /\ Goto("reopen", "idle")
    /\ OpenFile \/ OpenFails
    /\ UNCHANGED <<away, buffer, dateKey, index, pending, worldVars, durable, crashed,
                   givenUp, faults, kept>>

Flush ==
    /\ pc = "idle"
    /\ FlushBuffer
    /\ durable' = issued
    /\ UNCHANGED <<options, handle, bytes, dateKey, callVars, issued, worldVars, lost,
                   crashed, givenUp, faults, kept>>

ForceRotate ==
    /\ Goto("idle", "rotate")
    /\ UNCHANGED <<fileVars, sinkVars, index, pending, worldVars, pastVars>>

-----------------------------------------------------------------------------
(* Write.                                                                  *)

\* The record is formatted and the file opened when it is not: else the record is lost.
BeginWrite(size) ==
    LET record == [id |-> issued + 1, size |-> size, day |-> today, run |-> runs]
    IN  /\ pc = "idle" /\ issued < MaxRecords
        /\ issued' = issued + 1
        /\ \/ /\ handle # "none"
              /\ pc' = "detect" /\ pending' = <<record>>
              /\ UNCHANGED <<slot, handle, bytes, lost, givenUp>>
           \/ /\ handle = "none" /\ OpenFile
              /\ pc' = "detect" /\ pending' = <<record>>
              /\ UNCHANGED givenUp
           \/ /\ handle = "none" /\ OpenFails
              /\ givenUp' = givenUp \cup {record.id}
              /\ UNCHANGED <<pc, pending>>
        /\ UNCHANGED <<options, away, buffer, dateKey, index, worldVars, durable, crashed,
                       faults, kept>>

\* DetectExternalRotationLocked: the path names another file than the one that is open.
\* When the path names none, the sink goes on writing to the one that is open.
Moved == options.detectExternalRotation /\ handle = "away" /\ slot[0].exists

DetectExternalRotation ==
    /\ Goto("detect", IF Moved THEN "detect_open" ELSE "decide")
    /\ IF Moved THEN CloseFile ELSE UNCHANGED <<fileVars, handle, buffer>>
    /\ UNCHANGED <<bytes, dateKey, index, pending, worldVars, pastVars>>

DetectOpen ==
    /\ Goto("detect_open", "decide")
    /\ OpenFile \/ OpenFails
    /\ UNCHANGED <<away, buffer, dateKey, index, pending, worldVars, durable, crashed,
                   givenUp, faults, kept>>

\* The size is looked at first: when it calls for a rotation the date is not looked at,
\* and m_lastLocalDateKey stays as it is.
TooLongAlready(record) ==
    options.maxFileBytes > 0 /\ bytes > options.maxFileBytes
TooLong(record) ==
    options.maxFileBytes > 0 /\ bytes + record.size > options.maxFileBytes

NoNewDay(record) == FALSE
NewDay(record) == options.rotateDailyLocal /\ dateKey # -1 /\ dateKey # record.day

Decide ==
    /\ Goto("decide", IF TooLong(pending[1]) \/ NewDay(pending[1]) THEN "rotate" ELSE "append")
    /\ dateKey' = IF ~TooLong(pending[1]) /\ options.rotateDailyLocal
                  THEN pending[1].day ELSE dateKey
    /\ UNCHANGED <<fileVars, handle, buffer, bytes, index, pending, worldVars,
                   pastVars>>

\* A rotation may have failed to open the file: it is tried again.
AppendOpen ==
    /\ pc = "append" /\ handle = "none"
    /\ \/ /\ OpenFile /\ UNCHANGED <<pc, pending, givenUp>>
       \/ /\ OpenFails /\ pc' = "idle" /\ pending' = <<>>
          /\ givenUp' = givenUp \cup Ids(pending)
    /\ UNCHANGED <<options, away, buffer, dateKey, index, issued, worldVars, durable,
                   crashed, faults, kept>>

\* fwrite into the buffer...
AppendRecord ==
    /\ handle # "none"
    /\ Goto("append", IF options.autoFlush THEN "flush" ELSE "idle")
    /\ buffer' = buffer \o pending
    /\ bytes' = bytes + pending[1].size
    /\ pending' = <<>>
    /\ UNCHANGED <<fileVars, handle, dateKey, index, worldVars, pastVars>>

\* ... and fflush.
AutoFlush ==
    /\ Goto("flush", "idle")
    /\ FlushBuffer
    /\ durable' = issued
    /\ UNCHANGED <<handle, bytes, dateKey, index, pending, worldVars, lost, crashed,
                   givenUp, faults, kept>>

-----------------------------------------------------------------------------
(* RotateLocked.                                                           *)

\* CloseFileLocked; then the oldest file, or with maxFiles = 0 the only one, is removed.
RotateClose ==
    /\ Goto("rotate", "remove")
    /\ CloseFile
    /\ UNCHANGED <<bytes, dateKey, index, pending, worldVars, pastVars>>

\* What remove and rename do.  A name that rename gives a file names no other any more.
Remove(k) ==
    /\ slot' = [slot EXCEPT ![k] = NoFile]
    /\ lost' = lost \cup Ids(slot[k].records)
    /\ UNCHANGED <<faults, kept>>

CopyFile(from, to) ==
    /\ slot' = IF slot[from].exists THEN [slot EXCEPT ![to] = slot[from]] ELSE slot
    /\ lost' = IF slot[from].exists THEN lost \cup Ids(slot[to].records) ELSE lost
    /\ UNCHANGED <<faults, kept>>
Rename(from, to) ==
    /\ slot' = IF slot[from].exists
               THEN [slot EXCEPT ![to] = slot[from], ![from] = NoFile] ELSE slot
    /\ lost' = IF slot[from].exists THEN lost \cup Ids(slot[to].records) ELSE lost
    /\ UNCHANGED <<faults, kept>>

\* They fail, which nobody notices: the error codes are dropped and the rotation goes on.
Stays(k) ==
    /\ slot[k].exists
    /\ moves + faults < MaxMishaps /\ faults' = faults + 1
    /\ kept' = kept \cup Ids(slot[k].records)
    /\ UNCHANGED <<slot, lost>>

RotateRemove ==
    /\ Goto("remove", IF options.maxFiles = 0 THEN "rotate_open"
                      ELSE IF options.maxFiles > 1 THEN "shift" ELSE "move")
    /\ index' = options.maxFiles
    /\ Remove(options.maxFiles) \/ Stays(options.maxFiles)
    /\ UNCHANGED <<away, sinkVars, pending, worldVars, durable, crashed, givenUp>>

AfterShiftTooEarly == IF index > 3 THEN "shift" ELSE "move"
AfterShift == IF index > 2 THEN "shift" ELSE "move"

RotateShift ==
    /\ Goto("shift", AfterShift)
    /\ index' = index - 1
    /\ Rename(index - 1, index) \/ Stays(index - 1)
    /\ UNCHANGED <<away, sinkVars, pending, worldVars, durable, crashed, givenUp>>

RotateMove ==
    /\ Goto("move", "rotate_open")
    /\ index' = 0
    /\ Rename(0, 1) \/ Stays(0)
    /\ UNCHANGED <<away, sinkVars, pending, worldVars, durable, crashed, givenUp>>

\* Back to Write when it was Write that rotated.
AfterRotationEnds == "idle"
AfterRotation == IF pending = <<>> THEN "idle" ELSE "append"

RotateOpen ==
    /\ Goto("rotate_open", AfterRotation)
    /\ \/ OpenFile
       \/ /\ OpenMayFail
          /\ handle' = "none" /\ bytes' = 0
          /\ UNCHANGED <<slot, lost>>
    /\ UNCHANGED <<away, buffer, dateKey, index, pending, worldVars, durable, crashed,
                   givenUp, faults, kept>>

-----------------------------------------------------------------------------
(* The world around.                                                       *)

\* stdio may write its buffer out at any time.
StdioFlush ==
    /\ buffer # <<>>
    /\ FlushBuffer
    /\ UNCHANGED <<options, handle, bytes, dateKey, callVars, issued, worldVars,
                   pastVars>>

Crash ==
    /\ pc # "down"
    /\ pc' = "down" /\ index' = 0 /\ pending' = <<>>
    /\ handle' = "none" /\ buffer' = <<>> /\ bytes' = 0 /\ dateKey' = -1
    /\ crashed' = crashed \cup Ids(buffer \o pending)
    /\ UNCHANGED <<options, fileVars, issued, worldVars, lost, durable, givenUp, faults,
                   kept>>

\* A tool moves the log file away, or creates it again.
MoveAway ==
    /\ moves + faults < MaxMishaps /\ slot[0].exists
    /\ moves' = moves + 1
    /\ away' = away \cup Ids(slot[0].records)
    /\ slot' = [slot EXCEPT ![0] = NoFile]
    /\ handle' = IF handle = "path" THEN "away" ELSE handle
    /\ UNCHANGED <<options, buffer, bytes, dateKey, callVars, issued, today, runs,
                   pastVars>>

CreateAgain ==
    /\ moves > 0 /\ ~slot[0].exists
    /\ slot' = [slot EXCEPT ![0] = File(<<>>)]
    /\ UNCHANGED <<options, away, sinkVars, callVars, issued, worldVars, pastVars>>

\* Nobody asks for the day unless m_options.rotateDailyLocal is set.
Midnight ==
    /\ options.rotateDailyLocal /\ today < MaxDays
    /\ today' = today + 1
    /\ UNCHANGED <<options, fileVars, sinkVars, callVars, issued, runs, moves,
                   pastVars>>

-----------------------------------------------------------------------------
Init ==
    /\ options \in Configurations
    /\ slot = [k \in 0 .. MaxSlots |-> NoFile] /\ away = {}
    /\ handle = "none" /\ buffer = <<>> /\ bytes = 0 /\ dateKey = -1
    /\ pc = "down" /\ index = 0 /\ pending = <<>>
    /\ issued = 0 /\ today = 1 /\ runs = 0 /\ moves = 0
    /\ lost = {} /\ durable = 0 /\ crashed = {} /\ givenUp = {}
    /\ faults = 0 /\ kept = {}

Call ==
    \/ Stop \/ Reopen \/ Flush \/ ForceRotate
    \/ \E size \in Sizes : BeginWrite(size)

Continue ==
    \/ ReopenOpen \/ DetectExternalRotation \/ DetectOpen \/ Decide
    \/ AppendOpen \/ AppendRecord \/ AutoFlush
    \/ RotateClose \/ RotateRemove \/ RotateShift \/ RotateMove \/ RotateOpen

World == StdioFlush \/ Crash \/ MoveAway \/ CreateAgain \/ Midnight

Next == Start \/ Call \/ Continue \/ World

Spec == Init /\ [][Next]_vars

-----------------------------------------------------------------------------
RecordType == [id : 1 .. MaxRecords, size : Sizes, day : 1 .. MaxDays, run : 1 .. MaxRuns]

Locations ==
    {"down", "idle", "reopen", "detect", "detect_open", "decide", "append", "flush",
     "rotate", "remove", "shift", "move", "rotate_open"}

\* Every variable has its type; Write holds a record exactly while it has one to append,
\* and only an open file has a buffer.
TypeOK ==
    /\ options \in Options
    /\ slot \in [0 .. MaxSlots -> [exists : BOOLEAN, records : Seq(RecordType)]]
    /\ handle \in {"none", "path", "away"}
    /\ buffer \in Seq(RecordType) /\ (buffer # <<>> => handle # "none")
    /\ bytes \in Nat /\ dateKey \in {-1} \cup 1 .. MaxDays
    /\ pc \in Locations /\ index \in 0 .. MaxSlots
    /\ pending \in Seq(RecordType) /\ Len(pending) <= 1
    /\ pc \in {"detect", "detect_open", "decide", "append"} => pending # <<>>
    /\ issued \in 0 .. MaxRecords /\ durable \in 0 .. issued
    /\ today \in 1 .. MaxDays /\ runs \in 0 .. MaxRuns /\ moves \in Nat
    /\ faults \in Nat /\ moves + faults <= MaxMishaps
    /\ away \cup lost \cup crashed \cup givenUp \cup kept \subseteq 1 .. MaxRecords

Ascending(s) == \A i, j \in 1 .. Len(s) : i < j => s[i].id < s[j].id
Before(s, t) == \A r \in Members(s), q \in Members(t) : r.id < q.id

OnDisk == UNION {Ids(slot[k].records) : k \in 0 .. MaxSlots}

\* Read from the highest number down to the path itself, the files give the records in
\* the order they were written and none twice, although a rotation may have been cut
\* short by a crash and taken up by another process, found the file moved away, or not
\* been able to rename or remove some of the files.
FilesInOrder ==
    /\ \A k \in 0 .. MaxSlots : Ascending(slot[k].records) /\ Before(slot[k].records, buffer)
    /\ \A k, l \in 0 .. MaxSlots : k < l => Before(slot[l].records, slot[k].records)
    /\ Ascending(buffer)

\* No file is longer than maxFileBytes but for one that holds a single record ("rotation
\* keeps file growth bounded", docs/Production.md:31), whatever is still in the buffer, and
\* for one that a rotation could not rename or remove, which the sink goes on filling.
SizeBounded ==
    options.maxFileBytes > 0 =>
        \A k \in 0 .. MaxSlots :
            LET file == slot[k].records \o (IF k = 0 /\ handle = "path" THEN buffer ELSE <<>>)
            IN  \/ Length(file) <= options.maxFileBytes
                \/ Len(file) = 1
                \/ Ids(file) \cap kept # {}

\* Every record is in a file of the sink, in a buffer, about to be written, in a file
\* that was moved away or in one that was deleted, or a crash took it, or Write gave it
\* up because the path could not be opened: a record has no other way out.
RecordsAccounted ==
    1 .. issued = OnDisk \cup Ids(buffer) \cup Ids(pending) \cup away \cup lost
                  \cup crashed \cup givenUp

\* The records that one process writes into one file are of one local day ("rotates by
\* size and/or local-day boundary", docs/Sinks.md:77), but for those of a file that a
\* rotation could not rename.
OneDayPerFile ==
    options.rotateDailyLocal =>
        \A k \in 0 .. MaxSlots : \A r, q \in Members(slot[k].records) :
            r.run = q.run /\ {r.id, q.id} \cap kept = {} => r.day = q.day

\* It is so when no limit on the size keeps Write from looking at the date.
OneDayPerFileWithoutLimit == options.maxFileBytes = 0 => OneDayPerFile

\* With append, what a step deletes or replaces was in the file with the highest number,
\* whatever an interrupted rotation has left, or in one that could not be renamed: the
\* error that RotateLocked drops costs that file and no other.
OnlyOldestExpires ==
    [][options.append => lost' \ lost \subseteq Ids(slot[options.maxFiles].records) \cup kept]_vars

\* A crash takes no record that a flush has covered.
FlushedSurvives == [][\A n \in crashed' \ crashed : n > durable]_vars
=============================================================================
