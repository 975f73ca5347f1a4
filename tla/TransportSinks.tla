--------------------------- MODULE TransportSinks ---------------------------
(***************************************************************************)
(* FileSink and ConsoleSink (src/NGIN/Log/Sinks/FileSink.cpp and           *)
(* ConsoleSink.cpp) that share one TextRecordFormatter, in a process that  *)
(* may crash and start again while tools move the log file away.           *)
(*                                                                         *)
(* A thread that is in Write holds the m_mutex of the sink; its steps in   *)
(* there are the fill of the formatter's timestamp cache, the append of    *)
(* the timestamp, the fopen if it is needed, and the fwrite.  A line is a  *)
(* head and a tail: the tail ends in the newline, and the C library may    *)
(* pass on the head alone from a full buffer.                              *)
(***************************************************************************)
EXTENDS Integers, Sequences, FiniteSets, SequencesExt

CONSTANTS
    Threads,
    Records,         \* each is written once, to one of the two sinks
    Second,          \* Second[r]: the second of r's timestamp
    Severe,          \* the records of level Warn, Error or Fatal
    Configurations,  \* the options the two sinks may have
    OpenMayFail,     \* may fopen fail?
    MaxCrashes,      \* bound on the crashes
    MaxMoves,        \* bound on the moves of the log file
    MaxOpens         \* bound on the calls of fopen

SinkNames == {"file", "console"}
Streams   == {"file", "stdout", "stderr"}
ConfigurationType ==
    [append : BOOLEAN, autoFlush : [SinkNames -> BOOLEAN], useStderrForErrors : BOOLEAN]

ASSUME TransportSinksAssumption ==
    /\ Records # {} /\ Second \in [Records -> Nat] /\ Severe \subseteq Records
    /\ Configurations \subseteq ConfigurationType /\ OpenMayFail \in BOOLEAN
    /\ MaxCrashes \in Nat /\ MaxMoves \in Nat /\ MaxOpens \in Nat \ {0}

VARIABLES
    options,   \* the options of the two sinks
    up,        \* does the process run?
    pc,        \* pc[t]: where thread t is in Write or Reopen
    task,      \* task[t]: the sink it is there for, and the record
    cache,     \* m_cache: the second, and for which second the parts are
    scratch,   \* scratch[k]: m_scratch of sink k
    files,     \* the log files ever created, in that order
    atPath,    \* the file that m_path names, 0 if none
    handle,    \* the file that m_file writes to, 0 if it is null
    buffer,    \* buffer[s]: what the C library holds of stream s
    console,   \* console[s]: what stdout or stderr has received
    begun,     \* the records whose Write has begun
    crashes, moves, opens,
    given,     \* history: given[s]: the records given to fwrite, in that order
    safe,      \* history: those that a flush has covered
    lost,      \* history: those of which a crash lost a part
    cut        \* history: those in a file when fopen truncated it

threadVars == <<pc, task, scratch, cache>>
fileVars   == <<files, atPath, handle>>
history    == <<given, safe, lost, cut>>
vars == <<options, up, threadVars, fileVars, buffer, console, begun, crashes, moves, opens, history>>

Empty == -1          \* the second of a new cache, and of empty parts
NewCache == [second |-> Empty, parts |-> Empty]

Halves == [record : Records, part : {"head", "tail"}, second : Int]
Line(r, second) ==
    <<[record |-> r, part |-> "head", second |-> second],
      [record |-> r, part |-> "tail", second |-> second]>>
RecordsIn(text) == {text[i].record : i \in DOMAIN text}

MutexFree(k) == \A u \in Threads : pc[u] # "idle" => task[u].sink # k
CacheMutexFreeAlways == TRUE
CacheMutexFree == \A u \in Threads : pc[u] # "stamp"

-----------------------------------------------------------------------------
(* The file system and the C library.                                      *)

\* fopen(path, append ? "ab" : "wb").
Open ==
    /\ opens < MaxOpens /\ opens' = opens + 1
    /\ IF atPath = 0
       THEN files' = Append(files, <<>>) /\ atPath' = Len(files) + 1 /\ UNCHANGED cut
       ELSE /\ files' = IF options.append THEN files ELSE [files EXCEPT ![atPath] = <<>>]
            /\ cut' = IF options.append THEN cut ELSE cut \cup RecordsIn(files[atPath])
            /\ UNCHANGED atPath
    /\ handle' = atPath'
OpenFailsUnnoticed == handle' = Len(files) + 1 /\ UNCHANGED <<files, atPath, cut, opens>>
OpenFails ==
    /\ OpenMayFail /\ opens < MaxOpens /\ opens' = opens + 1
    /\ handle' = 0
    /\ UNCHANGED <<files, atPath, cut>>

\* Stream s holds text; its first n halves are passed on, the others stay in the buffer.
PassOn(s, text, n) ==
    /\ buffer' = [buffer EXCEPT ![s] = SubSeq(text, n + 1, Len(text))]
    /\ IF s = "file"
       THEN files' = [files EXCEPT ![handle] = @ \o SubSeq(text, 1, n)] /\ UNCHANGED console
       ELSE console' = [console EXCEPT ![s] = @ \o SubSeq(text, 1, n)] /\ UNCHANGED files

Spill(s, n) ==
    /\ PassOn(s, buffer[s], n)
    /\ UNCHANGED <<options, up, threadVars, atPath, handle, begun, crashes, moves, opens, history>>

-----------------------------------------------------------------------------
(* Write.                                                                  *)

Write(t, k, r) ==
    /\ up /\ pc[t] = "idle" /\ MutexFree(k) /\ r \notin begun
    /\ pc' = [pc EXCEPT ![t] = "fill"]
    /\ task' = [task EXCEPT ![t] = [record |-> r, sink |-> k]]
    /\ begun' = begun \cup {r}
    /\ UNCHANGED <<options, up, scratch, cache, fileVars, buffer, console, crashes, moves, opens,
                   history>>

\* Format, under m_cacheMutex: first the cache is brought up to date, ...
Fill(t) ==
    /\ pc[t] = "fill" /\ CacheMutexFree
    /\ LET second == Second[task[t].record]
       IN  cache' = IF cache.second = second THEN cache
                    ELSE [second |-> second, parts |-> second]
    /\ pc' = [pc EXCEPT ![t] = "stamp"]
    /\ UNCHANGED <<options, up, task, scratch, fileVars, buffer, console, begun, crashes, moves,
                   opens, history>>

\* ... then its parts are appended; AppendTimestamp makes its own if they are empty.
Stamp(t) ==
    /\ pc[t] = "stamp"
    /\ LET r == task[t].record
       IN  scratch' = [scratch EXCEPT ![task[t].sink] =
                           Line(r, IF cache.parts = Empty THEN Second[r] ELSE cache.parts)]
    /\ pc' = [pc EXCEPT ![t] = "put"]
    /\ UNCHANGED <<options, up, task, cache, fileVars, buffer, console, begun, crashes, moves,
                   opens, history>>

\* The file is not open: it is opened first, or the record is given up.
OpenToWrite(t) ==
    /\ pc[t] = "put" /\ task[t].sink = "file" /\ handle = 0
    /\ \/ Open /\ UNCHANGED pc
       \/ OpenFails /\ pc' = [pc EXCEPT ![t] = "idle"]
    /\ UNCHANGED <<options, up, task, scratch, cache, buffer, console, begun, crashes, moves,
                   given, safe, lost>>

\* stderr has no buffer; the others are flushed if autoFlush is set.
ThroughUnlessBuffered(s, k) == s = "stderr"
Through(s, k) == s = "stderr" \/ options.autoFlush[k]

StreamOf(r, k) ==
    IF k = "file" THEN "file"
    ELSE IF options.useStderrForErrors /\ r \in Severe THEN "stderr" ELSE "stdout"

\* fwrite of the scratch buffer, and fflush.
Put(t) ==
    LET r == task[t].record  k == task[t].sink  s == StreamOf(r, k)
        text == buffer[s] \o scratch[k]
    IN  /\ pc[t] = "put" /\ (k = "file" => handle # 0)
        /\ PassOn(s, text, IF Through(s, k) THEN Len(text) ELSE 0)
        /\ given' = [given EXCEPT ![s] = Append(@, r)]
        /\ safe' = IF options.autoFlush[k] THEN safe \cup {r} ELSE safe
        /\ pc' = [pc EXCEPT ![t] = "idle"]
        /\ UNCHANGED <<options, up, task, scratch, cache, atPath, handle, begun, crashes, moves,
                       opens, lost, cut>>

-----------------------------------------------------------------------------
(* Flush, Reopen, the constructors and the destructors.                    *)

\* Flush of the console flushes stderr as well, which has nothing to flush.
Flush(k) ==
    LET s == IF k = "file" THEN "file" ELSE "stdout"
        covered == UNION {ToSet(given[u]) : u \in IF k = "file" THEN {"file"}
                                                  ELSE {"stdout", "stderr"}}
    IN  /\ up /\ MutexFree(k)
        /\ IF k = "file" /\ handle = 0 THEN UNCHANGED <<buffer, files, console>>
           ELSE PassOn(s, buffer[s], Len(buffer[s]))
        /\ safe' = safe \cup (covered \ lost)
        /\ UNCHANGED <<options, up, threadVars, atPath, handle, begun, crashes, moves, opens,
                       given, lost, cut>>

\* Reopen and the destructor close the file: fflush, fclose.
Close ==
    /\ handle' = 0 /\ buffer' = [buffer EXCEPT !["file"] = <<>>]
    /\ files' = IF handle = 0 THEN files ELSE [files EXCEPT ![handle] = @ \o buffer["file"]]

Reopen(t) ==
    /\ up /\ pc[t] = "idle" /\ MutexFree("file") /\ opens < MaxOpens
    /\ pc' = [pc EXCEPT ![t] = "open"]
    /\ task' = [task EXCEPT ![t].sink = "file"]
    /\ Close
    /\ UNCHANGED <<options, up, scratch, cache, atPath, console, begun, crashes, moves, opens,
                   history>>
ReopenOpen(t) ==
    /\ pc[t] = "open" /\ (Open \/ OpenFails)
    /\ pc' = [pc EXCEPT ![t] = "idle"]
    /\ UNCHANGED <<options, up, task, scratch, cache, buffer, console, begun, crashes, moves,
                   given, safe, lost>>

\* The sinks are constructed, FileSink opening its file; the formatter's cache is new.
Start ==
    /\ ~up /\ up' = TRUE
    /\ Open \/ OpenFails
    /\ cache' = NewCache
    /\ UNCHANGED <<options, pc, task, scratch, buffer, console, begun, crashes, moves, given,
                   safe, lost>>

\* The process ends in good order: the destructor of FileSink closes the file, and the C
\* library flushes stdout.
Stop ==
    /\ up /\ up' = FALSE /\ \A t \in Threads : pc[t] = "idle"
    /\ handle' = 0
    /\ files' = IF handle = 0 THEN files ELSE [files EXCEPT ![handle] = @ \o buffer["file"]]
    /\ console' = [console EXCEPT !["stdout"] = @ \o buffer["stdout"]]
    /\ buffer' = [s \in Streams |-> <<>>]
    /\ UNCHANGED <<options, threadVars, atPath, begun, crashes, moves, opens, history>>

\* It crashes: what the C library held is gone.
Crash ==
    /\ up /\ up' = FALSE /\ crashes < MaxCrashes /\ crashes' = crashes + 1
    /\ lost' = lost \cup UNION {RecordsIn(buffer[s]) : s \in Streams}
    /\ buffer' = [s \in Streams |-> <<>>] /\ handle' = 0
    /\ pc' = [t \in Threads |-> "idle"]
    /\ UNCHANGED <<options, task, scratch, cache, files, atPath, console, begun, moves, opens,
                   given, safe, cut>>

\* A tool moves the log file away; a sink that has it open goes on writing to it.
MoveAway ==
    /\ atPath # 0 /\ moves < MaxMoves /\ moves' = moves + 1
    /\ atPath' = 0
    /\ UNCHANGED <<options, up, threadVars, files, handle, buffer, console, begun, crashes, opens,
                   history>>

-----------------------------------------------------------------------------
NoTask == [record |-> CHOOSE r \in Records : TRUE, sink |-> "console"]

Init ==
    /\ options \in Configurations /\ up = FALSE
    /\ pc = [t \in Threads |-> "idle"] /\ task = [t \in Threads |-> NoTask]
    /\ scratch = [k \in SinkNames |-> <<>>] /\ cache = NewCache
    /\ files = <<>> /\ atPath = 0 /\ handle = 0
    /\ buffer = [s \in Streams |-> <<>>] /\ console = [s \in {"stdout", "stderr"} |-> <<>>]
    /\ begun = {} /\ crashes = 0 /\ moves = 0 /\ opens = 0
    /\ given = [s \in Streams |-> <<>>] /\ safe = {} /\ lost = {} /\ cut = {}

Next ==
    \/ \E t \in Threads :
          \/ \E k \in SinkNames, r \in Records : Write(t, k, r)
          \/ Fill(t) \/ Stamp(t) \/ OpenToWrite(t) \/ Put(t) \/ Reopen(t) \/ ReopenOpen(t)
    \/ \E k \in SinkNames : Flush(k)
    \/ \E s \in Streams : \E n \in 1 .. Len(buffer[s]) - 1 : Spill(s, n)
    \/ Start \/ Stop \/ Crash \/ MoveAway

Spec == Init /\ [][Next]_vars

-----------------------------------------------------------------------------
\* Every variable has its type, and only a file that exists is named or open.
TypeOK ==
    /\ options \in Configurations /\ up \in BOOLEAN
    /\ pc \in [Threads -> {"idle", "fill", "stamp", "put", "open"}]
    /\ task \in [Threads -> [record : Records, sink : SinkNames]]
    /\ cache \in [second : Int, parts : Int]
    /\ scratch \in [SinkNames -> Seq(Halves)]
    /\ files \in Seq(Seq(Halves)) /\ {atPath, handle} \subseteq 0 .. Len(files)
    /\ buffer \in [Streams -> Seq(Halves)] /\ console \in [{"stdout", "stderr"} -> Seq(Halves)]
    /\ begun \subseteq Records /\ {crashes, moves, opens} \subseteq Nat
    /\ given \in [Streams -> Seq(Records)]
    /\ {safe, lost, cut} \subseteq SUBSET Records

\* What a stream amounts to: the log files in their order, or what the console shows,
\* each with the buffer behind the one the C library writes to.
FileText(i) == files[i] \o IF i = handle THEN buffer["file"] ELSE <<>>
Texts(s) ==
    IF s = "file" THEN [i \in DOMAIN files |-> FileText(i)] ELSE <<console[s] \o buffer[s]>>

\* The heads of lines in these texts, by their places: text and index.
Heads(texts) ==
    {p \in UNION {{i} \X DOMAIN texts[i] : i \in DOMAIN texts} : texts[p[1]][p[2]].part = "head"}
RecordAt(texts, p) == texts[p[1]][p[2]].record
Precedes(p, q)     == p[1] < q[1] \/ (p[1] = q[1] /\ p[2] < q[2])

Matches(h, g) == h.record = g.record /\ h.part = "head" /\ g.part = "tail"
Torn(texts) ==
    {p \in Heads(texts) : \/ p[2] = Len(texts[p[1]])
                          \/ ~Matches(texts[p[1]][p[2]], texts[p[1]][p[2] + 1])}
Whole(text) ==
    \A i \in DOMAIN text :
        /\ text[i].second = Second[text[i].record]
        /\ text[i].part = "tail" => i > 1 /\ Matches(text[i - 1], text[i])

\* "Writes to one file handle under a mutex" (docs/Sinks.md:60): whatever threads write
\* at once, and however the file is moved and opened again, a line is torn only by a
\* crash, which tears at most the last one of a stream; nothing is glued into the middle
\* of a line, and every line bears the second of its own record, although the sinks share
\* one cache.
LinesWhole ==
    \A s \in Streams :
        /\ \A text \in ToSet(Texts(s)) : Whole(text)
        /\ Cardinality(Torn(Texts(s))) <= crashes

\* Every stream has, each once and in the order of their fwrite, the records given to it
\* that neither a crash took from the buffer nor an fopen cut off; a crash takes none that
\* Flush or autoFlush has covered, and with append set an fopen cuts none off.
GivenSurvive ==
    /\ \A s \in Streams :
          /\ {RecordAt(Texts(s), p) : p \in Heads(Texts(s))} \ lost
                = ToSet(given[s]) \ (lost \cup cut)
          /\ \A p, q \in Heads(Texts(s)) : \A i, j \in DOMAIN given[s] :
                /\ Precedes(p, q)
                /\ given[s][i] = RecordAt(Texts(s), p) /\ given[s][j] = RecordAt(Texts(s), q)
                => i < j
    /\ safe \cap lost = {}
    /\ options.append => cut = {}
=============================================================================
