-------------------------- MODULE MCRotatingFileSink --------------------------
(***************************************************************************)
(* Instances of RotatingFileSink for TLC: records of one and two units, a  *)
(* limit of two, and so few numbered files that they expire.               *)
(***************************************************************************)
EXTENDS RotatingFileSink

Defaults ==
    [append |-> TRUE, autoFlush |-> FALSE, maxFileBytes |-> 2, maxFiles |-> 3,
     rotateAtStartup |-> FALSE, rotateDailyLocal |-> FALSE, detectExternalRotation |-> FALSE]

BySize      == [Defaults EXCEPT !.rotateAtStartup = TRUE]
KeepNone    == [Defaults EXCEPT !.maxFiles = 0, !.autoFlush = TRUE]
Watching    == [Defaults EXCEPT !.maxFiles = 1, !.detectExternalRotation = TRUE]
Daily       == [Defaults EXCEPT !.maxFiles = 1, !.maxFileBytes = 0, !.rotateDailyLocal = TRUE]
Truncating  == [Defaults EXCEPT !.append = FALSE, !.maxFiles = 1]
DailyBySize == [Defaults EXCEPT !.rotateDailyLocal = TRUE]

EveryOption  == {BySize, KeepNone, Watching, Daily, Truncating}
DayAndSize   == {DailyBySize}
=============================================================================
