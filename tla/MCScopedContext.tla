--------------------------- MODULE MCScopedContext ---------------------------
(***************************************************************************)
(* Instances of ScopedContext for TLC.  Messages have room for 2           *)
(* characters, attributes for 3 and, of the context, for 6: key "ab" can   *)
(* be cut to "a", and a value of the context that fits its pool can be too *)
(* long for AsyncSink.  Two attributes go into a record.  One name of a    *)
(* logger is too long for AsyncSink.                                       *)
(***************************************************************************)
EXTENDS ScopedContext

CONSTANTS number

a == <<"a">>
ab == <<"a", "b">>
c == <<"c">>
short == <<"\n">>
long  == <<"\f", "\"", "x", "\\">>
bell  == <<"BEL", "\t", "BS">>

A(key, value) == [key |-> key, value |-> value, kind |-> "Default"]
T(key, value) == [A(key, value) EXCEPT !.kind = "Tag"]
M(text) == [message |-> text]

OverlappingLists == {<<A(a, short)>>, <<A(a, number), A(ab, short)>>, <<A(ab, long)>>, <<A(c, number)>>}
OneList          == {<<A(a, number)>>}
BuilderSteps     == {M(long), M(short), T(a, number), T(ab, short), T(c, bell)}
ThreeSteps       == UNION {[1 .. n -> BuilderSteps] : n \in 0 .. 3}
NoSteps          == {<<>>}
Characters       == {"a", "b", "c", "x", "\n", "\f", "\t", "BS", "BEL", "\"", "\\", "!"}
AnySite          == {[loggerName |-> bell, file |-> long], [loggerName |-> ab, file |-> <<>>]}
Threw            == <<"!", "!", "!">>

NestedOrFree  == {{"move"}, {"move", "default", "assign"}}
DeclaredFirst == {{"default", "assign"}}
=============================================================================
