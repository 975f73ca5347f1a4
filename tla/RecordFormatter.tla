--------------------------- MODULE RecordFormatter ---------------------------
(***************************************************************************)
(* The built-in formatters (src/NGIN/Log/RecordFormatter.cpp and           *)
(* FormattingUtilities.hpp) as functions of the content of a record: what  *)
(* they escape, quote and put between the parts.  The parts that come from *)
(* a fixed alphabet (timestamp, level, thread, names of fields) are left   *)
(* out; a number is the one character Digit.  The timestamp cache of the   *)
(* text formatter is in module TransportSinks.                             *)
(***************************************************************************)
EXTENDS RecordBuilder

Newline == "\n"
Quote   == "\""
Escape  == "\\"
Digit   == "0"

Backspace == "BS"
Bell      == "BEL"

\* The characters below 0x20 that have an escape of their own, and the codes of others;
\* the digits of a code are one character.  JSON names two more.
Named     == [ch \in {Newline, "\r", "\t"} |->
                  CASE ch = Newline -> "n" [] ch = "\r" -> "r" [] ch = "\t" -> "t"]
JsonNamed == [ch \in {Newline, "\r", "\t", Backspace, "\f"} |->
                  CASE ch = Backspace -> "b" [] ch = "\f" -> "f" [] OTHER -> Named[ch]]
Code      == [ch \in {Backspace, "\f", Bell} |->
                  CASE ch = Backspace -> "08" [] ch = "\f" -> "0c" [] ch = Bell -> "07"]
Control   == DOMAIN Code

-----------------------------------------------------------------------------
(* Escaping.                                                               *)

\* AppendEscapedText: a control character without a name is \x and two digits.
NewlineUnescaped(ch) == IF ch \in {Quote, Escape} THEN <<Escape, ch>> ELSE <<ch>>
EscapedChar(ch) ==
    IF ch \in {Quote, Escape} THEN <<Escape, ch>>
    ELSE IF ch \in DOMAIN Named THEN <<Escape, Named[ch]>>
    ELSE IF ch \in Control THEN <<Escape, "x", Code[ch]>>
    ELSE <<ch>>

\* AppendJsonEscapedText: it is \u and four digits, the first two of them 0.
QuotesUnescaped(ch) ==
    IF ch \in DOMAIN JsonNamed THEN <<Escape, JsonNamed[ch]>> ELSE <<ch>>
JsonEscapedChar(ch) ==
    IF ch \in {Quote, Escape} THEN <<Escape, ch>>
    ELSE IF ch \in DOMAIN JsonNamed THEN <<Escape, JsonNamed[ch]>>
    ELSE IF ch \in Control THEN <<Escape, "u", Code[ch]>>
    ELSE <<ch>>

Escaped(text)     == FlattenSeq([i \in 1 .. Len(text) |-> EscapedChar(text[i])])
JsonEscaped(text) == FlattenSeq([i \in 1 .. Len(text) |-> JsonEscapedChar(text[i])])

\* What is escaped already, between quotes.
Quoted(chars) == <<Quote>> \o chars \o <<Quote>>

\* AppendAttributeValue and AppendLogFmtAttributeValue, AppendJsonAttributeValue.
FormatValue(value)     == IF IsText(value) THEN Quoted(Escaped(value)) ELSE <<Digit>>
FormatJsonValue(value) == IF IsText(value) THEN Quoted(JsonEscaped(value)) ELSE <<Digit>>

-----------------------------------------------------------------------------
(* Format.                                                                 *)

Truncated(r) == r.truncatedAttributes > 0 \/ r.truncatedBytes > 0

\* Texts one after the other, a separator between them.
Joined(texts, separator) ==
    FlattenSeq([i \in DOMAIN texts |-> IF i = 1 THEN texts[i] ELSE separator \o texts[i]])

KeyIsValue(attribute) == Escaped(attribute.key) \o <<"=">> \o FormatValue(attribute.value)

\* The line number after the name of the source file.
Source(name) == name \o <<":", Digit>>

FormatText(r, includeSource) ==
    <<"[">> \o Escaped(r.loggerName) \o <<"]", " ">> \o Escaped(r.message)
    \o (IF r.attributes = <<>> THEN <<>>
        ELSE <<" ", "{">> \o Joined([i \in DOMAIN r.attributes |-> KeyIsValue(r.attributes[i])], <<",", " ">>) \o <<"}">>)
    \o (IF Truncated(r) THEN <<" ", "[", Digit, ",", " ", Digit, "]">> ELSE <<>>)
    \o (IF includeSource THEN <<" ", "(">> \o Source(Escaped(r.file)) \o <<")">> ELSE <<>>)
    \o <<Newline>>

FormatLogFmt(r, includeSource) ==
    Quoted(Escaped(r.loggerName)) \o <<" ">> \o Quoted(Escaped(r.message))
    \o (IF includeSource THEN <<" ">> \o Quoted(Source(Escaped(r.file))) ELSE <<>>)
    \o FlattenSeq([i \in 1 .. Len(r.attributes) |-> <<" ">> \o KeyIsValue(r.attributes[i])])
    \o (IF Truncated(r) THEN <<" ", Digit, " ", Digit>> ELSE <<>>)
    \o <<Newline>>

Member(attribute) ==
    Quoted(JsonEscaped(attribute.key)) \o <<":">> \o FormatJsonValue(attribute.value)

FormatJson(r) ==
    <<"{">> \o Quoted(JsonEscaped(r.loggerName))
    \o <<",">> \o Quoted(JsonEscaped(r.message))
    \o <<",">> \o Quoted(Source(JsonEscaped(r.file))) \o <<",", "{">>
    \o Joined([i \in DOMAIN r.attributes |-> Member(r.attributes[i])], <<",">>)
    \o <<"}", ",", Digit, ",", Digit, "}", Newline>>

-----------------------------------------------------------------------------
(* Reading a line of JSON back, as a reference: one item for each string   *)
(* and one for each character outside of strings.                          *)

Unescaped(chars) ==
    IF Len(chars) = 3 THEN CHOOSE ch \in Control : Code[ch] = chars[3]
    ELSE IF chars[2] \in {Quote, Escape} THEN chars[2]
    ELSE CHOOSE ch \in DOMAIN JsonNamed : JsonNamed[ch] = chars[2]

\* The reader is outside of strings, inside of one, or in the middle of an escape.
Outside(items) == [at |-> "outside", items |-> items, text |-> <<>>, escape |-> <<>>]

ReadChar(s, ch) ==
    CASE s.at = "outside" ->
            IF ch = Quote THEN [s EXCEPT !.at = "inside"]
            ELSE [s EXCEPT !.items = Append(@, [char |-> ch])]
      [] s.at = "inside" ->
            IF ch = Quote THEN Outside(Append(s.items, [text |-> s.text]))
            ELSE IF ch = Escape THEN [s EXCEPT !.at = "escape", !.escape = <<ch>>]
            ELSE [s EXCEPT !.text = Append(@, ch)]
      [] s.at = "escape" ->
            IF Len(s.escape) = 1 /\ ch = "u" THEN [s EXCEPT !.escape = Append(@, ch)]
            ELSE [s EXCEPT !.at = "inside", !.escape = <<>>,
                           !.text = Append(@, Unescaped(Append(s.escape, ch)))]

\* The reader goes on from state s.
Read(s, line) ==
    LET reader[i \in 0 .. Len(line)] ==
            IF i = 0 THEN s ELSE ReadChar(reader[i - 1], line[i])
    IN  reader[Len(line)]

ReadJson(line) == Read(Outside(<<>>), line).items

\* What a reader should get: a value, characters, an attribute, all attributes.
ValueItem(value)  == IF IsText(value) THEN [text |-> value] ELSE [char |-> Digit]
CharItems(chars)  == [i \in 1 .. Len(chars) |-> [char |-> chars[i]]]
MemberItems(a)    == <<[text |-> a.key], [char |-> ":"], ValueItem(a.value)>>
AttributeItems(r) ==
    FlattenSeq([i \in DOMAIN r.attributes |->
        IF i = 1 THEN MemberItems(r.attributes[i])
        ELSE CharItems(<<",">>) \o MemberItems(r.attributes[i])])

JsonItems(r) ==
    CharItems(<<"{">>) \o <<[text |-> r.loggerName]>>
    \o CharItems(<<",">>) \o <<[text |-> r.message]>>
    \o CharItems(<<",">>) \o <<[text |-> Source(r.file)]>> \o CharItems(<<",", "{">>)
    \o AttributeItems(r) \o CharItems(<<"}", ",", Digit, ",", Digit, "}", Newline>>)
=============================================================================
