---------------------------- MODULE RecordBuilder ----------------------------
(***************************************************************************)
(* How the content of a record is bounded and what it counts as truncated: *)
(* RecordBuilder (include/NGIN/Log/RecordBuilder.hpp), the merge of the    *)
(* context in Logger::Dispatch (include/NGIN/Log/Logger.hpp), and the copy *)
(* that AsyncSink makes for its queue (ToOwned in AsyncSink.hpp, InlineText*)
(* in Types.hpp).  All of it is sequential: operators on the builder, on   *)
(* the merged record and on the copied one.                                *)
(*                                                                         *)
(* A text is a sequence of characters of one byte.  A value is a text or a *)
(* scalar, which takes no room.  A site is the logger's name and the       *)
(* source file of a call of Log.  A holder is any record that counts what  *)
(* it cuts off in truncatedBytes; one with a pool of text gives room from  *)
(* it and never takes any back.                                            *)
(***************************************************************************)
EXTENDS Naturals, SequencesExt

CONSTANTS
    Chars,           \* the characters of texts
    Scalars,         \* the attribute values that are not texts
    Kinds,           \* LogAttributeKind
    BuilderThrew,    \* the text "[log-builder-threw]"
    MaxMessage,      \* Config::MaxMessageBytes
    MaxAttributes,   \* Config::MaxAttributes
    MaxAttrText      \* Config::MaxAttrTextBytes

Text      == Seq(Chars)
Attribute == [key : Text, value : Text \cup Scalars, kind : Kinds]

ASSUME RecordBuilderAssumption ==
    /\ MaxMessage \in Nat /\ MaxAttributes \in Nat \ {0} /\ MaxAttrText \in Nat
    /\ "Default" \in Kinds /\ BuilderThrew \in Text /\ Scalars \cap Text = {}

-----------------------------------------------------------------------------
(* Cutting texts.                                                          *)

IsText(value)    == value \notin Scalars
Fits(text, room) == IF Len(text) <= room THEN Len(text) ELSE room
Cut(text, room)  == SubSeq(text, 1, Fits(text, room))

CountLost(holder, text, room) ==
    [holder EXCEPT !.truncatedBytes = @ + (Len(text) - Fits(text, room))]

\* CopyText of the builder, CopyContextText of Dispatch: what is copied is
\* Cut(text, holder.pool), and afterwards the holder is this.
AfterCopy(holder, text) ==
    [CountLost(holder, text, holder.pool) EXCEPT !.pool = @ - Fits(text, holder.pool)]

\* NormalizeValue and CopyAttributeValue, CopyContextValue.
CopiedValue(holder, value)    == IF IsText(value) THEN Cut(value, holder.pool) ELSE value
AfterCopyValue(holder, value) == IF IsText(value) THEN AfterCopy(holder, value) ELSE holder

-----------------------------------------------------------------------------
(* RecordBuilder.                                                          *)

EmptyBuilder ==
    [message |-> <<>>, attributes |-> <<>>, pool |-> MaxAttrText,
     truncatedAttributes |-> 0, truncatedBytes |-> 0]

\* A second message replaces the first; the bytes the first one lost stay counted.
Message(b, text) ==
    [CountLost(b, text, MaxMessage) EXCEPT !.message = Cut(text, MaxMessage)]

CountExcessNot(holder) == holder
CountExcess(holder)    == [holder EXCEPT !.truncatedAttributes = @ + 1]

\* Attr copies the value, then AppendAttribute tests whether there is room for one more
\* attribute, then the key is copied: a refused attribute has used up text.
Attr(b, a) ==
    LET c == AfterCopyValue(b, a.value)
        stored == [a EXCEPT !.key = Cut(a.key, c.pool), !.value = CopiedValue(b, a.value)]
    IN  IF Len(b.attributes) >= MaxAttributes THEN CountExcess(c)
        ELSE [AfterCopy(c, a.key) EXCEPT !.attributes = Append(@, stored)]

\* A call of the builder function: [message |-> text], or an attribute.
IsMessage(call) == "message" \in DOMAIN call
Call(b, call) == IF IsMessage(call) THEN Message(b, call.message) ELSE Attr(b, call)

\* Logger::Log: the builder function makes its calls; if it then throws, that is the
\* message, and the attributes it has set stay.
Build(calls, throws) ==
    LET built == FoldLeft(Call, EmptyBuilder, calls)
    IN  IF throws THEN Message(built, BuilderThrew) ELSE built

-----------------------------------------------------------------------------
(* The merge in Logger::Dispatch.                                          *)

HasKey(m, key) == \E i \in DOMAIN m.attributes : m.attributes[i].key = key

Replace(m, attribute) ==
    [m EXCEPT !.attributes =
        [i \in DOMAIN @ |-> IF @[i].key = attribute.key THEN attribute ELSE @[i]]]

AppendOrReplace(m, attribute) ==
    IF HasKey(m, attribute.key) THEN Replace(m, attribute)
    ELSE IF Len(m.attributes) >= MaxAttributes THEN CountExcess(m)
    ELSE [m EXCEPT !.attributes = Append(@, attribute)]

\* Here the key is copied first, and both before the room for the attribute is known.
MergeContextAttribute(m, a) ==
    LET n == AfterCopy(m, a.key)
    IN  AppendOrReplace(AfterCopyValue(n, a.value),
                        [key |-> Cut(a.key, m.pool), value |-> CopiedValue(n, a.value),
                         kind |-> "Default"])

\* The record that is dispatched; the counters go on from those of the builder.
Merge(site, context, b) ==
    LET begun  == [b EXCEPT !.attributes = <<>>, !.pool = 2 * MaxAttrText]
        merged == FoldLeft(AppendOrReplace,
                           FoldLeft(MergeContextAttribute, begun, context), b.attributes)
    IN  [loggerName |-> site.loggerName, file |-> site.file,
         message |-> b.message, attributes |-> merged.attributes,
         truncatedAttributes |-> merged.truncatedAttributes,
         truncatedBytes |-> merged.truncatedBytes]

-----------------------------------------------------------------------------
(* AsyncSink's copy.                                                       *)

\* One key and one value, each into an InlineText of its own.
OwnAttribute(r, a) ==
    LET keyed  == CountLost(r, a.key, MaxAttrText)
        valued == IF IsText(a.value) THEN CountLost(keyed, a.value, MaxAttrText) ELSE keyed
        owned  == [a EXCEPT !.key = Cut(@, MaxAttrText),
                            !.value = IF IsText(@) THEN Cut(@, MaxAttrText) ELSE @]
    IN  [valued EXCEPT !.attributes = Append(@, owned)]

\* What ToOwned has counted itself, and what the record brings with it.
OwnCountOnly(r, counted) == counted
BroughtAlong(r, counted) == r.truncatedBytes + counted

ToOwned(r) ==
    LET count   == IF Len(r.attributes) < MaxAttributes THEN Len(r.attributes) ELSE MaxAttributes
        named   == CountLost([r EXCEPT !.truncatedBytes = 0], r.loggerName, MaxMessage)
        message == CountLost(named, r.message, MaxMessage)
        begun   == [message EXCEPT !.loggerName = Cut(@, MaxMessage),
                        !.message = Cut(@, MaxMessage), !.attributes = <<>>,
                        !.truncatedBytes = BroughtAlong(r, @),
                        !.truncatedAttributes = @ + (Len(r.attributes) - count)]
    IN  FoldLeft(OwnAttribute, begun, SubSeq(r.attributes, 1, count))
=============================================================================
