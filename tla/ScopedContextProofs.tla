------------------------- MODULE ScopedContextProofs -------------------------
(***************************************************************************)
(* Theorems of ScopedContext, for every alphabet, every limit of the       *)
(* content of a record and every use a thread makes of scopes: the         *)
(* context is what the scopes alive have pushed, what is not counted as    *)
(* missing is there, a formatted record is one line, and JSON reads back.  *)
(*                                                                         *)
(* The folds of the model are functions on the sets of indices, each       *)
(* defined by its value for a set without its greatest element.  Where the *)
(* operation of a fold keeps a type, such a function exists, and the fold  *)
(* of a sequence is one step from the fold of its front; for every fold of *)
(* the model a lemma of its own says so.  The reader of JSON is a function *)
(* of the position, which exists for the same reason.  What they compute   *)
(* is then shown by induction on sequences.                                *)
(***************************************************************************)
EXTENDS ScopedContext, RecursionLemmas, SequenceTheorems

-----------------------------------------------------------------------------
(* Sequences.                                                              *)

\* A set with the empty sequence, and with a sequence every one that is longer by one
\* element, has all sequences.
LEMMA SeqInduction ==
    ASSUME NEW T, NEW S, <<>> \in S,
           \A s \in Seq(T), x \in T : s \in S => Append(s, x) \in S
    PROVE  Seq(T) \subseteq S
<1> DEFINE D == {n \in Nat : \A s \in Seq(T) : Len(s) = n => s \in S}
<1>1. 0 \in D
  OBVIOUS
<1>2. ASSUME NEW n \in Nat, n \in D PROVE n + 1 \in D
  <2>1. SUFFICES ASSUME NEW s \in Seq(T), Len(s) = n + 1 PROVE s \in S
    OBVIOUS
  <2>2. PICK t \in Seq(T), x \in T : s = Append(t, x)
    BY <2>1, SequenceEmptyOrAppend
  <2>3. t \in S
    BY <1>2, <2>1, <2>2
  <2>4. QED
    BY <2>2, <2>3
<1>3. Nat \subseteq D
  <2> HIDE DEF D
  <2>1. QED
    BY <1>1, <1>2, NatSetInduction
<1>4. QED
  BY <1>3

-----------------------------------------------------------------------------
(* Folds.                                                                  *)

LEMMA MaxFacts ==
    ASSUME NEW n \in Nat, NEW s \in SUBSET (1 .. n), s # {}
    PROVE  Max(s) \in s /\ \A y \in s : y <= Max(s)
<1> DEFINE D == {m \in Nat : \A t \in SUBSET (1 .. m) : t # {} => \E x \in t : \A y \in t : x >= y}
<1>1. 0 \in D
  <2>1. 1 .. 0 = {}
    OBVIOUS
  <2>2. QED
    BY <2>1
<1>2. ASSUME NEW m \in Nat, m \in D PROVE m + 1 \in D
  <2>1. SUFFICES ASSUME NEW t \in SUBSET (1 .. m + 1), t # {}
                 PROVE  \E x \in t : \A y \in t : x >= y
    OBVIOUS
  <2>2. CASE m + 1 \in t
    BY <2>1, <2>2
  <2>3. CASE m + 1 \notin t
    <3>1. t \in SUBSET (1 .. m)
      BY <2>1, <2>3
    <3>2. QED
      BY <1>2, <2>1, <3>1
  <2>4. QED
    BY <2>2, <2>3
<1>3. Nat \subseteq D
  <2> HIDE DEF D
  <2>1. QED
    BY <1>1, <1>2, NatSetInduction
<1>4. \E x \in s : \A y \in s : x >= y
  BY <1>3
<1>5. Max(s) \in s /\ \A y \in s : Max(s) >= y
  BY <1>4 DEF Max
<1>6. QED
  BY <1>5

LEMMA MaxOfInterval ==
    ASSUME NEW n \in Nat \ {0}
    PROVE  Max(1 .. n) = n /\ (1 .. n) \ {n} = 1 .. (n - 1)
<1>1. Max(1 .. n) \in 1 .. n /\ \A y \in 1 .. n : y <= Max(1 .. n)
  <2>1. 1 .. n # {}
    OBVIOUS
  <2>2. QED
    BY <2>1, MaxFacts
<1>2. n \in 1 .. n
  OBVIOUS
<1>3. QED
  BY <1>1, <1>2

\* The function a fold is made of exists.  It is found by going through all indices, and
\* at each one through all sets at once: a set that has the index makes a step.
IsSetFold(h, N, base, step) ==
    \A s \in SUBSET (1 .. N) :
       h[s] = IF s = {} THEN base ELSE step[<<Max(s), h[s \ {Max(s)}]>>]

LEMMA SetFoldExists ==
    ASSUME NEW S, NEW base \in S, NEW N \in Nat, NEW step, step \in [(1 .. N) \X S -> S]
    PROVE  \E h \in [SUBSET (1 .. N) -> S] : IsSetFold(h, N, base, step)
<1> DEFINE D == SUBSET (1 .. N)
           F == [D -> S]
           all == [c \in (1 .. N) \X F |->
                      [s \in D |-> IF c[1] \in s THEN step[<<c[1], c[2][s]>>] ELSE c[2][s]]]
           none == [s \in D |-> base]
<1>1. none \in F /\ all \in [(1 .. N) \X F -> F]
  OBVIOUS
<1>2. PICK R : Recurs(R, N, F, none, all)
  <2> HIDE DEF none, all, F
  <2>1. QED
    BY <1>1, RecursionExists
<1>3. /\ \A m \in 0 .. N : R[m] \in F
      /\ \A s \in D : R[0][s] = base
      /\ \A m \in 1 .. N, s \in D :
            R[m][s] = IF m \in s THEN step[<<m, R[m - 1][s]>>] ELSE R[m - 1][s]
  <2>1. \A m \in 0 .. N : R[m] \in F
    <3> HIDE DEF none, all, F
    <3>1. QED
      BY <1>2 DEF Recurs
  <2>2. ASSUME NEW m \in 1 .. N, NEW s \in D
        PROVE  R[m][s] = IF m \in s THEN step[<<m, R[m - 1][s]>>] ELSE R[m - 1][s]
    <3>1. m - 1 \in 0 .. N
      OBVIOUS
    <3>2. R[m] = all[<<m, R[m - 1]>>] /\ R[m - 1] \in F
      <4> HIDE DEF none, all, F
      <4>1. QED
        BY <1>2, <2>1, <3>1 DEF Recurs
    <3>3. QED
      BY <3>2
  <2>3. R[0] = none
    <3> HIDE DEF none, all, F
    <3>1. QED
      BY <1>2 DEF Recurs
  <2>4. QED
    BY <2>1, <2>2, <2>3
<1> HIDE DEF none, all, F
<1>4. \A m \in Nat : m <= N => \A s, t \in D :
         s \cap (1 .. m) = t \cap (1 .. m) => R[m][s] = R[m][t]
  <2> DEFINE A == {m \in Nat : m <= N => \A s, t \in D :
                      s \cap (1 .. m) = t \cap (1 .. m) => R[m][s] = R[m][t]}
  <2>1. 0 \in A
    BY <1>3
  <2>2. ASSUME NEW m \in Nat, m \in A PROVE m + 1 \in A
    <3>1. SUFFICES ASSUME m + 1 <= N, NEW s \in D, NEW t \in D,
                          s \cap (1 .. m + 1) = t \cap (1 .. m + 1)
                   PROVE  R[m + 1][s] = R[m + 1][t]
      OBVIOUS
    <3>2. s \cap (1 .. m) = t \cap (1 .. m) /\ (m + 1 \in s <=> m + 1 \in t)
      <4>1. 1 .. m \subseteq 1 .. m + 1 /\ m + 1 \in 1 .. m + 1
        OBVIOUS
      <4>2. QED
        BY <3>1, <4>1
    <3>3. R[m][s] = R[m][t]
      BY <2>2, <3>1, <3>2
    <3>4. m + 1 \in 1 .. N /\ (m + 1) - 1 = m
      BY <3>1
    <3>5. ASSUME NEW v \in D
          PROVE  R[m + 1][v] = IF m + 1 \in v THEN step[<<m + 1, R[m][v]>>] ELSE R[m][v]
      <4> HIDE DEF D
      <4>1. QED
        BY <1>3, <3>4
    <3>6. QED
      BY <3>1, <3>2, <3>3, <3>5
  <2>3. Nat \subseteq A
    <3> HIDE DEF A
    <3>1. QED
      BY <2>1, <2>2, NatSetInduction
  <2>4. QED
    BY <2>3
<1>5. ASSUME NEW m \in 0 .. N, NEW s \in D, \A y \in s : y <= m
      PROVE  R[N][s] = R[m][s]
  <2> DEFINE A == {k \in Nat : m + k <= N => R[m + k][s] = R[m][s]}
  <2>1. 0 \in A
    OBVIOUS
  <2>2. ASSUME NEW k \in Nat, k \in A PROVE k + 1 \in A
    <3>1. SUFFICES ASSUME m + (k + 1) <= N PROVE R[m + (k + 1)][s] = R[m][s]
      OBVIOUS
    <3>2. PICK q \in 1 .. N : q = m + (k + 1) /\ q - 1 = m + k /\ q \notin s
      BY <1>5, <3>1
    <3>3. R[m + (k + 1)][s] = R[m + k][s]
      <4>1. R[q][s] = R[q - 1][s]
        <5> HIDE DEF D
        <5>1. \A v \in D : R[q][v] = IF q \in v THEN step[<<q, R[q - 1][v]>>] ELSE R[q - 1][v]
          BY <1>3, <3>2
        <5>2. s \in D
          BY <1>5
        <5>3. QED
          BY <3>2, <5>1, <5>2
      <4>2. QED
        BY <3>2, <4>1
    <3>4. m + k <= N
      BY <3>1
    <3>5. QED
      BY <2>2, <3>3, <3>4
  <2>3. Nat \subseteq A
    <3> HIDE DEF A
    <3>1. QED
      BY <2>1, <2>2, NatSetInduction
  <2>4. N - m \in Nat /\ m + (N - m) = N
    OBVIOUS
  <2>5. QED
    BY <2>3, <2>4
<1>6. ASSUME NEW s \in D
      PROVE  R[N][s] = IF s = {} THEN base ELSE step[<<Max(s), R[N][s \ {Max(s)}]>>]
  <2>1. CASE s = {}
    <3>1. R[N][s] = R[0][s]
      BY <1>5, <2>1
    <3>2. QED
      BY <1>3, <2>1, <3>1
  <2>2. CASE s # {}
    <3> DEFINE m == Max(s)
               t == s \ {m}
    <3>1. m \in s /\ m \in 1 .. N /\ \A y \in s : y <= m
      BY <2>2, MaxFacts
    <3> HIDE DEF m
    <3>2. m \in 0 .. N /\ m - 1 \in 0 .. N /\ m - 1 \in Nat /\ m - 1 <= N
      BY <3>1
    <3>3. t \in D /\ \A y \in t : y <= m - 1
      BY <3>1
    <3>4. s \cap (1 .. m - 1) = t \cap (1 .. m - 1)
      BY <3>1
    <3>5. R[N][s] = R[m][s] /\ R[N][t] = R[m - 1][t]
      BY <1>5, <3>1, <3>2, <3>3
    <3>6. R[m - 1][s] = R[m - 1][t]
      BY <1>4, <3>2, <3>3, <3>4
    <3>7. R[m][s] = step[<<m, R[m - 1][s]>>]
      BY <1>3, <3>1
    <3>8. R[N][s] = step[<<m, R[N][t]>>]
      BY <3>5, <3>6, <3>7
    <3>9. QED
      BY <2>2, <3>8 DEF m
  <2>3. QED
    BY <2>1, <2>2
<1>7. R[N] \in F
  <2>1. N \in 0 .. N
    OBVIOUS
  <2>2. QED
    BY <1>3, <2>1
<1>8. QED
  BY <1>6, <1>7 DEF F, IsSetFold

\* f is the function of a fold of s with op from base, as far as its values are in S.
FoldsBy(f, s, S, op, base) ==
    /\ f[{}] = base
    /\ \A n \in 1 .. Len(s) :
          f[1 .. (n - 1)] \in S => f[1 .. n] = op[<<f[1 .. (n - 1)], s[n]>>]

\* Its values are in S, and for a sequence longer by one element there is one step more.
LEMMA FoldsTyped ==
    ASSUME NEW S, NEW T, NEW base \in S, NEW op, op \in [S \X T -> S],
           NEW s \in Seq(T), NEW f, FoldsBy(f, s, S, op, base)
    PROVE  \A n \in 0 .. Len(s) : f[1 .. n] \in S
<1> DEFINE A == {n \in Nat : n <= Len(s) => f[1 .. n] \in S}
<1>1. 0 \in A
  <2>1. 1 .. 0 = {}
    OBVIOUS
  <2>2. QED
    BY <2>1 DEF FoldsBy
<1>2. ASSUME NEW n \in Nat, n \in A PROVE n + 1 \in A
  <2>1. SUFFICES ASSUME n + 1 <= Len(s) PROVE f[1 .. n + 1] \in S
    OBVIOUS
  <2>2. n + 1 \in 1 .. Len(s) /\ (n + 1) - 1 = n /\ s[n + 1] \in T /\ f[1 .. n] \in S
    BY <1>2, <2>1
  <2>3. QED
    BY <2>2 DEF FoldsBy
<1>3. Nat \subseteq A
  <2> HIDE DEF A
  <2>1. QED
    BY <1>1, <1>2, NatSetInduction
<1>4. QED
  BY <1>3

FoldLaw(S, T, op, base) ==
    \A s \in Seq(T), x \in T : \A f, g :
       FoldsBy(f, s, S, op, base) /\ FoldsBy(g, Append(s, x), S, op, base) =>
          /\ f[1 .. Len(s)] \in S
          /\ g[1 .. Len(Append(s, x))] = op[<<f[1 .. Len(s)], x>>]

LEMMA FoldsAppend ==
    ASSUME NEW S, NEW T, NEW base \in S, NEW op, op \in [S \X T -> S]
    PROVE  FoldLaw(S, T, op, base)
<1> SUFFICES ASSUME NEW s \in Seq(T), NEW x \in T,
                    NEW f, FoldsBy(f, s, S, op, base),
                    NEW g, FoldsBy(g, Append(s, x), S, op, base)
             PROVE  /\ f[1 .. Len(s)] \in S
                    /\ g[1 .. Len(Append(s, x))] = op[<<f[1 .. Len(s)], x>>]
  BY DEF FoldLaw
<1> DEFINE N == Len(s)
           u == Append(s, x)
           A == {n \in Nat : n <= N => g[1 .. n] = f[1 .. n]}
<1>0. /\ u \in Seq(T) /\ Len(u) = N + 1 /\ N \in Nat
      /\ u[N + 1] = x /\ \A n \in 1 .. N : u[n] = s[n]
  OBVIOUS
<1>1. /\ \A n \in 0 .. N : f[1 .. n] \in S
      /\ \A n \in 0 .. N + 1 : g[1 .. n] \in S
  <2>1. \A n \in 0 .. Len(s) : f[1 .. n] \in S
    BY FoldsTyped
  <2>2. \A n \in 0 .. Len(u) : g[1 .. n] \in S
    BY <1>0, FoldsTyped
  <2>3. QED
    BY <1>0, <2>1, <2>2
<1>2. 0 \in A
  <2>1. 1 .. 0 = {}
    OBVIOUS
  <2>2. QED
    BY <2>1 DEF FoldsBy
<1>3. ASSUME NEW n \in Nat, n \in A PROVE n + 1 \in A
  <2>1. SUFFICES ASSUME n + 1 <= N PROVE g[1 .. n + 1] = f[1 .. n + 1]
    OBVIOUS
  <2>2. /\ n + 1 \in 1 .. N /\ n + 1 \in 1 .. N + 1 /\ (n + 1) - 1 = n
        /\ n \in 0 .. N /\ n \in 0 .. N + 1 /\ g[1 .. n] = f[1 .. n]
    BY <1>3, <2>1
  <2>3. f[1 .. n + 1] = op[<<f[1 .. n], s[n + 1]>>]
    BY <1>1, <2>2 DEF FoldsBy
  <2>4. g[1 .. n + 1] = op[<<g[1 .. n], u[n + 1]>>]
    <3> HIDE DEF u
    <3>1. QED
      BY <1>0, <1>1, <2>2 DEF FoldsBy, u
  <2>5. QED
    BY <1>0, <2>2, <2>3, <2>4
<1>4. Nat \subseteq A
  <2> HIDE DEF A
  <2>1. QED
    BY <1>2, <1>3, NatSetInduction
<1>5. g[1 .. N] = f[1 .. N]
  BY <1>0, <1>4
<1>6. g[1 .. N + 1] = op[<<g[1 .. N], u[N + 1]>>]
  <2>1. N + 1 \in 1 .. Len(u) /\ (N + 1) - 1 = N /\ g[1 .. N] \in S
    BY <1>0, <1>1
  <2>2. QED
    BY <2>1 DEF FoldsBy
<1>7. QED
  BY <1>0, <1>1, <1>5, <1>6

-----------------------------------------------------------------------------
(* Steps of the builder and of the merge.                                  *)

\* The builders, and the records while they are merged.
Builders ==
    {b \in [message : Text, attributes : Seq(Attribute), pool : Nat,
            truncatedAttributes : Nat, truncatedBytes : Nat] :
        Len(b.message) <= MaxMessage /\ Len(b.attributes) <= MaxAttributes}

\* The counters of c go on from those of b, and have counted nothing new.
NoLess(b, c) ==
    /\ c.truncatedAttributes >= b.truncatedAttributes
    /\ c.truncatedBytes >= b.truncatedBytes
NoMore(b, c) ==
    /\ c.truncatedAttributes = b.truncatedAttributes
    /\ c.truncatedBytes = b.truncatedBytes

LEMMA CutFacts ==
    ASSUME NEW text \in Text, NEW room \in Nat
    PROVE  /\ Cut(text, room) \in Text /\ Len(Cut(text, room)) <= room
           /\ Fits(text, room) \in Nat /\ Fits(text, room) <= room
           /\ Len(text) \in Nat /\ Len(text) - Fits(text, room) \in Nat
           /\ Len(text) - Fits(text, room) = 0 => Cut(text, room) = text
           /\ Len(text) <= room => Len(text) - Fits(text, room) = 0
<1>1. Len(text) \in Nat /\ text \in Seq(Chars)
  BY DEF Text
<1>2. /\ Fits(text, room) \in Nat /\ Fits(text, room) <= room
      /\ Fits(text, room) <= Len(text)
      /\ Len(text) <= room => Fits(text, room) = Len(text)
  BY <1>1 DEF Fits
<1>3. /\ SubSeq(text, 1, Fits(text, room)) \in Seq(Chars)
      /\ Len(SubSeq(text, 1, Fits(text, room))) = Fits(text, room)
  BY <1>1, <1>2
<1>4. Fits(text, room) = Len(text) => SubSeq(text, 1, Fits(text, room)) = text
  BY <1>1, SubSeqFull
<1>5. QED
  BY <1>1, <1>2, <1>3, <1>4 DEF Cut, Text

LEMMA AfterCopyFacts ==
    ASSUME NEW b \in Builders, NEW text \in Text
    PROVE  /\ AfterCopy(b, text) \in Builders
           /\ AfterCopy(b, text).message = b.message
           /\ AfterCopy(b, text).attributes = b.attributes
           /\ AfterCopy(b, text).truncatedAttributes = b.truncatedAttributes
           /\ AfterCopy(b, text).truncatedBytes >= b.truncatedBytes
           /\ AfterCopy(b, text).truncatedBytes = b.truncatedBytes => Cut(text, b.pool) = text
<1>1. b.pool \in Nat /\ b.truncatedBytes \in Nat
  BY DEF Builders
<1>2. /\ Fits(text, b.pool) \in Nat /\ Fits(text, b.pool) <= b.pool
      /\ Len(text) - Fits(text, b.pool) \in Nat
      /\ Len(text) - Fits(text, b.pool) = 0 => Cut(text, b.pool) = text
  BY <1>1, CutFacts
<1>3. AfterCopy(b, text) =
         [b EXCEPT !.truncatedBytes = @ + (Len(text) - Fits(text, b.pool)),
                   !.pool = @ - Fits(text, b.pool)]
  BY DEF AfterCopy, CountLost, Builders
<1>4. /\ b.truncatedBytes + (Len(text) - Fits(text, b.pool)) \in Nat
      /\ b.truncatedBytes + (Len(text) - Fits(text, b.pool)) >= b.truncatedBytes
      /\ b.truncatedBytes + (Len(text) - Fits(text, b.pool)) = b.truncatedBytes
            => Len(text) - Fits(text, b.pool) = 0
      /\ b.pool - Fits(text, b.pool) \in Nat
  BY <1>1, <1>2
<1>5. QED
  BY <1>2, <1>3, <1>4 DEF Builders

LEMMA CopyValueFacts ==
    ASSUME NEW b \in Builders, NEW value \in Text \cup Scalars
    PROVE  /\ AfterCopyValue(b, value) \in Builders
           /\ CopiedValue(b, value) \in Text \cup Scalars
           /\ AfterCopyValue(b, value).message = b.message
           /\ AfterCopyValue(b, value).attributes = b.attributes
           /\ AfterCopyValue(b, value).truncatedAttributes = b.truncatedAttributes
           /\ AfterCopyValue(b, value).truncatedBytes >= b.truncatedBytes
           /\ AfterCopyValue(b, value).truncatedBytes = b.truncatedBytes
                 => CopiedValue(b, value) = value
<1>1. CASE IsText(value)
  <2>1. value \in Text
    BY <1>1 DEF IsText
  <2>2. b.pool \in Nat
    BY DEF Builders
  <2>3. Cut(value, b.pool) \in Text
    BY <2>1, <2>2, CutFacts
  <2>4. QED
    BY <1>1, <2>1, <2>3, AfterCopyFacts DEF AfterCopyValue, CopiedValue
<1>2. CASE ~IsText(value)
  BY <1>2 DEF AfterCopyValue, CopiedValue, Builders, IsText
<1>3. QED
  BY <1>1, <1>2

\* A message replaces the one before it.
LEMMA MessageFacts ==
    ASSUME NEW b \in Builders, NEW text \in Text
    PROVE  /\ Message(b, text) \in Builders
           /\ NoLess(b, Message(b, text))
           /\ Message(b, text).attributes = b.attributes
           /\ NoMore(b, Message(b, text)) => Message(b, text).message = text
<1>1. MaxMessage \in Nat /\ b.truncatedBytes \in Nat
  BY RecordBuilderAssumption DEF Builders
<1>2. /\ Cut(text, MaxMessage) \in Text /\ Len(Cut(text, MaxMessage)) <= MaxMessage
      /\ Len(text) - Fits(text, MaxMessage) \in Nat
      /\ Len(text) - Fits(text, MaxMessage) = 0 => Cut(text, MaxMessage) = text
  BY <1>1, CutFacts
<1>3. Message(b, text) =
         [b EXCEPT !.truncatedBytes = @ + (Len(text) - Fits(text, MaxMessage)),
                   !.message = Cut(text, MaxMessage)]
  BY DEF Message, CountLost, Builders
<1>4. /\ b.truncatedBytes + (Len(text) - Fits(text, MaxMessage)) \in Nat
      /\ b.truncatedBytes + (Len(text) - Fits(text, MaxMessage)) >= b.truncatedBytes
      /\ b.truncatedBytes + (Len(text) - Fits(text, MaxMessage)) = b.truncatedBytes
            => Len(text) - Fits(text, MaxMessage) = 0
  BY <1>1, <1>2
<1> DEFINE c == Message(b, text)
<1>5. /\ c \in Builders
      /\ c.truncatedAttributes = b.truncatedAttributes /\ b.truncatedAttributes \in Nat
      /\ c.truncatedBytes = b.truncatedBytes + (Len(text) - Fits(text, MaxMessage))
      /\ c.message = Cut(text, MaxMessage) /\ c.attributes = b.attributes
  BY <1>2, <1>3, <1>4 DEF Builders
<1> HIDE DEF c
<1>6. NoLess(b, c) /\ (NoMore(b, c) => c.message = text)
  BY <1>2, <1>4, <1>5 DEF NoLess, NoMore
<1>7. QED
  BY <1>5, <1>6 DEF c

\* An attribute is appended, unless something is counted.
LEMMA AttrFacts ==
    ASSUME NEW b \in Builders, NEW a \in Attribute
    PROVE  /\ Attr(b, a) \in Builders
           /\ NoLess(b, Attr(b, a))
           /\ Attr(b, a).message = b.message
           /\ NoMore(b, Attr(b, a)) => Attr(b, a).attributes = Append(b.attributes, a)
<1> DEFINE c == AfterCopyValue(b, a.value)
           stored == [a EXCEPT !.key = Cut(a.key, c.pool), !.value = CopiedValue(b, a.value)]
           d == AfterCopy(c, a.key)
<1>1. a.key \in Text /\ a.value \in Text \cup Scalars /\ a.kind \in Kinds
  BY DEF Attribute
<1>2. /\ c \in Builders /\ c.message = b.message /\ c.attributes = b.attributes
      /\ c.truncatedAttributes = b.truncatedAttributes
      /\ c.truncatedBytes >= b.truncatedBytes
      /\ c.truncatedBytes = b.truncatedBytes => CopiedValue(b, a.value) = a.value
      /\ CopiedValue(b, a.value) \in Text \cup Scalars
  BY <1>1, CopyValueFacts
<1> HIDE DEF c
<1>3. c.pool \in Nat /\ c.truncatedAttributes \in Nat /\ c.truncatedBytes \in Nat
  BY <1>2 DEF Builders
<1>4. Cut(a.key, c.pool) \in Text
  BY <1>1, <1>3, CutFacts
<1>5. stored \in Attribute
  BY <1>1, <1>2, <1>4 DEF Attribute
<1>6. Cut(a.key, c.pool) = a.key /\ CopiedValue(b, a.value) = a.value => stored = a
  BY DEF Attribute
<1> HIDE DEF stored
<1>7. CASE Len(b.attributes) >= MaxAttributes
  <2>1. Attr(b, a) = CountExcess(c)
    BY <1>7 DEF Attr, c
  <2>2. QED
    BY <1>2, <1>3, <2>1 DEF CountExcess, Builders, NoLess, NoMore
<1>8. CASE ~(Len(b.attributes) >= MaxAttributes)
  <2>1. Attr(b, a) = [d EXCEPT !.attributes = Append(@, stored)]
    BY <1>8 DEF Attr, c, stored
  <2>2. /\ d \in Builders /\ d.message = c.message /\ d.attributes = c.attributes
        /\ d.truncatedAttributes = c.truncatedAttributes
        /\ d.truncatedBytes >= c.truncatedBytes
        /\ d.truncatedBytes = c.truncatedBytes => Cut(a.key, c.pool) = a.key
    BY <1>1, <1>2, AfterCopyFacts
  <2> HIDE DEF d
  <2>3. d.truncatedBytes \in Nat
    BY <2>2 DEF Builders
  <2>4. /\ b.attributes \in Seq(Attribute) /\ Append(b.attributes, stored) \in Seq(Attribute)
        /\ Len(Append(b.attributes, stored)) <= MaxAttributes
    BY <1>5, <1>8, RecordBuilderAssumption DEF Builders
  <2>5. Attr(b, a) \in Builders /\ Attr(b, a).message = b.message
    BY <1>2, <2>1, <2>2, <2>4 DEF Builders
  <2>6. /\ Attr(b, a).truncatedAttributes = b.truncatedAttributes
        /\ Attr(b, a).truncatedBytes = d.truncatedBytes
        /\ Attr(b, a).attributes = Append(b.attributes, stored)
    BY <1>2, <2>1, <2>2 DEF Builders
  <2>7. b.truncatedBytes \in Nat /\ b.truncatedAttributes \in Nat
    BY DEF Builders
  <2>8. QED
    BY <1>2, <1>3, <1>6, <2>2, <2>3, <2>5, <2>6, <2>7 DEF NoLess, NoMore
<1>9. QED
  BY <1>7, <1>8

LEMMA CallFacts ==
    ASSUME NEW b \in Builders, NEW call \in BuilderCall
    PROVE  /\ Call(b, call) \in Builders
           /\ NoLess(b, Call(b, call))
           /\ NoMore(b, Call(b, call)) =>
                 /\ Call(b, call).message = LastOf(b.message, call)
                 /\ Call(b, call).attributes = WithAttribute(b.attributes, call)
<1>1. CASE call \in [message : Text]
  <2>1. IsMessage(call) /\ call.message \in Text
    BY <1>1 DEF IsMessage
  <2>2. QED
    BY <2>1, MessageFacts DEF Call, LastOf, WithAttribute
<1>2. CASE call \in Attribute
  <2>1. ~IsMessage(call)
    BY <1>2 DEF IsMessage, Attribute
  <2>2. QED
    BY <1>2, <2>1, AttrFacts DEF Call, LastOf, WithAttribute
<1>3. QED
  BY <1>1, <1>2 DEF BuilderCall

\* No two attributes of a list have one key.
KeysDistinct(list) == \A i, j \in 1 .. Len(list) : list[i].key = list[j].key => i = j

\* What is given after the others takes the place of what has its key.
Given(set, a) == {x \in set : x.key # a.key} \cup {a}

LEMMA ReplaceFacts ==
    ASSUME NEW m \in Builders, NEW a \in Attribute, HasKey(m, a.key)
    PROVE  /\ Replace(m, a) \in Builders
           /\ Replace(m, a).message = m.message
           /\ NoMore(m, Replace(m, a))
           /\ ToSet(Replace(m, a).attributes) = Given(ToSet(m.attributes), a)
           /\ KeysDistinct(m.attributes) => KeysDistinct(Replace(m, a).attributes)
<1> DEFINE old == m.attributes
           new == [i \in DOMAIN old |-> IF old[i].key = a.key THEN a ELSE old[i]]
<1>1. Replace(m, a) = [m EXCEPT !.attributes = new]
  BY DEF Replace, Builders
<1>2. /\ old \in Seq(Attribute) /\ Len(old) <= MaxAttributes
      /\ Len(old) \in Nat /\ DOMAIN old = 1 .. Len(old)
  BY DEF Builders
<1>3. \E i \in 1 .. Len(old) : old[i].key = a.key
  BY <1>2 DEF HasKey
<1> HIDE DEF old
<1>4. new \in Seq(Attribute) /\ Len(new) = Len(old) /\ DOMAIN new = 1 .. Len(old)
  BY <1>2
<1>5. \A i \in 1 .. Len(old) : /\ new[i] = IF old[i].key = a.key THEN a ELSE old[i]
                               /\ new[i].key = old[i].key
  BY <1>2
<1> HIDE DEF new
<1>6. {new[i] : i \in 1 .. Len(old)} = {x \in {old[i] : i \in 1 .. Len(old)} : x.key # a.key} \cup {a}
  BY <1>3, <1>5
<1>7. ToSet(new) = Given(ToSet(old), a)
  BY <1>2, <1>4, <1>6 DEF ToSet, Given
<1>8. KeysDistinct(old) => KeysDistinct(new)
  BY <1>4, <1>5 DEF KeysDistinct
<1>9. /\ [m EXCEPT !.attributes = new] \in Builders
      /\ [m EXCEPT !.attributes = new].attributes = new
  BY <1>2, <1>4 DEF Builders
<1>10. QED
  BY <1>1, <1>7, <1>8, <1>9 DEF Builders, NoMore, old

LEMMA AppendFacts ==
    ASSUME NEW m \in Builders, NEW a \in Attribute, ~HasKey(m, a.key),
           Len(m.attributes) < MaxAttributes
    PROVE  LET n == [m EXCEPT !.attributes = Append(@, a)]
           IN  /\ n \in Builders
               /\ n.message = m.message
               /\ NoMore(m, n)
               /\ ToSet(n.attributes) = Given(ToSet(m.attributes), a)
               /\ KeysDistinct(m.attributes) => KeysDistinct(n.attributes)
<1> DEFINE old == m.attributes
           new == Append(old, a)
           n == [m EXCEPT !.attributes = Append(@, a)]
<1>1. n = [m EXCEPT !.attributes = new]
  BY DEF Builders
<1>2. /\ old \in Seq(Attribute) /\ Len(old) < MaxAttributes
      /\ Len(old) \in Nat /\ DOMAIN old = 1 .. Len(old)
  BY DEF Builders
<1>3. \A i \in 1 .. Len(old) : old[i].key # a.key
  BY <1>2 DEF HasKey
<1> HIDE DEF old
<1>4. /\ new \in Seq(Attribute) /\ Len(new) = Len(old) + 1 /\ DOMAIN new = 1 .. Len(old) + 1
      /\ new[Len(old) + 1] = a /\ \A i \in 1 .. Len(old) : new[i] = old[i]
  BY <1>2
<1> HIDE DEF new
<1>5. {new[i] : i \in 1 .. Len(old) + 1} = {x \in {old[i] : i \in 1 .. Len(old)} : x.key # a.key} \cup {a}
  <2>1. \A i \in 1 .. Len(old) + 1 : i \in 1 .. Len(old) \/ i = Len(old) + 1
    BY <1>2
  <2>2. /\ Len(old) + 1 \in 1 .. Len(old) + 1
        /\ \A i \in 1 .. Len(old) : i \in 1 .. Len(old) + 1
    BY <1>2
  <2>3. QED
    BY <1>3, <1>4, <2>1, <2>2
<1>6. ToSet(new) = Given(ToSet(old), a)
  BY <1>2, <1>4, <1>5 DEF ToSet, Given
<1>7. KeysDistinct(old) => KeysDistinct(new)
  BY <1>2, <1>3, <1>4 DEF KeysDistinct
<1>8. Len(new) <= MaxAttributes
  BY <1>2, <1>4, RecordBuilderAssumption
<1>9. n \in Builders /\ n.attributes = new /\ n.message = m.message /\ NoMore(m, n)
  BY <1>1, <1>4, <1>8 DEF Builders, NoMore
<1>10. QED
  BY <1>6, <1>7, <1>9 DEF old

\* A step of the merge: the list has the attributes it had, without the one whose place
\* is taken, and the new one, unless something is counted.
MergeStep(m, n, a) ==
    /\ n \in Builders
    /\ n.message = m.message
    /\ NoLess(m, n)
    /\ KeysDistinct(m.attributes) => KeysDistinct(n.attributes)
    /\ NoMore(m, n) => ToSet(n.attributes) = Given(ToSet(m.attributes), a)

LEMMA AppendOrReplaceFacts ==
    ASSUME NEW m \in Builders, NEW a \in Attribute
    PROVE  MergeStep(m, AppendOrReplace(m, a), a)
<1>1. m.truncatedAttributes \in Nat /\ m.truncatedBytes \in Nat
  BY DEF Builders
<1>2. CASE HasKey(m, a.key)
  BY <1>1, <1>2, ReplaceFacts DEF AppendOrReplace, MergeStep, NoLess, NoMore
<1>3. CASE ~HasKey(m, a.key) /\ Len(m.attributes) >= MaxAttributes
  <2>1. AppendOrReplace(m, a) = [m EXCEPT !.truncatedAttributes = @ + 1]
    BY <1>3 DEF AppendOrReplace, CountExcess
  <2>2. QED
    BY <1>1, <2>1 DEF MergeStep, NoLess, NoMore, Builders
<1>4. CASE ~HasKey(m, a.key) /\ ~(Len(m.attributes) >= MaxAttributes)
  <2> DEFINE n == [m EXCEPT !.attributes = Append(@, a)]
  <2>1. AppendOrReplace(m, a) = n
    BY <1>4 DEF AppendOrReplace
  <2>2. Len(m.attributes) < MaxAttributes
    BY <1>4, RecordBuilderAssumption DEF Builders
  <2>3. /\ n \in Builders /\ n.message = m.message /\ NoMore(m, n)
        /\ ToSet(n.attributes) = Given(ToSet(m.attributes), a)
        /\ KeysDistinct(m.attributes) => KeysDistinct(n.attributes)
    BY <1>4, <2>2, AppendFacts
  <2> HIDE DEF n
  <2>4. QED
    BY <1>1, <2>1, <2>3 DEF MergeStep, NoLess, NoMore
<1>5. QED
  BY <1>2, <1>3, <1>4

LEMMA MergeContextAttributeFacts ==
    ASSUME NEW m \in Builders, NEW a \in ContextAttribute
    PROVE  MergeStep(m, MergeContextAttribute(m, a), a)
<1> DEFINE n == AfterCopy(m, a.key)
           v == CopiedValue(n, a.value)
           o == AfterCopyValue(n, a.value)
           b == [key |-> Cut(a.key, m.pool), value |-> v, kind |-> "Default"]
           r == AppendOrReplace(o, b)
<1>1. /\ a.key \in Text /\ a.value \in Text \cup Scalars /\ a.kind = "Default"
      /\ a \in Attribute /\ "Default" \in Kinds
  BY RecordBuilderAssumption DEF Attribute, ContextAttribute
<1>2. MergeContextAttribute(m, a) = r
  BY DEF MergeContextAttribute
<1>3. /\ n \in Builders /\ n.message = m.message /\ n.attributes = m.attributes
      /\ n.truncatedAttributes = m.truncatedAttributes
      /\ n.truncatedBytes >= m.truncatedBytes
      /\ n.truncatedBytes = m.truncatedBytes => Cut(a.key, m.pool) = a.key
  BY <1>1, AfterCopyFacts
<1> HIDE DEF n
<1>4. /\ o \in Builders /\ v \in Text \cup Scalars
      /\ o.message = n.message /\ o.attributes = n.attributes
      /\ o.truncatedAttributes = n.truncatedAttributes
      /\ o.truncatedBytes >= n.truncatedBytes
      /\ o.truncatedBytes = n.truncatedBytes => v = a.value
  BY <1>1, <1>3, CopyValueFacts
<1> HIDE DEF o, v
<1>5. b \in Attribute
  <2>1. m.pool \in Nat
    BY DEF Builders
  <2>2. Cut(a.key, m.pool) \in Text
    BY <1>1, <2>1, CutFacts
  <2>3. QED
    BY <1>1, <1>4, <2>2 DEF Attribute
<1>6. Cut(a.key, m.pool) = a.key /\ v = a.value => b = a
  BY <1>1 DEF Attribute
<1> HIDE DEF b
<1>7. MergeStep(o, r, b)
  BY <1>4, <1>5, AppendOrReplaceFacts
<1> HIDE DEF r
<1>8. /\ m.truncatedBytes \in Nat /\ n.truncatedBytes \in Nat /\ o.truncatedBytes \in Nat
      /\ m.truncatedAttributes \in Nat /\ r.truncatedBytes \in Nat /\ r.truncatedAttributes \in Nat
  BY <1>3, <1>4, <1>7 DEF Builders, MergeStep
<1>9. NoLess(m, r) /\ (NoMore(m, r) => NoMore(o, r) /\ b = a)
  BY <1>3, <1>4, <1>6, <1>7, <1>8 DEF MergeStep, NoLess, NoMore
<1>10. r \in Builders /\ r.message = m.message /\ o.attributes = m.attributes
  BY <1>3, <1>4, <1>7 DEF MergeStep
<1>11. QED
  BY <1>2, <1>7, <1>9, <1>10 DEF MergeStep

-----------------------------------------------------------------------------
(* The folds of the builder and of the merge.                              *)

LEMMA LastOfFacts ==
    ASSUME NEW message \in Text, NEW call \in BuilderCall
    PROVE  LastOf(message, call) \in Text
BY DEF LastOf, IsMessage, BuilderCall, Attribute

LEMMA WithAttributeFacts ==
    ASSUME NEW list \in Seq(Attribute), NEW call \in BuilderCall
    PROVE  WithAttribute(list, call) \in Seq(Attribute)
<1>1. CASE call \in [message : Text]
  BY <1>1 DEF WithAttribute, IsMessage
<1>2. CASE call \in Attribute
  BY <1>2 DEF WithAttribute
<1>3. QED
  BY <1>1, <1>2 DEF BuilderCall

\* The calls of a builder function.
CallOp == [c \in Builders \X BuilderCall |-> Call(c[1], c[2])]

LEMMA CallIsFold ==
    ASSUME NEW base \in Builders, NEW s \in Seq(BuilderCall)
    PROVE  /\ CallOp \in [Builders \X BuilderCall -> Builders]
           /\ \E f : /\ FoldLeft(Call, base, s) = f[1 .. Len(s)]
                    /\ FoldsBy(f, s, Builders, CallOp, base)
<1> DEFINE Is(f) == f = [t \in SUBSET (DOMAIN s) |->
                            IF t = {} THEN base ELSE Call(f[t \ {Max(t)}], s[Max(t)])]
           f == CHOOSE g : Is(g)
           step == [c \in (1 .. Len(s)) \X Builders |-> Call(c[2], s[c[1]])]
<1>1. FoldLeft(Call, base, s) = f[DOMAIN s]
  BY DEF FoldLeft, MapThenFoldSet
<1>2. /\ Len(s) \in Nat /\ DOMAIN s = 1 .. Len(s)
      /\ \A i \in 1 .. Len(s) : s[i] \in BuilderCall
  OBVIOUS
<1>3. /\ step \in [(1 .. Len(s)) \X Builders -> Builders]
      /\ CallOp \in [Builders \X BuilderCall -> Builders]
  BY <1>2, CallFacts DEF CallOp
<1>4. PICK h \in [SUBSET (1 .. Len(s)) -> Builders] : IsSetFold(h, Len(s), base, step)
  <2> HIDE DEF step
  <2>1. QED
    BY <1>2, <1>3, SetFoldExists
<1>5. ASSUME NEW t \in SUBSET (1 .. Len(s))
      PROVE  h[t] = IF t = {} THEN base ELSE Call(h[t \ {Max(t)}], s[Max(t)])
  <2>1. CASE t = {}
    BY <1>4, <2>1 DEF IsSetFold
  <2>2. CASE t # {}
    <3>1. Max(t) \in 1 .. Len(s) /\ h[t \ {Max(t)}] \in Builders
      BY <1>2, <1>4, <2>2, MaxFacts
    <3>2. step[<<Max(t), h[t \ {Max(t)}]>>] = Call(h[t \ {Max(t)}], s[Max(t)])
      BY <3>1
    <3>3. h[t] = step[<<Max(t), h[t \ {Max(t)}]>>]
      <4> HIDE DEF step
      <4>1. QED
        BY <1>4, <2>2 DEF IsSetFold
    <3>4. QED
      BY <2>2, <3>2, <3>3
  <2>3. QED
    BY <2>1, <2>2
<1>6. Is(f)
  <2>1. Is(h)
    BY <1>2, <1>4, <1>5
  <2> HIDE DEF Is
  <2>2. QED
    BY <2>1
<1>7. FoldsBy(f, s, Builders, CallOp, base)
  <2> HIDE DEF f
  <2>1. f[{}] = base
    BY <1>6
  <2>2. ASSUME NEW n \in 1 .. Len(s), f[1 .. (n - 1)] \in Builders
        PROVE  f[1 .. n] = CallOp[<<f[1 .. (n - 1)], s[n]>>]
    <3>1. /\ 1 .. n \in SUBSET (DOMAIN s) /\ 1 .. n # {}
          /\ Max(1 .. n) = n /\ (1 .. n) \ {n} = 1 .. (n - 1)
      BY <1>2, MaxOfInterval
    <3>2. f[1 .. n] = Call(f[(1 .. n) \ {Max(1 .. n)}], s[Max(1 .. n)])
      BY <1>6, <3>1
    <3>3. f[1 .. n] = Call(f[1 .. (n - 1)], s[n])
      BY <3>1, <3>2
    <3>4. QED
      BY <1>2, <2>2, <3>3 DEF CallOp
  <2>3. QED
    BY <2>1, <2>2 DEF FoldsBy
<1>8. QED
  <2> HIDE DEF f, step, Is
  <2>1. QED
    BY <1>1, <1>2, <1>3, <1>7

LEMMA CallFold ==
    ASSUME NEW base \in Builders, NEW s \in Seq(BuilderCall)
    PROVE  /\ FoldLeft(Call, base, <<>>) = base
           /\ FoldLeft(Call, base, s) \in Builders
           /\ \A x \in BuilderCall :
                 FoldLeft(Call, base, Append(s, x)) = Call(FoldLeft(Call, base, s), x)
<1>1. FoldLeft(Call, base, <<>>) = base
  <2>1. PICK f : /\ FoldLeft(Call, base, <<>>) = f[1 .. Len(<<>>)]
                 /\ FoldsBy(f, <<>>, Builders, CallOp, base)
    <3>1. <<>> \in Seq(BuilderCall)
      OBVIOUS
    <3>2. QED
      BY <3>1, CallIsFold
  <2>2. 1 .. Len(<<>>) = {}
    OBVIOUS
  <2>3. QED
    BY <2>1, <2>2 DEF FoldsBy
<1>2. PICK f : /\ FoldLeft(Call, base, s) = f[1 .. Len(s)]
               /\ FoldsBy(f, s, Builders, CallOp, base)
  BY CallIsFold
<1>3. CallOp \in [Builders \X BuilderCall -> Builders]
  BY CallIsFold
<1>4. FoldLeft(Call, base, s) \in Builders
  <2>1. Len(s) \in 0 .. Len(s)
    OBVIOUS
  <2>2. \A n \in 0 .. Len(s) : f[1 .. n] \in Builders
    BY <1>2, <1>3, FoldsTyped
  <2>3. QED
    BY <1>2, <2>1, <2>2
<1>5. ASSUME NEW x \in BuilderCall
      PROVE  FoldLeft(Call, base, Append(s, x)) = Call(FoldLeft(Call, base, s), x)
  <2>1. Append(s, x) \in Seq(BuilderCall)
    OBVIOUS
  <2>2. PICK g : /\ FoldLeft(Call, base, Append(s, x)) = g[1 .. Len(Append(s, x))]
                 /\ FoldsBy(g, Append(s, x), Builders, CallOp, base)
    BY <2>1, CallIsFold
  <2>3. g[1 .. Len(Append(s, x))] = CallOp[<<f[1 .. Len(s)], x>>]
    <3>1. FoldLaw(Builders, BuilderCall, CallOp, base)
      BY <1>3, FoldsAppend
    <3>2. QED
      BY <1>2, <2>2, <3>1 DEF FoldLaw
  <2>4. QED
    BY <1>2, <1>4, <2>2, <2>3 DEF CallOp
<1>6. QED
  BY <1>1, <1>4, <1>5

\* The last message that is given.
LastOfOp == [c \in Text \X BuilderCall |-> LastOf(c[1], c[2])]

LEMMA LastOfIsFold ==
    ASSUME NEW base \in Text, NEW s \in Seq(BuilderCall)
    PROVE  /\ LastOfOp \in [Text \X BuilderCall -> Text]
           /\ \E f : /\ FoldLeft(LastOf, base, s) = f[1 .. Len(s)]
                    /\ FoldsBy(f, s, Text, LastOfOp, base)
<1> DEFINE Is(f) == f = [t \in SUBSET (DOMAIN s) |->
                            IF t = {} THEN base ELSE LastOf(f[t \ {Max(t)}], s[Max(t)])]
           f == CHOOSE g : Is(g)
           step == [c \in (1 .. Len(s)) \X Text |-> LastOf(c[2], s[c[1]])]
<1>1. FoldLeft(LastOf, base, s) = f[DOMAIN s]
  BY DEF FoldLeft, MapThenFoldSet
<1>2. /\ Len(s) \in Nat /\ DOMAIN s = 1 .. Len(s)
      /\ \A i \in 1 .. Len(s) : s[i] \in BuilderCall
  OBVIOUS
<1>3. /\ step \in [(1 .. Len(s)) \X Text -> Text]
      /\ LastOfOp \in [Text \X BuilderCall -> Text]
  BY <1>2, LastOfFacts DEF LastOfOp
<1>4. PICK h \in [SUBSET (1 .. Len(s)) -> Text] : IsSetFold(h, Len(s), base, step)
  <2> HIDE DEF step
  <2>1. QED
    BY <1>2, <1>3, SetFoldExists
<1>5. ASSUME NEW t \in SUBSET (1 .. Len(s))
      PROVE  h[t] = IF t = {} THEN base ELSE LastOf(h[t \ {Max(t)}], s[Max(t)])
  <2>1. CASE t = {}
    BY <1>4, <2>1 DEF IsSetFold
  <2>2. CASE t # {}
    <3>1. Max(t) \in 1 .. Len(s) /\ h[t \ {Max(t)}] \in Text
      BY <1>2, <1>4, <2>2, MaxFacts
    <3>2. step[<<Max(t), h[t \ {Max(t)}]>>] = LastOf(h[t \ {Max(t)}], s[Max(t)])
      BY <3>1
    <3>3. h[t] = step[<<Max(t), h[t \ {Max(t)}]>>]
      <4> HIDE DEF step
      <4>1. QED
        BY <1>4, <2>2 DEF IsSetFold
    <3>4. QED
      BY <2>2, <3>2, <3>3
  <2>3. QED
    BY <2>1, <2>2
<1>6. Is(f)
  <2>1. Is(h)
    BY <1>2, <1>4, <1>5
  <2> HIDE DEF Is
  <2>2. QED
    BY <2>1
<1>7. FoldsBy(f, s, Text, LastOfOp, base)
  <2> HIDE DEF f
  <2>1. f[{}] = base
    BY <1>6
  <2>2. ASSUME NEW n \in 1 .. Len(s), f[1 .. (n - 1)] \in Text
        PROVE  f[1 .. n] = LastOfOp[<<f[1 .. (n - 1)], s[n]>>]
    <3>1. /\ 1 .. n \in SUBSET (DOMAIN s) /\ 1 .. n # {}
          /\ Max(1 .. n) = n /\ (1 .. n) \ {n} = 1 .. (n - 1)
      BY <1>2, MaxOfInterval
    <3>2. f[1 .. n] = LastOf(f[(1 .. n) \ {Max(1 .. n)}], s[Max(1 .. n)])
      BY <1>6, <3>1
    <3>3. f[1 .. n] = LastOf(f[1 .. (n - 1)], s[n])
      BY <3>1, <3>2
    <3>4. QED
      BY <1>2, <2>2, <3>3 DEF LastOfOp
  <2>3. QED
    BY <2>1, <2>2 DEF FoldsBy
<1>8. QED
  <2> HIDE DEF f, step, Is
  <2>1. QED
    BY <1>1, <1>2, <1>3, <1>7

LEMMA LastOfFold ==
    ASSUME NEW base \in Text, NEW s \in Seq(BuilderCall)
    PROVE  /\ FoldLeft(LastOf, base, <<>>) = base
           /\ FoldLeft(LastOf, base, s) \in Text
           /\ \A x \in BuilderCall :
                 FoldLeft(LastOf, base, Append(s, x)) = LastOf(FoldLeft(LastOf, base, s), x)
<1>1. FoldLeft(LastOf, base, <<>>) = base
  <2>1. PICK f : /\ FoldLeft(LastOf, base, <<>>) = f[1 .. Len(<<>>)]
                 /\ FoldsBy(f, <<>>, Text, LastOfOp, base)
    <3>1. <<>> \in Seq(BuilderCall)
      OBVIOUS
    <3>2. QED
      BY <3>1, LastOfIsFold
  <2>2. 1 .. Len(<<>>) = {}
    OBVIOUS
  <2>3. QED
    BY <2>1, <2>2 DEF FoldsBy
<1>2. PICK f : /\ FoldLeft(LastOf, base, s) = f[1 .. Len(s)]
               /\ FoldsBy(f, s, Text, LastOfOp, base)
  BY LastOfIsFold
<1>3. LastOfOp \in [Text \X BuilderCall -> Text]
  BY LastOfIsFold
<1>4. FoldLeft(LastOf, base, s) \in Text
  <2>1. Len(s) \in 0 .. Len(s)
    OBVIOUS
  <2>2. \A n \in 0 .. Len(s) : f[1 .. n] \in Text
    BY <1>2, <1>3, FoldsTyped
  <2>3. QED
    BY <1>2, <2>1, <2>2
<1>5. ASSUME NEW x \in BuilderCall
      PROVE  FoldLeft(LastOf, base, Append(s, x)) = LastOf(FoldLeft(LastOf, base, s), x)
  <2>1. Append(s, x) \in Seq(BuilderCall)
    OBVIOUS
  <2>2. PICK g : /\ FoldLeft(LastOf, base, Append(s, x)) = g[1 .. Len(Append(s, x))]
                 /\ FoldsBy(g, Append(s, x), Text, LastOfOp, base)
    BY <2>1, LastOfIsFold
  <2>3. g[1 .. Len(Append(s, x))] = LastOfOp[<<f[1 .. Len(s)], x>>]
    <3>1. FoldLaw(Text, BuilderCall, LastOfOp, base)
      BY <1>3, FoldsAppend
    <3>2. QED
      BY <1>2, <2>2, <3>1 DEF FoldLaw
  <2>4. QED
    BY <1>2, <1>4, <2>2, <2>3 DEF LastOfOp
<1>6. QED
  BY <1>1, <1>4, <1>5

\* The attributes that are given.
WithAttributeOp == [c \in Seq(Attribute) \X BuilderCall |-> WithAttribute(c[1], c[2])]

LEMMA WithAttributeIsFold ==
    ASSUME NEW base \in Seq(Attribute), NEW s \in Seq(BuilderCall)
    PROVE  /\ WithAttributeOp \in [Seq(Attribute) \X BuilderCall -> Seq(Attribute)]
           /\ \E f : /\ FoldLeft(WithAttribute, base, s) = f[1 .. Len(s)]
                    /\ FoldsBy(f, s, Seq(Attribute), WithAttributeOp, base)
<1> DEFINE Is(f) == f = [t \in SUBSET (DOMAIN s) |->
                            IF t = {} THEN base ELSE WithAttribute(f[t \ {Max(t)}], s[Max(t)])]
           f == CHOOSE g : Is(g)
           step == [c \in (1 .. Len(s)) \X Seq(Attribute) |-> WithAttribute(c[2], s[c[1]])]
<1>1. FoldLeft(WithAttribute, base, s) = f[DOMAIN s]
  BY DEF FoldLeft, MapThenFoldSet
<1>2. /\ Len(s) \in Nat /\ DOMAIN s = 1 .. Len(s)
      /\ \A i \in 1 .. Len(s) : s[i] \in BuilderCall
  OBVIOUS
<1>3. /\ step \in [(1 .. Len(s)) \X Seq(Attribute) -> Seq(Attribute)]
      /\ WithAttributeOp \in [Seq(Attribute) \X BuilderCall -> Seq(Attribute)]
  BY <1>2, WithAttributeFacts DEF WithAttributeOp
<1>4. PICK h \in [SUBSET (1 .. Len(s)) -> Seq(Attribute)] : IsSetFold(h, Len(s), base, step)
  <2> HIDE DEF step
  <2>1. QED
    BY <1>2, <1>3, SetFoldExists
<1>5. ASSUME NEW t \in SUBSET (1 .. Len(s))
      PROVE  h[t] = IF t = {} THEN base ELSE WithAttribute(h[t \ {Max(t)}], s[Max(t)])
  <2>1. CASE t = {}
    BY <1>4, <2>1 DEF IsSetFold
  <2>2. CASE t # {}
    <3>1. Max(t) \in 1 .. Len(s) /\ h[t \ {Max(t)}] \in Seq(Attribute)
      BY <1>2, <1>4, <2>2, MaxFacts
    <3>2. step[<<Max(t), h[t \ {Max(t)}]>>] = WithAttribute(h[t \ {Max(t)}], s[Max(t)])
      BY <3>1
    <3>3. h[t] = step[<<Max(t), h[t \ {Max(t)}]>>]
      <4> HIDE DEF step
      <4>1. QED
        BY <1>4, <2>2 DEF IsSetFold
    <3>4. QED
      BY <2>2, <3>2, <3>3
  <2>3. QED
    BY <2>1, <2>2
<1>6. Is(f)
  <2>1. Is(h)
    BY <1>2, <1>4, <1>5
  <2> HIDE DEF Is
  <2>2. QED
    BY <2>1
<1>7. FoldsBy(f, s, Seq(Attribute), WithAttributeOp, base)
  <2> HIDE DEF f
  <2>1. f[{}] = base
    BY <1>6
  <2>2. ASSUME NEW n \in 1 .. Len(s), f[1 .. (n - 1)] \in Seq(Attribute)
        PROVE  f[1 .. n] = WithAttributeOp[<<f[1 .. (n - 1)], s[n]>>]
    <3>1. /\ 1 .. n \in SUBSET (DOMAIN s) /\ 1 .. n # {}
          /\ Max(1 .. n) = n /\ (1 .. n) \ {n} = 1 .. (n - 1)
      BY <1>2, MaxOfInterval
    <3>2. f[1 .. n] = WithAttribute(f[(1 .. n) \ {Max(1 .. n)}], s[Max(1 .. n)])
      BY <1>6, <3>1
    <3>3. f[1 .. n] = WithAttribute(f[1 .. (n - 1)], s[n])
      BY <3>1, <3>2
    <3>4. QED
      BY <1>2, <2>2, <3>3 DEF WithAttributeOp
  <2>3. QED
    BY <2>1, <2>2 DEF FoldsBy
<1>8. QED
  <2> HIDE DEF f, step, Is
  <2>1. QED
    BY <1>1, <1>2, <1>3, <1>7

LEMMA WithAttributeFold ==
    ASSUME NEW base \in Seq(Attribute), NEW s \in Seq(BuilderCall)
    PROVE  /\ FoldLeft(WithAttribute, base, <<>>) = base
           /\ FoldLeft(WithAttribute, base, s) \in Seq(Attribute)
           /\ \A x \in BuilderCall :
                 FoldLeft(WithAttribute, base, Append(s, x)) =
                     WithAttribute(FoldLeft(WithAttribute, base, s), x)
<1>1. FoldLeft(WithAttribute, base, <<>>) = base
  <2>1. PICK f : /\ FoldLeft(WithAttribute, base, <<>>) = f[1 .. Len(<<>>)]
                 /\ FoldsBy(f, <<>>, Seq(Attribute), WithAttributeOp, base)
    <3>1. <<>> \in Seq(BuilderCall)
      OBVIOUS
    <3>2. QED
      BY <3>1, WithAttributeIsFold
  <2>2. 1 .. Len(<<>>) = {}
    OBVIOUS
  <2>3. QED
    BY <2>1, <2>2 DEF FoldsBy
<1>2. PICK f : /\ FoldLeft(WithAttribute, base, s) = f[1 .. Len(s)]
               /\ FoldsBy(f, s, Seq(Attribute), WithAttributeOp, base)
  BY WithAttributeIsFold
<1>3. WithAttributeOp \in [Seq(Attribute) \X BuilderCall -> Seq(Attribute)]
  BY WithAttributeIsFold
<1>4. FoldLeft(WithAttribute, base, s) \in Seq(Attribute)
  <2>1. Len(s) \in 0 .. Len(s)
    OBVIOUS
  <2>2. \A n \in 0 .. Len(s) : f[1 .. n] \in Seq(Attribute)
    BY <1>2, <1>3, FoldsTyped
  <2>3. QED
    BY <1>2, <2>1, <2>2
<1>5. ASSUME NEW x \in BuilderCall
      PROVE  FoldLeft(WithAttribute, base, Append(s, x)) =
                 WithAttribute(FoldLeft(WithAttribute, base, s), x)
  <2>1. Append(s, x) \in Seq(BuilderCall)
    OBVIOUS
  <2>2. PICK g : /\ FoldLeft(WithAttribute, base, Append(s, x)) = g[1 .. Len(Append(s, x))]
                 /\ FoldsBy(g, Append(s, x), Seq(Attribute), WithAttributeOp, base)
    BY <2>1, WithAttributeIsFold
  <2>3. g[1 .. Len(Append(s, x))] = WithAttributeOp[<<f[1 .. Len(s)], x>>]
    <3>1. FoldLaw(Seq(Attribute), BuilderCall, WithAttributeOp, base)
      BY <1>3, FoldsAppend
    <3>2. QED
      BY <1>2, <2>2, <3>1 DEF FoldLaw
  <2>4. QED
    BY <1>2, <1>4, <2>2, <2>3 DEF WithAttributeOp
<1>6. QED
  BY <1>1, <1>4, <1>5

\* The merge of the attributes of the builder.
AppendOrReplaceOp == [c \in Builders \X Attribute |-> AppendOrReplace(c[1], c[2])]

LEMMA AppendOrReplaceIsFold ==
    ASSUME NEW base \in Builders, NEW s \in Seq(Attribute)
    PROVE  /\ AppendOrReplaceOp \in [Builders \X Attribute -> Builders]
           /\ \E f : /\ FoldLeft(AppendOrReplace, base, s) = f[1 .. Len(s)]
                    /\ FoldsBy(f, s, Builders, AppendOrReplaceOp, base)
<1> DEFINE Is(f) == f = [t \in SUBSET (DOMAIN s) |->
                            IF t = {} THEN base ELSE AppendOrReplace(f[t \ {Max(t)}], s[Max(t)])]
           f == CHOOSE g : Is(g)
           step == [c \in (1 .. Len(s)) \X Builders |-> AppendOrReplace(c[2], s[c[1]])]
<1>1. FoldLeft(AppendOrReplace, base, s) = f[DOMAIN s]
  BY DEF FoldLeft, MapThenFoldSet
<1>2. /\ Len(s) \in Nat /\ DOMAIN s = 1 .. Len(s)
      /\ \A i \in 1 .. Len(s) : s[i] \in Attribute
  OBVIOUS
<1>3. /\ step \in [(1 .. Len(s)) \X Builders -> Builders]
      /\ AppendOrReplaceOp \in [Builders \X Attribute -> Builders]
  BY <1>2, AppendOrReplaceFacts DEF AppendOrReplaceOp, MergeStep
<1>4. PICK h \in [SUBSET (1 .. Len(s)) -> Builders] : IsSetFold(h, Len(s), base, step)
  <2> HIDE DEF step
  <2>1. QED
    BY <1>2, <1>3, SetFoldExists
<1>5. ASSUME NEW t \in SUBSET (1 .. Len(s))
      PROVE  h[t] = IF t = {} THEN base ELSE AppendOrReplace(h[t \ {Max(t)}], s[Max(t)])
  <2>1. CASE t = {}
    BY <1>4, <2>1 DEF IsSetFold
  <2>2. CASE t # {}
    <3>1. Max(t) \in 1 .. Len(s) /\ h[t \ {Max(t)}] \in Builders
      BY <1>2, <1>4, <2>2, MaxFacts
    <3>2. step[<<Max(t), h[t \ {Max(t)}]>>] = AppendOrReplace(h[t \ {Max(t)}], s[Max(t)])
      BY <3>1
    <3>3. h[t] = step[<<Max(t), h[t \ {Max(t)}]>>]
      <4> HIDE DEF step
      <4>1. QED
        BY <1>4, <2>2 DEF IsSetFold
    <3>4. QED
      BY <2>2, <3>2, <3>3
  <2>3. QED
    BY <2>1, <2>2
<1>6. Is(f)
  <2>1. Is(h)
    BY <1>2, <1>4, <1>5
  <2> HIDE DEF Is
  <2>2. QED
    BY <2>1
<1>7. FoldsBy(f, s, Builders, AppendOrReplaceOp, base)
  <2> HIDE DEF f
  <2>1. f[{}] = base
    BY <1>6
  <2>2. ASSUME NEW n \in 1 .. Len(s), f[1 .. (n - 1)] \in Builders
        PROVE  f[1 .. n] = AppendOrReplaceOp[<<f[1 .. (n - 1)], s[n]>>]
    <3>1. /\ 1 .. n \in SUBSET (DOMAIN s) /\ 1 .. n # {}
          /\ Max(1 .. n) = n /\ (1 .. n) \ {n} = 1 .. (n - 1)
      BY <1>2, MaxOfInterval
    <3>2. f[1 .. n] = AppendOrReplace(f[(1 .. n) \ {Max(1 .. n)}], s[Max(1 .. n)])
      BY <1>6, <3>1
    <3>3. f[1 .. n] = AppendOrReplace(f[1 .. (n - 1)], s[n])
      BY <3>1, <3>2
    <3>4. QED
      BY <1>2, <2>2, <3>3 DEF AppendOrReplaceOp
  <2>3. QED
    BY <2>1, <2>2 DEF FoldsBy
<1>8. QED
  <2> HIDE DEF f, step, Is
  <2>1. QED
    BY <1>1, <1>2, <1>3, <1>7

LEMMA AppendOrReplaceFold ==
    ASSUME NEW base \in Builders, NEW s \in Seq(Attribute)
    PROVE  /\ FoldLeft(AppendOrReplace, base, <<>>) = base
           /\ FoldLeft(AppendOrReplace, base, s) \in Builders
           /\ \A x \in Attribute :
                 FoldLeft(AppendOrReplace, base, Append(s, x)) =
                     AppendOrReplace(FoldLeft(AppendOrReplace, base, s), x)
<1>1. FoldLeft(AppendOrReplace, base, <<>>) = base
  <2>1. PICK f : /\ FoldLeft(AppendOrReplace, base, <<>>) = f[1 .. Len(<<>>)]
                 /\ FoldsBy(f, <<>>, Builders, AppendOrReplaceOp, base)
    <3>1. <<>> \in Seq(Attribute)
      OBVIOUS
    <3>2. QED
      BY <3>1, AppendOrReplaceIsFold
  <2>2. 1 .. Len(<<>>) = {}
    OBVIOUS
  <2>3. QED
    BY <2>1, <2>2 DEF FoldsBy
<1>2. PICK f : /\ FoldLeft(AppendOrReplace, base, s) = f[1 .. Len(s)]
               /\ FoldsBy(f, s, Builders, AppendOrReplaceOp, base)
  BY AppendOrReplaceIsFold
<1>3. AppendOrReplaceOp \in [Builders \X Attribute -> Builders]
  BY AppendOrReplaceIsFold
<1>4. FoldLeft(AppendOrReplace, base, s) \in Builders
  <2>1. Len(s) \in 0 .. Len(s)
    OBVIOUS
  <2>2. \A n \in 0 .. Len(s) : f[1 .. n] \in Builders
    BY <1>2, <1>3, FoldsTyped
  <2>3. QED
    BY <1>2, <2>1, <2>2
<1>5. ASSUME NEW x \in Attribute
      PROVE  FoldLeft(AppendOrReplace, base, Append(s, x)) =
                 AppendOrReplace(FoldLeft(AppendOrReplace, base, s), x)
  <2>1. Append(s, x) \in Seq(Attribute)
    OBVIOUS
  <2>2. PICK g : /\ FoldLeft(AppendOrReplace, base, Append(s, x)) = g[1 .. Len(Append(s, x))]
                 /\ FoldsBy(g, Append(s, x), Builders, AppendOrReplaceOp, base)
    BY <2>1, AppendOrReplaceIsFold
  <2>3. g[1 .. Len(Append(s, x))] = AppendOrReplaceOp[<<f[1 .. Len(s)], x>>]
    <3>1. FoldLaw(Builders, Attribute, AppendOrReplaceOp, base)
      BY <1>3, FoldsAppend
    <3>2. QED
      BY <1>2, <2>2, <3>1 DEF FoldLaw
  <2>4. QED
    BY <1>2, <1>4, <2>2, <2>3 DEF AppendOrReplaceOp
<1>6. QED
  BY <1>1, <1>4, <1>5

\* The merge of the context.
MergeContextAttributeOp == [c \in Builders \X ContextAttribute |-> MergeContextAttribute(c[1], c[2])]

LEMMA MergeContextAttributeIsFold ==
    ASSUME NEW base \in Builders, NEW s \in Seq(ContextAttribute)
    PROVE  /\ MergeContextAttributeOp \in [Builders \X ContextAttribute -> Builders]
           /\ \E f : /\ FoldLeft(MergeContextAttribute, base, s) = f[1 .. Len(s)]
                    /\ FoldsBy(f, s, Builders, MergeContextAttributeOp, base)
<1> DEFINE Is(f) == f = [t \in SUBSET (DOMAIN s) |->
                            IF t = {} THEN base ELSE MergeContextAttribute(f[t \ {Max(t)}], s[Max(t)])]
           f == CHOOSE g : Is(g)
           step == [c \in (1 .. Len(s)) \X Builders |-> MergeContextAttribute(c[2], s[c[1]])]
<1>1. FoldLeft(MergeContextAttribute, base, s) = f[DOMAIN s]
  BY DEF FoldLeft, MapThenFoldSet
<1>2. /\ Len(s) \in Nat /\ DOMAIN s = 1 .. Len(s)
      /\ \A i \in 1 .. Len(s) : s[i] \in ContextAttribute
  OBVIOUS
<1>3. /\ step \in [(1 .. Len(s)) \X Builders -> Builders]
      /\ MergeContextAttributeOp \in [Builders \X ContextAttribute -> Builders]
  BY <1>2, MergeContextAttributeFacts DEF MergeContextAttributeOp, MergeStep
<1>4. PICK h \in [SUBSET (1 .. Len(s)) -> Builders] : IsSetFold(h, Len(s), base, step)
  <2> HIDE DEF step
  <2>1. QED
    BY <1>2, <1>3, SetFoldExists
<1>5. ASSUME NEW t \in SUBSET (1 .. Len(s))
      PROVE  h[t] = IF t = {} THEN base ELSE MergeContextAttribute(h[t \ {Max(t)}], s[Max(t)])
  <2>1. CASE t = {}
    BY <1>4, <2>1 DEF IsSetFold
  <2>2. CASE t # {}
    <3>1. Max(t) \in 1 .. Len(s) /\ h[t \ {Max(t)}] \in Builders
      BY <1>2, <1>4, <2>2, MaxFacts
    <3>2. step[<<Max(t), h[t \ {Max(t)}]>>] = MergeContextAttribute(h[t \ {Max(t)}], s[Max(t)])
      BY <3>1
    <3>3. h[t] = step[<<Max(t), h[t \ {Max(t)}]>>]
      <4> HIDE DEF step
      <4>1. QED
        BY <1>4, <2>2 DEF IsSetFold
    <3>4. QED
      BY <2>2, <3>2, <3>3
  <2>3. QED
    BY <2>1, <2>2
<1>6. Is(f)
  <2>1. Is(h)
    BY <1>2, <1>4, <1>5
  <2> HIDE DEF Is
  <2>2. QED
    BY <2>1
<1>7. FoldsBy(f, s, Builders, MergeContextAttributeOp, base)
  <2> HIDE DEF f
  <2>1. f[{}] = base
    BY <1>6
  <2>2. ASSUME NEW n \in 1 .. Len(s), f[1 .. (n - 1)] \in Builders
        PROVE  f[1 .. n] = MergeContextAttributeOp[<<f[1 .. (n - 1)], s[n]>>]
    <3>1. /\ 1 .. n \in SUBSET (DOMAIN s) /\ 1 .. n # {}
          /\ Max(1 .. n) = n /\ (1 .. n) \ {n} = 1 .. (n - 1)
      BY <1>2, MaxOfInterval
    <3>2. f[1 .. n] = MergeContextAttribute(f[(1 .. n) \ {Max(1 .. n)}], s[Max(1 .. n)])
      BY <1>6, <3>1
    <3>3. f[1 .. n] = MergeContextAttribute(f[1 .. (n - 1)], s[n])
      BY <3>1, <3>2
    <3>4. QED
      BY <1>2, <2>2, <3>3 DEF MergeContextAttributeOp
  <2>3. QED
    BY <2>1, <2>2 DEF FoldsBy
<1>8. QED
  <2> HIDE DEF f, step, Is
  <2>1. QED
    BY <1>1, <1>2, <1>3, <1>7

LEMMA MergeContextAttributeFold ==
    ASSUME NEW base \in Builders, NEW s \in Seq(ContextAttribute)
    PROVE  /\ FoldLeft(MergeContextAttribute, base, <<>>) = base
           /\ FoldLeft(MergeContextAttribute, base, s) \in Builders
           /\ \A x \in ContextAttribute :
                 FoldLeft(MergeContextAttribute, base, Append(s, x)) =
                     MergeContextAttribute(FoldLeft(MergeContextAttribute, base, s), x)
<1>1. FoldLeft(MergeContextAttribute, base, <<>>) = base
  <2>1. PICK f : /\ FoldLeft(MergeContextAttribute, base, <<>>) = f[1 .. Len(<<>>)]
                 /\ FoldsBy(f, <<>>, Builders, MergeContextAttributeOp, base)
    <3>1. <<>> \in Seq(ContextAttribute)
      OBVIOUS
    <3>2. QED
      BY <3>1, MergeContextAttributeIsFold
  <2>2. 1 .. Len(<<>>) = {}
    OBVIOUS
  <2>3. QED
    BY <2>1, <2>2 DEF FoldsBy
<1>2. PICK f : /\ FoldLeft(MergeContextAttribute, base, s) = f[1 .. Len(s)]
               /\ FoldsBy(f, s, Builders, MergeContextAttributeOp, base)
  BY MergeContextAttributeIsFold
<1>3. MergeContextAttributeOp \in [Builders \X ContextAttribute -> Builders]
  BY MergeContextAttributeIsFold
<1>4. FoldLeft(MergeContextAttribute, base, s) \in Builders
  <2>1. Len(s) \in 0 .. Len(s)
    OBVIOUS
  <2>2. \A n \in 0 .. Len(s) : f[1 .. n] \in Builders
    BY <1>2, <1>3, FoldsTyped
  <2>3. QED
    BY <1>2, <2>1, <2>2
<1>5. ASSUME NEW x \in ContextAttribute
      PROVE  FoldLeft(MergeContextAttribute, base, Append(s, x)) =
                 MergeContextAttribute(FoldLeft(MergeContextAttribute, base, s), x)
  <2>1. Append(s, x) \in Seq(ContextAttribute)
    OBVIOUS
  <2>2. PICK g : /\ FoldLeft(MergeContextAttribute, base, Append(s, x)) = g[1 .. Len(Append(s, x))]
                 /\ FoldsBy(g, Append(s, x), Builders, MergeContextAttributeOp, base)
    BY <2>1, MergeContextAttributeIsFold
  <2>3. g[1 .. Len(Append(s, x))] = MergeContextAttributeOp[<<f[1 .. Len(s)], x>>]
    <3>1. FoldLaw(Builders, ContextAttribute, MergeContextAttributeOp, base)
      BY <1>3, FoldsAppend
    <3>2. QED
      BY <1>2, <2>2, <3>1 DEF FoldLaw
  <2>4. QED
    BY <1>2, <1>4, <2>2, <2>3 DEF MergeContextAttributeOp
<1>6. QED
  BY <1>1, <1>4, <1>5

-----------------------------------------------------------------------------
(* What a record is built from.                                            *)

LEMMA CountersTransitive ==
    ASSUME NEW b \in Builders, NEW c \in Builders, NEW d \in Builders,
           NoLess(b, c), NoLess(c, d)
    PROVE  NoLess(b, d) /\ (NoMore(b, d) => NoMore(b, c) /\ NoMore(c, d))
<1>1. /\ b.truncatedAttributes \in Nat /\ b.truncatedBytes \in Nat
      /\ c.truncatedAttributes \in Nat /\ c.truncatedBytes \in Nat
      /\ d.truncatedAttributes \in Nat /\ d.truncatedBytes \in Nat
  BY DEF Builders
<1>2. QED
  BY <1>1 DEF NoLess, NoMore

LEMMA EmptyBuilderFacts ==
    /\ EmptyBuilder \in Builders
    /\ EmptyBuilder.message = <<>> /\ EmptyBuilder.attributes = <<>>
    /\ EmptyBuilder.truncatedAttributes = 0 /\ EmptyBuilder.truncatedBytes = 0
<1>1. <<>> \in Text /\ <<>> \in Seq(Attribute) /\ Len(<<>>) = 0
  BY DEF Text
<1>2. QED
  BY <1>1, RecordBuilderAssumption DEF EmptyBuilder, Builders

\* A builder that has counted nothing has the last message and all attributes.
LEMMA CallsKept ==
    ASSUME NEW calls \in Seq(BuilderCall)
    PROVE  LET b == FoldLeft(Call, EmptyBuilder, calls)
           IN  /\ b \in Builders
               /\ NoLess(EmptyBuilder, b)
               /\ NoMore(EmptyBuilder, b) =>
                     /\ b.message = FoldLeft(LastOf, <<>>, calls)
                     /\ b.attributes = GivenAttributes(calls)
<1> DEFINE Built(s) == FoldLeft(Call, EmptyBuilder, s)
           Kept(s) ==
               /\ Built(s) \in Builders
               /\ NoLess(EmptyBuilder, Built(s))
               /\ NoMore(EmptyBuilder, Built(s)) =>
                     /\ Built(s).message = FoldLeft(LastOf, <<>>, s)
                     /\ Built(s).attributes = FoldLeft(WithAttribute, <<>>, s)
           P == {s \in Seq(BuilderCall) : Kept(s)}
<1>0. <<>> \in Text /\ <<>> \in Seq(Attribute) /\ <<>> \in Seq(BuilderCall)
  BY DEF Text
<1>1. <<>> \in P
  <2>1. /\ Built(<<>>) = EmptyBuilder
        /\ FoldLeft(LastOf, <<>>, <<>>) = <<>>
        /\ FoldLeft(WithAttribute, <<>>, <<>>) = <<>>
    BY <1>0, EmptyBuilderFacts, CallFold, LastOfFold, WithAttributeFold
  <2>2. NoLess(EmptyBuilder, EmptyBuilder)
    BY EmptyBuilderFacts DEF NoLess
  <2> HIDE DEF Built
  <2>3. QED
    BY <1>0, <2>1, <2>2, EmptyBuilderFacts
<1>2. ASSUME NEW s \in Seq(BuilderCall), NEW x \in BuilderCall, s \in P
      PROVE  Append(s, x) \in P
  <2>1. Built(Append(s, x)) = Call(Built(s), x)
    BY EmptyBuilderFacts, CallFold
  <2>2. /\ FoldLeft(LastOf, <<>>, Append(s, x)) = LastOf(FoldLeft(LastOf, <<>>, s), x)
        /\ FoldLeft(WithAttribute, <<>>, Append(s, x)) =
              WithAttribute(FoldLeft(WithAttribute, <<>>, s), x)
    BY <1>0, LastOfFold, WithAttributeFold
  <2> HIDE DEF Built
  <2>3. Kept(s)
    BY <1>2
  <2>4. /\ Call(Built(s), x) \in Builders /\ NoLess(Built(s), Call(Built(s), x))
        /\ NoMore(Built(s), Call(Built(s), x)) =>
              /\ Call(Built(s), x).message = LastOf(Built(s).message, x)
              /\ Call(Built(s), x).attributes = WithAttribute(Built(s).attributes, x)
    BY <2>3, CallFacts
  <2>5. /\ NoLess(EmptyBuilder, Call(Built(s), x))
        /\ NoMore(EmptyBuilder, Call(Built(s), x)) =>
              NoMore(EmptyBuilder, Built(s)) /\ NoMore(Built(s), Call(Built(s), x))
    BY <2>3, <2>4, EmptyBuilderFacts, CountersTransitive
  <2>6. Kept(Append(s, x))
    BY <2>1, <2>2, <2>3, <2>4, <2>5
  <2>7. QED
    BY <2>6
<1>3. Seq(BuilderCall) \subseteq P
  <2> HIDE DEF P
  <2>1. QED
    BY <1>1, <1>2, SeqInduction
<1>4. Kept(calls)
  BY <1>3
<1>5. QED
  BY <1>4 DEF GivenAttributes

LEMMA BuildFacts ==
    ASSUME NEW calls \in Seq(BuilderCall), NEW throws \in BOOLEAN
    PROVE  LET b == Build(calls, throws)
           IN  /\ b \in Builders
               /\ b.truncatedAttributes = 0 /\ b.truncatedBytes = 0 =>
                     /\ b.message = LastMessage(calls, throws)
                     /\ b.attributes = GivenAttributes(calls)
<1> DEFINE built == FoldLeft(Call, EmptyBuilder, calls)
           b == Build(calls, throws)
<1>1. /\ built \in Builders
      /\ NoLess(EmptyBuilder, built)
      /\ NoMore(EmptyBuilder, built) =>
            /\ built.message = FoldLeft(LastOf, <<>>, calls)
            /\ built.attributes = GivenAttributes(calls)
  BY CallsKept
<1>2. CASE throws
  <2>1. b = Message(built, BuilderThrew) /\ LastMessage(calls, throws) = BuilderThrew
    BY <1>2 DEF Build, LastMessage
  <2> HIDE DEF built, b
  <2>2. /\ b \in Builders /\ NoLess(built, b) /\ b.attributes = built.attributes
        /\ NoMore(built, b) => b.message = BuilderThrew
    BY <1>1, <2>1, MessageFacts, RecordBuilderAssumption
  <2>3. NoMore(EmptyBuilder, b) => NoMore(EmptyBuilder, built) /\ NoMore(built, b)
    BY <1>1, <2>2, EmptyBuilderFacts, CountersTransitive
  <2>4. QED
    BY <1>1, <2>1, <2>2, <2>3, EmptyBuilderFacts DEF b, NoMore
<1>3. CASE ~throws
  <2>1. b = built /\ LastMessage(calls, throws) = FoldLeft(LastOf, <<>>, calls)
    BY <1>3 DEF Build, LastMessage
  <2> HIDE DEF built, b
  <2>2. QED
    BY <1>1, <2>1, EmptyBuilderFacts DEF b, NoMore
<1>4. QED
  BY <1>2, <1>3

LEMMA GivenAttributesType ==
    ASSUME NEW calls \in Seq(BuilderCall)
    PROVE  GivenAttributes(calls) \in Seq(Attribute)
<1>1. <<>> \in Seq(Attribute)
  OBVIOUS
<1>2. QED
  BY <1>1, WithAttributeFold DEF GivenAttributes

-----------------------------------------------------------------------------
(* The merge.                                                              *)

\* A list longer by one attribute: this one takes the place of what has its key.
LEMMA LastGivenAppend ==
    ASSUME NEW s \in Seq(Attribute), NEW a \in Attribute
    PROVE  LastGiven(Append(s, a)) = Given(LastGiven(s), a)
<1> DEFINE N == Len(s)
           t == Append(s, a)
           Is(q, j) == \A k \in j + 1 .. Len(q) : q[k].key # q[j].key
<1>1. /\ N \in Nat /\ Len(t) = N + 1 /\ t[N + 1] = a
      /\ \A j \in 1 .. N : t[j] = s[j]
  OBVIOUS
<1> HIDE DEF t
<1>2. \A j \in 1 .. N : Is(t, j) <=> Is(s, j) /\ s[j].key # a.key
  <2>1. SUFFICES ASSUME NEW j \in 1 .. N PROVE Is(t, j) <=> Is(s, j) /\ s[j].key # a.key
    OBVIOUS
  <2>2. /\ N + 1 \in j + 1 .. N + 1
        /\ \A k \in j + 1 .. N : k \in 1 .. N /\ k \in j + 1 .. N + 1
        /\ \A k \in j + 1 .. N + 1 : k = N + 1 \/ k \in j + 1 .. N
    BY <1>1
  <2>3. QED
    BY <1>1, <2>2
<1>3. Is(t, N + 1)
  BY <1>1
<1>4. /\ N + 1 \in 1 .. N + 1
      /\ \A j \in 1 .. N : j \in 1 .. N + 1
      /\ \A j \in 1 .. N + 1 : j = N + 1 \/ j \in 1 .. N
  BY <1>1
<1>5. LastGiven(t) = {t[j] : j \in {j \in 1 .. N + 1 : Is(t, j)}}
  BY <1>1 DEF LastGiven
<1>6. LastGiven(s) = {s[j] : j \in {j \in 1 .. N : Is(s, j)}}
  BY DEF LastGiven
<1> HIDE DEF Is, N
<1>7. {t[j] : j \in {j \in 1 .. N + 1 : Is(t, j)}} =
         {x \in {s[j] : j \in {j \in 1 .. N : Is(s, j)}} : x.key # a.key} \cup {a}
  BY <1>1, <1>2, <1>3, <1>4
<1>8. QED
  BY <1>5, <1>6, <1>7 DEF Given, t

LEMMA LastGivenEmpty == LastGiven(<<>>) = {}
BY DEF LastGiven

\* m, which began as b, has exactly what is given last in s, unless something is counted.
MergedInto(b, m, s) ==
    /\ m \in Builders
    /\ m.message = b.message
    /\ NoLess(b, m)
    /\ KeysDistinct(m.attributes)
    /\ NoMore(b, m) => ToSet(m.attributes) = LastGiven(s)

LEMMA MergeOne ==
    ASSUME NEW b \in Builders, NEW m \in Builders, NEW n \in Builders,
           NEW s \in Seq(Attribute), NEW a \in Attribute,
           MergedInto(b, m, s), MergeStep(m, n, a)
    PROVE  MergedInto(b, n, Append(s, a))
<1>1. NoLess(b, n) /\ (NoMore(b, n) => NoMore(b, m) /\ NoMore(m, n))
  BY CountersTransitive DEF MergedInto, MergeStep
<1>2. LastGiven(Append(s, a)) = Given(LastGiven(s), a)
  BY LastGivenAppend
<1>3. QED
  BY <1>1, <1>2 DEF MergedInto, MergeStep

LEMMA ContextMerged ==
    ASSUME NEW b \in Builders, b.attributes = <<>>, NEW context \in Seq(ContextAttribute)
    PROVE  MergedInto(b, FoldLeft(MergeContextAttribute, b, context), context)
<1> DEFINE M(s) == FoldLeft(MergeContextAttribute, b, s)
           P == {s \in Seq(ContextAttribute) : MergedInto(b, M(s), s)}
<1>0. \A s \in Seq(ContextAttribute) : s \in Seq(Attribute)
  <2>1. ContextAttribute \subseteq Attribute
    BY DEF ContextAttribute
  <2>2. QED
    BY <2>1, SeqMonotonic
<1>1. <<>> \in P
  <2>1. M(<<>>) = b
    <3>1. <<>> \in Seq(ContextAttribute)
      OBVIOUS
    <3>2. QED
      BY <3>1, MergeContextAttributeFold
  <2> HIDE DEF M
  <2>2. NoLess(b, b) /\ KeysDistinct(<<>>) /\ ToSet(<<>>) = {}
    BY DEF NoLess, Builders, KeysDistinct, ToSet
  <2>3. MergedInto(b, M(<<>>), <<>>)
    BY <2>1, <2>2, LastGivenEmpty DEF MergedInto
  <2>4. QED
    BY <2>3
<1>2. ASSUME NEW s \in Seq(ContextAttribute), NEW a \in ContextAttribute, s \in P
      PROVE  Append(s, a) \in P
  <2>1. M(Append(s, a)) = MergeContextAttribute(M(s), a) /\ M(s) \in Builders
    BY MergeContextAttributeFold
  <2> HIDE DEF M
  <2>2. MergedInto(b, M(s), s)
    BY <1>2
  <2>3. MergeStep(M(s), M(Append(s, a)), a)
    BY <2>1, MergeContextAttributeFacts
  <2>4. a \in Attribute /\ M(Append(s, a)) \in Builders
    BY <2>3 DEF ContextAttribute, MergeStep
  <2>5. MergedInto(b, M(Append(s, a)), Append(s, a))
    BY <1>0, <2>1, <2>2, <2>3, <2>4, MergeOne
  <2>6. QED
    BY <2>5
<1>3. Seq(ContextAttribute) \subseteq P
  <2> HIDE DEF P
  <2>1. QED
    BY <1>1, <1>2, SeqInduction
<1>4. QED
  BY <1>3

LEMMA AttributesMerged ==
    ASSUME NEW b \in Builders, NEW m \in Builders, NEW s \in Seq(Attribute), MergedInto(b, m, s),
           NEW list \in Seq(Attribute)
    PROVE  MergedInto(b, FoldLeft(AppendOrReplace, m, list), s \o list)
<1> DEFINE M(t) == FoldLeft(AppendOrReplace, m, t)
           P == {t \in Seq(Attribute) : MergedInto(b, M(t), s \o t)}
<1>1. <<>> \in P
  <2>1. M(<<>>) = m /\ s \o <<>> = s
    <3>1. <<>> \in Seq(Attribute)
      OBVIOUS
    <3>2. QED
      BY <3>1, AppendOrReplaceFold, ConcatEmptySeq
  <2> HIDE DEF M
  <2>2. QED
    BY <2>1
<1>2. ASSUME NEW t \in Seq(Attribute), NEW a \in Attribute, t \in P
      PROVE  Append(t, a) \in P
  <2>1. M(Append(t, a)) = AppendOrReplace(M(t), a) /\ M(t) \in Builders
    BY AppendOrReplaceFold
  <2> HIDE DEF M
  <2>2. MergedInto(b, M(t), s \o t)
    BY <1>2
  <2>3. MergeStep(M(t), M(Append(t, a)), a)
    BY <2>1, AppendOrReplaceFacts
  <2>4. M(Append(t, a)) \in Builders /\ s \o t \in Seq(Attribute)
    BY <2>3, ConcatProperties DEF MergeStep
  <2>5. MergedInto(b, M(Append(t, a)), Append(s \o t, a))
    BY <2>1, <2>2, <2>3, <2>4, MergeOne
  <2>6. Append(s \o t, a) = s \o Append(t, a)
    <3>1. <<a>> \in Seq(Attribute)
      OBVIOUS
    <3>2. Append(s \o t, a) = (s \o t) \o <<a>> /\ Append(t, a) = t \o <<a>>
      BY <2>4, AppendIsConcat
    <3>3. (s \o t) \o <<a>> = s \o (t \o <<a>>)
      BY <3>1, ConcatAssociative
    <3>4. QED
      BY <3>2, <3>3
  <2>7. QED
    BY <2>5, <2>6
<1>3. Seq(Attribute) \subseteq P
  <2> HIDE DEF P
  <2>1. QED
    BY <1>1, <1>2, SeqInduction
<1>4. QED
  BY <1>3

LEMMA CardinalityOfList ==
    ASSUME NEW list \in Seq(Attribute), KeysDistinct(list)
    PROVE  Cardinality(ToSet(list)) = Len(list)
<1>1. /\ Len(list) \in Nat /\ DOMAIN list = 1 .. Len(list)
      /\ ToSet(list) = {list[i] : i \in 1 .. Len(list)}
  BY DEF ToSet
<1>2. list \in [1 .. Len(list) -> ToSet(list)]
  BY <1>1
<1>3. IsInjective(list)
  BY <1>1 DEF IsInjective, KeysDistinct
<1>4. \A x \in ToSet(list) : \E i \in 1 .. Len(list) : list[i] = x
  BY <1>1
<1>5. list \in Bijection(1 .. Len(list), ToSet(list))
  BY <1>2, <1>3, <1>4 DEF Bijection, Injection, Surjection
<1>6. QED
  BY <1>1, <1>5, FS_CountingElements DEF ExistsBijection

\* The content of a record, and of one that is dispatched.
Contents ==
    [loggerName : Text, file : Text, message : Text, attributes : Seq(Attribute),
     truncatedAttributes : Nat, truncatedBytes : Nat]
SiteType == [loggerName : Text, file : Text]
Dispatched ==
    {r \in Contents : Len(r.message) <= MaxMessage /\ Len(r.attributes) <= MaxAttributes}

LEMMA MergeFacts ==
    ASSUME NEW site \in SiteType, NEW context \in Seq(ContextAttribute), NEW b \in Builders
    PROVE  LET r == Merge(site, context, b)
           IN  /\ r \in Dispatched
               /\ r.loggerName = site.loggerName /\ r.message = b.message
               /\ KeysDistinct(r.attributes)
               /\ r.truncatedAttributes = 0 /\ r.truncatedBytes = 0 =>
                     /\ b.truncatedAttributes = 0 /\ b.truncatedBytes = 0
                     /\ ToSet(r.attributes) = LastGiven(context \o b.attributes)
<1> DEFINE begun == [b EXCEPT !.attributes = <<>>, !.pool = 2 * MaxAttrText]
           outer == FoldLeft(MergeContextAttribute, begun, context)
           merged == FoldLeft(AppendOrReplace, outer, b.attributes)
           r == Merge(site, context, b)
<1>1. /\ r.loggerName = site.loggerName /\ r.message = b.message
      /\ r.attributes = merged.attributes
      /\ r.truncatedAttributes = merged.truncatedAttributes
      /\ r.truncatedBytes = merged.truncatedBytes
      /\ r = [loggerName |-> site.loggerName, file |-> site.file,
              message |-> b.message, attributes |-> merged.attributes,
              truncatedAttributes |-> merged.truncatedAttributes,
              truncatedBytes |-> merged.truncatedBytes]
  BY DEF Merge
<1>2. /\ begun \in Builders /\ begun.attributes = <<>>
      /\ begun.truncatedAttributes = b.truncatedAttributes
      /\ begun.truncatedBytes = b.truncatedBytes
  <2>1. 2 * MaxAttrText \in Nat /\ <<>> \in Seq(Attribute) /\ Len(<<>>) <= MaxAttributes
    BY RecordBuilderAssumption
  <2>2. QED
    BY <2>1 DEF Builders
<1> HIDE DEF begun
<1>3. MergedInto(begun, outer, context)
  BY <1>2, ContextMerged
<1>4. b.attributes \in Seq(Attribute) /\ outer \in Builders /\ context \in Seq(Attribute)
  <2>1. ContextAttribute \subseteq Attribute
    BY DEF ContextAttribute
  <2>2. context \in Seq(Attribute)
    BY <2>1, SeqMonotonic
  <2>3. QED
    BY <1>3, <2>2 DEF Builders, MergedInto
<1> HIDE DEF outer
<1>5. MergedInto(begun, merged, context \o b.attributes)
  BY <1>2, <1>3, <1>4, AttributesMerged
<1> HIDE DEF merged, r
<1>6. r \in Dispatched
  BY <1>1, <1>5 DEF MergedInto, Builders, Dispatched, Contents, SiteType
<1>7. merged.truncatedAttributes = 0 /\ merged.truncatedBytes = 0 =>
         /\ b.truncatedAttributes = 0 /\ b.truncatedBytes = 0
         /\ NoMore(begun, merged)
  <2>1. /\ b.truncatedAttributes \in Nat /\ b.truncatedBytes \in Nat
        /\ merged.truncatedAttributes \in Nat /\ merged.truncatedBytes \in Nat
    BY <1>5 DEF MergedInto, Builders
  <2>2. QED
    BY <1>2, <1>5, <2>1 DEF MergedInto, NoLess, NoMore
<1>8. QED
  BY <1>1, <1>5, <1>6, <1>7 DEF MergedInto, r

-----------------------------------------------------------------------------
(* The copy of an asynchronous sink.                                       *)

SameNames(o, r) ==
    o.loggerName = r.loggerName /\ o.file = r.file /\ o.message = r.message

LEMMA OwnAttributeFacts ==
    ASSUME NEW r \in Contents, NEW a \in Attribute
    PROVE  LET o == OwnAttribute(r, a)
           IN  /\ o \in Contents /\ SameNames(o, r)
               /\ o.truncatedAttributes = r.truncatedAttributes
               /\ o.truncatedBytes >= r.truncatedBytes
               /\ o.truncatedBytes = r.truncatedBytes =>
                     o.attributes = Append(r.attributes, a)
<1> DEFINE lostKey == Len(a.key) - Fits(a.key, MaxAttrText)
           lostValue == IF IsText(a.value) THEN Len(a.value) - Fits(a.value, MaxAttrText) ELSE 0
           key == Cut(a.key, MaxAttrText)
           value == IF IsText(a.value) THEN Cut(a.value, MaxAttrText) ELSE a.value
           owned == [a EXCEPT !.key = key, !.value = value]
           o == OwnAttribute(r, a)
<1>1. /\ a.key \in Text /\ a.value \in Text \cup Scalars /\ a.kind \in Kinds
      /\ IsText(a.value) => a.value \in Text
      /\ ~IsText(a.value) => a.value \in Scalars
      /\ MaxAttrText \in Nat
  BY RecordBuilderAssumption DEF Attribute, IsText
<1>2. /\ key \in Text /\ lostKey \in Nat /\ (lostKey = 0 => key = a.key)
  BY <1>1, CutFacts
<1>3. /\ value \in Text \cup Scalars /\ lostValue \in Nat /\ (lostValue = 0 => value = a.value)
  BY <1>1, CutFacts
<1>4. o = [r EXCEPT !.truncatedBytes = @ + lostKey + lostValue, !.attributes = Append(@, owned)]
  <2>1. CASE IsText(a.value)
    BY <1>1, <2>1 DEF OwnAttribute, CountLost, Contents, Attribute
  <2>2. CASE ~IsText(a.value)
    <3>1. \A n \in Nat : n + lostKey + 0 = n + lostKey
      BY <1>2
    <3>2. r.truncatedBytes \in Nat /\ r.truncatedBytes + lostKey + 0 = r.truncatedBytes + lostKey
      BY <3>1 DEF Contents
    <3>3. QED
      BY <1>1, <2>2, <3>2 DEF OwnAttribute, CountLost, Contents, Attribute
  <2>3. QED
    BY <2>1, <2>2
<1> HIDE DEF key, value, lostKey, lostValue
<1>5. owned \in Attribute /\ (key = a.key /\ value = a.value => owned = a)
  BY <1>1, <1>2, <1>3 DEF Attribute
<1> HIDE DEF owned, o
<1>6. /\ r.truncatedBytes \in Nat /\ r.attributes \in Seq(Attribute)
      /\ r.truncatedBytes + lostKey + lostValue \in Nat
      /\ Append(r.attributes, owned) \in Seq(Attribute)
  BY <1>2, <1>3, <1>5 DEF Contents
<1>7. /\ o \in Contents /\ SameNames(o, r)
      /\ o.truncatedAttributes = r.truncatedAttributes
      /\ o.truncatedBytes = r.truncatedBytes + lostKey + lostValue
      /\ o.attributes = Append(r.attributes, owned)
  BY <1>4, <1>6 DEF Contents, SameNames
<1>8. /\ o.truncatedBytes >= r.truncatedBytes
      /\ o.truncatedBytes = r.truncatedBytes => lostKey = 0 /\ lostValue = 0
  BY <1>2, <1>3, <1>6, <1>7
<1>9. QED
  BY <1>2, <1>3, <1>5, <1>7, <1>8 DEF o

\* The copies of the attributes.
OwnAttributeOp == [c \in Contents \X Attribute |-> OwnAttribute(c[1], c[2])]

LEMMA OwnAttributeIsFold ==
    ASSUME NEW base \in Contents, NEW s \in Seq(Attribute)
    PROVE  /\ OwnAttributeOp \in [Contents \X Attribute -> Contents]
           /\ \E f : /\ FoldLeft(OwnAttribute, base, s) = f[1 .. Len(s)]
                    /\ FoldsBy(f, s, Contents, OwnAttributeOp, base)
<1> DEFINE Is(f) == f = [t \in SUBSET (DOMAIN s) |->
                            IF t = {} THEN base ELSE OwnAttribute(f[t \ {Max(t)}], s[Max(t)])]
           f == CHOOSE g : Is(g)
           step == [c \in (1 .. Len(s)) \X Contents |-> OwnAttribute(c[2], s[c[1]])]
<1>1. FoldLeft(OwnAttribute, base, s) = f[DOMAIN s]
  BY DEF FoldLeft, MapThenFoldSet
<1>2. /\ Len(s) \in Nat /\ DOMAIN s = 1 .. Len(s)
      /\ \A i \in 1 .. Len(s) : s[i] \in Attribute
  OBVIOUS
<1>3. /\ step \in [(1 .. Len(s)) \X Contents -> Contents]
      /\ OwnAttributeOp \in [Contents \X Attribute -> Contents]
  BY <1>2, OwnAttributeFacts DEF OwnAttributeOp
<1>4. PICK h \in [SUBSET (1 .. Len(s)) -> Contents] : IsSetFold(h, Len(s), base, step)
  <2> HIDE DEF step
  <2>1. QED
    BY <1>2, <1>3, SetFoldExists
<1>5. ASSUME NEW t \in SUBSET (1 .. Len(s))
      PROVE  h[t] = IF t = {} THEN base ELSE OwnAttribute(h[t \ {Max(t)}], s[Max(t)])
  <2>1. CASE t = {}
    BY <1>4, <2>1 DEF IsSetFold
  <2>2. CASE t # {}
    <3>1. Max(t) \in 1 .. Len(s) /\ h[t \ {Max(t)}] \in Contents
      BY <1>2, <1>4, <2>2, MaxFacts
    <3>2. step[<<Max(t), h[t \ {Max(t)}]>>] = OwnAttribute(h[t \ {Max(t)}], s[Max(t)])
      BY <3>1
    <3>3. h[t] = step[<<Max(t), h[t \ {Max(t)}]>>]
      <4> HIDE DEF step
      <4>1. QED
        BY <1>4, <2>2 DEF IsSetFold
    <3>4. QED
      BY <2>2, <3>2, <3>3
  <2>3. QED
    BY <2>1, <2>2
<1>6. Is(f)
  <2>1. Is(h)
    BY <1>2, <1>4, <1>5
  <2> HIDE DEF Is
  <2>2. QED
    BY <2>1
<1>7. FoldsBy(f, s, Contents, OwnAttributeOp, base)
  <2> HIDE DEF f
  <2>1. f[{}] = base
    BY <1>6
  <2>2. ASSUME NEW n \in 1 .. Len(s), f[1 .. (n - 1)] \in Contents
        PROVE  f[1 .. n] = OwnAttributeOp[<<f[1 .. (n - 1)], s[n]>>]
    <3>1. /\ 1 .. n \in SUBSET (DOMAIN s) /\ 1 .. n # {}
          /\ Max(1 .. n) = n /\ (1 .. n) \ {n} = 1 .. (n - 1)
      BY <1>2, MaxOfInterval
    <3>2. f[1 .. n] = OwnAttribute(f[(1 .. n) \ {Max(1 .. n)}], s[Max(1 .. n)])
      BY <1>6, <3>1
    <3>3. f[1 .. n] = OwnAttribute(f[1 .. (n - 1)], s[n])
      BY <3>1, <3>2
    <3>4. QED
      BY <1>2, <2>2, <3>3 DEF OwnAttributeOp
  <2>3. QED
    BY <2>1, <2>2 DEF FoldsBy
<1>8. QED
  <2> HIDE DEF f, step, Is
  <2>1. QED
    BY <1>1, <1>2, <1>3, <1>7

LEMMA OwnAttributeFold ==
    ASSUME NEW base \in Contents, NEW s \in Seq(Attribute)
    PROVE  /\ FoldLeft(OwnAttribute, base, <<>>) = base
           /\ FoldLeft(OwnAttribute, base, s) \in Contents
           /\ \A x \in Attribute :
                 FoldLeft(OwnAttribute, base, Append(s, x)) =
                     OwnAttribute(FoldLeft(OwnAttribute, base, s), x)
<1>1. FoldLeft(OwnAttribute, base, <<>>) = base
  <2>1. PICK f : /\ FoldLeft(OwnAttribute, base, <<>>) = f[1 .. Len(<<>>)]
                 /\ FoldsBy(f, <<>>, Contents, OwnAttributeOp, base)
    <3>1. <<>> \in Seq(Attribute)
      OBVIOUS
    <3>2. QED
      BY <3>1, OwnAttributeIsFold
  <2>2. 1 .. Len(<<>>) = {}
    OBVIOUS
  <2>3. QED
    BY <2>1, <2>2 DEF FoldsBy
<1>2. PICK f : /\ FoldLeft(OwnAttribute, base, s) = f[1 .. Len(s)]
               /\ FoldsBy(f, s, Contents, OwnAttributeOp, base)
  BY OwnAttributeIsFold
<1>3. OwnAttributeOp \in [Contents \X Attribute -> Contents]
  BY OwnAttributeIsFold
<1>4. FoldLeft(OwnAttribute, base, s) \in Contents
  <2>1. Len(s) \in 0 .. Len(s)
    OBVIOUS
  <2>2. \A n \in 0 .. Len(s) : f[1 .. n] \in Contents
    BY <1>2, <1>3, FoldsTyped
  <2>3. QED
    BY <1>2, <2>1, <2>2
<1>5. ASSUME NEW x \in Attribute
      PROVE  FoldLeft(OwnAttribute, base, Append(s, x)) = OwnAttribute(FoldLeft(OwnAttribute, base, s), x)
  <2>1. Append(s, x) \in Seq(Attribute)
    OBVIOUS
  <2>2. PICK g : /\ FoldLeft(OwnAttribute, base, Append(s, x)) = g[1 .. Len(Append(s, x))]
                 /\ FoldsBy(g, Append(s, x), Contents, OwnAttributeOp, base)
    BY <2>1, OwnAttributeIsFold
  <2>3. g[1 .. Len(Append(s, x))] = OwnAttributeOp[<<f[1 .. Len(s)], x>>]
    <3>1. FoldLaw(Contents, Attribute, OwnAttributeOp, base)
      BY <1>3, FoldsAppend
    <3>2. QED
      BY <1>2, <2>2, <3>1 DEF FoldLaw
  <2>4. QED
    BY <1>2, <1>4, <2>2, <2>3 DEF OwnAttributeOp
<1>6. QED
  BY <1>1, <1>4, <1>5

\* The copies of the attributes are the attributes, unless something is counted.
LEMMA AttributesOwned ==
    ASSUME NEW b \in Contents, b.attributes = <<>>, NEW list \in Seq(Attribute)
    PROVE  LET o == FoldLeft(OwnAttribute, b, list)
           IN  /\ o \in Contents /\ SameNames(o, b)
               /\ o.truncatedAttributes = b.truncatedAttributes
               /\ o.truncatedBytes >= b.truncatedBytes
               /\ o.truncatedBytes = b.truncatedBytes => o.attributes = list
<1> DEFINE O(s) == FoldLeft(OwnAttribute, b, s)
           Owned(s) ==
               /\ O(s) \in Contents /\ SameNames(O(s), b)
               /\ O(s).truncatedAttributes = b.truncatedAttributes
               /\ O(s).truncatedBytes >= b.truncatedBytes
               /\ O(s).truncatedBytes = b.truncatedBytes => O(s).attributes = s
           P == {s \in Seq(Attribute) : Owned(s)}
<1>0. b.truncatedBytes \in Nat
  BY DEF Contents
<1>1. <<>> \in P
  <2>1. <<>> \in Seq(Attribute)
    OBVIOUS
  <2>2. O(<<>>) = b
    BY <2>1, OwnAttributeFold
  <2> HIDE DEF O
  <2>3. QED
    BY <1>0, <2>1, <2>2 DEF SameNames
<1>2. ASSUME NEW s \in Seq(Attribute), NEW a \in Attribute, s \in P
      PROVE  Append(s, a) \in P
  <2>1. O(Append(s, a)) = OwnAttribute(O(s), a)
    BY OwnAttributeFold
  <2> HIDE DEF O
  <2>2. Owned(s)
    BY <1>2
  <2> DEFINE o == OwnAttribute(O(s), a)
  <2>3. /\ o \in Contents /\ SameNames(o, O(s))
        /\ o.truncatedAttributes = O(s).truncatedAttributes
        /\ o.truncatedBytes >= O(s).truncatedBytes
        /\ o.truncatedBytes = O(s).truncatedBytes =>
              o.attributes = Append(O(s).attributes, a)
    BY <2>2, OwnAttributeFacts
  <2> HIDE DEF o
  <2>4. O(s).truncatedBytes \in Nat /\ o.truncatedBytes \in Nat
    BY <2>2, <2>3 DEF Contents
  <2>5. /\ o.truncatedBytes >= b.truncatedBytes
        /\ o.truncatedBytes = b.truncatedBytes =>
              /\ O(s).truncatedBytes = b.truncatedBytes
              /\ o.truncatedBytes = O(s).truncatedBytes
    BY <1>0, <2>2, <2>3, <2>4
  <2>6. O(Append(s, a)) = o
    BY <2>1 DEF o
  <2>7. Owned(Append(s, a))
    BY <2>2, <2>3, <2>5, <2>6 DEF SameNames
  <2>8. QED
    BY <2>7
<1>3. Seq(Attribute) \subseteq P
  <2> HIDE DEF P
  <2>1. QED
    BY <1>1, <1>2, SeqInduction
<1>4. Owned(list)
  BY <1>3
<1>5. QED
  BY <1>4

\* The copy of a dispatched record.
LEMMA ToOwnedFacts ==
    ASSUME NEW r \in Dispatched
    PROVE  LET o == ToOwned(r)
           IN  /\ o \in Contents
               /\ o.truncatedAttributes = r.truncatedAttributes
               /\ o.truncatedBytes >= r.truncatedBytes
               /\ o.truncatedBytes = r.truncatedBytes => o = r
<1> DEFINE count == IF Len(r.attributes) < MaxAttributes THEN Len(r.attributes) ELSE MaxAttributes
           lostName == Len(r.loggerName) - Fits(r.loggerName, MaxMessage)
           lost == Len(r.message) - Fits(r.message, MaxMessage)
           name == Cut(r.loggerName, MaxMessage)
           begun == [r EXCEPT !.loggerName = name, !.attributes = <<>>,
                              !.truncatedBytes = @ + lostName]
           o == ToOwned(r)
<1>1. /\ r \in Contents /\ r.loggerName \in Text /\ r.file \in Text
      /\ r.message \in Text /\ r.attributes \in Seq(Attribute)
      /\ r.truncatedAttributes \in Nat /\ r.truncatedBytes \in Nat
      /\ Len(r.message) <= MaxMessage /\ Len(r.attributes) <= MaxAttributes
      /\ MaxMessage \in Nat /\ MaxAttributes \in Nat
  BY RecordBuilderAssumption DEF Dispatched, Contents
<1>2. count = Len(r.attributes) /\ SubSeq(r.attributes, 1, count) = r.attributes
  <2>1. count = Len(r.attributes)
    BY <1>1
  <2>2. SubSeq(r.attributes, 1, Len(r.attributes)) = r.attributes
    BY <1>1, SubSeqFull
  <2> HIDE DEF count
  <2>3. QED
    BY <2>1, <2>2
<1>3. /\ lost = 0 /\ Cut(r.message, MaxMessage) = r.message
      /\ lostName \in Nat /\ name \in Text /\ (lostName = 0 => name = r.loggerName)
  BY <1>1, CutFacts
<1>4. ToOwned(r) = FoldLeft(OwnAttribute, begun, r.attributes)
  <2> DEFINE named == CountLost([r EXCEPT !.truncatedBytes = 0], r.loggerName, MaxMessage)
             message == CountLost(named, r.message, MaxMessage)
             start == [message EXCEPT !.loggerName = Cut(@, MaxMessage),
                          !.message = Cut(@, MaxMessage), !.attributes = <<>>,
                          !.truncatedBytes = BroughtAlong(r, @),
                          !.truncatedAttributes = @ + (Len(r.attributes) - count)]
  <2>1. ToOwned(r) = FoldLeft(OwnAttribute, start, SubSeq(r.attributes, 1, count))
    BY DEF ToOwned
  <2>2. message = [r EXCEPT !.truncatedBytes = lostName]
    <3>1. named = [[r EXCEPT !.truncatedBytes = 0] EXCEPT !.truncatedBytes = @ + lostName]
      BY DEF CountLost
    <3>2. message = [named EXCEPT !.truncatedBytes = @ + lost]
      BY DEF CountLost
    <3> HIDE DEF named, message, lostName, lost
    <3>3. 0 + lostName = lostName /\ lostName + lost = lostName
      BY <1>3
    <3>4. named = [r EXCEPT !.truncatedBytes = lostName]
      BY <1>1, <3>1, <3>3 DEF Contents
    <3>5. QED
      BY <1>1, <3>2, <3>3, <3>4 DEF Contents
  <2> HIDE DEF named, message, lost, lostName, count
  <2>3. r.truncatedAttributes + (Len(r.attributes) - count) = r.truncatedAttributes
    BY <1>1, <1>2
  <2>4. start = begun
    <3>1. /\ message.message = r.message /\ message.loggerName = r.loggerName
          /\ message.truncatedBytes = lostName
          /\ message.truncatedAttributes = r.truncatedAttributes
      BY <1>1, <2>2 DEF Contents
    <3>2. BroughtAlong(r, lostName) = r.truncatedBytes + lostName
      BY DEF BroughtAlong
    <3>3. start = [message EXCEPT !.loggerName = name, !.message = r.message,
                      !.attributes = <<>>, !.truncatedBytes = r.truncatedBytes + lostName,
                      !.truncatedAttributes = r.truncatedAttributes]
      BY <1>3, <2>3, <3>1, <3>2
    <3> HIDE DEF name, start
    <3>4. QED
      BY <1>1, <2>2, <3>3 DEF Contents
  <2> HIDE DEF start, begun
  <2>5. QED
    BY <1>2, <2>1, <2>4
<1> HIDE DEF lost, lostName, name, count
<1>5. /\ begun \in Contents /\ begun.attributes = <<>>
      /\ begun.loggerName = name /\ begun.file = r.file /\ begun.message = r.message
      /\ begun.truncatedAttributes = r.truncatedAttributes
      /\ begun.truncatedBytes = r.truncatedBytes + lostName
  <2>1. r.truncatedBytes + lostName \in Nat
    BY <1>1, <1>3
  <2>2. <<>> \in Seq(Attribute)
    OBVIOUS
  <2>3. QED
    BY <1>1, <1>3, <2>1, <2>2 DEF Contents
<1> HIDE DEF begun, o
<1>6. /\ o \in Contents /\ SameNames(o, begun)
      /\ o.truncatedAttributes = begun.truncatedAttributes
      /\ o.truncatedBytes >= begun.truncatedBytes
      /\ o.truncatedBytes = begun.truncatedBytes => o.attributes = r.attributes
  BY <1>1, <1>4, <1>5, AttributesOwned DEF o
<1>7. o.truncatedBytes \in Nat /\ o.truncatedBytes >= r.truncatedBytes
  BY <1>1, <1>3, <1>5, <1>6 DEF Contents
<1>8. ASSUME o.truncatedBytes = r.truncatedBytes PROVE o = r
  <2>1. lostName = 0 /\ o.truncatedBytes = begun.truncatedBytes
    BY <1>1, <1>3, <1>5, <1>6, <1>8
  <2>2. QED
    BY <1>1, <1>3, <1>5, <1>6, <1>8, <2>1 DEF Contents, SameNames
<1>9. QED
  BY <1>5, <1>6, <1>7, <1>8 DEF o

-----------------------------------------------------------------------------
(* Sequences one after the other.                                          *)

FlattenStep(ss, T) == [c \in (1 .. Len(ss)) \X Seq(T) |-> c[2] \o ss[c[1]]]

LEMMA FlattenStepType ==
    ASSUME NEW T, NEW ss \in Seq(Seq(T))
    PROVE  FlattenStep(ss, T) \in [(1 .. Len(ss)) \X Seq(T) -> Seq(T)]
<1>1. \A c \in (1 .. Len(ss)) \X Seq(T) : c[2] \o ss[c[1]] \in Seq(T)
  <2>1. SUFFICES ASSUME NEW c \in (1 .. Len(ss)) \X Seq(T) PROVE c[2] \o ss[c[1]] \in Seq(T)
    OBVIOUS
  <2>2. c[2] \in Seq(T) /\ ss[c[1]] \in Seq(T)
    OBVIOUS
  <2>3. QED
    BY <2>2, ConcatProperties
<1>2. QED
  BY <1>1 DEF FlattenStep

LEMMA FlattenRecurs ==
    ASSUME NEW T, NEW ss \in Seq(Seq(T))
    PROVE  \E g : /\ Recurs(g, Len(ss), Seq(T), <<>>, FlattenStep(ss, T))
                  /\ FlattenSeq(ss) = g[Len(ss)]
<1> DEFINE N == Len(ss)
           step == FlattenStep(ss, T)
           Is(f) == f = [i \in 1 .. Len(ss) |-> IF i = 1 THEN ss[i] ELSE f[i - 1] \o ss[i]]
           F == CHOOSE f : Is(f)
<1>1. /\ N \in Nat /\ DOMAIN ss = 1 .. N
      /\ \A i \in 1 .. N : ss[i] \in Seq(T)
      /\ <<>> \in Seq(T)
  OBVIOUS
<1>2. PICK g : Recurs(g, N, Seq(T), <<>>, step)
  <2>1. step \in [(1 .. N) \X Seq(T) -> Seq(T)]
    BY FlattenStepType
  <2> HIDE DEF step, N
  <2>2. QED
    BY <1>1, <2>1, RecursionExists
<1>3. /\ g \in [0 .. N -> Seq(T)] /\ g[0] = <<>>
      /\ \A n \in 1 .. N : g[n] = g[n - 1] \o ss[n]
  <2>1. g \in [0 .. N -> Seq(T)] /\ g[0] = <<>>
    BY <1>2 DEF Recurs
  <2>2. ASSUME NEW n \in 1 .. N PROVE g[n] = g[n - 1] \o ss[n]
    <3>1. g[n] = step[<<n, g[n - 1]>>]
      BY <1>2 DEF Recurs
    <3>2. n - 1 \in 0 .. N
      BY <1>1
    <3>3. <<n, g[n - 1]>> \in (1 .. Len(ss)) \X Seq(T)
      BY <2>1, <3>2
    <3>4. QED
      BY <3>1, <3>3 DEF FlattenStep
  <2>3. QED
    BY <2>1, <2>2
<1>4. CASE N = 0
  <2>1. FlattenSeq(ss) = ss /\ ss = <<>>
    BY <1>4 DEF FlattenSeq
  <2>2. QED
    BY <1>2, <1>3, <1>4, <2>1
<1>5. CASE N # 0
  <2>1. FlattenSeq(ss) = F[Len(ss)]
    BY <1>5 DEF FlattenSeq
  <2>2. Is([i \in 1 .. N |-> g[i]])
    <3> DEFINE f == [i \in 1 .. N |-> g[i]]
    <3>1. ASSUME NEW i \in 1 .. N
          PROVE  f[i] = IF i = 1 THEN ss[i] ELSE f[i - 1] \o ss[i]
      <4>1. CASE i = 1
        <5>0. 1 \in 1 .. N /\ 1 - 1 = 0
          BY <1>1, <4>1
        <5>1. g[1] = <<>> \o ss[1] /\ ss[1] \in Seq(T)
          <6>1. g[1] = g[1 - 1] \o ss[1] /\ ss[1] \in Seq(T)
            BY <1>1, <1>3, <5>0
          <6>2. QED
            BY <1>3, <5>0, <6>1
        <5>2. QED
          BY <4>1, <5>1, ConcatEmptySeq
      <4>2. CASE i # 1
        <5>1. i - 1 \in 1 .. N /\ f[i - 1] = g[i - 1]
          BY <1>1, <4>2
        <5>2. QED
          BY <1>3, <4>2, <5>1
      <4>3. QED
        BY <4>1, <4>2
    <3>2. f = [i \in 1 .. N |-> f[i]]
      OBVIOUS
    <3> HIDE DEF f
    <3>3. Is(f)
      BY <3>1, <3>2
    <3>4. QED
      BY <3>3 DEF f
  <2>3. Is(F)
    <3> HIDE DEF Is
    <3>1. QED
      BY <2>2
  <2> HIDE DEF F
  <2>4. \A i \in 1 .. N : F[i] = IF i = 1 THEN ss[i] ELSE F[i - 1] \o ss[i]
    BY <2>3
  <2> DEFINE A == {n \in Nat : n + 1 <= N => F[n + 1] = g[n + 1]}
  <2>5. 0 \in A
    <3>1. 1 \in 1 .. N /\ F[1] = ss[1] /\ g[1] = <<>> \o ss[1] /\ ss[1] \in Seq(T)
      <4>1. 1 \in 1 .. N /\ 1 - 1 = 0
        BY <1>1, <1>5
      <4>2. ss[1] \in Seq(T)
        BY <1>1, <4>1
      <4>3. F[1] = ss[1]
        BY <2>4, <4>1
      <4>4. g[1] = g[1 - 1] \o ss[1]
        BY <1>3, <4>1
      <4>5. g[1] = <<>> \o ss[1]
        BY <1>3, <4>1, <4>4
      <4>6. QED
        BY <4>1, <4>2, <4>3, <4>5
    <3>2. QED
      BY <3>1, ConcatEmptySeq
  <2>6. ASSUME NEW n \in Nat, n \in A PROVE n + 1 \in A
    <3>1. SUFFICES ASSUME n + 1 + 1 <= N PROVE F[n + 1 + 1] = g[n + 1 + 1]
      OBVIOUS
    <3>2. PICK q \in 1 .. N : q = n + 1 + 1 /\ q - 1 = n + 1 /\ q # 1
      BY <1>1, <3>1
    <3>3. F[n + 1] = g[n + 1]
      BY <1>1, <2>6, <3>1
    <3>4. F[q] = F[q - 1] \o ss[q] /\ g[q] = g[q - 1] \o ss[q]
      BY <1>3, <2>4, <3>2
    <3>5. QED
      BY <3>2, <3>3, <3>4
  <2>7. Nat \subseteq A
    <3> HIDE DEF A
    <3>1. QED
      BY <2>5, <2>6, NatSetInduction
  <2>8. PICK n \in Nat : n + 1 = N
    <3>1. N - 1 \in Nat /\ (N - 1) + 1 = N
      BY <1>1, <1>5
    <3>2. QED
      BY <3>1
  <2>9. F[N] = g[N]
    <3>1. n + 1 <= N /\ n \in A
      BY <1>1, <2>7, <2>8
    <3>2. F[n + 1] = g[n + 1]
      BY <3>1
    <3>3. QED
      BY <2>8, <3>2
  <2>10. QED
    BY <1>2, <2>1, <2>9
<1>6. QED
  BY <1>4, <1>5

LEMMA FlattenEmpty == FlattenSeq(<<>>) = <<>>
BY DEF FlattenSeq

LEMMA FlattenFacts ==
    ASSUME NEW T, NEW ss \in Seq(Seq(T))
    PROVE  /\ FlattenSeq(ss) \in Seq(T)
           /\ \A x \in Seq(T) : FlattenSeq(Append(ss, x)) = FlattenSeq(ss) \o x
<1> DEFINE N == Len(ss)
<1>1. PICK g : /\ Recurs(g, N, Seq(T), <<>>, FlattenStep(ss, T))
               /\ FlattenSeq(ss) = g[N]
  BY FlattenRecurs
<1>2. N \in Nat /\ N \in 0 .. N
  OBVIOUS
<1>3. g \in [0 .. N -> Seq(T)] /\ FlattenSeq(ss) \in Seq(T)
  BY <1>1, <1>2 DEF Recurs
<1>4. ASSUME NEW x \in Seq(T)
      PROVE  FlattenSeq(Append(ss, x)) = FlattenSeq(ss) \o x
  <2> DEFINE u == Append(ss, x)
  <2>1. /\ u \in Seq(Seq(T)) /\ Len(u) = N + 1
        /\ u[N + 1] = x /\ \A i \in 1 .. N : u[i] = ss[i]
    OBVIOUS
  <2> HIDE DEF u
  <2>2. PICK h : /\ Recurs(h, N + 1, Seq(T), <<>>, FlattenStep(u, T))
                 /\ FlattenSeq(u) = h[N + 1]
    BY <2>1, FlattenRecurs
  <2>3. /\ h \in [0 .. N + 1 -> Seq(T)] /\ h[0] = <<>> /\ g[0] = <<>>
    BY <1>1, <2>2 DEF Recurs
  <2>4. ASSUME NEW n \in 1 .. N + 1 PROVE h[n] = h[n - 1] \o u[n]
    <3>1. h[n] = FlattenStep(u, T)[<<n, h[n - 1]>>]
      BY <2>2 DEF Recurs
    <3>2. n - 1 \in 0 .. N + 1
      BY <1>2
    <3>3. <<n, h[n - 1]>> \in (1 .. Len(u)) \X Seq(T)
      BY <2>1, <2>3, <3>2
    <3>4. QED
      BY <3>1, <3>3 DEF FlattenStep
  <2>5. ASSUME NEW n \in 1 .. N PROVE g[n] = g[n - 1] \o ss[n]
    <3>1. g[n] = FlattenStep(ss, T)[<<n, g[n - 1]>>]
      BY <1>1 DEF Recurs
    <3>2. n - 1 \in 0 .. N
      BY <1>2
    <3>3. <<n, g[n - 1]>> \in (1 .. Len(ss)) \X Seq(T)
      BY <1>3, <3>2
    <3>4. QED
      BY <3>1, <3>3 DEF FlattenStep
  <2> DEFINE A == {n \in Nat : n <= N => h[n] = g[n]}
  <2>6. 0 \in A
    BY <2>3
  <2>7. ASSUME NEW n \in Nat, n \in A PROVE n + 1 \in A
    <3>1. SUFFICES ASSUME n + 1 <= N PROVE h[n + 1] = g[n + 1]
      OBVIOUS
    <3>2. PICK q \in 1 .. N : q = n + 1 /\ q - 1 = n /\ q \in 1 .. N + 1
      BY <1>2, <3>1
    <3>3. h[n] = g[n]
      BY <1>2, <2>7, <3>1
    <3>4. h[q] = h[q - 1] \o u[q] /\ g[q] = g[q - 1] \o ss[q] /\ u[q] = ss[q]
      BY <2>1, <2>4, <2>5, <3>2
    <3>5. QED
      BY <3>2, <3>3, <3>4
  <2>8. Nat \subseteq A
    <3> HIDE DEF A
    <3>1. QED
      BY <2>6, <2>7, NatSetInduction
  <2>9. h[N] = g[N]
    BY <1>2, <2>8
  <2>10. N + 1 \in 1 .. N + 1 /\ (N + 1) - 1 = N
    BY <1>2
  <2>11. h[N + 1] = h[(N + 1) - 1] \o u[N + 1]
    BY <2>4, <2>10
  <2>12. QED
    BY <1>1, <2>1, <2>2, <2>9, <2>10, <2>11 DEF u
<1>5. QED
  BY <1>3, <1>4

\* The lists of the first n, one after the other.
FirstLists(ss, n) == FlattenSeq(SubSeq(ss, 1, n))

LEMMA FrontFacts ==
    ASSUME NEW T, NEW ss \in Seq(Seq(T))
    PROVE  /\ FirstLists(ss, 0) = <<>>
           /\ FirstLists(ss, Len(ss)) = FlattenSeq(ss)
           /\ \A n \in 0 .. Len(ss) : FirstLists(ss, n) \in Seq(T)
           /\ \A n \in 1 .. Len(ss) : FirstLists(ss, n) = FirstLists(ss, n - 1) \o ss[n]
<1>1. FirstLists(ss, 0) = <<>>
  <2>1. SubSeq(ss, 1, 0) = <<>>
    BY SubSeqEmpty
  <2>2. QED
    BY <2>1, FlattenEmpty DEF FirstLists
<1>2. FirstLists(ss, Len(ss)) = FlattenSeq(ss)
  <2>1. SubSeq(ss, 1, Len(ss)) = ss
    BY SubSeqFull
  <2>2. QED
    BY <2>1 DEF FirstLists
<1>3. ASSUME NEW n \in 0 .. Len(ss) PROVE SubSeq(ss, 1, n) \in Seq(Seq(T))
  OBVIOUS
<1>4. \A n \in 0 .. Len(ss) : FirstLists(ss, n) \in Seq(T)
  BY <1>3, FlattenFacts DEF FirstLists
<1>5. ASSUME NEW n \in 1 .. Len(ss)
      PROVE  FirstLists(ss, n) = FirstLists(ss, n - 1) \o ss[n]
  <2>1. n - 1 \in 0 .. Len(ss) /\ ss[n] \in Seq(T)
    OBVIOUS
  <2>2. SubSeq(ss, 1, n) = Append(SubSeq(ss, 1, n - 1), ss[n])
    OBVIOUS
  <2>3. QED
    BY <1>3, <2>1, <2>2, FlattenFacts DEF FirstLists
<1>6. QED
  BY <1>1, <1>2, <1>4, <1>5

\* They depend on the first n only.
LEMMA FrontAgrees ==
    ASSUME NEW T, NEW ss \in Seq(Seq(T)), NEW tt \in Seq(Seq(T)),
           NEW n \in 0 .. Len(ss), n <= Len(tt), \A i \in 1 .. n : ss[i] = tt[i]
    PROVE  FirstLists(ss, n) = FirstLists(tt, n)
<1>1. SubSeq(ss, 1, n) = SubSeq(tt, 1, n)
  OBVIOUS
<1>2. QED
  BY <1>1 DEF FirstLists

\* Empty lists add nothing.
LEMMA FrontOfEmpty ==
    ASSUME NEW T, NEW ss \in Seq(Seq(T)), NEW k \in 0 .. Len(ss), NEW m \in k .. Len(ss),
           \A j \in k + 1 .. m : ss[j] = <<>>
    PROVE  \A n \in k .. m : FirstLists(ss, n) = FirstLists(ss, k)
<1> DEFINE A == {d \in Nat : k + d <= m => FirstLists(ss, k + d) = FirstLists(ss, k)}
<1>1. 0 \in A
  OBVIOUS
<1>2. ASSUME NEW d \in Nat, d \in A PROVE d + 1 \in A
  <2>1. SUFFICES ASSUME k + (d + 1) <= m PROVE FirstLists(ss, k + (d + 1)) = FirstLists(ss, k)
    OBVIOUS
  <2>2. PICK q \in 1 .. Len(ss) : q = k + (d + 1) /\ q - 1 = k + d /\ q \in k + 1 .. m
    BY <2>1
  <2>3. FirstLists(ss, k + d) = FirstLists(ss, k)
    BY <1>2, <2>1
  <2>4. FirstLists(ss, q) = FirstLists(ss, q - 1) \o ss[q] /\ ss[q] = <<>>
    BY <2>2, FrontFacts
  <2>5. FirstLists(ss, q - 1) \in Seq(T)
    <3>1. q - 1 \in 0 .. Len(ss)
      BY <2>2
    <3>2. QED
      BY <3>1, FrontFacts
  <2>6. FirstLists(ss, q) = FirstLists(ss, q - 1)
    BY <2>4, <2>5, ConcatEmptySeq
  <2>7. QED
    BY <2>2, <2>3, <2>6
<1>3. Nat \subseteq A
  <2> HIDE DEF A
  <2>1. QED
    BY <1>1, <1>2, NatSetInduction
<1>4. ASSUME NEW n \in k .. m PROVE FirstLists(ss, n) = FirstLists(ss, k)
  <2>1. PICK d \in Nat : k + d = n
    <3>1. n - k \in Nat /\ k + (n - k) = n
      OBVIOUS
    <3>2. QED
      BY <3>1
  <2>2. d \in A /\ k + d <= m
    BY <1>3, <2>1
  <2>3. QED
    BY <2>1, <2>2
<1>5. QED
  BY <1>4

-----------------------------------------------------------------------------
(* The storage and the scopes.                                             *)

ScopeType == [start : Nat, active : BOOLEAN]

ScopesOK ==
    /\ uses \in Programs
    /\ storage \in Seq(ContextAttribute)
    /\ scopes \in Seq(ScopeType)
    /\ held \in Seq(Seq(ContextAttribute)) /\ Len(held) = Len(scopes)

LEMMA ResetType ==
    ASSUME NEW s \in Seq(ContextAttribute), NEW scope \in ScopeType
    PROVE  Reset(s, scope) \in Seq(ContextAttribute)
<1>1. DefaultAttribute \in ContextAttribute
  <2>1. <<>> \in Text
    BY DEF Text
  <2>2. QED
    BY <2>1, RecordBuilderAssumption, ScopedContextAssumption
       DEF DefaultAttribute, ContextAttribute, Attribute
<1> DEFINE n == scope.start
<1>2. n \in Nat /\ Len(s) \in Nat
  BY DEF ScopeType
<1>3. n <= Len(s) => SubSeq(s, 1, n) \in Seq(ContextAttribute)
  BY <1>2
<1> HIDE DEF n
<1>4. ~(n <= Len(s)) => s \o [i \in 1 .. n - Len(s) |-> DefaultAttribute] \in Seq(ContextAttribute)
  <2>1. SUFFICES ASSUME ~(n <= Len(s))
                 PROVE  s \o [i \in 1 .. n - Len(s) |-> DefaultAttribute] \in Seq(ContextAttribute)
    OBVIOUS
  <2>2. n - Len(s) \in Nat
    BY <1>2, <2>1
  <2>3. [i \in 1 .. n - Len(s) |-> DefaultAttribute] \in Seq(ContextAttribute)
    BY <1>1, <2>2
  <2>4. QED
    BY <2>3, ConcatProperties
<1>5. Resize(s, n) \in Seq(ContextAttribute)
  BY <1>3, <1>4 DEF Resize
<1>6. QED
  BY <1>5 DEF Reset, n

LEMMA FrontType ==
    ASSUME NEW S, NEW s \in Seq(S), s # <<>>
    PROVE  /\ Front(s) \in Seq(S) /\ Len(Front(s)) = Len(s) - 1
           /\ Len(s) \in Nat \ {0} /\ Last(s) \in S /\ Last(s) = s[Len(s)]
           /\ \A i \in 1 .. Len(s) - 1 : Front(s)[i] = s[i]
<1> DEFINE n == Len(s) - 1
<1>1. Len(s) \in Nat \ {0} /\ n \in Nat /\ n <= Len(s) /\ Len(s) \in 1 .. Len(s)
  BY EmptySeq
<1>2. Last(s) = s[Len(s)] /\ Last(s) \in S
  <2>1. Last(s) = s[Len(s)]
    BY DEF Last
  <2>2. QED
    BY <1>1, <2>1, ElementOfSeq
<1>3. Front(s) = SubSeq(s, 1, n)
  BY DEF Front
<1>4. /\ SubSeq(s, 1, n) \in Seq(S) /\ Len(SubSeq(s, 1, n)) = n
      /\ \A i \in 1 .. n : SubSeq(s, 1, n)[i] = s[i]
  <2> HIDE DEF n
  <2>1. QED
    BY <1>1
<1>5. QED
  BY <1>1, <1>2, <1>3, <1>4

LEMMA ListType ==
    ASSUME NEW list \in PushedLists
    PROVE  list \in Seq(ContextAttribute)
BY ScopedContextAssumption

LEMMA MovedScopes ==
    ASSUME ScopesOK, NEW i \in 1 .. Len(scopes), MoveConstruct(i)
    PROVE  /\ scopes' \in Seq(ScopeType) /\ Len(scopes') = Len(scopes) + 1
           /\ scopes'[Len(scopes) + 1] = scopes[i]
           /\ scopes'[i].active = FALSE
           /\ \A j \in 1 .. Len(scopes) : j # i => scopes'[j] = scopes[j]
           /\ held' \in Seq(Seq(ContextAttribute)) /\ Len(held') = Len(held) + 1
           /\ held'[Len(held) + 1] = held[i]
           /\ held'[i] = <<>>
           /\ \A j \in 1 .. Len(held) : j # i => held'[j] = held[j]
<1> DEFINE left == [scopes EXCEPT ![i].active = FALSE]
           kept == [held EXCEPT ![i] = <<>>]
<1>1. /\ scopes' = Append(left, scopes[i])
      /\ held' = Append(kept, held[i])
  BY DEF MoveConstruct
<1>2. /\ Len(scopes) \in Nat /\ scopes[i] \in ScopeType /\ Len(held) = Len(scopes)
      /\ i \in 1 .. Len(held) /\ held[i] \in Seq(ContextAttribute)
      /\ <<>> \in Seq(ContextAttribute)
  BY DEF ScopesOK
<1>3. /\ left \in Seq(ScopeType) /\ Len(left) = Len(scopes)
      /\ left[i].active = FALSE
      /\ \A j \in 1 .. Len(scopes) : j # i => left[j] = scopes[j]
  <2>1. [scopes[i] EXCEPT !.active = FALSE] \in ScopeType
    BY <1>2 DEF ScopeType
  <2>2. left = [scopes EXCEPT ![i] = [scopes[i] EXCEPT !.active = FALSE]]
    BY <1>2 DEF ScopesOK
  <2>3. [scopes[i] EXCEPT !.active = FALSE].active = FALSE
    BY <1>2 DEF ScopeType
  <2> HIDE DEF left
  <2>4. QED
    BY <1>2, <2>1, <2>2, <2>3, ExceptSeq DEF ScopesOK
<1>4. /\ kept \in Seq(Seq(ContextAttribute)) /\ Len(kept) = Len(held)
      /\ kept[i] = <<>>
      /\ \A j \in 1 .. Len(held) : j # i => kept[j] = held[j]
  BY <1>2, ExceptSeq DEF ScopesOK
<1> HIDE DEF left, kept
<1>5. /\ Append(left, scopes[i]) \in Seq(ScopeType)
      /\ Len(Append(left, scopes[i])) = Len(scopes) + 1
      /\ Append(left, scopes[i])[Len(scopes) + 1] = scopes[i]
      /\ \A j \in 1 .. Len(scopes) : Append(left, scopes[i])[j] = left[j]
  BY <1>2, <1>3, AppendProperties
<1>6. /\ Append(kept, held[i]) \in Seq(Seq(ContextAttribute))
      /\ Len(Append(kept, held[i])) = Len(held) + 1
      /\ Append(kept, held[i])[Len(held) + 1] = held[i]
      /\ \A j \in 1 .. Len(held) : Append(kept, held[i])[j] = kept[j]
  <2> DEFINE L == Seq(ContextAttribute)
             x == held[i]
  <2>1. kept \in Seq(L) /\ x \in L /\ Len(kept) = Len(held)
    BY <1>2, <1>4
  <2> HIDE DEF L, x
  <2>2. /\ Append(kept, x) \in Seq(L) /\ Len(Append(kept, x)) = Len(held) + 1
        /\ Append(kept, x)[Len(held) + 1] = x
        /\ \A j \in 1 .. Len(held) : Append(kept, x)[j] = kept[j]
    BY <2>1, AppendProperties
  <2>3. QED
    BY <2>2 DEF L, x
<1>7. QED
  BY <1>1, <1>2, <1>3, <1>4, <1>5, <1>6

LEMMA ScopesStep ==
    ASSUME ScopesOK, [Next]_vars
    PROVE  ScopesOK'
<1> USE DEF ScopesOK
<1>1. ASSUME NEW list \in PushedLists, PushLogContext(list) PROVE ScopesOK'
  <2>1. storage \o list \in Seq(ContextAttribute)
    BY <1>1, ListType, ConcatProperties
  <2>2. Scope(Len(storage)) \in ScopeType
    BY DEF Scope, ScopeType
  <2>3. QED
    BY <1>1, <2>1, <2>2, ListType DEF PushLogContext
<1>2. ASSUME NEW list \in PushedLists, MoveAssign(list) PROVE ScopesOK'
  <2>1. storage \o list \in Seq(ContextAttribute) /\ scopes # <<>> /\ held # <<>>
    <3>1. Len(held) # 0
      BY <1>2 DEF MoveAssign
    <3>2. QED
      BY <1>2, <3>1, ListType, ConcatProperties DEF MoveAssign
  <2>2. /\ Front(scopes) \in Seq(ScopeType) /\ Last(scopes) \in ScopeType
        /\ Len(Front(scopes)) = Len(scopes) - 1
        /\ Front(held) \in Seq(Seq(ContextAttribute)) /\ Len(Front(held)) = Len(held) - 1
    BY <2>1, FrontType
  <2>3. Reset(storage \o list, Last(scopes)) \in Seq(ContextAttribute)
    BY <2>1, <2>2, ResetType
  <2>4. Scope(Len(storage)) \in ScopeType
    BY DEF Scope, ScopeType
  <2>5. list \in Seq(ContextAttribute)
    BY ListType
  <2>6. /\ Append(Front(scopes), Scope(Len(storage))) \in Seq(ScopeType)
        /\ Len(Append(Front(scopes), Scope(Len(storage)))) = Len(scopes) - 1 + 1
        /\ Append(Front(held), list) \in Seq(Seq(ContextAttribute))
        /\ Len(Append(Front(held), list)) = Len(held) - 1 + 1
    BY <2>2, <2>4, <2>5, AppendProperties
  <2>7. QED
    BY <1>2, <2>3, <2>6 DEF MoveAssign
<1>3. CASE DefaultConstruct
  <2>1. Scope(0) \in ScopeType /\ <<>> \in Seq(ContextAttribute)
    BY DEF Scope, ScopeType
  <2>2. QED
    BY <1>3, <2>1 DEF DefaultConstruct
<1>4. ASSUME NEW i \in 1 .. Len(scopes), MoveConstruct(i) PROVE ScopesOK'
  <2>1. /\ scopes' \in Seq(ScopeType) /\ Len(scopes') = Len(scopes) + 1
        /\ held' \in Seq(Seq(ContextAttribute)) /\ Len(held') = Len(held) + 1
    BY <1>4, MovedScopes
  <2>2. QED
    BY <1>4, <2>1 DEF MoveConstruct
<1>5. CASE Destroy
  <2>1. scopes # <<>> /\ held # <<>>
    <3>1. scopes # <<>> /\ Len(held) # 0
      BY <1>5 DEF Destroy
    <3>2. QED
      BY <3>1
  <2>2. /\ Front(scopes) \in Seq(ScopeType) /\ Last(scopes) \in ScopeType
        /\ Len(Front(scopes)) = Len(scopes) - 1
        /\ Front(held) \in Seq(Seq(ContextAttribute)) /\ Len(Front(held)) = Len(held) - 1
    BY <2>1, FrontType
  <2>3. Reset(storage, Last(scopes)) \in Seq(ContextAttribute)
    BY <2>2, ResetType
  <2>4. QED
    BY <1>5, <2>2, <2>3 DEF Destroy
<1>6. ASSUME NEW site \in Sites, NEW calls \in BuilderCalls, NEW throws \in BOOLEAN,
             Log(site, calls, throws)
      PROVE  ScopesOK'
  BY <1>6 DEF Log
<1>7. CASE UNCHANGED vars
  BY <1>7 DEF vars
<1>8. QED
  BY <1>1, <1>2, <1>3, <1>4, <1>5, <1>6, <1>7 DEF Next

-----------------------------------------------------------------------------
(* NestedContextIsLiveScopes.                                              *)

\* What holds of a thread that only pushes scopes and moves the innermost one: an active
\* scope starts where the lists of the objects before it end, and an object whose scope
\* has been moved away stands for nothing.
StartsAfter(i) == scopes[i].active => scopes[i].start = Len(FirstLists(held, i - 1))
StandsForNothing(i) == ~scopes[i].active => held[i] = <<>>

NestedInv ==
    uses \subseteq {"move"} =>
        /\ storage = FlattenSeq(held)
        /\ \A i \in 1 .. Len(scopes) : StartsAfter(i) /\ StandsForNothing(i)

LEMMA NestedPush ==
    ASSUME ScopesOK, NestedInv, uses \subseteq {"move"}, NEW list \in PushedLists, PushLogContext(list)
    PROVE  NestedInv'
<1> DEFINE L == Seq(ContextAttribute)
<1>0. PICK n \in Nat : n = Len(held)
  BY DEF ScopesOK
<1>1. /\ held' = Append(held, list) /\ scopes' = Append(scopes, Scope(Len(storage)))
      /\ storage' = storage \o list /\ uses' = uses
  BY DEF PushLogContext
<1>2. /\ held \in Seq(L) /\ list \in L /\ n \in Nat /\ Len(scopes) = n
      /\ storage = FlattenSeq(held)
  BY <1>0, ListType DEF ScopesOK, NestedInv
<1>3. /\ held' \in Seq(L) /\ Len(held') = n + 1 /\ held'[n + 1] = list
      /\ \A j \in 1 .. n : held'[j] = held[j]
  <2> HIDE DEF L
  <2>1. QED
    BY <1>0, <1>1, <1>2, AppendProperties
<1>4. /\ scopes' \in Seq(ScopeType) /\ Len(scopes') = n + 1
      /\ scopes'[n + 1] = Scope(Len(storage))
      /\ \A j \in 1 .. n : scopes'[j] = scopes[j]
  <2>1. Scope(Len(storage)) \in ScopeType
    BY DEF Scope, ScopeType, ScopesOK
  <2>2. QED
    BY <1>0, <1>1, <1>2, <2>1, AppendProperties DEF ScopesOK
<1>5. FlattenSeq(held') = storage \o list
  BY <1>0, <1>1, <1>2, FlattenFacts
<1>6. ASSUME NEW j \in 0 .. n PROVE FirstLists(held', j) = FirstLists(held, j)
  <2>1. /\ j \in 0 .. Len(held) /\ j <= Len(held')
        /\ \A q \in 1 .. j : q \in 1 .. n
    BY <1>0, <1>3
  <2>2. \A q \in 1 .. j : held[q] = held'[q]
    BY <1>3, <2>1
  <2>3. QED
    BY <1>2, <1>3, <2>1, <2>2, FrontAgrees
<1>7. ASSUME NEW j \in 1 .. n PROVE StartsAfter(j)' /\ StandsForNothing(j)'
  <2>1. j - 1 \in 0 .. n
    BY <1>0, <1>2
  <2>2. FirstLists(held', j - 1) = FirstLists(held, j - 1)
    BY <1>0, <1>6, <2>1
  <2>3. StartsAfter(j) /\ StandsForNothing(j)
    BY <1>0, <1>2 DEF NestedInv
  <2>4. QED
    BY <1>0, <1>3, <1>4, <2>2, <2>3 DEF StartsAfter, StandsForNothing
<1>8. StartsAfter(n + 1)' /\ StandsForNothing(n + 1)'
  <2>1. (n + 1) - 1 = n /\ n \in 0 .. n
    BY <1>0, <1>2
  <2>2. FirstLists(held', n) = storage
    BY <1>0, <1>2, <1>6, <2>1, FrontFacts
  <2>3. QED
    BY <1>0, <1>4, <2>1, <2>2 DEF StartsAfter, StandsForNothing, Scope
<1>9. \A j \in 1 .. Len(scopes') : j \in 1 .. n \/ j = n + 1
  BY <1>0, <1>2, <1>4
<1>10. QED
  BY <1>0, <1>1, <1>5, <1>7, <1>8, <1>9 DEF NestedInv

LEMMA NestedMove ==
    ASSUME ScopesOK, NestedInv, uses \subseteq {"move"}, NEW i \in 1 .. Len(scopes), MoveConstruct(i)
    PROVE  NestedInv'
<1> DEFINE L == Seq(ContextAttribute)
<1>0. PICK n \in Nat : n = Len(held)
  BY DEF ScopesOK
<1>1. /\ scopes' \in Seq(ScopeType) /\ Len(scopes') = n + 1
      /\ scopes'[n + 1] = scopes[i]
      /\ scopes'[i].active = FALSE
      /\ \A j \in 1 .. n : j # i => scopes'[j] = scopes[j]
      /\ held' \in Seq(L) /\ Len(held') = n + 1
      /\ held'[n + 1] = held[i]
      /\ held'[i] = <<>>
      /\ \A j \in 1 .. n : j # i => held'[j] = held[j]
  BY <1>0, MovedScopes DEF ScopesOK
<1>2. /\ uses' = uses /\ storage' = storage /\ scopes[i].active
      /\ \A j \in i + 1 .. Len(scopes) : ~scopes[j].active
  BY DEF MoveConstruct, InnermostActive
<1>3. /\ held \in Seq(L) /\ n \in Nat /\ Len(scopes) = n /\ storage = FlattenSeq(held)
      /\ i \in 1 .. n /\ i - 1 \in 0 .. n /\ i \in 0 .. n /\ n \in i - 1 .. n /\ n \in i .. n
      /\ \A j \in 1 .. n : StartsAfter(j) /\ StandsForNothing(j)
  BY <1>0 DEF ScopesOK, NestedInv
<1>3a. i \in 1 .. n /\ n \in Nat
  BY <1>3
<1>4. ASSUME NEW j \in i + 1 .. n PROVE j \in 1 .. n /\ held[j] = <<>>
  <2>1. j \in 1 .. n
    BY <1>3a
  <2>2. ~scopes[j].active
    BY <1>2, <1>3
  <2>3. QED
    BY <1>3, <2>1, <2>2 DEF StandsForNothing
<1>5. ASSUME NEW j \in 0 .. i - 1 PROVE FirstLists(held', j) = FirstLists(held, j)
  <2>0. /\ j \in 0 .. n + 1 /\ j <= n /\ \A q \in 1 .. j : q \in 1 .. n /\ q # i
    BY <1>3a
  <2>1. /\ j \in 0 .. Len(held') /\ j <= Len(held)
        /\ \A q \in 1 .. j : held'[q] = held[q]
    BY <1>0, <1>1, <2>0
  <2>2. QED
    BY <1>0, <1>1, <1>3, <2>1, FrontAgrees
<1>6. storage = FirstLists(held, i - 1) \o held[i]
  <2>1. FirstLists(held, n) = FirstLists(held, i)
    BY <1>0, <1>3, <1>4, FrontOfEmpty
  <2>2. FirstLists(held, n) = storage
    BY <1>0, <1>3, FrontFacts
  <2>3. FirstLists(held, i) = FirstLists(held, i - 1) \o held[i]
    BY <1>0, <1>3, FrontFacts
  <2>4. QED
    BY <2>1, <2>2, <2>3
<1>7. FirstLists(held', n) = FirstLists(held, i - 1)
  <2>1. ASSUME NEW j \in (i - 1) + 1 .. n PROVE held'[j] = <<>>
    <3>1. j = i \/ (j \in i + 1 .. n /\ j # i /\ j \in 1 .. n)
      BY <1>3a
    <3>2. QED
      BY <1>0, <1>1, <1>3, <1>4, <3>1
  <2>2. i - 1 \in 0 .. Len(held') /\ n \in i - 1 .. Len(held') /\ i - 1 \in 0 .. i - 1
    <3>1. Len(held') = n + 1 /\ n \in Nat /\ i \in 1 .. n
      BY <1>0, <1>1, <1>3
    <3>2. QED
      BY <3>1
  <2>3. FirstLists(held', n) = FirstLists(held', i - 1)
    BY <1>0, <1>1, <1>3, <2>1, <2>2, FrontOfEmpty
  <2>4. QED
    BY <1>0, <1>5, <2>2, <2>3
<1>8. n + 1 \in 1 .. Len(held') /\ (n + 1) - 1 = n
  BY <1>0, <1>1, <1>3
<1>9. FlattenSeq(held') = storage
  <2>1. FirstLists(held', n + 1) = FirstLists(held', (n + 1) - 1) \o held'[n + 1]
    BY <1>0, <1>1, <1>8, FrontFacts
  <2>2. FirstLists(held', n + 1) = FlattenSeq(held')
    BY <1>0, <1>1, FrontFacts
  <2>3. QED
    BY <1>0, <1>1, <1>6, <1>7, <1>8, <2>1, <2>2
<1>10. ASSUME NEW j \in 1 .. n PROVE StartsAfter(j)' /\ StandsForNothing(j)'
  <2>1. CASE j = i
    BY <1>0, <1>1, <2>1 DEF StartsAfter, StandsForNothing
  <2>2. CASE j # i
    <3>1. scopes'[j] = scopes[j] /\ held'[j] = held[j] /\ StartsAfter(j) /\ StandsForNothing(j)
      BY <1>0, <1>1, <1>3, <2>2
    <3>2. CASE j < i
      <4>1. j - 1 \in 0 .. i - 1
        BY <1>0, <1>3, <3>2
      <4>2. FirstLists(held', j - 1) = FirstLists(held, j - 1)
        BY <1>0, <1>5, <4>1
      <4>3. QED
        BY <3>1, <4>2 DEF StartsAfter, StandsForNothing
    <3>3. CASE j > i
      <4>1. j \in i + 1 .. Len(scopes)
        BY <1>0, <1>3, <3>3
      <4>2. ~scopes[j].active
        BY <1>0, <1>2, <4>1
      <4>3. QED
        BY <3>1, <4>2 DEF StartsAfter, StandsForNothing
    <3>4. QED
      BY <1>0, <1>3, <2>2, <3>2, <3>3
  <2>3. QED
    BY <2>1, <2>2
<1>11. StartsAfter(n + 1)' /\ StandsForNothing(n + 1)'
  <2>1. scopes[i].start = Len(FirstLists(held, i - 1))
    BY <1>0, <1>2, <1>3 DEF StartsAfter
  <2>2. QED
    BY <1>0, <1>1, <1>2, <1>7, <1>8, <2>1 DEF StartsAfter, StandsForNothing
<1>12. \A j \in 1 .. Len(scopes') : j \in 1 .. n \/ j = n + 1
  <2>1. \A j \in 1 .. n + 1 : j \in 1 .. n \/ j = n + 1
    BY <1>3a
  <2>2. QED
    BY <1>1, <2>1
<1>13. QED
  BY <1>0, <1>2, <1>9, <1>10, <1>11, <1>12 DEF NestedInv

LEMMA NestedDestroy ==
    ASSUME ScopesOK, NestedInv, uses \subseteq {"move"}, Destroy
    PROVE  NestedInv'
<1> DEFINE L == Seq(ContextAttribute)
<1>0. PICK n \in Nat : n = Len(held)
  BY DEF ScopesOK
<1> DEFINE before == FirstLists(held, n - 1)
<1>1. /\ storage' = Reset(storage, Last(scopes)) /\ scopes' = Front(scopes)
      /\ held' = Front(held) /\ uses' = uses /\ scopes # <<>>
  BY DEF Destroy
<1>2. /\ held \in Seq(L) /\ Len(scopes) = n /\ storage = FlattenSeq(held)
      /\ \A j \in 1 .. n : StartsAfter(j) /\ StandsForNothing(j)
  BY <1>0 DEF ScopesOK, NestedInv
<1>3. /\ scopes' \in Seq(ScopeType) /\ Len(scopes') = n - 1 /\ n \in Nat \ {0}
      /\ Last(scopes) = scopes[n] /\ Last(scopes) \in ScopeType
      /\ \A j \in 1 .. n - 1 : scopes'[j] = scopes[j]
  BY <1>0, <1>1, <1>2, FrontType DEF ScopesOK
<1>4. /\ held' \in Seq(L) /\ Len(held') = n - 1
      /\ \A j \in 1 .. n - 1 : held'[j] = held[j]
  <2>1. held # <<>>
    BY <1>0, <1>3
  <2> HIDE DEF L
  <2>2. QED
    BY <1>0, <1>1, <1>2, <2>1, FrontType
<1>5. /\ n \in 1 .. n /\ n - 1 \in 0 .. n - 1 /\ n - 1 \in 0 .. n /\ n \in 1 .. Len(held)
  BY <1>0, <1>3
<1>6. ASSUME NEW j \in 0 .. n - 1 PROVE FirstLists(held', j) = FirstLists(held, j)
  <2>1. /\ j \in 0 .. Len(held') /\ j <= Len(held)
        /\ \A q \in 1 .. j : held'[q] = held[q]
    BY <1>0, <1>3, <1>4
  <2>2. QED
    BY <1>0, <1>2, <1>4, <2>1, FrontAgrees
<1>7. storage = before \o held[n] /\ before \in L
  <2>1. FirstLists(held, n) = storage
    BY <1>0, <1>2, FrontFacts
  <2>2. FirstLists(held, n) = FirstLists(held, n - 1) \o held[n]
    BY <1>0, <1>2, <1>5, FrontFacts
  <2>3. FirstLists(held, n - 1) \in L
    <3>1. n - 1 \in 0 .. Len(held)
      BY <1>0, <1>5
    <3>2. QED
      BY <1>0, <1>2, <3>1, FrontFacts
  <2>4. QED
    BY <2>1, <2>2, <2>3
<1>8. FlattenSeq(held') = before
  <2>1. FlattenSeq(held') = FirstLists(held', n - 1)
    BY <1>0, <1>4, FrontFacts
  <2>2. QED
    BY <1>0, <1>5, <1>6, <2>1
<1>9. storage' = before
  <2>1. CASE scopes[n].active
    <3>1. storage' = Resize(before \o held[n], Len(before))
      BY <1>0, <1>1, <1>2, <1>3, <1>5, <1>7, <2>1 DEF Reset, StartsAfter
    <3>2. held[n] \in L /\ Len(before) \in Nat
      BY <1>0, <1>2, <1>5, <1>7
    <3> HIDE DEF before
    <3>3. Len(before) <= Len(before \o held[n]) /\ SubSeq(before \o held[n], 1, Len(before)) = before
      BY <1>0, <1>7, <3>2
    <3>4. QED
      BY <3>1, <3>3 DEF Resize
  <2>2. CASE ~scopes[n].active
    <3>1. storage' = storage /\ held[n] = <<>>
      BY <1>0, <1>1, <1>2, <1>3, <1>5, <2>2 DEF Reset, StandsForNothing
    <3>2. before \o <<>> = before
      BY <1>0, <1>7, ConcatEmptySeq
    <3>3. QED
      BY <1>0, <1>7, <3>1, <3>2
  <2>3. QED
    BY <2>1, <2>2
<1>10. ASSUME NEW j \in 1 .. n - 1 PROVE StartsAfter(j)' /\ StandsForNothing(j)'
  <2>1. j - 1 \in 0 .. n - 1 /\ j \in 1 .. n
    BY <1>0, <1>3
  <2>2. FirstLists(held', j - 1) = FirstLists(held, j - 1)
    BY <1>0, <1>6, <2>1
  <2>3. StartsAfter(j) /\ StandsForNothing(j)
    BY <1>0, <1>2, <2>1
  <2>4. QED
    BY <1>0, <1>3, <1>4, <2>2, <2>3 DEF StartsAfter, StandsForNothing
<1>11. QED
  BY <1>0, <1>1, <1>3, <1>8, <1>9, <1>10 DEF NestedInv

LEMMA NestedStep ==
    ASSUME ScopesOK, NestedInv, [Next]_vars
    PROVE  NestedInv'
<1>1. uses' = uses
  BY DEF Next, PushLogContext, MoveAssign, DefaultConstruct, MoveConstruct, Destroy, Log, vars
<1>2. SUFFICES ASSUME uses \subseteq {"move"} PROVE NestedInv'
  BY <1>1 DEF NestedInv
<1>3. ASSUME NEW list \in PushedLists, PushLogContext(list) PROVE NestedInv'
  BY <1>2, <1>3, NestedPush
<1>4. ASSUME NEW list \in PushedLists, MoveAssign(list) PROVE NestedInv'
  BY <1>2, <1>4 DEF MoveAssign
<1>5. CASE DefaultConstruct
  BY <1>2, <1>5 DEF DefaultConstruct
<1>6. ASSUME NEW i \in 1 .. Len(scopes), MoveConstruct(i) PROVE NestedInv'
  BY <1>2, <1>6, NestedMove
<1>7. CASE Destroy
  BY <1>2, <1>7, NestedDestroy
<1>8. ASSUME NEW site \in Sites, NEW calls \in BuilderCalls, NEW throws \in BOOLEAN,
             Log(site, calls, throws)
      PROVE  NestedInv'
  BY <1>8 DEF Log, NestedInv, StartsAfter, StandsForNothing
<1>9. CASE UNCHANGED vars
  BY <1>9 DEF vars, NestedInv, StartsAfter, StandsForNothing
<1>10. QED
  BY <1>3, <1>4, <1>5, <1>6, <1>7, <1>8, <1>9 DEF Next

LEMMA ScopesInit ==
    ASSUME Init
    PROVE  ScopesOK /\ NestedInv
<1>1. FlattenSeq(held) = storage
  BY FlattenEmpty DEF Init
<1>2. Len(scopes) = 0 /\ Len(held) = 0
  BY DEF Init
<1>3. NestedInv
  BY <1>1, <1>2 DEF NestedInv
<1>4. QED
  BY <1>3 DEF Init, ScopesOK

-----------------------------------------------------------------------------
(* The record that is dispatched.                                          *)

RecordOK(q) ==
    LET r == q.dispatched
    IN  /\ r \in Dispatched
        /\ KeysDistinct(r.attributes)
        /\ r.loggerName = q.loggerName
        /\ r.truncatedAttributes = 0 /\ r.truncatedBytes = 0 =>
              r.message = q.message /\ ToSet(r.attributes) = LastGiven(q.attributes)

RecordInv == RecordOK(record)

LEMMA NoRecordOK == RecordOK(NoRecord)
<1>1. /\ NoRecord.dispatched = [loggerName |-> <<>>, file |-> <<>>, message |-> <<>>,
                                attributes |-> <<>>, truncatedAttributes |-> 0,
                                truncatedBytes |-> 0]
      /\ NoRecord.message = <<>> /\ NoRecord.attributes = <<>>
  BY DEF NoRecord
<1>2. /\ <<>> \in Text /\ <<>> \in Seq(Attribute) /\ Len(<<>>) = 0 /\ 0 \in Nat
      /\ 0 <= MaxMessage /\ 0 <= MaxAttributes
  BY RecordBuilderAssumption DEF Text
<1>3. NoRecord.dispatched \in Dispatched
  BY <1>1, <1>2 DEF Dispatched, Contents
<1>4. KeysDistinct(<<>>) /\ ToSet(<<>>) = {}
  BY DEF KeysDistinct, ToSet
<1>5. /\ NoRecord.dispatched.attributes = <<>> /\ NoRecord.dispatched.message = <<>>
      /\ NoRecord.dispatched.loggerName = <<>> /\ NoRecord.loggerName = <<>>
      /\ NoRecord.message = <<>> /\ NoRecord.attributes = <<>>
  BY DEF NoRecord
<1>6. QED
  BY <1>3, <1>4, <1>5, LastGivenEmpty DEF RecordOK

LEMMA LoggedInv ==
    ASSUME ScopesOK, NEW site \in Sites, NEW calls \in BuilderCalls, NEW throws \in BOOLEAN,
           Log(site, calls, throws)
    PROVE  RecordInv'
<1> DEFINE b == Build(calls, throws)
           r == Merge(site, storage, b)
<1>1. /\ record'.dispatched = r
      /\ record'.loggerName = site.loggerName
      /\ record'.message = LastMessage(calls, throws)
      /\ record'.attributes = storage \o GivenAttributes(calls)
  BY DEF Log
<1>2. site \in SiteType /\ calls \in Seq(BuilderCall) /\ storage \in Seq(ContextAttribute)
  BY ScopedContextAssumption DEF ScopesOK, SiteType
<1>3. /\ b \in Builders
      /\ b.truncatedAttributes = 0 /\ b.truncatedBytes = 0 =>
            /\ b.message = LastMessage(calls, throws)
            /\ b.attributes = GivenAttributes(calls)
  BY <1>2, BuildFacts
<1> HIDE DEF b
<1>4. /\ r \in Dispatched
      /\ r.loggerName = site.loggerName /\ r.message = b.message
      /\ KeysDistinct(r.attributes)
      /\ r.truncatedAttributes = 0 /\ r.truncatedBytes = 0 =>
            /\ b.truncatedAttributes = 0 /\ b.truncatedBytes = 0
            /\ ToSet(r.attributes) = LastGiven(storage \o b.attributes)
  BY <1>2, <1>3, MergeFacts
<1> HIDE DEF r
<1>5. QED
  BY <1>1, <1>3, <1>4 DEF RecordInv, RecordOK

LEMMA RecordStep ==
    ASSUME ScopesOK, RecordInv, [Next]_vars
    PROVE  RecordInv'
<1>1. ASSUME record' = NoRecord PROVE RecordInv'
  BY <1>1, NoRecordOK DEF RecordInv
<1>2. ASSUME NEW list \in PushedLists, PushLogContext(list) \/ MoveAssign(list)
      PROVE  RecordInv'
  BY <1>1, <1>2 DEF PushLogContext, MoveAssign
<1>3. CASE DefaultConstruct \/ Destroy
  BY <1>1, <1>3 DEF DefaultConstruct, Destroy
<1>4. ASSUME NEW i \in 1 .. Len(scopes), MoveConstruct(i) PROVE RecordInv'
  BY <1>1, <1>4 DEF MoveConstruct
<1>5. ASSUME NEW site \in Sites, NEW calls \in BuilderCalls, NEW throws \in BOOLEAN,
             Log(site, calls, throws)
      PROVE  RecordInv'
  BY <1>5, LoggedInv
<1>6. CASE UNCHANGED vars
  BY <1>6 DEF vars, RecordInv
<1>7. QED
  BY <1>2, <1>3, <1>4, <1>5, <1>6 DEF Next

LEMMA ContextInvariant == Spec => [](ScopesOK /\ NestedInv /\ RecordInv)
<1>1. Init => ScopesOK /\ NestedInv /\ RecordInv
  BY ScopesInit, NoRecordOK DEF Init, RecordInv
<1>2. ScopesOK /\ NestedInv /\ RecordInv /\ [Next]_vars => (ScopesOK /\ NestedInv /\ RecordInv)'
  BY ScopesStep, NestedStep, RecordStep
<1>3. QED
  BY <1>1, <1>2, PTL DEF Spec

\* Every variable has its type.
THEOREM TypeCorrect == Spec => []TypeOK
<1>1. ScopesOK /\ RecordInv => TypeOK
  BY DEF ScopesOK, RecordInv, RecordOK, TypeOK, ScopeType, Dispatched, Contents
<1>2. QED
  BY <1>1, ContextInvariant, PTL

\* The context is the lists of the scopes alive, whichever object stands for a scope
\* (ScopedLogContext's destructor and move constructor, Context.hpp:140-172), for every
\* thread that only pushes scopes and moves the innermost one.
THEOREM NestedContext == Spec => []NestedContextIsLiveScopes
<1>1. NestedInv => NestedContextIsLiveScopes
  BY DEF NestedInv, NestedContextIsLiveScopes, ContextIsLiveScopes
<1>2. QED
  BY <1>1, ContextInvariant, PTL

\* A record, or its copy for a queue, whose counters are 0 is the whole of what was
\* given, the last value of a key in place of the earlier ones.
THEOREM Complete == Spec => []UncountedIsComplete
<1>1. ASSUME RecordInv PROVE UncountedIsComplete
  <2> DEFINE d == record.dispatched
  <2>1. /\ d \in Dispatched /\ KeysDistinct(d.attributes)
        /\ d.loggerName = record.loggerName
        /\ d.truncatedAttributes = 0 /\ d.truncatedBytes = 0 =>
              d.message = record.message /\ ToSet(d.attributes) = LastGiven(record.attributes)
    BY <1>1 DEF RecordInv, RecordOK
  <2>2. /\ d.attributes \in Seq(Attribute) /\ d.truncatedBytes \in Nat
    BY <2>1 DEF Dispatched, Contents
  <2>3. Cardinality(ToSet(d.attributes)) = Len(d.attributes)
    BY <2>1, <2>2, CardinalityOfList
  <2>4. /\ ToOwned(d) \in Contents
        /\ ToOwned(d).truncatedAttributes = d.truncatedAttributes
        /\ ToOwned(d).truncatedBytes >= d.truncatedBytes
        /\ ToOwned(d).truncatedBytes = d.truncatedBytes => ToOwned(d) = d
    BY <2>1, ToOwnedFacts
  <2>5. ToOwned(d).truncatedAttributes = 0 /\ ToOwned(d).truncatedBytes = 0 => ToOwned(d) = d
    <3>1. ToOwned(d).truncatedBytes = 0 => d.truncatedBytes = 0
      BY <2>2, <2>4
    <3>2. QED
      BY <2>4, <3>1
  <2> HIDE DEF d
  <2>6. ASSUME NEW r \in {d, ToOwned(d)}, r.truncatedAttributes = 0, r.truncatedBytes = 0
        PROVE  /\ r.loggerName = record.loggerName /\ r.message = record.message
               /\ ToSet(r.attributes) = LastGiven(record.attributes)
               /\ Len(r.attributes) = Cardinality(LastGiven(record.attributes))
    <3>1. r = d
      BY <2>5, <2>6
    <3>2. QED
      BY <2>1, <2>3, <2>6, <3>1
  <2>7. QED
    BY <2>6 DEF UncountedIsComplete, d
<1>2. QED
  BY <1>1, ContextInvariant, PTL

\* The copy for a queue counts at least what the record counts, and is the record if it
\* counts no more.
THEOREM CopyCounts == Spec => []AsyncCopyCounts
<1>1. RecordInv => AsyncCopyCounts
  BY ToOwnedFacts DEF RecordInv, RecordOK, AsyncCopyCounts
<1>2. QED
  BY <1>1, ContextInvariant, PTL

-----------------------------------------------------------------------------
(* OnePhysicalLine.                                                        *)

\* The characters of a line before its end, and the parts it is put together from.
LineChars ==
    (Chars \cup {Quote, Escape, Digit, "n", "r", "t", "b", "f", "x", "u", "07", "08", "0c",
                 " ", "{", "}", "[", "]", "(", ")", ",", ":", "="}) \ {Newline}
Parts == Seq(LineChars)

IsLine(s) ==
    /\ s \in Seq(LineChars \cup {Newline})
    /\ {i \in 1 .. Len(s) : s[i] = Newline} = {Len(s)}

LEMMA PunctuationFacts ==
    /\ Quote \in LineChars /\ Escape \in LineChars /\ Digit \in LineChars
    /\ " " \in LineChars /\ "{" \in LineChars /\ "}" \in LineChars /\ "[" \in LineChars
    /\ "]" \in LineChars /\ "," \in LineChars /\ ":" \in LineChars /\ "=" \in LineChars
    /\ "(" \in LineChars /\ ")" \in LineChars
    /\ "n" \in LineChars /\ "r" \in LineChars /\ "t" \in LineChars /\ "b" \in LineChars
    /\ "f" \in LineChars /\ "x" \in LineChars /\ "u" \in LineChars
    /\ "07" \in LineChars /\ "08" \in LineChars /\ "0c" \in LineChars
BY DEF LineChars, Quote, Escape, Digit, Newline

LEMMA TupleFacts ==
    ASSUME NEW S
    PROVE  /\ <<>> \in Seq(S)
           /\ \A a \in S : <<a>> \in Seq(S)
           /\ \A a, b \in S : <<a, b>> \in Seq(S)
           /\ \A a, b, c \in S : <<a, b, c>> \in Seq(S)
           /\ \A a, b, c, d \in S : <<a, b, c, d>> \in Seq(S)
           /\ \A a, b, c, d, e, f, g \in S : <<a, b, c, d, e, f, g>> \in Seq(S)
OBVIOUS

\* What the tables of escapes hold.
LEMMA TableFacts ==
    ASSUME NEW ch
    PROVE  /\ ch \in DOMAIN Named => Named[ch] \in {"n", "r", "t"}
           /\ ch \in DOMAIN JsonNamed => JsonNamed[ch] \in {"n", "r", "t", "b", "f"}
           /\ ch \in Control => Code[ch] \in {"07", "08", "0c"}
           /\ Newline \in DOMAIN Named /\ Newline \in DOMAIN JsonNamed
<1>1. ch \in DOMAIN Named => Named[ch] \in {"n", "r", "t"}
  BY DEF Named, Newline
<1>2. ch \in DOMAIN JsonNamed => JsonNamed[ch] \in {"n", "r", "t", "b", "f"}
  BY DEF JsonNamed, Named, Newline, Backspace
<1>3. ch \in Control => Code[ch] \in {"07", "08", "0c"}
  BY DEF Control, Code, Backspace, Bell
<1>4. Newline \in DOMAIN Named /\ Newline \in DOMAIN JsonNamed
  BY DEF Named, JsonNamed
<1>5. QED
  BY <1>1, <1>2, <1>3, <1>4

LEMMA EscapedCharType ==
    ASSUME NEW ch \in Chars
    PROVE  EscapedChar(ch) \in Parts /\ JsonEscapedChar(ch) \in Parts
<1>1. /\ Escape \in LineChars /\ "x" \in LineChars /\ "u" \in LineChars
      /\ ch \in {Quote, Escape} => ch \in LineChars
      /\ ch \in DOMAIN Named => Named[ch] \in LineChars
      /\ ch \in DOMAIN JsonNamed => JsonNamed[ch] \in LineChars
      /\ ch \in Control => Code[ch] \in LineChars
      /\ ch \notin DOMAIN Named => ch \in LineChars
      /\ ch \notin DOMAIN JsonNamed => ch \in LineChars
  <2>1. ch # Newline => ch \in LineChars
    BY DEF LineChars
  <2>2. QED
    BY <2>1, TableFacts, PunctuationFacts
<1>2. EscapedChar(ch) \in Parts
  <2>1. CASE ch \in {Quote, Escape}
    BY <1>1, <2>1, TupleFacts DEF EscapedChar, Parts
  <2>2. CASE ch \notin {Quote, Escape} /\ ch \in DOMAIN Named
    BY <1>1, <2>2, TupleFacts DEF EscapedChar, Parts
  <2>3. CASE ch \notin {Quote, Escape} /\ ch \notin DOMAIN Named
    BY <1>1, <2>3, TupleFacts DEF EscapedChar, Parts
  <2>4. QED
    BY <2>1, <2>2, <2>3
<1>3. JsonEscapedChar(ch) \in Parts
  <2>1. CASE ch \in {Quote, Escape}
    BY <1>1, <2>1, TupleFacts DEF JsonEscapedChar, Parts
  <2>2. CASE ch \notin {Quote, Escape} /\ ch \in DOMAIN JsonNamed
    BY <1>1, <2>2, TupleFacts DEF JsonEscapedChar, Parts
  <2>3. CASE ch \notin {Quote, Escape} /\ ch \notin DOMAIN JsonNamed
    BY <1>1, <2>3, TupleFacts DEF JsonEscapedChar, Parts
  <2>4. QED
    BY <2>1, <2>2, <2>3
<1>4. QED
  BY <1>2, <1>3

LEMMA PartsConcat ==
    ASSUME NEW p \in Parts, NEW q \in Parts
    PROVE  p \o q \in Parts
BY ConcatProperties DEF Parts

LEMMA PartsFlatten ==
    ASSUME NEW ps \in Seq(Parts)
    PROVE  FlattenSeq(ps) \in Parts
BY FlattenFacts DEF Parts

LEMMA EscapedType ==
    ASSUME NEW text \in Text
    PROVE  Escaped(text) \in Parts /\ JsonEscaped(text) \in Parts
<1>1. ASSUME NEW i \in 1 .. Len(text)
      PROVE  EscapedChar(text[i]) \in Parts /\ JsonEscapedChar(text[i]) \in Parts
  <2>1. text[i] \in Chars
    BY DEF Text
  <2>2. QED
    BY <2>1, EscapedCharType
<1>2. Len(text) \in Nat
  BY DEF Text
<1>3. [i \in 1 .. Len(text) |-> EscapedChar(text[i])] \in Seq(Parts)
  BY <1>1, <1>2
<1>4. [i \in 1 .. Len(text) |-> JsonEscapedChar(text[i])] \in Seq(Parts)
  BY <1>1, <1>2
<1>5. QED
  BY <1>3, <1>4, PartsFlatten DEF Escaped, JsonEscaped

LEMMA QuotedType ==
    ASSUME NEW part \in Parts
    PROVE  Quoted(part) \in Parts /\ Source(part) \in Parts
<1>1. <<Quote>> \in Parts /\ <<":", Digit>> \in Parts
  BY PunctuationFacts, TupleFacts DEF Parts
<1>2. Quoted(part) \in Parts
  BY <1>1, PartsConcat DEF Quoted
<1>3. Source(part) \in Parts
  BY <1>1, PartsConcat DEF Source
<1>4. QED
  BY <1>2, <1>3

LEMMA ValueType ==
    ASSUME NEW value \in Text \cup Scalars
    PROVE  FormatValue(value) \in Parts /\ FormatJsonValue(value) \in Parts
<1>1. <<Digit>> \in Parts
  BY PunctuationFacts, TupleFacts DEF Parts
<1>2. CASE IsText(value)
  <2>1. value \in Text
    BY <1>2 DEF IsText
  <2>2. Quoted(Escaped(value)) \in Parts /\ Quoted(JsonEscaped(value)) \in Parts
    BY <2>1, EscapedType, QuotedType
  <2>3. QED
    BY <1>2, <2>2 DEF FormatValue, FormatJsonValue
<1>3. CASE ~IsText(value)
  BY <1>1, <1>3 DEF FormatValue, FormatJsonValue
<1>4. QED
  BY <1>2, <1>3

LEMMA KeyIsValueType ==
    ASSUME NEW a \in Attribute
    PROVE  KeyIsValue(a) \in Parts /\ Member(a) \in Parts
<1>1. a.key \in Text /\ a.value \in Text \cup Scalars
  BY DEF Attribute
<1>2. <<"=">> \in Parts /\ <<":">> \in Parts
  BY PunctuationFacts, TupleFacts DEF Parts
<1>3. /\ Escaped(a.key) \in Parts /\ Quoted(JsonEscaped(a.key)) \in Parts
      /\ FormatValue(a.value) \in Parts /\ FormatJsonValue(a.value) \in Parts
  BY <1>1, EscapedType, QuotedType, ValueType
<1>4. QED
  BY <1>2, <1>3, PartsConcat DEF KeyIsValue, Member

LEMMA JoinedType ==
    ASSUME NEW texts \in Seq(Parts), NEW separator \in Parts
    PROVE  Joined(texts, separator) \in Parts
<1>1. DOMAIN texts = 1 .. Len(texts) /\ Len(texts) \in Nat
  OBVIOUS
<1>2. ASSUME NEW i \in DOMAIN texts
      PROVE  (IF i = 1 THEN texts[i] ELSE separator \o texts[i]) \in Parts
  <2>1. texts[i] \in Parts
    BY <1>1, ElementOfSeq
  <2>2. QED
    BY <2>1, PartsConcat
<1>3. [i \in DOMAIN texts |-> IF i = 1 THEN texts[i] ELSE separator \o texts[i]] \in Seq(Parts)
  BY <1>1, <1>2
<1>4. QED
  BY <1>3, PartsFlatten DEF Joined

\* What ends a line ends it still with a part before it.
LEMMA LineAfterPart ==
    ASSUME NEW p \in Parts, NEW end, IsLine(end)
    PROVE  IsLine(p \o end)
<1> DEFINE line == p \o end
           All == LineChars \cup {Newline}
<1>1. /\ p \in Seq(LineChars) /\ p \in Seq(All) /\ end \in Seq(All)
      /\ {i \in 1 .. Len(end) : end[i] = Newline} = {Len(end)}
  <2>1. p \in Seq(LineChars) /\ LineChars \subseteq All
    BY DEF Parts
  <2>2. p \in Seq(All)
    BY <2>1, SeqMonotonic
  <2>3. QED
    BY <2>1, <2>2 DEF IsLine
<1>2. /\ line \in Seq(All) /\ Len(line) = Len(p) + Len(end)
      /\ Len(p) \in Nat /\ Len(end) \in Nat
      /\ \A i \in 1 .. Len(p) : line[i] = p[i]
      /\ \A i \in 1 .. Len(end) : line[Len(p) + i] = end[i]
  <2> HIDE DEF All
  <2>1. QED
    BY <1>1, ConcatProperties
<1>3. Newline \notin LineChars
  BY DEF LineChars
<1>4. ASSUME NEW i \in 1 .. Len(line) PROVE line[i] = Newline <=> i = Len(line)
  <2>1. CASE i \in 1 .. Len(p)
    <3>1. line[i] \in LineChars
      BY <1>1, <1>2, <2>1, ElementOfSeq
    <3>2. Len(end) # 0
      BY <1>1, <1>2
    <3>3. i # Len(line)
      BY <1>2, <2>1, <3>2
    <3>4. QED
      BY <1>3, <3>1, <3>3
  <2>2. CASE i \notin 1 .. Len(p)
    <3>1. PICK j \in 1 .. Len(end) : i = Len(p) + j
      <4>1. i - Len(p) \in 1 .. Len(end) /\ i = Len(p) + (i - Len(p))
        BY <1>2, <2>2
      <4>2. QED
        BY <4>1
    <3>2. line[i] = end[j]
      BY <1>2, <3>1
    <3>3. end[j] = Newline <=> j = Len(end)
      BY <1>1
    <3>4. j = Len(end) <=> i = Len(line)
      BY <1>2, <3>1
    <3>5. QED
      BY <3>2, <3>3, <3>4
  <2>3. QED
    BY <2>1, <2>2
<1>5. Len(line) \in 1 .. Len(line)
  <2>1. Len(end) # 0
    BY <1>1, <1>2
  <2>2. QED
    BY <1>2, <2>1
<1>6. {i \in 1 .. Len(line) : line[i] = Newline} = {Len(line)}
  <2> HIDE DEF line
  <2>1. QED
    BY <1>4, <1>5
<1>7. QED
  BY <1>2, <1>6 DEF IsLine

LEMMA NewlineIsLine ==
    /\ IsLine(<<Newline>>)
    /\ IsLine(<<"}", ",", Digit, ",", Digit, "}", Newline>>)
<1> DEFINE All == LineChars \cup {Newline}
           end == <<"}", ",", Digit, ",", Digit, "}", Newline>>
<1>1. <<Newline>> \in Seq(All) /\ {i \in 1 .. 1 : <<Newline>>[i] = Newline} = {1}
  OBVIOUS
<1>2. /\ "}" \in LineChars /\ "," \in LineChars /\ Digit \in LineChars
      /\ "}" # Newline /\ "," # Newline /\ Digit # Newline
  BY PunctuationFacts DEF LineChars
<1>3. end \in Seq(All) /\ Len(end) = 7
  <2>1. "}" \in All /\ "," \in All /\ Digit \in All /\ Newline \in All
    BY <1>2
  <2> HIDE DEF All
  <2>2. end \in Seq(All)
    BY <2>1, TupleFacts
  <2>3. QED
    BY <2>2
<1>4. /\ end[1] # Newline /\ end[2] # Newline /\ end[3] # Newline /\ end[4] # Newline
      /\ end[5] # Newline /\ end[6] # Newline /\ end[7] = Newline
  BY <1>2
<1>5. \A i \in 1 .. 7 : i = 1 \/ i = 2 \/ i = 3 \/ i = 4 \/ i = 5 \/ i = 6 \/ i = 7
  OBVIOUS
<1>6. {i \in 1 .. 7 : end[i] = Newline} = {7}
  <2> HIDE DEF end
  <2>1. QED
    BY <1>4, <1>5
<1>7. IsLine(end)
  <2> HIDE DEF end
  <2>1. QED
    BY <1>3, <1>6 DEF IsLine
<1>8. QED
  BY <1>1, <1>7 DEF IsLine

LEMMA FormatsAreLines ==
    ASSUME NEW r \in Contents, NEW includeSource \in BOOLEAN
    PROVE  /\ IsLine(FormatText(r, includeSource)) /\ IsLine(FormatLogFmt(r, includeSource))
           /\ IsLine(FormatJson(r))
<1>1. /\ r.loggerName \in Text /\ r.file \in Text /\ r.message \in Text
      /\ r.attributes \in Seq(Attribute)
  BY DEF Contents
<1>2. /\ DOMAIN r.attributes = 1 .. Len(r.attributes) /\ Len(r.attributes) \in Nat
      /\ \A i \in 1 .. Len(r.attributes) : r.attributes[i] \in Attribute
  BY <1>1
<1>3. /\ <<>> \in Parts /\ <<" ">> \in Parts /\ <<" ", "{">> \in Parts /\ <<",", " ">> \in Parts
      /\ <<"}">> \in Parts /\ <<"{">> \in Parts /\ <<",", "{">> \in Parts /\ <<",">> \in Parts
      /\ <<"[">> \in Parts /\ <<"]", " ">> \in Parts /\ <<" ", "(">> \in Parts /\ <<")">> \in Parts
      /\ <<" ", "[", Digit, ",", " ", Digit, "]">> \in Parts /\ <<" ", Digit, " ", Digit>> \in Parts
  BY PunctuationFacts, TupleFacts DEF Parts
<1>4. /\ Escaped(r.loggerName) \in Parts /\ JsonEscaped(r.loggerName) \in Parts
      /\ Escaped(r.message) \in Parts /\ JsonEscaped(r.message) \in Parts
      /\ Source(Escaped(r.file)) \in Parts /\ Source(JsonEscaped(r.file)) \in Parts
  BY <1>1, EscapedType, QuotedType
<1>5. \A i \in 1 .. Len(r.attributes) :
         /\ KeyIsValue(r.attributes[i]) \in Parts /\ Member(r.attributes[i]) \in Parts
         /\ <<" ">> \o KeyIsValue(r.attributes[i]) \in Parts
  BY <1>2, <1>3, KeyIsValueType, PartsConcat
<1>6. /\ [i \in DOMAIN r.attributes |-> KeyIsValue(r.attributes[i])] \in Seq(Parts)
      /\ [i \in DOMAIN r.attributes |-> Member(r.attributes[i])] \in Seq(Parts)
      /\ [i \in 1 .. Len(r.attributes) |-> <<" ">> \o KeyIsValue(r.attributes[i])] \in Seq(Parts)
  <2> DEFINE n == Len(r.attributes)
  <2>1. ASSUME NEW f, f \in [1 .. n -> Parts] PROVE f \in Seq(Parts)
    BY <1>2, <2>1
  <2>2. /\ [i \in 1 .. n |-> KeyIsValue(r.attributes[i])] \in [1 .. n -> Parts]
        /\ [i \in 1 .. n |-> Member(r.attributes[i])] \in [1 .. n -> Parts]
        /\ [i \in 1 .. n |-> <<" ">> \o KeyIsValue(r.attributes[i])] \in [1 .. n -> Parts]
    BY <1>5
  <2>3. QED
    BY <1>2, <2>1, <2>2
<1>7. IsLine(FormatText(r, includeSource))
  <2> DEFINE head == <<"[">> \o Escaped(r.loggerName) \o <<"]", " ">> \o Escaped(r.message)
             list == IF r.attributes = <<>> THEN <<>>
                     ELSE <<" ", "{">> \o Joined([i \in DOMAIN r.attributes |->
                              KeyIsValue(r.attributes[i])], <<",", " ">>) \o <<"}">>
             counts == IF Truncated(r) THEN <<" ", "[", Digit, ",", " ", Digit, "]">> ELSE <<>>
             source == IF includeSource THEN <<" ", "(">> \o Source(Escaped(r.file)) \o <<")">>
                       ELSE <<>>
  <2>1. head \in Parts /\ list \in Parts
    BY <1>3, <1>4, <1>6, JoinedType, PartsConcat
  <2>2. counts \in Parts /\ source \in Parts
    BY <1>3, <1>4, PartsConcat
  <2>3. FormatText(r, includeSource) = head \o list \o counts \o source \o <<Newline>>
    BY DEF FormatText
  <2> HIDE DEF head, list, counts, source
  <2>4. head \o list \o counts \o source \in Parts
    BY <2>1, <2>2, PartsConcat
  <2>5. QED
    BY <2>3, <2>4, LineAfterPart, NewlineIsLine
<1>8. IsLine(FormatLogFmt(r, includeSource))
  <2> DEFINE head == Quoted(Escaped(r.loggerName)) \o <<" ">> \o Quoted(Escaped(r.message))
             source == IF includeSource THEN <<" ">> \o Quoted(Source(Escaped(r.file))) ELSE <<>>
             list == FlattenSeq([i \in 1 .. Len(r.attributes) |->
                                     <<" ">> \o KeyIsValue(r.attributes[i])])
             counts == IF Truncated(r) THEN <<" ", Digit, " ", Digit>> ELSE <<>>
  <2>1. list \in Parts /\ counts \in Parts
    BY <1>3, <1>6, PartsFlatten
  <2>2. head \in Parts /\ source \in Parts
    BY <1>3, <1>4, QuotedType, PartsConcat
  <2>3. FormatLogFmt(r, includeSource) = head \o source \o list \o counts \o <<Newline>>
    BY DEF FormatLogFmt
  <2> HIDE DEF head, source, list, counts
  <2>4. head \o source \o list \o counts \in Parts
    BY <2>1, <2>2, PartsConcat
  <2>5. QED
    BY <2>3, <2>4, LineAfterPart, NewlineIsLine
<1>9. IsLine(FormatJson(r))
  <2> DEFINE list == Joined([i \in DOMAIN r.attributes |-> Member(r.attributes[i])], <<",">>)
             end == <<"}", ",", Digit, ",", Digit, "}", Newline>>
             head == <<"{">> \o Quoted(JsonEscaped(r.loggerName))
                     \o <<",">> \o Quoted(JsonEscaped(r.message))
                     \o <<",">> \o Quoted(Source(JsonEscaped(r.file))) \o <<",", "{">>
  <2>1. list \in Parts /\ head \in Parts
    BY <1>3, <1>4, <1>6, JoinedType, QuotedType, PartsConcat
  <2>2. FormatJson(r) = head \o list \o end
    BY DEF FormatJson
  <2>3. IsLine(end)
    BY NewlineIsLine
  <2> HIDE DEF head, list, end
  <2>4. head \o list \in Parts
    BY <2>1, PartsConcat
  <2>5. QED
    BY <2>2, <2>3, <2>4, LineAfterPart
<1>10. QED
  BY <1>7, <1>8, <1>9

\* Whatever is in a record, or in its copy for a queue, a formatter makes one physical
\* line of it: the only newline is the last character.
THEOREM OneLine == Spec => []OnePhysicalLine
<1>1. ASSUME RecordInv PROVE OnePhysicalLine
  <2>1. record.dispatched \in Contents /\ ToOwned(record.dispatched) \in Contents
    BY <1>1, ToOwnedFacts DEF RecordInv, RecordOK, Dispatched
  <2>2. ASSUME NEW r \in {record.dispatched, ToOwned(record.dispatched)}
        PROVE  /\ IsLine(FormatText(r, FALSE)) /\ IsLine(FormatText(r, TRUE))
               /\ IsLine(FormatLogFmt(r, FALSE)) /\ IsLine(FormatLogFmt(r, TRUE))
               /\ IsLine(FormatJson(r))
    BY <2>1, FormatsAreLines
  <2>3. ASSUME NEW r \in {record.dispatched, ToOwned(record.dispatched)},
               NEW line \in {FormatText(r, FALSE), FormatText(r, TRUE),
                             FormatLogFmt(r, FALSE), FormatLogFmt(r, TRUE), FormatJson(r)}
        PROVE  IsLine(line)
    BY <2>2
  <2>4. ASSUME NEW line, IsLine(line)
        PROVE  {i \in 1 .. Len(line) : line[i] = Newline} = {Len(line)}
    BY <2>4 DEF IsLine
  <2>5. QED
    BY <2>3, <2>4 DEF OnePhysicalLine
<1>2. QED
  BY <1>1, ContextInvariant, PTL

-----------------------------------------------------------------------------
(* JsonReadsBack.                                                          *)

\* What a reader can meet, and what can come out of it: the reference definition of an
\* escape has a value for sequences that no formatter writes, too.
AnyChars  == LineChars \cup {Newline}
ReadTexts == Seq(AnyChars \cup {Unescaped(e) : e \in Seq(AnyChars)})
Items     == [char : AnyChars] \cup [text : ReadTexts]
Readers   == [at : {"outside", "inside", "escape"}, items : Seq(Items), text : ReadTexts,
              escape : Seq(AnyChars)]

Inside(items, text) == [at |-> "inside", items |-> items, text |-> text, escape |-> <<>>]
Escaping(items, text, escape) ==
    [at |-> "escape", items |-> items, text |-> text, escape |-> escape]

LEMMA ReaderTypes ==
    ASSUME NEW items \in Seq(Items)
    PROVE  /\ Outside(items) \in Readers
           /\ \A text \in ReadTexts :
                 /\ Inside(items, text) \in Readers
                 /\ \A escape \in Seq(AnyChars) : Escaping(items, text, escape) \in Readers
<1>1. <<>> \in ReadTexts /\ <<>> \in Seq(AnyChars)
  BY DEF ReadTexts
<1>2. QED
  BY <1>1 DEF Outside, Inside, Escaping, Readers

LEMMA ReaderForms ==
    ASSUME NEW s \in Readers, NEW ch \in AnyChars
    PROVE  /\ s.items \in Seq(Items) /\ s.text \in ReadTexts /\ s.escape \in Seq(AnyChars)
           /\ [char |-> ch] \in Items /\ [text |-> s.text] \in Items
           /\ Append(s.items, [char |-> ch]) \in Seq(Items)
           /\ Append(s.items, [text |-> s.text]) \in Seq(Items)
           /\ <<ch>> \in Seq(AnyChars) /\ Append(s.escape, ch) \in Seq(AnyChars)
           /\ Append(s.text, ch) \in ReadTexts
           /\ \A e \in Seq(AnyChars) : Append(s.text, Unescaped(e)) \in ReadTexts
<1>1. s.items \in Seq(Items) /\ s.text \in ReadTexts /\ s.escape \in Seq(AnyChars)
  BY DEF Readers
<1>2. [char |-> ch] \in Items /\ [text |-> s.text] \in Items
  BY <1>1 DEF Items
<1>3. /\ Append(s.items, [char |-> ch]) \in Seq(Items)
      /\ Append(s.items, [text |-> s.text]) \in Seq(Items)
  BY <1>1, <1>2, AppendProperties
<1>4. <<ch>> \in Seq(AnyChars) /\ Append(s.escape, ch) \in Seq(AnyChars)
  BY <1>1, TupleFacts, AppendProperties
<1>5. /\ Append(s.text, ch) \in ReadTexts
      /\ \A e \in Seq(AnyChars) : Append(s.text, Unescaped(e)) \in ReadTexts
  <2> DEFINE T == AnyChars \cup {Unescaped(e) : e \in Seq(AnyChars)}
  <2>1. s.text \in Seq(T) /\ ch \in T /\ \A e \in Seq(AnyChars) : Unescaped(e) \in T
    BY <1>1 DEF ReadTexts
  <2>2. ReadTexts = Seq(T)
    BY DEF ReadTexts
  <2> HIDE DEF T
  <2>3. QED
    BY <2>1, <2>2, AppendProperties
<1>6. QED
  BY <1>1, <1>2, <1>3, <1>4, <1>5

\* One step of the reader.
LEMMA ReadCharSteps ==
    ASSUME NEW s \in Readers, NEW ch \in AnyChars
    PROVE  /\ s.at = "outside" /\ ch = Quote => ReadChar(s, ch) = [s EXCEPT !.at = "inside"]
           /\ s.at = "outside" /\ ch # Quote =>
                 ReadChar(s, ch) = [s EXCEPT !.items = Append(@, [char |-> ch])]
           /\ s.at = "inside" /\ ch = Quote =>
                 ReadChar(s, ch) = Outside(Append(s.items, [text |-> s.text]))
           /\ s.at = "inside" /\ ch # Quote /\ ch = Escape =>
                 ReadChar(s, ch) = [s EXCEPT !.at = "escape", !.escape = <<ch>>]
           /\ s.at = "inside" /\ ch # Quote /\ ch # Escape =>
                 ReadChar(s, ch) = [s EXCEPT !.text = Append(@, ch)]
           /\ s.at = "escape" /\ Len(s.escape) = 1 /\ ch = "u" =>
                 ReadChar(s, ch) = [s EXCEPT !.escape = Append(@, ch)]
           /\ s.at = "escape" /\ ~(Len(s.escape) = 1 /\ ch = "u") =>
                 ReadChar(s, ch) = [s EXCEPT !.at = "inside", !.escape = <<>>,
                                        !.text = Append(@, Unescaped(Append(s.escape, ch)))]
BY DEF ReadChar, Readers

LEMMA ReadCharType ==
    ASSUME NEW s \in Readers, NEW ch \in AnyChars
    PROVE  ReadChar(s, ch) \in Readers
<1>1. <<>> \in Seq(AnyChars) /\ s.at \in {"outside", "inside", "escape"}
  BY DEF Readers
<1>2. /\ Append(s.items, [char |-> ch]) \in Seq(Items)
      /\ Append(s.items, [text |-> s.text]) \in Seq(Items)
      /\ <<ch>> \in Seq(AnyChars) /\ Append(s.escape, ch) \in Seq(AnyChars)
      /\ Append(s.text, ch) \in ReadTexts
      /\ Append(s.text, Unescaped(Append(s.escape, ch))) \in ReadTexts
  BY ReaderForms
<1>3. CASE s.at = "outside" /\ ch = Quote
  <2>1. ReadChar(s, ch) = [s EXCEPT !.at = "inside"]
    BY <1>3, ReadCharSteps
  <2>2. QED
    BY <1>1, <1>2, <2>1 DEF Readers
<1>4. CASE s.at = "outside" /\ ch # Quote
  <2>1. ReadChar(s, ch) = [s EXCEPT !.items = Append(@, [char |-> ch])]
    BY <1>4, ReadCharSteps
  <2>2. QED
    BY <1>1, <1>2, <2>1 DEF Readers
<1>5. CASE s.at = "inside" /\ ch = Quote
  <2>1. ReadChar(s, ch) = Outside(Append(s.items, [text |-> s.text]))
    BY <1>5, ReadCharSteps
  <2>2. QED
    BY <1>1, <1>2, <2>1, ReaderTypes
<1>6. CASE s.at = "inside" /\ ch # Quote /\ ch = Escape
  <2>1. ReadChar(s, ch) = [s EXCEPT !.at = "escape", !.escape = <<ch>>]
    BY <1>6, ReadCharSteps
  <2>2. QED
    BY <1>1, <1>2, <2>1 DEF Readers
<1>7. CASE s.at = "inside" /\ ch # Quote /\ ch # Escape
  <2>1. ReadChar(s, ch) = [s EXCEPT !.text = Append(@, ch)]
    BY <1>7, ReadCharSteps
  <2>2. QED
    BY <1>1, <1>2, <2>1 DEF Readers
<1>8. CASE s.at = "escape" /\ Len(s.escape) = 1 /\ ch = "u"
  <2>1. ReadChar(s, ch) = [s EXCEPT !.escape = Append(@, ch)]
    BY <1>8, ReadCharSteps
  <2>2. QED
    BY <1>1, <1>2, <2>1 DEF Readers
<1>9. CASE s.at = "escape" /\ ~(Len(s.escape) = 1 /\ ch = "u")
  <2>1. ReadChar(s, ch) = [s EXCEPT !.at = "inside", !.escape = <<>>,
                               !.text = Append(@, Unescaped(Append(s.escape, ch)))]
    BY <1>9, ReadCharSteps
  <2>2. QED
    BY <1>1, <1>2, <2>1 DEF Readers
<1>10. QED
  BY <1>1, <1>3, <1>4, <1>5, <1>6, <1>7, <1>8, <1>9

\* The reader is a recursive function on the positions of the line.
ReadStep(line) == [c \in (1 .. Len(line)) \X Readers |-> ReadChar(c[2], line[c[1]])]

\* g goes from s through the states of the reader.
ReaderOf(g, s, line) ==
    /\ g \in [0 .. Len(line) -> Readers] /\ g[0] = s
    /\ \A n \in 1 .. Len(line) : g[n] = ReadChar(g[n - 1], line[n])

LEMMA ReadRecurs ==
    ASSUME NEW s \in Readers, NEW line \in Seq(AnyChars)
    PROVE  \E g : ReaderOf(g, s, line) /\ Read(s, line) = g[Len(line)]
<1> DEFINE N == Len(line)
           step == ReadStep(line)
           Is(f) == f = [i \in 0 .. Len(line) |-> IF i = 0 THEN s ELSE ReadChar(f[i - 1], line[i])]
           F == CHOOSE f : Is(f)
<1>1. N \in Nat /\ \A i \in 1 .. N : line[i] \in AnyChars
  OBVIOUS
<1>2. PICK g : Recurs(g, N, Readers, s, step)
  <2>1. step \in [(1 .. N) \X Readers -> Readers]
    BY <1>1, ReadCharType DEF ReadStep
  <2> HIDE DEF step, N
  <2>2. QED
    BY <1>1, <2>1, RecursionExists
<1>3. /\ g \in [0 .. N -> Readers] /\ g[0] = s
      /\ \A n \in 1 .. N : g[n] = ReadChar(g[n - 1], line[n])
  <2>1. g \in [0 .. N -> Readers] /\ g[0] = s
    BY <1>2 DEF Recurs
  <2>2. ASSUME NEW n \in 1 .. N PROVE g[n] = ReadChar(g[n - 1], line[n])
    <3>1. g[n] = step[<<n, g[n - 1]>>]
      BY <1>2 DEF Recurs
    <3>2. n - 1 \in 0 .. N
      BY <1>1
    <3>3. <<n, g[n - 1]>> \in (1 .. Len(line)) \X Readers
      BY <2>1, <3>2
    <3>4. QED
      BY <3>1, <3>3 DEF ReadStep
  <2>3. QED
    BY <2>1, <2>2
<1>4. Read(s, line) = F[N]
  BY DEF Read
<1>5. Is(g)
  <2>1. \A i \in 0 .. N : g[i] = IF i = 0 THEN s ELSE ReadChar(g[i - 1], line[i])
    BY <1>1, <1>3
  <2>2. g = [i \in 0 .. N |-> g[i]]
    BY <1>3
  <2>3. QED
    BY <2>1, <2>2
<1>6. Is(F)
  <2> HIDE DEF Is
  <2>1. QED
    BY <1>5
<1> HIDE DEF F
<1>7. \A i \in 0 .. N : F[i] = IF i = 0 THEN s ELSE ReadChar(F[i - 1], line[i])
  BY <1>6
<1> DEFINE A == {n \in Nat : n <= N => F[n] = g[n]}
<1>8. 0 \in A
  BY <1>1, <1>3, <1>7
<1>9. ASSUME NEW n \in Nat, n \in A PROVE n + 1 \in A
  <2>1. SUFFICES ASSUME n + 1 <= N PROVE F[n + 1] = g[n + 1]
    OBVIOUS
  <2>2. PICK q \in 1 .. N : q = n + 1 /\ q - 1 = n /\ q # 0 /\ q \in 0 .. N
    BY <1>1, <2>1
  <2>3. F[n] = g[n]
    BY <1>1, <1>9, <2>1
  <2>4. F[q] = ReadChar(F[q - 1], line[q]) /\ g[q] = ReadChar(g[q - 1], line[q])
    BY <1>3, <1>7, <2>2
  <2>5. QED
    BY <2>2, <2>3, <2>4
<1>10. Nat \subseteq A
  <2> HIDE DEF A
  <2>1. QED
    BY <1>8, <1>9, NatSetInduction
<1>11. F[N] = g[N]
  BY <1>1, <1>10
<1>12. QED
  BY <1>3, <1>4, <1>11 DEF ReaderOf

LEMMA ReadFacts ==
    ASSUME NEW s \in Readers, NEW line \in Seq(AnyChars)
    PROVE  /\ Read(s, <<>>) = s
           /\ Read(s, line) \in Readers
           /\ \A ch \in AnyChars : Read(s, Append(line, ch)) = ReadChar(Read(s, line), ch)
<1> DEFINE N == Len(line)
<1>1. Read(s, <<>>) = s
  <2>1. <<>> \in Seq(AnyChars) /\ Len(<<>>) = 0
    OBVIOUS
  <2>2. PICK g : ReaderOf(g, s, <<>>) /\ Read(s, <<>>) = g[Len(<<>>)]
    BY <2>1, ReadRecurs
  <2>3. QED
    BY <2>1, <2>2 DEF ReaderOf
<1>2. PICK g : ReaderOf(g, s, line) /\ Read(s, line) = g[N]
  BY ReadRecurs
<1>3. N \in Nat /\ N \in 0 .. N
  OBVIOUS
<1>4. ASSUME NEW ch \in AnyChars
      PROVE  Read(s, Append(line, ch)) = ReadChar(Read(s, line), ch)
  <2> DEFINE u == Append(line, ch)
  <2>1. /\ u \in Seq(AnyChars) /\ Len(u) = N + 1
        /\ u[N + 1] = ch /\ \A i \in 1 .. N : u[i] = line[i]
    OBVIOUS
  <2> HIDE DEF u
  <2>2. PICK h : ReaderOf(h, s, u) /\ Read(s, u) = h[Len(u)]
    BY <2>1, ReadRecurs
  <2> DEFINE A == {n \in Nat : n <= N => h[n] = g[n]}
  <2>3. 0 \in A
    BY <1>2, <2>2 DEF ReaderOf
  <2>4. ASSUME NEW n \in Nat, n \in A PROVE n + 1 \in A
    <3>1. SUFFICES ASSUME n + 1 <= N PROVE h[n + 1] = g[n + 1]
      OBVIOUS
    <3>2. PICK q \in 1 .. N : q = n + 1 /\ q - 1 = n /\ q \in 1 .. N + 1
      BY <1>3, <3>1
    <3>3. h[n] = g[n]
      BY <1>3, <2>4, <3>1
    <3>4. h[q] = ReadChar(h[q - 1], u[q]) /\ g[q] = ReadChar(g[q - 1], line[q]) /\ u[q] = line[q]
      BY <1>2, <2>1, <2>2, <3>2 DEF ReaderOf
    <3>5. QED
      BY <3>2, <3>3, <3>4
  <2>5. Nat \subseteq A
    <3> HIDE DEF A
    <3>1. QED
      BY <2>3, <2>4, NatSetInduction
  <2>6. h[N] = g[N]
    BY <1>3, <2>5
  <2>7. N + 1 \in 1 .. N + 1 /\ (N + 1) - 1 = N
    BY <1>3
  <2>8. h[N + 1] = ReadChar(h[(N + 1) - 1], u[N + 1])
    BY <2>1, <2>2, <2>7 DEF ReaderOf
  <2>9. QED
    BY <1>2, <2>1, <2>2, <2>6, <2>7, <2>8 DEF u
<1>5. QED
  BY <1>1, <1>2, <1>3, <1>4 DEF ReaderOf

\* Reading goes on where it was.
LEMMA ReadOn ==
    ASSUME NEW s \in Readers, NEW p \in Seq(AnyChars), NEW q \in Seq(AnyChars)
    PROVE  Read(s, p) \in Readers /\ Read(s, p \o q) = Read(Read(s, p), q)
<1> DEFINE r == Read(s, p)
           P == {t \in Seq(AnyChars) : Read(s, p \o t) = Read(r, t)}
<1>1. r \in Readers
  BY ReadFacts
<1> HIDE DEF r
<1>2. <<>> \in P
  <2>1. p \o <<>> = p /\ <<>> \in Seq(AnyChars)
    BY ConcatEmptySeq
  <2>2. Read(r, <<>>) = r
    BY <1>1, <2>1, ReadFacts
  <2>3. QED
    BY <2>1, <2>2 DEF r
<1>3. ASSUME NEW t \in Seq(AnyChars), NEW ch \in AnyChars, t \in P
      PROVE  Append(t, ch) \in P
  <2>1. p \o t \in Seq(AnyChars) /\ Append(t, ch) \in Seq(AnyChars)
    BY ConcatProperties, AppendProperties
  <2>2. p \o Append(t, ch) = Append(p \o t, ch)
    <3>1. Append(t, ch) = t \o <<ch>> /\ Append(p \o t, ch) = (p \o t) \o <<ch>>
      BY <2>1, AppendIsConcat
    <3>2. <<ch>> \in Seq(AnyChars)
      BY TupleFacts
    <3>3. (p \o t) \o <<ch>> = p \o (t \o <<ch>>)
      BY <3>2, ConcatAssociative
    <3>4. QED
      BY <3>1, <3>3
  <2>3. Read(s, Append(p \o t, ch)) = ReadChar(Read(s, p \o t), ch)
    BY <2>1, ReadFacts
  <2>4. Read(r, Append(t, ch)) = ReadChar(Read(r, t), ch)
    BY <1>1, ReadFacts
  <2>5. Read(s, p \o t) = Read(r, t)
    BY <1>3
  <2>6. QED
    BY <2>1, <2>2, <2>3, <2>4, <2>5
<1>4. Seq(AnyChars) \subseteq P
  <2> HIDE DEF P
  <2>1. QED
    BY <1>2, <1>3, SeqInduction
<1>5. QED
  BY <1>1, <1>4 DEF r

LEMMA ReadFew ==
    ASSUME NEW s \in Readers
    PROVE  /\ Read(s, <<>>) = s
           /\ \A a \in AnyChars : Read(s, <<a>>) = ReadChar(s, a)
           /\ \A a, b \in AnyChars : Read(s, <<a, b>>) = ReadChar(ReadChar(s, a), b)
           /\ \A a, b, c \in AnyChars :
                 Read(s, <<a, b, c>>) = ReadChar(ReadChar(ReadChar(s, a), b), c)
<1>1. Read(s, <<>>) = s /\ <<>> \in Seq(AnyChars)
  <2>1. <<>> \in Seq(AnyChars)
    OBVIOUS
  <2>2. QED
    BY <2>1, ReadFacts
<1>2. ASSUME NEW a \in AnyChars PROVE Read(s, <<a>>) = ReadChar(s, a)
  <2>1. <<a>> = Append(<<>>, a)
    OBVIOUS
  <2>2. Read(s, Append(<<>>, a)) = ReadChar(Read(s, <<>>), a)
    BY <1>1, ReadFacts
  <2>3. QED
    BY <1>1, <2>1, <2>2
<1>3. ASSUME NEW a \in AnyChars, NEW b \in AnyChars
      PROVE  Read(s, <<a, b>>) = ReadChar(ReadChar(s, a), b)
  <2>1. <<a, b>> = Append(<<a>>, b) /\ <<a>> \in Seq(AnyChars)
    OBVIOUS
  <2>2. Read(s, Append(<<a>>, b)) = ReadChar(Read(s, <<a>>), b)
    BY <2>1, ReadFacts
  <2>3. QED
    BY <1>2, <2>1, <2>2
<1>4. ASSUME NEW a \in AnyChars, NEW b \in AnyChars, NEW c \in AnyChars
      PROVE  Read(s, <<a, b, c>>) = ReadChar(ReadChar(ReadChar(s, a), b), c)
  <2>1. <<a, b, c>> = Append(<<a, b>>, c) /\ <<a, b>> \in Seq(AnyChars)
    OBVIOUS
  <2>2. Read(s, Append(<<a, b>>, c)) = ReadChar(Read(s, <<a, b>>), c)
    BY <2>1, ReadFacts
  <2>3. QED
    BY <1>3, <2>1, <2>2
<1>5. QED
  BY <1>1, <1>2, <1>3, <1>4

\* What the reference definition makes of the escapes that the formatters write.
LEMMA UnescapedFacts ==
    ASSUME NEW ch
    PROVE  /\ ch \in {Quote, Escape} => Unescaped(<<Escape, ch>>) = ch
           /\ ch \in DOMAIN JsonNamed => Unescaped(<<Escape, JsonNamed[ch]>>) = ch
           /\ ch \in Control => Unescaped(<<Escape, "u", Code[ch]>>) = ch
<1>1. ASSUME ch \in {Quote, Escape} PROVE Unescaped(<<Escape, ch>>) = ch
  BY <1>1 DEF Unescaped
<1>2. ASSUME ch \in DOMAIN JsonNamed PROVE Unescaped(<<Escape, JsonNamed[ch]>>) = ch
  <2>1. JsonNamed[ch] \notin {Quote, Escape}
    BY <1>2, TableFacts DEF Quote, Escape
  <2>2. \A d \in DOMAIN JsonNamed : JsonNamed[d] = JsonNamed[ch] => d = ch
    BY <1>2 DEF JsonNamed, Named, Newline, Backspace
  <2>3. Unescaped(<<Escape, JsonNamed[ch]>>) =
            CHOOSE d \in DOMAIN JsonNamed : JsonNamed[d] = JsonNamed[ch]
    BY <2>1 DEF Unescaped
  <2>4. QED
    BY <1>2, <2>2, <2>3
<1>3. ASSUME ch \in Control PROVE Unescaped(<<Escape, "u", Code[ch]>>) = ch
  <2>1. \A d \in Control : Code[d] = Code[ch] => d = ch
    BY <1>3 DEF Control, Code, Backspace, Bell
  <2>2. Unescaped(<<Escape, "u", Code[ch]>>) = CHOOSE d \in Control : Code[d] = Code[ch]
    BY DEF Unescaped
  <2>3. QED
    BY <1>3, <2>1, <2>2
<1>4. QED
  BY <1>1, <1>2, <1>3

\* The steps of the reader on what the formatters write.
LEMMA ReaderSteps ==
    ASSUME NEW items \in Seq(Items), NEW text \in ReadTexts, NEW ch \in AnyChars
    PROVE  /\ ReadChar(Outside(items), Quote) = Inside(items, <<>>)
           /\ ch # Quote => ReadChar(Outside(items), ch) = Outside(Append(items, [char |-> ch]))
           /\ ReadChar(Inside(items, text), Quote) = Outside(Append(items, [text |-> text]))
           /\ ReadChar(Inside(items, text), Escape) = Escaping(items, text, <<Escape>>)
           /\ ch # Quote /\ ch # Escape =>
                 ReadChar(Inside(items, text), ch) = Inside(items, Append(text, ch))
           /\ ReadChar(Escaping(items, text, <<Escape>>), "u") =
                 Escaping(items, text, <<Escape, "u">>)
           /\ ch # "u" =>
                 ReadChar(Escaping(items, text, <<Escape>>), ch) =
                     Inside(items, Append(text, Unescaped(<<Escape, ch>>)))
           /\ ReadChar(Escaping(items, text, <<Escape, "u">>), ch) =
                 Inside(items, Append(text, Unescaped(<<Escape, "u", ch>>)))
<1>1. /\ Quote \in AnyChars /\ Escape \in AnyChars /\ "u" \in AnyChars /\ Escape # Quote
  BY PunctuationFacts DEF AnyChars, Quote, Escape
<1>2. /\ <<Escape>> \in Seq(AnyChars) /\ <<Escape, "u">> \in Seq(AnyChars)
      /\ Len(<<Escape>>) = 1 /\ Len(<<Escape, "u">>) = 2
      /\ Append(<<Escape>>, "u") = <<Escape, "u">>
      /\ Append(<<Escape>>, ch) = <<Escape, ch>>
      /\ Append(<<Escape, "u">>, ch) = <<Escape, "u", ch>>
  <2>1. <<Escape>> \in Seq(AnyChars) /\ <<Escape, "u">> \in Seq(AnyChars)
    BY <1>1, TupleFacts
  <2>2. Len(<<Escape>>) = 1 /\ Len(<<Escape, "u">>) = 2
    OBVIOUS
  <2>3. ASSUME NEW a \in AnyChars, NEW b \in AnyChars
        PROVE  <<a, b>> = Append(<<a>>, b) /\ <<a>> \in Seq(AnyChars)
    OBVIOUS
  <2>4. ASSUME NEW a \in AnyChars, NEW b \in AnyChars, NEW c \in AnyChars
        PROVE  <<a, b, c>> = Append(<<a, b>>, c) /\ <<a, b>> \in Seq(AnyChars)
    OBVIOUS
  <2>5. QED
    BY <1>1, <2>1, <2>2, <2>3, <2>4
<1>3. /\ Outside(items) \in Readers /\ Inside(items, text) \in Readers
      /\ Escaping(items, text, <<Escape>>) \in Readers
      /\ Escaping(items, text, <<Escape, "u">>) \in Readers
  BY <1>2, ReaderTypes
<1>4. ReadChar(Outside(items), Quote) = Inside(items, <<>>)
  BY DEF ReadChar, Outside, Inside
<1>5. ASSUME ch # Quote
      PROVE  ReadChar(Outside(items), ch) = Outside(Append(items, [char |-> ch]))
  BY <1>5 DEF ReadChar, Outside
<1>6. ReadChar(Inside(items, text), Quote) = Outside(Append(items, [text |-> text]))
  BY DEF ReadChar, Inside
<1>7. ReadChar(Inside(items, text), Escape) = Escaping(items, text, <<Escape>>)
  BY <1>1 DEF ReadChar, Inside, Escaping
<1>8. ASSUME ch # Quote, ch # Escape
      PROVE  ReadChar(Inside(items, text), ch) = Inside(items, Append(text, ch))
  BY <1>8 DEF ReadChar, Inside
<1>9. ReadChar(Escaping(items, text, <<Escape>>), "u") = Escaping(items, text, <<Escape, "u">>)
  BY <1>2 DEF ReadChar, Escaping
<1>10. ASSUME ch # "u"
       PROVE  ReadChar(Escaping(items, text, <<Escape>>), ch) =
                  Inside(items, Append(text, Unescaped(<<Escape, ch>>)))
  BY <1>2, <1>10 DEF ReadChar, Escaping, Inside
<1>11. ReadChar(Escaping(items, text, <<Escape, "u">>), ch) =
           Inside(items, Append(text, Unescaped(<<Escape, "u", ch>>)))
  <2> DEFINE s == Escaping(items, text, <<Escape, "u">>)
  <2>1. s.at = "escape" /\ Len(s.escape) # 1 /\ Append(s.escape, ch) = <<Escape, "u", ch>>
    BY <1>2 DEF Escaping
  <2>2. ReadChar(s, ch) = [s EXCEPT !.at = "inside", !.escape = <<>>,
                               !.text = Append(@, Unescaped(Append(s.escape, ch)))]
    <3> HIDE DEF s
    <3>1. QED
      BY <2>1 DEF ReadChar
  <2>3. QED
    BY <2>1, <2>2 DEF Escaping, Inside
<1>12. QED
  BY <1>4, <1>5, <1>6, <1>7, <1>8, <1>9, <1>10, <1>11

\* Inside of a string, what is written for a character is read as that character.
LEMMA EscapedCharRead ==
    ASSUME NEW items \in Seq(Items), NEW text \in ReadTexts, NEW ch \in Chars
    PROVE  Read(Inside(items, text), JsonEscapedChar(ch)) = Inside(items, Append(text, ch))
<1> DEFINE s == Inside(items, text)
<1>1. s \in Readers /\ ch \in AnyChars
  BY ReaderTypes DEF AnyChars, LineChars
<1>2. /\ Quote \in AnyChars /\ Escape \in AnyChars /\ "u" \in AnyChars
      /\ "n" \in AnyChars /\ "r" \in AnyChars /\ "t" \in AnyChars /\ "b" \in AnyChars
      /\ "f" \in AnyChars
      /\ "07" \in AnyChars /\ "08" \in AnyChars /\ "0c" \in AnyChars
      /\ Quote # "u" /\ Escape # "u"
  BY PunctuationFacts DEF AnyChars, Quote, Escape
<1>3. CASE ch \in {Quote, Escape}
  <2>1. JsonEscapedChar(ch) = <<Escape, ch>>
    BY <1>3 DEF JsonEscapedChar
  <2>2. Read(s, <<Escape, ch>>) = ReadChar(ReadChar(s, Escape), ch)
    BY <1>1, <1>2, ReadFew
  <2>3. ReadChar(s, Escape) = Escaping(items, text, <<Escape>>)
    BY <1>1, ReaderSteps
  <2>4. ch # "u"
    BY <1>2, <1>3
  <2>5. ReadChar(Escaping(items, text, <<Escape>>), ch) =
            Inside(items, Append(text, Unescaped(<<Escape, ch>>)))
    BY <1>1, <2>4, ReaderSteps
  <2>6. Unescaped(<<Escape, ch>>) = ch
    BY <1>3, UnescapedFacts
  <2>7. QED
    BY <2>1, <2>2, <2>3, <2>5, <2>6
<1>4. CASE ch \notin {Quote, Escape} /\ ch \in DOMAIN JsonNamed
  <2> DEFINE d == JsonNamed[ch]
  <2>1. JsonEscapedChar(ch) = <<Escape, d>>
    BY <1>4 DEF JsonEscapedChar
  <2>2. d \in {"n", "r", "t", "b", "f"}
    BY <1>4, TableFacts
  <2>3. d \in AnyChars /\ d # "u"
    BY <1>2, <2>2
  <2>4. Unescaped(<<Escape, d>>) = ch
    BY <1>4, UnescapedFacts
  <2> HIDE DEF d
  <2>5. Read(s, <<Escape, d>>) = ReadChar(ReadChar(s, Escape), d)
    BY <1>1, <1>2, <2>3, ReadFew
  <2>6. ReadChar(s, Escape) = Escaping(items, text, <<Escape>>)
    BY <1>1, ReaderSteps
  <2>7. ReadChar(Escaping(items, text, <<Escape>>), d) =
            Inside(items, Append(text, Unescaped(<<Escape, d>>)))
    BY <2>3, ReaderSteps
  <2>8. QED
    BY <2>1, <2>4, <2>5, <2>6, <2>7
<1>5. CASE ch \notin {Quote, Escape} /\ ch \notin DOMAIN JsonNamed /\ ch \in Control
  <2> DEFINE d == Code[ch]
  <2>1. JsonEscapedChar(ch) = <<Escape, "u", d>>
    BY <1>5 DEF JsonEscapedChar
  <2>2. d \in AnyChars
    BY <1>2, <1>5, TableFacts
  <2>3. Unescaped(<<Escape, "u", d>>) = ch
    BY <1>5, UnescapedFacts
  <2> HIDE DEF d
  <2>4. Read(s, <<Escape, "u", d>>) = ReadChar(ReadChar(ReadChar(s, Escape), "u"), d)
    BY <1>1, <1>2, <2>2, ReadFew
  <2>5. ReadChar(s, Escape) = Escaping(items, text, <<Escape>>)
    BY <1>1, ReaderSteps
  <2>6. ReadChar(Escaping(items, text, <<Escape>>), "u") = Escaping(items, text, <<Escape, "u">>)
    BY <1>1, ReaderSteps
  <2>7. ReadChar(Escaping(items, text, <<Escape, "u">>), d) =
            Inside(items, Append(text, Unescaped(<<Escape, "u", d>>)))
    BY <2>2, ReaderSteps
  <2>8. QED
    BY <2>1, <2>3, <2>4, <2>5, <2>6, <2>7
<1>6. CASE ch \notin {Quote, Escape} /\ ch \notin DOMAIN JsonNamed /\ ch \notin Control
  <2>1. JsonEscapedChar(ch) = <<ch>>
    BY <1>6 DEF JsonEscapedChar
  <2>2. Read(s, <<ch>>) = ReadChar(s, ch)
    BY <1>1, ReadFew
  <2>3. ReadChar(s, ch) = Inside(items, Append(text, ch))
    BY <1>1, <1>6, ReaderSteps
  <2>4. QED
    BY <2>1, <2>2, <2>3
<1>7. QED
  BY <1>3, <1>4, <1>5, <1>6

LEMMA TextsRead ==
    ASSUME NEW text \in Text
    PROVE  text \in ReadTexts
<1>1. Chars \subseteq AnyChars \cup {Unescaped(e) : e \in Seq(AnyChars)}
  BY DEF AnyChars, LineChars
<1>2. QED
  BY <1>1, SeqMonotonic DEF Text, ReadTexts

\* The same for a text.
LEMMA EscapedRead ==
    ASSUME NEW items \in Seq(Items), NEW text \in Text
    PROVE  Read(Inside(items, <<>>), JsonEscaped(text)) = Inside(items, text)
<1> DEFINE s == Inside(items, <<>>)
           P == {t \in Text : Read(s, JsonEscaped(t)) = Inside(items, t)}
<1>1. <<>> \in Text /\ s \in Readers
  <2>1. <<>> \in Text
    BY DEF Text
  <2>2. QED
    BY <2>1, TextsRead, ReaderTypes
<1> HIDE DEF s
<1>2. Parts \subseteq Seq(AnyChars)
  <2>1. LineChars \subseteq AnyChars
    BY DEF AnyChars
  <2>2. QED
    BY <2>1, SeqMonotonic DEF Parts
<1>3. <<>> \in P
  <2>1. JsonEscaped(<<>>) = <<>>
    <3>1. [i \in 1 .. Len(<<>>) |-> JsonEscapedChar(<<>>[i])] = <<>>
      OBVIOUS
    <3>2. QED
      BY <3>1, FlattenEmpty DEF JsonEscaped
  <2>2. Read(s, <<>>) = s
    BY <1>1, PunctuationFacts, ReadFew DEF AnyChars
  <2>3. QED
    BY <1>1, <2>1, <2>2 DEF s
<1>4. ASSUME NEW t \in Text, NEW ch \in Chars, t \in P PROVE Append(t, ch) \in P
  <2> DEFINE parts == [i \in 1 .. Len(t) |-> JsonEscapedChar(t[i])]
             more == [i \in 1 .. Len(Append(t, ch)) |-> JsonEscapedChar(Append(t, ch)[i])]
  <2>1. /\ Append(t, ch) \in Text /\ Len(t) \in Nat /\ Len(Append(t, ch)) = Len(t) + 1
        /\ Append(t, ch)[Len(t) + 1] = ch
        /\ \A i \in 1 .. Len(t) : t[i] \in Chars /\ Append(t, ch)[i] = t[i]
    BY DEF Text
  <2>2. parts \in Seq(Parts) /\ JsonEscapedChar(ch) \in Parts /\ Len(parts) = Len(t)
    <3>1. \A i \in 1 .. Len(t) : JsonEscapedChar(t[i]) \in Parts
      BY <2>1, EscapedCharType
    <3>2. QED
      BY <2>1, <3>1, EscapedCharType
  <2>3. more = Append(parts, JsonEscapedChar(ch))
    BY <2>1
  <2>4. JsonEscaped(Append(t, ch)) = JsonEscaped(t) \o JsonEscapedChar(ch)
    <3>1. JsonEscaped(Append(t, ch)) = FlattenSeq(more) /\ JsonEscaped(t) = FlattenSeq(parts)
      BY DEF JsonEscaped
    <3> HIDE DEF parts, more
    <3>2. FlattenSeq(Append(parts, JsonEscapedChar(ch))) = FlattenSeq(parts) \o JsonEscapedChar(ch)
      BY <2>2, FlattenFacts DEF Parts
    <3>3. QED
      BY <2>3, <3>1, <3>2
  <2>5. JsonEscaped(t) \in Seq(AnyChars) /\ JsonEscapedChar(ch) \in Seq(AnyChars)
    BY <1>2, <2>2, EscapedType
  <2>6. Read(s, JsonEscaped(t) \o JsonEscapedChar(ch)) = Read(Read(s, JsonEscaped(t)), JsonEscapedChar(ch))
    BY <1>1, <2>5, ReadOn
  <2>7. Read(s, JsonEscaped(t)) = Inside(items, t)
    BY <1>4
  <2>8. Read(Inside(items, t), JsonEscapedChar(ch)) = Inside(items, Append(t, ch))
    BY TextsRead, EscapedCharRead
  <2> HIDE DEF parts, more
  <2>9. QED
    BY <2>1, <2>4, <2>6, <2>7, <2>8
<1>5. Text \subseteq P
  <2>1. Seq(Chars) \subseteq P
    <3>1. /\ <<>> \in P
          /\ \A t \in Seq(Chars), ch \in Chars : t \in P => Append(t, ch) \in P
      BY <1>3, <1>4 DEF Text
    <3> HIDE DEF P
    <3>2. QED
      BY <3>1, SeqInduction
  <2>2. QED
    BY <2>1 DEF Text
<1>6. QED
  BY <1>5 DEF s

\* What is read from p, from outside of strings, whatever has been read before.
Reads(p, given) ==
    /\ p \in Seq(AnyChars) /\ given \in Seq(Items)
    /\ \A items \in Seq(Items) : Read(Outside(items), p) = Outside(items \o given)

LEMMA ReadsConcat ==
    ASSUME NEW p, NEW q, NEW f, NEW g, Reads(p, f), Reads(q, g)
    PROVE  Reads(p \o q, f \o g)
<1>1. /\ p \in Seq(AnyChars) /\ f \in Seq(Items) /\ q \in Seq(AnyChars) /\ g \in Seq(Items)
      /\ p \o q \in Seq(AnyChars) /\ f \o g \in Seq(Items)
  BY ConcatProperties DEF Reads
<1>2. ASSUME NEW items \in Seq(Items)
      PROVE  Read(Outside(items), p \o q) = Outside(items \o (f \o g))
  <2>1. items \o f \in Seq(Items) /\ (items \o f) \o g = items \o (f \o g)
    <3>1. items \o f \in Seq(Items)
      BY <1>1, ConcatProperties
    <3>2. (items \o f) \o g = items \o (f \o g)
      BY <1>1, ConcatAssociative, SMTT(30)
    <3>3. QED
      BY <3>1, <3>2
  <2>2. Outside(items) \in Readers
    BY ReaderTypes
  <2>3. Read(Outside(items), p \o q) = Read(Read(Outside(items), p), q)
    BY <1>1, <2>2, ReadOn
  <2>4. /\ Read(Outside(items), p) = Outside(items \o f)
        /\ Read(Outside(items \o f), q) = Outside((items \o f) \o g)
    BY <2>1 DEF Reads
  <2>5. QED
    BY <2>1, <2>3, <2>4
<1>3. QED
  BY <1>1, <1>2 DEF Reads

LEMMA ReadsNothing == Reads(<<>>, <<>>)
<1>1. <<>> \in Seq(AnyChars) /\ <<>> \in Seq(Items)
  OBVIOUS
<1>2. ASSUME NEW items \in Seq(Items) PROVE Read(Outside(items), <<>>) = Outside(items \o <<>>)
  <2>1. items \o <<>> = items
    BY ConcatEmptySeq
  <2>2. QED
    BY <2>1, ReaderTypes, ReadFew
<1>3. QED
  BY <1>1, <1>2 DEF Reads

LEMMA ReadsChar ==
    ASSUME NEW ch \in AnyChars, ch # Quote
    PROVE  Reads(<<ch>>, <<[char |-> ch]>>)
<1>1. [char |-> ch] \in Items
  BY DEF Items
<1>2. <<ch>> \in Seq(AnyChars) /\ <<[char |-> ch]>> \in Seq(Items)
  BY <1>1, TupleFacts
<1>3. ASSUME NEW items \in Seq(Items)
      PROVE  Read(Outside(items), <<ch>>) = Outside(items \o <<[char |-> ch]>>)
  <2>1. Read(Outside(items), <<ch>>) = ReadChar(Outside(items), ch)
    BY ReaderTypes, ReadFew
  <2>2. <<>> \in ReadTexts
    BY DEF ReadTexts
  <2>3. ReadChar(Outside(items), ch) = Outside(Append(items, [char |-> ch]))
    BY <2>2, ReaderSteps
  <2>4. Append(items, [char |-> ch]) = items \o <<[char |-> ch]>>
    BY <1>1, AppendIsConcat
  <2>5. QED
    BY <2>1, <2>3, <2>4
<1>4. QED
  BY <1>2, <1>3 DEF Reads

LEMMA ReadsChars ==
    ASSUME NEW s \in Seq(AnyChars \ {Quote})
    PROVE  Reads(s, CharItems(s))
<1> DEFINE C == AnyChars \ {Quote}
           P == {t \in Seq(C) : Reads(t, CharItems(t))}
<1>1. <<>> \in P
  <2>1. CharItems(<<>>) = <<>> /\ <<>> \in Seq(C)
    BY DEF CharItems
  <2>2. QED
    BY <2>1, ReadsNothing
<1>2. ASSUME NEW t \in Seq(C), NEW ch \in C, t \in P PROVE Append(t, ch) \in P
  <2>1. /\ Append(t, ch) \in Seq(C) /\ Append(t, ch) = t \o <<ch>>
        /\ Len(t) \in Nat /\ Len(Append(t, ch)) = Len(t) + 1
        /\ Append(t, ch)[Len(t) + 1] = ch
        /\ \A i \in 1 .. Len(t) : t[i] \in AnyChars /\ Append(t, ch)[i] = t[i]
    OBVIOUS
  <2>2. CharItems(t) \in Seq(Items) /\ Len(CharItems(t)) = Len(t) /\ [char |-> ch] \in Items
    <3>1. \A d \in AnyChars : [char |-> d] \in Items
      BY DEF Items
    <3>2. QED
      BY <2>1, <3>1 DEF CharItems
  <2>3. CharItems(Append(t, ch)) = Append(CharItems(t), [char |-> ch])
    BY <2>1, <2>2 DEF CharItems
  <2>4. CharItems(Append(t, ch)) = CharItems(t) \o <<[char |-> ch]>>
    BY <2>2, <2>3, AppendIsConcat
  <2>5. Reads(t, CharItems(t)) /\ Reads(<<ch>>, <<[char |-> ch]>>)
    BY <1>2, ReadsChar
  <2>6. Reads(t \o <<ch>>, CharItems(t) \o <<[char |-> ch]>>)
    BY <2>5, ReadsConcat
  <2>7. QED
    BY <2>1, <2>4, <2>6
<1>3. Seq(C) \subseteq P
  <2> HIDE DEF P, C
  <2>1. QED
    BY <1>1, <1>2, SeqInduction
<1>4. QED
  BY <1>3

\* A string between quotes is read as what its characters are read as.
LEMMA ReadsQuoted ==
    ASSUME NEW part \in Parts, NEW text \in ReadTexts,
           \A items \in Seq(Items) : Read(Inside(items, <<>>), part) = Inside(items, text)
    PROVE  Reads(Quoted(part), <<[text |-> text]>>)
<1>1. <<>> \in ReadTexts
  BY DEF ReadTexts
<1>2. [text |-> text] \in Items
  BY DEF Items
<1>3. /\ Quote \in AnyChars /\ <<Quote>> \in Seq(AnyChars) /\ part \in Seq(AnyChars)
      /\ <<Quote>> \o part \in Seq(AnyChars) /\ Quoted(part) \in Seq(AnyChars)
  <2>1. LineChars \subseteq AnyChars /\ Quote \in AnyChars
    BY PunctuationFacts DEF AnyChars
  <2>2. part \in Seq(AnyChars)
    BY <2>1, SeqMonotonic DEF Parts
  <2>3. <<Quote>> \in Seq(AnyChars)
    BY <2>1, TupleFacts
  <2>4. <<Quote>> \o part \in Seq(AnyChars)
    BY <2>2, <2>3, ConcatProperties
  <2>5. QED
    BY <2>1, <2>2, <2>3, <2>4, ConcatProperties DEF Quoted
<1>4. ASSUME NEW items \in Seq(Items)
      PROVE  Read(Outside(items), Quoted(part)) = Outside(items \o <<[text |-> text]>>)
  <2>1. /\ Outside(items) \in Readers /\ Inside(items, <<>>) \in Readers
        /\ Inside(items, text) \in Readers
    BY <1>1, ReaderTypes
  <2>2. Read(Outside(items), <<Quote>>) = Inside(items, <<>>)
    BY <1>1, <1>3, <2>1, ReadFew, ReaderSteps
  <2>3. Read(Outside(items), <<Quote>> \o part) = Inside(items, text)
    <3>1. Read(Outside(items), <<Quote>> \o part) = Read(Read(Outside(items), <<Quote>>), part)
      BY <1>3, <2>1, ReadOn
    <3>2. QED
      BY <2>2, <3>1
  <2>4. Read(Inside(items, text), <<Quote>>) = Outside(Append(items, [text |-> text]))
    <3>1. Read(Inside(items, text), <<Quote>>) = ReadChar(Inside(items, text), Quote)
      BY <1>3, <2>1, ReadFew
    <3>2. ReadChar(Inside(items, text), Quote) = Outside(Append(items, [text |-> text]))
      BY <1>1, <1>3, ReaderSteps
    <3>3. QED
      BY <3>1, <3>2
  <2>5. Read(Outside(items), Quoted(part)) =
            Read(Read(Outside(items), <<Quote>> \o part), <<Quote>>)
    BY <1>3, <2>1, ReadOn DEF Quoted
  <2>6. Append(items, [text |-> text]) = items \o <<[text |-> text]>>
    BY <1>2, AppendIsConcat
  <2>7. QED
    BY <2>3, <2>4, <2>5, <2>6
<1>5. <<[text |-> text]>> \in Seq(Items)
  BY <1>2, TupleFacts
<1>6. QED
  BY <1>3, <1>4, <1>5 DEF Reads

LEMMA ReadsText ==
    ASSUME NEW text \in Text
    PROVE  Reads(Quoted(JsonEscaped(text)), <<[text |-> text]>>)
BY EscapedType, EscapedRead, TextsRead, ReadsQuoted

\* The name of the source file and the line number are one string.
LEMMA ReadsSource ==
    ASSUME NEW name \in Text
    PROVE  Reads(Quoted(Source(JsonEscaped(name))), <<[text |-> Source(name)]>>)
<1> DEFINE T == AnyChars \cup {Unescaped(e) : e \in Seq(AnyChars)}
           tail == <<":", Digit>>
<1>1. /\ ":" \in AnyChars /\ ":" # Quote /\ ":" # Escape
      /\ Digit \in AnyChars /\ Digit # Quote /\ Digit # Escape
  BY PunctuationFacts DEF AnyChars, Quote, Escape, Digit
<1>2. /\ name \in ReadTexts /\ Append(name, ":") \in ReadTexts
      /\ Append(Append(name, ":"), Digit) = Source(name) /\ Source(name) \in ReadTexts
  <2>1. name \in Seq(T) /\ ":" \in T /\ Digit \in T /\ ReadTexts = Seq(T)
    BY <1>1, TextsRead DEF ReadTexts
  <2> HIDE DEF T
  <2>2. /\ Append(name, ":") \in Seq(T) /\ Append(Append(name, ":"), Digit) \in Seq(T)
    BY <2>1, AppendProperties
  <2>3. Append(Append(name, ":"), Digit) = name \o <<":", Digit>>
    BY <2>1
  <2>4. QED
    BY <2>1, <2>2, <2>3 DEF Source
<1>3. JsonEscaped(name) \in Parts /\ Source(JsonEscaped(name)) \in Parts
  BY EscapedType, QuotedType
<1>4. JsonEscaped(name) \in Seq(AnyChars) /\ tail \in Seq(AnyChars)
  <2>1. LineChars \subseteq AnyChars
    BY DEF AnyChars
  <2>2. JsonEscaped(name) \in Seq(AnyChars)
    BY <1>3, <2>1, SeqMonotonic DEF Parts
  <2>3. QED
    BY <1>1, <2>2, TupleFacts
<1>5. ASSUME NEW items \in Seq(Items)
      PROVE  Read(Inside(items, <<>>), Source(JsonEscaped(name))) = Inside(items, Source(name))
  <2>1. Inside(items, <<>>) \in Readers /\ Inside(items, name) \in Readers
    <3>1. <<>> \in ReadTexts
      BY DEF ReadTexts
    <3>2. QED
      BY <1>2, <3>1, ReaderTypes
  <2>2. Read(Inside(items, <<>>), Source(JsonEscaped(name))) =
            Read(Read(Inside(items, <<>>), JsonEscaped(name)), tail)
    BY <1>4, <2>1, ReadOn DEF Source
  <2>3. Read(Inside(items, <<>>), JsonEscaped(name)) = Inside(items, name)
    BY EscapedRead
  <2>4. Read(Inside(items, name), tail) = ReadChar(ReadChar(Inside(items, name), ":"), Digit)
    BY <1>1, <2>1, ReadFew
  <2>5. ReadChar(Inside(items, name), ":") = Inside(items, Append(name, ":"))
    BY <1>1, <1>2, ReaderSteps
  <2>6. ReadChar(Inside(items, Append(name, ":")), Digit) =
            Inside(items, Append(Append(name, ":"), Digit))
    BY <1>1, <1>2, ReaderSteps
  <2>7. QED
    BY <1>2, <2>2, <2>3, <2>4, <2>5, <2>6
<1>6. QED
  BY <1>2, <1>3, <1>5, ReadsQuoted

LEMMA ThreeInOrder ==
    ASSUME NEW a, NEW b, NEW c
    PROVE  <<a>> \o <<b>> \o <<c>> = <<a, b, c>>
<1> DEFINE S == {a, b, c}
<1>1. a \in S /\ b \in S /\ c \in S
  OBVIOUS
<1> HIDE DEF S
<1>2. <<a, b>> = Append(<<a>>, b) /\ <<a>> \in Seq(S)
  BY <1>1
<1>3. <<a, b, c>> = Append(<<a, b>>, c) /\ <<a, b>> \in Seq(S)
  BY <1>1
<1>4. Append(<<a>>, b) = <<a>> \o <<b>> /\ Append(<<a, b>>, c) = <<a, b>> \o <<c>>
  BY <1>1, <1>2, <1>3, AppendIsConcat
<1>5. QED
  BY <1>2, <1>3, <1>4

LEMMA ReadsMember ==
    ASSUME NEW a \in Attribute
    PROVE  Reads(Member(a), MemberItems(a))
<1>1. a.key \in Text /\ a.value \in Text \cup Scalars
  BY DEF Attribute
<1>2. ":" \in AnyChars /\ Digit \in AnyChars /\ ":" # Quote /\ Digit # Quote
  BY PunctuationFacts DEF AnyChars, Quote, Digit
<1>3. Reads(FormatJsonValue(a.value), <<ValueItem(a.value)>>)
  BY <1>1, <1>2, ReadsText, ReadsChar DEF FormatJsonValue, ValueItem, IsText
<1>4. Reads(Quoted(JsonEscaped(a.key)), <<[text |-> a.key]>>) /\ Reads(<<":">>, <<[char |-> ":"]>>)
  BY <1>1, <1>2, ReadsText, ReadsChar
<1>5. Reads(Quoted(JsonEscaped(a.key)) \o <<":">>, <<[text |-> a.key]>> \o <<[char |-> ":"]>>)
  BY <1>4, ReadsConcat
<1>6. Reads(Quoted(JsonEscaped(a.key)) \o <<":">> \o FormatJsonValue(a.value),
            <<[text |-> a.key]>> \o <<[char |-> ":"]>> \o <<ValueItem(a.value)>>)
  BY <1>3, <1>5, ReadsConcat
<1>7. <<[text |-> a.key]>> \o <<[char |-> ":"]>> \o <<ValueItem(a.value)>> = MemberItems(a)
  BY ThreeInOrder DEF MemberItems
<1>8. QED
  BY <1>6, <1>7 DEF Member

LEMMA ReadsAll ==
    ASSUME NEW ps \in Seq(Seq(AnyChars)), NEW fs \in Seq(Seq(Items)), Len(ps) = Len(fs),
           \A i \in 1 .. Len(ps) : Reads(ps[i], fs[i])
    PROVE  Reads(FlattenSeq(ps), FlattenSeq(fs))
<1>0. PICK N \in Nat : N = Len(ps) /\ N = Len(fs)
  OBVIOUS
<1> DEFINE A == {n \in Nat : n <= N => Reads(FirstLists(ps, n), FirstLists(fs, n))}
<1>1. 0 \in A
  BY FrontFacts, ReadsNothing
<1>2. ASSUME NEW n \in Nat, n \in A PROVE n + 1 \in A
  <2>1. SUFFICES ASSUME n + 1 <= N
                 PROVE  Reads(FirstLists(ps, n + 1), FirstLists(fs, n + 1))
    OBVIOUS
  <2>2. PICK q \in 1 .. N : q = n + 1 /\ q - 1 = n
    BY <1>0, <2>1
  <2>3. Reads(FirstLists(ps, n), FirstLists(fs, n))
    BY <1>2, <2>1
  <2>4. Reads(ps[q], fs[q])
    BY <1>0, <2>2
  <2>5. /\ FirstLists(ps, q) = FirstLists(ps, q - 1) \o ps[q]
        /\ FirstLists(fs, q) = FirstLists(fs, q - 1) \o fs[q]
    BY <1>0, <2>2, FrontFacts
  <2>6. Reads(FirstLists(ps, n) \o ps[q], FirstLists(fs, n) \o fs[q])
    BY <2>3, <2>4, ReadsConcat
  <2>7. QED
    BY <2>2, <2>5, <2>6
<1>3. Nat \subseteq A
  <2> HIDE DEF A
  <2>1. QED
    BY <1>1, <1>2, NatSetInduction
<1>4. Reads(FirstLists(ps, N), FirstLists(fs, N))
  BY <1>0, <1>3
<1>5. QED
  BY <1>0, <1>4, FrontFacts

LEMMA ReadsAttributes ==
    ASSUME NEW r \in Contents
    PROVE  Reads(Joined([i \in DOMAIN r.attributes |-> Member(r.attributes[i])], <<",">>),
                 AttributeItems(r))
<1> DEFINE list == r.attributes
           ps == [i \in DOMAIN list |-> IF i = 1 THEN Member(list[i]) ELSE <<",">> \o Member(list[i])]
           fs == [i \in DOMAIN list |-> IF i = 1 THEN MemberItems(list[i])
                                        ELSE CharItems(<<",">>) \o MemberItems(list[i])]
<1>1. /\ list \in Seq(Attribute) /\ DOMAIN list = 1 .. Len(list) /\ Len(list) \in Nat
      /\ \A i \in 1 .. Len(list) : list[i] \in Attribute
  BY DEF Contents
<1>2. Reads(<<",">>, CharItems(<<",">>))
  <2>1. "," \in AnyChars \ {Quote}
    BY PunctuationFacts DEF AnyChars, Quote
  <2>2. <<",">> \in Seq(AnyChars \ {Quote})
    BY <2>1, TupleFacts
  <2>3. QED
    BY <2>2, ReadsChars
<1>3. ASSUME NEW i \in 1 .. Len(list)
      PROVE  Reads(IF i = 1 THEN Member(list[i]) ELSE <<",">> \o Member(list[i]),
                   IF i = 1 THEN MemberItems(list[i])
                   ELSE CharItems(<<",">>) \o MemberItems(list[i]))
  <2>1. Reads(Member(list[i]), MemberItems(list[i]))
    BY <1>1, ReadsMember
  <2>2. Reads(<<",">> \o Member(list[i]), CharItems(<<",">>) \o MemberItems(list[i]))
    BY <1>2, <2>1, ReadsConcat
  <2>3. CASE i = 1
    BY <2>1, <2>3
  <2>4. CASE i # 1
    BY <2>2, <2>4
  <2>5. QED
    BY <2>3, <2>4
<1> HIDE DEF list
<1>4. \A i \in 1 .. Len(list) : Reads(ps[i], fs[i])
  BY <1>1, <1>3
<1>5. ps \in Seq(Seq(AnyChars)) /\ fs \in Seq(Seq(Items)) /\ Len(ps) = Len(fs)
      /\ Len(ps) = Len(list)
  <2> DEFINE L == Seq(AnyChars)
             M == Seq(Items)
  <2>1. \A i \in 1 .. Len(list) : ps[i] \in L /\ fs[i] \in M
    BY <1>4 DEF Reads
  <2>2. DOMAIN ps = 1 .. Len(list) /\ DOMAIN fs = 1 .. Len(list)
    BY <1>1
  <2>3. ps = [i \in 1 .. Len(list) |-> ps[i]] /\ fs = [i \in 1 .. Len(list) |-> fs[i]]
    BY <1>1
  <2> HIDE DEF L, M, ps, fs
  <2>4. ps \in [1 .. Len(list) -> L] /\ fs \in [1 .. Len(list) -> M]
    BY <2>1, <2>3
  <2>5. ps \in Seq(L) /\ fs \in Seq(M) /\ Len(ps) = Len(list) /\ Len(fs) = Len(list)
    BY <1>1, <2>4
  <2>6. QED
    BY <2>5 DEF L, M
<1>6. Reads(FlattenSeq(ps), FlattenSeq(fs))
  <2> HIDE DEF ps, fs
  <2>1. QED
    BY <1>4, <1>5, ReadsAll
<1>7. AttributeItems(r) = FlattenSeq(fs)
  BY DEF AttributeItems, list
<1>8. Joined([i \in DOMAIN list |-> Member(list[i])], <<",">>) = FlattenSeq(ps)
  <2> DEFINE members == [i \in DOMAIN list |-> Member(list[i])]
  <2>1. [i \in DOMAIN members |-> IF i = 1 THEN members[i] ELSE <<",">> \o members[i]] = ps
    OBVIOUS
  <2>2. QED
    BY <2>1 DEF Joined
<1>9. QED
  BY <1>6, <1>7, <1>8 DEF list

\* A line of the JSON formatter is read as what went into it.
LEMMA JsonIsRead ==
    ASSUME NEW r \in Contents
    PROVE  ReadJson(FormatJson(r)) = JsonItems(r)
<1> DEFINE end == <<"}", ",", Digit, ",", Digit, "}", Newline>>
           list == Joined([i \in DOMAIN r.attributes |-> Member(r.attributes[i])], <<",">>)
           C == AnyChars \ {Quote}
<1>1. /\ "{" \in C /\ "," \in C /\ "}" \in C /\ Digit \in C /\ Newline \in C
  BY PunctuationFacts DEF AnyChars, Quote, Digit, Newline
<1>2. <<"{">> \in Seq(C) /\ <<",">> \in Seq(C) /\ <<",", "{">> \in Seq(C) /\ end \in Seq(C)
  <2> HIDE DEF C
  <2>1. QED
    BY <1>1, TupleFacts
<1> HIDE DEF end, list
<1> DEFINE name == Quoted(JsonEscaped(r.loggerName))
           message == Quoted(JsonEscaped(r.message))
           source == Quoted(Source(JsonEscaped(r.file)))
           nameItem == <<[text |-> r.loggerName]>>
           messageItem == <<[text |-> r.message]>>
           sourceItem == <<[text |-> Source(r.file)]>>
<1>3. /\ Reads(<<"{">>, CharItems(<<"{">>)) /\ Reads(<<",">>, CharItems(<<",">>))
      /\ Reads(<<",", "{">>, CharItems(<<",", "{">>)) /\ Reads(end, CharItems(end))
  BY <1>2, ReadsChars
<1>4. Reads(name, nameItem) /\ Reads(message, messageItem) /\ Reads(source, sourceItem)
  BY ReadsText, ReadsSource DEF Contents
<1>5. Reads(list, AttributeItems(r))
  BY ReadsAttributes DEF list
<1>6. /\ FormatJson(r) = <<"{">> \o name \o <<",">> \o message \o <<",">> \o source
                         \o <<",", "{">> \o list \o end
      /\ JsonItems(r) = CharItems(<<"{">>) \o nameItem \o CharItems(<<",">>) \o messageItem
                        \o CharItems(<<",">>) \o sourceItem \o CharItems(<<",", "{">>)
                        \o AttributeItems(r) \o CharItems(end)
  BY DEF FormatJson, JsonItems, end, list
<1> HIDE DEF name, message, source, nameItem, messageItem, sourceItem
<1>7. Reads(<<"{">> \o name \o <<",">>, CharItems(<<"{">>) \o nameItem \o CharItems(<<",">>))
  BY <1>3, <1>4, ReadsConcat
<1>8. Reads(<<"{">> \o name \o <<",">> \o message \o <<",">>,
            CharItems(<<"{">>) \o nameItem \o CharItems(<<",">>) \o messageItem
            \o CharItems(<<",">>))
  BY <1>3, <1>4, <1>7, ReadsConcat
<1>9. Reads(<<"{">> \o name \o <<",">> \o message \o <<",">> \o source \o <<",", "{">>,
            CharItems(<<"{">>) \o nameItem \o CharItems(<<",">>) \o messageItem
            \o CharItems(<<",">>) \o sourceItem \o CharItems(<<",", "{">>))
  BY <1>3, <1>4, <1>8, ReadsConcat
<1>10. Reads(FormatJson(r), JsonItems(r))
  BY <1>3, <1>5, <1>6, <1>9, ReadsConcat
<1>11. <<>> \in Seq(Items) /\ JsonItems(r) \in Seq(Items)
  BY <1>10 DEF Reads
<1>12. Read(Outside(<<>>), FormatJson(r)) = Outside(<<>> \o JsonItems(r))
  BY <1>10, <1>11 DEF Reads
<1>13. <<>> \o JsonItems(r) = JsonItems(r)
  BY <1>11, ConcatEmptySeq
<1>14. QED
  BY <1>12, <1>13 DEF ReadJson, Outside

\* A reader of JSON gets from the line of a record the very texts and the very structure
\* that went into it, whatever characters they hold.
THEOREM JsonIsReadBack == Spec => []JsonReadsBack
<1>1. ASSUME RecordInv PROVE JsonReadsBack
  <2>1. record.dispatched \in Contents /\ ToOwned(record.dispatched) \in Contents
    BY <1>1, ToOwnedFacts DEF RecordInv, RecordOK, Dispatched
  <2>2. QED
    BY <2>1, JsonIsRead DEF JsonReadsBack
<1>2. QED
  BY <1>1, ContextInvariant, PTL
=============================================================================
