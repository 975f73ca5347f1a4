---------------------------- MODULE RecursionLemmas ----------------------------
(***************************************************************************)
(* Induction on the natural numbers, and the functions defined by          *)
(* recursion on an interval from 0, without operator parameters: the set   *)
(* of the numbers a property holds for, and the function that makes one    *)
(* step, are ordinary values.                                              *)
(*                                                                         *)
(* Strict inclusion is well-founded on the finite sets of numbers          *)
(* (FiniteSetTheorems), hence so is the order of the intervals 1 .. n.     *)
(***************************************************************************)
EXTENDS Integers, FiniteSetTheorems, WellFoundedInduction, TLAPS

\* A set that contains 0, and with a number the next, contains every natural number.
THEOREM NatSetInduction ==
    ASSUME NEW S, 0 \in S, \A n \in Nat : n \in S => n + 1 \in S
    PROVE  Nat \subseteq S
<1> DEFINE B == {1 .. n : n \in Nat \ S}
           R == StrictSubsetOrdering(Nat)
<1>1. SUFFICES ASSUME B # {} PROVE FALSE
  OBVIOUS
<1>2. B \subseteq FiniteSubsetsOf(Nat)
  <2>1. \A n \in Nat : IsFiniteSet(1 .. n) /\ 1 .. n \subseteq Nat
    BY FS_Interval
  <2>2. QED
    BY <2>1 DEF FiniteSubsetsOf
<1>3. IsWellFoundedOn(R, FiniteSubsetsOf(Nat))
  BY FS_StrictSubsetOrderingWellFounded
<1>4. PICK x \in B : \A y \in B : <<y, x>> \notin R
  <2> HIDE DEF B, R
  <2>1. QED
    BY <1>1, <1>2, <1>3, WFMin
<1>5. PICK n \in Nat \ S : x = 1 .. n
  BY <1>4
<1>6. n # 0 /\ n - 1 \in Nat /\ n - 1 \notin S
  BY <1>5
<1>7. 1 .. (n - 1) \in B
  BY <1>6
<1>8. <<1 .. (n - 1), 1 .. n>> \in R
  <2>1. 1 .. (n - 1) \subseteq 1 .. n /\ n \in 1 .. n /\ n \notin 1 .. (n - 1)
    BY <1>6
  <2>2. 1 .. n \subseteq Nat /\ 1 .. (n - 1) \subseteq Nat
    BY <1>6
  <2>3. QED
    BY <2>1, <2>2 DEF StrictSubsetOrdering
<1>9. QED
  BY <1>4, <1>5, <1>7, <1>8

\* f starts with base and goes on by step, n times.
Recurs(f, n, S, base, step) ==
    /\ f \in [0 .. n -> S] /\ f[0] = base
    /\ \A m \in 1 .. n : f[m] = step[<<m, f[m - 1]>>]

\* Such a function exists.
THEOREM RecursionExists ==
    ASSUME NEW S, NEW base \in S, NEW N \in Nat, NEW step, step \in [(1 .. N) \X S -> S]
    PROVE  \E f : Recurs(f, N, S, base, step)
<1> DEFINE Defines(f, n) == Recurs(f, n, S, base, step)
           Defined == {n \in Nat : n <= N => \E f : Defines(f, n)}
<1> USE DEF Recurs
<1>1. 0 \in Defined
  <2>1. Defines([m \in 0 .. 0 |-> base], 0)
    OBVIOUS
  <2>2. QED
    BY <2>1
<1>2. ASSUME NEW n \in Nat, n \in Defined PROVE n + 1 \in Defined
  <2> SUFFICES ASSUME n + 1 <= N PROVE \E f : Defines(f, n + 1)
    OBVIOUS
  <2>1. PICK f : Defines(f, n)
    BY <1>2
  <2> DEFINE g == [m \in 0 .. (n + 1) |-> IF m = n + 1 THEN step[<<n + 1, f[n]>>] ELSE f[m]]
  <2>2. f[n] \in S /\ step[<<n + 1, f[n]>>] \in S
    BY <2>1
  <2>3. \A m \in 0 .. n : g[m] = f[m] /\ m # n + 1
    OBVIOUS
  <2>4. g \in [0 .. (n + 1) -> S]
    BY <2>1, <2>2
  <2>5. g[0] = base
    BY <2>1, <2>3
  <2>6. ASSUME NEW m \in 1 .. (n + 1) PROVE g[m] = step[<<m, g[m - 1]>>]
    <3>1. m - 1 \in 0 .. n /\ m \in 0 .. (n + 1)
      OBVIOUS
    <3>2. CASE m = n + 1
      <4>1. m - 1 = n /\ g[m - 1] = f[n]
        BY <2>3, <3>1, <3>2
      <4>2. g[m] = step[<<n + 1, f[n]>>]
        BY <3>1, <3>2
      <4>3. QED
        BY <3>2, <4>1, <4>2
    <3>3. CASE m # n + 1
      <4>1. m \in 1 .. n /\ m \in 0 .. n
        BY <3>3
      <4>2. QED
        BY <2>1, <2>3, <3>1, <4>1
    <3>4. QED
      BY <3>2, <3>3
  <2>7. QED
    BY <2>4, <2>5, <2>6
<1>3. N \in Defined
  <2> HIDE DEF Defined
  <2>1. QED
    BY <1>1, <1>2, NatSetInduction
<1>4. QED
  BY <1>3
=============================================================================
