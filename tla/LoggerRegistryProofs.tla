-------------------------- MODULE LoggerRegistryProofs --------------------------
(***************************************************************************)
(* Theorems of LoggerRegistry, for every set of threads, names, levels,    *)
(* sets of sinks and rules: its types, one logger per name, that no logger *)
(* misses a change of the configuration, that a record goes to one set of  *)
(* sinks.                                                                  *)
(***************************************************************************)
EXTENDS LoggerRegistry, RecursionLemmas

-----------------------------------------------------------------------------
(* The rules.                                                              *)

\* No two rules have the same prefix.
RulesDistinct == \A i, j \in DOMAIN rules : rules[i].prefix = rules[j].prefix => i = j

LEMMA RuleFacts ==
    /\ \A rule \in Rules : /\ rule.prefix \in Seq(Segments)
                           /\ rule.runtimeMin \in Levels \cup {Inherit}
                           /\ rule.sinks \in SinkSets \cup {Inherit}
    /\ \A n \in Names : n \in Seq(Segments)
BY RegistryAssumption DEF RuleType

\* A step of the loop of ComputeEffectiveConfigLocked.
BestStep(name, f) ==
    [n \in 0 .. Len(rules) |-> IF n = 0 THEN <<>> ELSE LongerRule(name, f[n - 1], rules[n])]

Candidates == {<<>>} \cup {<<rule>> : rule \in Rules}

\* best is the rule the loop has found among the first n.
FoundAmong(name, n, best) ==
    \/ /\ best = <<>>
       /\ \A i \in 1 .. n : ~Matches(rules[i], name)
    \/ \E k \in 1 .. n :
          /\ best = <<rules[k]>> /\ Matches(rules[k], name)
          /\ \A i \in 1 .. n : Matches(rules[i], name) => Len(rules[i].prefix) <= Len(rules[k].prefix)

LEMMA BestFound ==
    ASSUME rules \in Seq(Rules), NEW name
    PROVE  FoundAmong(name, Len(rules), BestRule(name))
<1> DEFINE N == Len(rules)
           step == [c \in (1 .. N) \X Candidates |-> LongerRule(name, c[2], rules[c[1]])]
<1>0. N \in Nat /\ DOMAIN rules = 1 .. N /\ \A i \in 1 .. N : rules[i] \in Rules
  OBVIOUS
<1>1. step \in [(1 .. N) \X Candidates -> Candidates]
  BY <1>0 DEF LongerRule, Candidates
<1>2. PICK f : Recurs(f, N, Candidates, <<>>, step)
  <2> HIDE DEF step
  <2>1. <<>> \in Candidates
    BY DEF Candidates
  <2>2. QED
    BY <1>0, <1>1, <2>1, RecursionExists
<1>3. f = BestStep(name, f)
  <2>1. ASSUME NEW n \in 1 .. N PROVE f[n] = LongerRule(name, f[n - 1], rules[n])
    <3>1. n - 1 \in 0 .. N
      BY <1>0
    <3>2. <<n, f[n - 1]>> \in (1 .. N) \X Candidates
      BY <1>2, <3>1 DEF Recurs
    <3>3. QED
      BY <1>2, <3>2 DEF Recurs
  <2>2. QED
    BY <1>2, <2>1 DEF BestStep, Recurs
<1> DEFINE best == CHOOSE best : best = [n \in 0 .. Len(rules) |->
                       IF n = 0 THEN <<>> ELSE LongerRule(name, best[n - 1], rules[n])]
<1>4. best = BestStep(name, best) /\ BestRule(name) = best[Len(rules)]
  <2>1. best = BestStep(name, best)
    BY <1>3 DEF BestStep
  <2>2. QED
    BY <2>1 DEF BestRule
<1> HIDE DEF best, step
<1> DEFINE Found == {n \in Nat : n <= N => FoundAmong(name, n, best[n])}
<1>5. 0 \in Found
  BY <1>0, <1>4 DEF BestStep, FoundAmong
<1>6. ASSUME NEW n \in Nat, n \in Found PROVE n + 1 \in Found
  <2> SUFFICES ASSUME n + 1 <= N PROVE FoundAmong(name, n + 1, best[n + 1])
    OBVIOUS
  <2>1. FoundAmong(name, n, best[n]) /\ n + 1 \in 1 .. N /\ rules[n + 1] \in Rules
    BY <1>0, <1>6
  <2>2. best[n + 1] = LongerRule(name, best[n], rules[n + 1])
    BY <1>0, <1>4, <2>1 DEF BestStep
  <2>3. \A i \in 1 .. (n + 1) : i \in 1 .. n \/ i = n + 1
    OBVIOUS
  <2>4. \A i \in 1 .. (n + 1) : Len(rules[i].prefix) \in Nat
    BY <1>0, <2>1, RuleFacts
  <2>5. CASE ~Matches(rules[n + 1], name)
    <3>1. best[n + 1] = best[n]
      BY <2>2, <2>5 DEF LongerRule, Matches
    <3>2. QED
      BY <2>1, <2>3, <2>5, <3>1 DEF FoundAmong
  <2>6. CASE Matches(rules[n + 1], name) /\ best[n] = <<>>
    <3>1. best[n + 1] = <<rules[n + 1]>>
      BY <2>2, <2>6 DEF LongerRule, Matches
    <3>2. \A i \in 1 .. n : ~Matches(rules[i], name)
      BY <2>1, <2>6 DEF FoundAmong
    <3>3. QED
      BY <2>3, <2>4, <2>6, <3>1, <3>2 DEF FoundAmong
  <2>7. CASE Matches(rules[n + 1], name) /\ best[n] # <<>>
    <3>1. PICK k \in 1 .. n :
              /\ best[n] = <<rules[k]>> /\ Matches(rules[k], name)
              /\ \A i \in 1 .. n : Matches(rules[i], name) => Len(rules[i].prefix) <= Len(rules[k].prefix)
      BY <2>1, <2>7 DEF FoundAmong
    <3>2. best[n + 1] = IF Len(rules[n + 1].prefix) > Len(rules[k].prefix)
                        THEN <<rules[n + 1]>> ELSE <<rules[k]>>
      BY <2>2, <2>7, <3>1 DEF LongerRule, Matches
    <3>3. Len(rules[k].prefix) \in Nat /\ Len(rules[n + 1].prefix) \in Nat
          /\ \A i \in 1 .. n : Len(rules[i].prefix) \in Nat
      BY <2>4
    <3>4. CASE Len(rules[n + 1].prefix) > Len(rules[k].prefix)
      <4>1. \A i \in 1 .. (n + 1) :
                Matches(rules[i], name) => Len(rules[i].prefix) <= Len(rules[n + 1].prefix)
        <5>1. \A i \in 1 .. n :
                  Matches(rules[i], name) => Len(rules[i].prefix) <= Len(rules[n + 1].prefix)
          BY <3>1, <3>3, <3>4
        <5>2. QED
          BY <2>3, <3>3, <5>1
      <4>2. QED
        BY <2>7, <3>2, <3>4, <4>1 DEF FoundAmong
    <3>5. CASE ~(Len(rules[n + 1].prefix) > Len(rules[k].prefix))
      <4>1. \A i \in 1 .. (n + 1) :
                Matches(rules[i], name) => Len(rules[i].prefix) <= Len(rules[k].prefix)
        <5>1. Len(rules[n + 1].prefix) <= Len(rules[k].prefix)
          BY <3>3, <3>5
        <5>2. QED
          BY <2>3, <3>1, <5>1
      <4>2. k \in 1 .. (n + 1)
        OBVIOUS
      <4>3. QED
        BY <3>1, <3>2, <3>5, <4>1, <4>2 DEF FoundAmong
    <3>6. QED
      BY <3>4, <3>5
  <2>8. QED
    BY <2>5, <2>6, <2>7
<1>7. N \in Found
  <2> HIDE DEF Found
  <2>1. QED
    BY <1>0, <1>5, <1>6, NatSetInduction
<1>8. QED
  BY <1>4, <1>7

\* A step of std::remove_if.
KeptNext(prefix, kept, n) ==
    IF rules[n].prefix = prefix THEN kept ELSE Append(kept, rules[n])
KeptStep(prefix, f) ==
    [n \in 0 .. Len(rules) |-> IF n = 0 THEN <<>> ELSE KeptNext(prefix, f[n - 1], n)]

\* kept has some of the first n rules, no two of one prefix.
KeptOf(n, kept) ==
    /\ kept \in Seq(Rules)
    /\ \A i \in 1 .. Len(kept) : \E k \in 1 .. n : kept[i] = rules[k]
    /\ \A i, j \in 1 .. Len(kept) : kept[i].prefix = kept[j].prefix => i = j

LEMMA RemovedFacts ==
    ASSUME rules \in Seq(Rules), RulesDistinct, NEW prefix
    PROVE  KeptOf(Len(rules), WithoutPrefix(prefix))
<1> DEFINE N == Len(rules)
           step == [c \in (1 .. N) \X Seq(Rules) |-> KeptNext(prefix, c[2], c[1])]
<1>0. N \in Nat /\ DOMAIN rules = 1 .. N /\ \A i \in 1 .. N : rules[i] \in Rules
  OBVIOUS
<1>1. step \in [(1 .. N) \X Seq(Rules) -> Seq(Rules)]
  BY <1>0 DEF KeptNext
<1>2. PICK f : Recurs(f, N, Seq(Rules), <<>>, step)
  <2> HIDE DEF step
  <2>1. <<>> \in Seq(Rules)
    OBVIOUS
  <2>2. QED
    BY <1>0, <1>1, <2>1, RecursionExists
<1>3. f = KeptStep(prefix, f)
  <2>1. ASSUME NEW n \in 1 .. N PROVE f[n] = KeptNext(prefix, f[n - 1], n)
    <3>1. n - 1 \in 0 .. N
      BY <1>0
    <3>2. <<n, f[n - 1]>> \in (1 .. N) \X Seq(Rules)
      BY <1>2, <3>1 DEF Recurs
    <3>3. QED
      BY <1>2, <3>2 DEF Recurs
  <2>2. QED
    BY <1>2, <2>1 DEF KeptStep, Recurs
<1> DEFINE kept == CHOOSE kept : kept = [n \in 0 .. Len(rules) |->
                       IF n = 0 THEN <<>>
                       ELSE IF rules[n].prefix = prefix THEN kept[n - 1]
                            ELSE Append(kept[n - 1], rules[n])]
<1>4. kept = KeptStep(prefix, kept) /\ WithoutPrefix(prefix) = kept[Len(rules)]
  <2>1. kept = KeptStep(prefix, kept)
    BY <1>3 DEF KeptStep, KeptNext
  <2>2. QED
    BY <2>1 DEF WithoutPrefix
<1> HIDE DEF kept, step
<1> DEFINE Found == {n \in Nat : n <= N => KeptOf(n, kept[n])}
<1>5. 0 \in Found
  <2>1. kept[0] = <<>>
    BY <1>0, <1>4 DEF KeptStep
  <2>2. Len(kept[0]) = 0 /\ kept[0] \in Seq(Rules)
    BY <2>1
  <2>3. KeptOf(0, kept[0])
    <3> HIDE DEF N
    <3>1. \A i \in 1 .. Len(kept[0]) : FALSE
      BY <2>2
    <3>2. QED
      BY <2>2, <3>1 DEF KeptOf
  <2>4. QED
    BY <2>3
<1>6. ASSUME NEW n \in Nat, n \in Found PROVE n + 1 \in Found
  <2> SUFFICES ASSUME n + 1 <= N PROVE KeptOf(n + 1, kept[n + 1])
    OBVIOUS
  <2>1. KeptOf(n, kept[n]) /\ n + 1 \in 1 .. N /\ rules[n + 1] \in Rules
    BY <1>0, <1>6
  <2>2. kept[n + 1] = KeptNext(prefix, kept[n], n + 1)
    <3>1. n + 1 \in 0 .. Len(rules) /\ n + 1 # 0 /\ (n + 1) - 1 = n
      BY <2>1
    <3>2. QED
      BY <1>4, <3>1 DEF KeptStep
  <2>3. \A k \in 1 .. n : k \in 1 .. (n + 1) /\ k \in 1 .. N /\ k # n + 1
    BY <1>0, <2>1
  <2>4. CASE rules[n + 1].prefix = prefix
    BY <2>1, <2>2, <2>3, <2>4 DEF KeptOf, KeptNext
  <2>5. CASE rules[n + 1].prefix # prefix
    <3> DEFINE old == kept[n]
               new == Append(old, rules[n + 1])
    <3>0. KeptOf(n, old) /\ kept[n + 1] = new
      BY <2>1, <2>2, <2>5 DEF KeptNext
    <3> HIDE DEF old
    <3>1. /\ new \in Seq(Rules) /\ Len(new) = Len(old) + 1 /\ Len(old) \in Nat
          /\ new[Len(old) + 1] = rules[n + 1]
          /\ \A i \in 1 .. Len(old) : new[i] = old[i]
      BY <2>1, <3>0 DEF KeptOf
    <3>2. \A i \in 1 .. Len(new) : i \in 1 .. Len(old) \/ i = Len(old) + 1
      BY <3>1
    <3>3. \A i \in 1 .. Len(old) : old[i].prefix # rules[n + 1].prefix
      BY <1>0, <2>1, <2>3, <3>0 DEF KeptOf, RulesDistinct
    <3> HIDE DEF new
    <3>4. \A i \in 1 .. Len(new) : \E k \in 1 .. (n + 1) : new[i] = rules[k]
      <4>1. ASSUME NEW i \in 1 .. Len(old) PROVE \E k \in 1 .. (n + 1) : new[i] = rules[k]
        <5>1. PICK k \in 1 .. n : old[i] = rules[k]
          BY <3>0 DEF KeptOf
        <5>2. QED
          BY <2>3, <3>1, <5>1
      <4>2. n + 1 \in 1 .. (n + 1)
        OBVIOUS
      <4>3. QED
        BY <3>1, <3>2, <4>1, <4>2
    <3>5. \A i, j \in 1 .. Len(new) : new[i].prefix = new[j].prefix => i = j
      BY <3>0, <3>1, <3>2, <3>3, SMTT(30) DEF KeptOf
    <3>6. QED
      BY <3>0, <3>1, <3>4, <3>5 DEF KeptOf
  <2>6. QED
    BY <2>4, <2>5
<1>7. N \in Found
  <2> HIDE DEF Found
  <2>1. QED
    BY <1>0, <1>5, <1>6, NatSetInduction
<1>8. QED
  BY <1>4, <1>7

\* UpsertRule and RemoveRule keep the prefixes distinct.
LEMMA RulesKept ==
    ASSUME rules \in Seq(Rules), RulesDistinct, NEW t, NEW rule \in Rules, NEW prefix,
           UpsertRule(t, rule) \/ RemoveRule(t, prefix)
    PROVE  rules' \in Seq(Rules) /\ RulesDistinct'
<1>0. DOMAIN rules = 1 .. Len(rules) /\ Len(rules) \in Nat
      /\ \A i \in 1 .. Len(rules) : rules[i] \in Rules
  OBVIOUS
<1>1. CASE RemoveRule(t, prefix)
  <2>1. KeptOf(Len(rules), rules')
    BY <1>1, RemovedFacts DEF RemoveRule
  <2>2. rules' \in Seq(Rules) /\ DOMAIN rules' = 1 .. Len(rules')
    BY <2>1 DEF KeptOf
  <2>3. QED
    BY <2>1, <2>2 DEF KeptOf, RulesDistinct
<1>2. CASE UpsertRule(t, rule)
  <2> DEFINE place == {i \in DOMAIN rules : rules[i].prefix = rule.prefix}
             at == CHOOSE i \in place : TRUE
  <2>1. rules' = IF place = {} THEN Append(rules, rule) ELSE [rules EXCEPT ![at] = rule]
    BY <1>2 DEF UpsertRule
  <2>2. CASE place = {}
    <3>1. /\ rules' \in Seq(Rules) /\ DOMAIN rules' = 1 .. (Len(rules) + 1)
          /\ rules'[Len(rules) + 1] = rule
          /\ \A i \in 1 .. Len(rules) : rules'[i] = rules[i]
      BY <1>0, <2>1, <2>2
    <3>2. \A i \in 1 .. (Len(rules) + 1) : i \in 1 .. Len(rules) \/ i = Len(rules) + 1
      BY <1>0
    <3>3. \A i \in 1 .. Len(rules) : rules[i].prefix # rule.prefix
      BY <1>0, <2>2
    <3>4. RulesDistinct'
      BY <1>0, <3>1, <3>2, <3>3 DEF RulesDistinct
    <3>5. QED
      BY <3>1, <3>4
  <2>3. CASE place # {}
    <3>1. at \in DOMAIN rules /\ rules[at].prefix = rule.prefix
      BY <2>3
    <3>2. rules' = [rules EXCEPT ![at] = rule]
      BY <2>1, <2>3
    <3> HIDE DEF at, place
    <3>3. rules' \in Seq(Rules) /\ DOMAIN rules' = DOMAIN rules
          /\ \A i \in DOMAIN rules : rules'[i] = IF i = at THEN rule ELSE rules[i]
      BY <1>0, <3>1, <3>2
    <3>4. \A i \in DOMAIN rules : rules'[i].prefix = rules[i].prefix
      BY <3>1, <3>3
    <3>5. RulesDistinct'
      BY <3>3, <3>4 DEF RulesDistinct
    <3>6. QED
      BY <3>3, <3>5
  <2>4. QED
    BY <2>2, <2>3
<1>3. QED
  BY <1>1, <1>2

\* The effective configuration of a name: a level and a set of sinks.
LEMMA EffectiveType ==
    ASSUME rules \in Seq(Rules), defaultRuntimeMin \in Levels, defaultSinks \in SinkSets,
           NEW name
    PROVE  /\ ComputeEffectiveConfig(name).runtimeMin \in Levels
           /\ ComputeEffectiveConfig(name).sinks \in SinkSets
<1>1. FoundAmong(name, Len(rules), BestRule(name))
  BY BestFound
<1>2. CASE BestRule(name) = <<>>
  BY <1>2 DEF ComputeEffectiveConfig
<1>3. CASE BestRule(name) # <<>>
  <2>1. PICK k \in 1 .. Len(rules) : BestRule(name) = <<rules[k]>>
    BY <1>1, <1>3 DEF FoundAmong
  <2>2. rules[k] \in Rules
    OBVIOUS
  <2>3. BestRule(name)[1] = rules[k]
    BY <2>1
  <2>4. /\ Given(rules[k].runtimeMin, defaultRuntimeMin) \in Levels
        /\ Given(rules[k].sinks, defaultSinks) \in SinkSets
    BY <2>2, RuleFacts DEF Given
  <2>5. QED
    BY <1>3, <2>3, <2>4 DEF ComputeEffectiveConfig
<1>4. QED
  BY <1>2, <1>3

\* It stays as it is while nobody changes the configuration.
LEMMA EffectiveKept ==
    ASSUME UNCHANGED configVars, NEW CONSTANT name
    PROVE  ComputeEffectiveConfig(name)' = ComputeEffectiveConfig(name)
BY DEF ComputeEffectiveConfig, BestRule, LongerRule, Given, configVars

\* It is what the rule that governs the name says, or the defaults.
LEMMA EffectiveGoverns ==
    ASSUME rules \in Seq(Rules), RulesDistinct, NEW name \in Names
    PROVE  /\ \A rule \in ToSet(rules) :
                  Governs(rule, name) =>
                      ComputeEffectiveConfig(name) =
                          [runtimeMin |-> Given(rule.runtimeMin, defaultRuntimeMin),
                           sinks      |-> Given(rule.sinks, defaultSinks)]
           /\ ~(\E rule \in ToSet(rules) : Matches(rule, name)) =>
                  ComputeEffectiveConfig(name) =
                      [runtimeMin |-> defaultRuntimeMin, sinks |-> defaultSinks]
<1>0. /\ DOMAIN rules = 1 .. Len(rules) /\ name \in Seq(Segments)
      /\ \A i \in 1 .. Len(rules) : rules[i] \in Rules /\ rules[i].prefix \in Seq(Segments)
                                    /\ rules[i] \in ToSet(rules)
  BY RuleFacts DEF ToSet
<1>1. FoundAmong(name, Len(rules), BestRule(name))
  BY BestFound
<1>2. ASSUME NEW rule \in ToSet(rules), Governs(rule, name)
      PROVE  BestRule(name) = <<rule>>
  <2>1. PICK i \in 1 .. Len(rules) : rule = rules[i]
    BY <1>0 DEF ToSet
  <2>2. Matches(rules[i], name)
    BY <1>2, <2>1 DEF Governs
  <2>3. PICK k \in 1 .. Len(rules) :
            /\ BestRule(name) = <<rules[k]>> /\ Matches(rules[k], name)
            /\ \A j \in 1 .. Len(rules) : Matches(rules[j], name) => Len(rules[j].prefix) <= Len(rules[k].prefix)
    BY <1>1, <2>2 DEF FoundAmong
  <2>4. Len(rules[i].prefix) = Len(rules[k].prefix)
    <3>1. Len(rules[i].prefix) <= Len(rules[k].prefix)
      BY <2>2, <2>3
    <3>2. Len(rules[k].prefix) <= Len(rules[i].prefix)
      BY <1>0, <1>2, <2>1, <2>3 DEF Governs
    <3>3. Len(rules[i].prefix) \in Nat /\ Len(rules[k].prefix) \in Nat
      BY <1>0
    <3>4. QED
      BY <3>1, <3>2, <3>3
  <2>5. rules[i].prefix = rules[k].prefix
    <3>1. \A p \in Seq(Segments) : SubSeq(p, 1, Len(p)) = p
      OBVIOUS
    <3>2. rules[i].prefix = SubSeq(name, 1, Len(rules[i].prefix))
      BY <1>0, <2>2, <3>1 DEF Matches, LoggerNameMatchesPrefix, IsPrefix
    <3>3. rules[k].prefix = SubSeq(name, 1, Len(rules[k].prefix))
      BY <1>0, <2>3, <3>1 DEF Matches, LoggerNameMatchesPrefix, IsPrefix
    <3>4. QED
      BY <2>4, <3>2, <3>3
  <2>6. i = k
    BY <1>0, <2>5 DEF RulesDistinct
  <2>7. QED
    BY <2>1, <2>3, <2>6
<1>3. ASSUME NEW rule \in ToSet(rules), Governs(rule, name)
      PROVE  ComputeEffectiveConfig(name) =
                 [runtimeMin |-> Given(rule.runtimeMin, defaultRuntimeMin),
                  sinks      |-> Given(rule.sinks, defaultSinks)]
  <2>1. BestRule(name) = <<rule>> /\ <<rule>> # <<>> /\ BestRule(name)[1] = rule
    BY <1>2, <1>3
  <2>2. QED
    BY <2>1 DEF ComputeEffectiveConfig
<1>4. ASSUME ~(\E rule \in ToSet(rules) : Matches(rule, name))
      PROVE  BestRule(name) = <<>>
  BY <1>0, <1>1, <1>4 DEF FoundAmong
<1>5. QED
  BY <1>3, <1>4 DEF ComputeEffectiveConfig

-----------------------------------------------------------------------------
(* The inductive invariants.                                               *)

\* What a thread keeps while it is in a call.
LogArg == [op : {"Log"}, level : Levels, sinks : SinkSets, given : Seq(Sinks)]

ArgOK(t) ==
    /\ pc[t] = "create" => arg[t].name \in Names /\ arg[t].runtimeMin \in Levels
    /\ pc[t] = "apply_sinks" => arg[t].object \in todo
    /\ pc[t] = "store" =>
           /\ arg[t].object \in DOMAIN objects
           /\ arg[t].op = "SetLoggerRuntimeMin" => arg[t].value \in Levels
           /\ arg[t].op = "ReplaceLoggerSinks" => arg[t].value \in SinkSets
    /\ pc[t] \in {"snapshot", "dispatch", "logged"} => handle[t] # 0 /\ arg[t] \in LogArg
    /\ pc[t] = "snapshot" => arg[t].given = <<>>
    /\ pc[t] = "dispatch" => Len(arg[t].given) < Len(arg[t].sinks)

Types ==
    /\ TypeOK /\ RulesDistinct
    /\ arg = [t \in Threads |-> arg[t]]
    /\ \A t \in Threads : ArgOK(t)

\* The objects and the names of the registry are in one-to-one correspondence.
Registered ==
    /\ \A n \in Names : loggers[n] # 0 => objects[loggers[n]].name = n
    /\ \A i \in DOMAIN objects : loggers[objects[i].name] = i

\* A logger has its configuration, was set alone, or is still to be visited.
Effective == [n \in Names |-> ComputeEffectiveConfig(n)]

LevelPending(i) == i \in todo /\ ~(\E t \in Threads : pc[t] = "apply_sinks" /\ arg[t].object = i)

LevelConfigured(i) ==
    \/ objects[i].levelAlone
    \/ objects[i].runtimeMin = Effective[objects[i].name].runtimeMin
    \/ LevelPending(i)

SinksConfigured(i) ==
    \/ objects[i].sinksAlone
    \/ objects[i].sinks = Effective[objects[i].name].sinks
    \/ i \in todo

Configured(i) == LevelConfigured(i) /\ SinksConfigured(i)

ConfigInv == \A i \in DOMAIN objects : Configured(i)

\* What has happened to the record of a thread that logs.
Allowed(t) == \E level \in seen[t].levels : IsRuntimeEnabled(arg[t].level, level)

LogOK(t) ==
    /\ pc[t] = "snapshot" =>
           /\ Allowed(t)
           /\ objects[handle[t]].sinks \in seen[t].sinkSets
    /\ pc[t] = "dispatch" =>
           /\ Allowed(t) /\ arg[t].sinks \in seen[t].sinkSets
           /\ \A k \in 1 .. Len(arg[t].given) : arg[t].given[k] = arg[t].sinks[k]
    /\ pc[t] = "logged" =>
           \/ arg[t].given \in seen[t].sinkSets /\ Allowed(t)
           \/ /\ arg[t].given = <<>>
              /\ \E level \in seen[t].levels : arg[t].level < level \/ arg[t].level = Off

LogInv == \A t \in Threads : LogOK(t)

-----------------------------------------------------------------------------
(* What the steps do.                                                      *)

\* The calls by what they have in common.
Reconfigures(t) ==
    /\ \E op : Begin(t, op)
    /\ Lock(t)
    /\ defaultRuntimeMin' \in Levels /\ defaultSinks' \in SinkSets
    /\ rules' \in Seq(Rules) /\ RulesDistinct'

Obtains(t) == \E name \in Names, level \in Levels : GetOrCreate(t, name, level)

Sets(t) ==
    \E op, value : \E name \in Names :
        /\ SetLogger(t, op, name, value)
        /\ op = "SetLoggerRuntimeMin" => value \in Levels
        /\ op = "ReplaceLoggerSinks" => value \in SinkSets

Logs(t) == \E level \in Levels : Log(t, level)

LEMMA NextCases ==
    ASSUME TypeOK, RulesDistinct, Next
    PROVE  \E t \in Threads : Reconfigures(t) \/ Obtains(t) \/ Sets(t) \/ Logs(t) \/ Step(t)
<1>1. PICK t \in Threads :
          Configure(t) \/ Address(t) \/ (\E level \in Levels : Log(t, level)) \/ Step(t)
  BY DEF Next
<1>2. CASE Configure(t)
  <2>1. rules \in Seq(Rules) /\ defaultRuntimeMin \in Levels /\ defaultSinks \in SinkSets
    BY DEF TypeOK
  <2>2. ASSUME NEW level \in Levels, SetDefaultRuntimeMin(t, level) PROVE Reconfigures(t)
    BY <2>1, <2>2 DEF SetDefaultRuntimeMin, Reconfigures, RulesDistinct
  <2>3. ASSUME NEW sinks \in SinkSets, SetDefaultSinks(t, sinks) PROVE Reconfigures(t)
    BY <2>1, <2>3 DEF SetDefaultSinks, Reconfigures, RulesDistinct
  <2>4. ASSUME NEW rule \in Rules, UpsertRule(t, rule) \/ RemoveRule(t, rule.prefix)
        PROVE  Reconfigures(t)
    <3>1. rules' \in Seq(Rules) /\ RulesDistinct'
      BY <2>1, <2>4, RulesKept
    <3>2. /\ (\E op : Begin(t, op)) /\ Lock(t)
          /\ UNCHANGED <<defaultRuntimeMin, defaultSinks>>
      BY <2>4 DEF UpsertRule, RemoveRule
    <3>3. QED
      BY <2>1, <3>1, <3>2 DEF Reconfigures
  <2>5. QED
    BY <1>2, <2>2, <2>3, <2>4 DEF Configure
<1>3. CASE Address(t)
  BY <1>3 DEF Address, Obtains, Sets, SetLoggerRuntimeMin, ReplaceLoggerSinks
<1>4. QED
  BY <1>1, <1>2, <1>3 DEF Logs

\* Storing the level of a logger changes nothing else of it, and no other logger.
LEMMA LevelStored ==
    ASSUME TypeOK, NEW i \in DOMAIN objects, NEW level \in Levels, NEW alone \in BOOLEAN,
           StoreRuntimeMin(i, level, alone)
    PROVE  /\ objects' \in Seq(LoggerType) /\ Len(objects') = Len(objects)
           /\ DOMAIN objects' = DOMAIN objects
           /\ \A j \in DOMAIN objects :
                 /\ j # i => objects'[j] = objects[j]
                 /\ objects'[j].name = objects[j].name
                 /\ objects'[j].sinks = objects[j].sinks
                 /\ objects'[j].sinksAlone = objects[j].sinksAlone
           /\ objects'[i].runtimeMin = level /\ objects'[i].levelAlone = alone
           /\ seen' \in [Threads -> [levels : SUBSET Levels, sinkSets : SUBSET SinkSets]]
           /\ \A t \in Threads : /\ seen[t].levels \subseteq seen'[t].levels
                                 /\ seen'[t].sinkSets = seen[t].sinkSets
<1>1. objects \in Seq(LoggerType) /\ objects[i] \in LoggerType
      /\ DOMAIN objects = 1 .. Len(objects)
  BY DEF TypeOK
<1> DEFINE stored == [objects[i] EXCEPT !.runtimeMin = level, !.levelAlone = alone]
<1>2. objects' = [objects EXCEPT ![i] = stored]
  BY <1>1 DEF StoreRuntimeMin
<1>3. /\ stored \in LoggerType /\ stored.runtimeMin = level /\ stored.levelAlone = alone
      /\ stored.name = objects[i].name /\ stored.sinks = objects[i].sinks
      /\ stored.sinksAlone = objects[i].sinksAlone
  BY <1>1 DEF LoggerType
<1> HIDE DEF stored
<1>4. /\ objects' \in Seq(LoggerType) /\ Len(objects') = Len(objects)
      /\ DOMAIN objects' = DOMAIN objects
      /\ \A j \in DOMAIN objects : objects'[j] = IF j = i THEN stored ELSE objects[j]
  BY <1>1, <1>2, <1>3
<1>5. ASSUME NEW t \in Threads
      PROVE  /\ seen'[t] \in [levels : SUBSET Levels, sinkSets : SUBSET SinkSets]
             /\ seen[t].levels \subseteq seen'[t].levels
             /\ seen'[t].sinkSets = seen[t].sinkSets
  <2>1. seen[t] \in [levels : SUBSET Levels, sinkSets : SUBSET SinkSets]
    BY DEF TypeOK
  <2>2. \/ seen'[t] = seen[t]
        \/ seen'[t] = [seen[t] EXCEPT !.levels = @ \cup {level}]
    BY DEF StoreRuntimeMin
  <2>3. QED
    BY <2>1, <2>2
<1>6. seen' \in [Threads -> [levels : SUBSET Levels, sinkSets : SUBSET SinkSets]]
  <2>1. seen' = [t \in Threads |-> seen'[t]]
    BY DEF StoreRuntimeMin
  <2>2. QED
    BY <1>5, <2>1
<1>7. QED
  BY <1>3, <1>4, <1>5, <1>6

\* Storing the sinks of a logger changes nothing else of it, and no other logger.
LEMMA SinksStored ==
    ASSUME TypeOK, NEW i \in DOMAIN objects, NEW sinks \in SinkSets, NEW alone \in BOOLEAN,
           StoreSinks(i, sinks, alone)
    PROVE  /\ objects' \in Seq(LoggerType) /\ Len(objects') = Len(objects)
           /\ DOMAIN objects' = DOMAIN objects
           /\ \A j \in DOMAIN objects :
                 /\ j # i => objects'[j] = objects[j]
                 /\ objects'[j].name = objects[j].name
                 /\ objects'[j].runtimeMin = objects[j].runtimeMin
                 /\ objects'[j].levelAlone = objects[j].levelAlone
           /\ objects'[i].sinks = sinks /\ objects'[i].sinksAlone = alone
           /\ seen' \in [Threads -> [levels : SUBSET Levels, sinkSets : SUBSET SinkSets]]
           /\ \A t \in Threads :
                 /\ seen'[t].levels = seen[t].levels
                 /\ seen[t].sinkSets \subseteq seen'[t].sinkSets
                 /\ (pc[t] \in {"snapshot", "dispatch"} /\ handle[t] = i) => sinks \in seen'[t].sinkSets
<1>1. objects \in Seq(LoggerType) /\ objects[i] \in LoggerType
      /\ DOMAIN objects = 1 .. Len(objects)
  BY DEF TypeOK
<1> DEFINE stored == [objects[i] EXCEPT !.sinks = sinks, !.sinksAlone = alone]
<1>2. objects' = [objects EXCEPT ![i] = stored]
  BY <1>1 DEF StoreSinks
<1>3. /\ stored \in LoggerType /\ stored.sinks = sinks /\ stored.sinksAlone = alone
      /\ stored.name = objects[i].name /\ stored.runtimeMin = objects[i].runtimeMin
      /\ stored.levelAlone = objects[i].levelAlone
  BY <1>1 DEF LoggerType
<1> HIDE DEF stored
<1>4. /\ objects' \in Seq(LoggerType) /\ Len(objects') = Len(objects)
      /\ DOMAIN objects' = DOMAIN objects
      /\ \A j \in DOMAIN objects : objects'[j] = IF j = i THEN stored ELSE objects[j]
  BY <1>1, <1>2, <1>3
<1>5. ASSUME NEW t \in Threads
      PROVE  /\ seen'[t] \in [levels : SUBSET Levels, sinkSets : SUBSET SinkSets]
             /\ seen'[t].levels = seen[t].levels
             /\ seen[t].sinkSets \subseteq seen'[t].sinkSets
             /\ (pc[t] \in {"snapshot", "dispatch"} /\ handle[t] = i) => sinks \in seen'[t].sinkSets
  <2>1. seen[t] \in [levels : SUBSET Levels, sinkSets : SUBSET SinkSets]
    BY DEF TypeOK
  <2>2. seen'[t] = IF pc[t] \in {"snapshot", "dispatch"} /\ handle[t] = i
                   THEN [seen[t] EXCEPT !.sinkSets = @ \cup {sinks}] ELSE seen[t]
    BY DEF StoreSinks
  <2>3. QED
    BY <2>1, <2>2
<1>6. seen' \in [Threads -> [levels : SUBSET Levels, sinkSets : SUBSET SinkSets]]
  <2>1. seen' = [t \in Threads |-> seen'[t]]
    BY DEF StoreSinks
  <2>2. QED
    BY <1>5, <2>1
<1>7. QED
  BY <1>3, <1>4, <1>5, <1>6

\* A thread moves nobody else.
Moves(t) == Reconfigures(t) \/ Obtains(t) \/ Sets(t) \/ Logs(t) \/ Step(t)

LEMMA OthersStay ==
    ASSUME Types, NEW t \in Threads, Moves(t)
    PROVE  /\ arg' = [u \in Threads |-> arg'[u]]
           /\ pc' = [u \in Threads |-> pc'[u]] /\ handle' = [u \in Threads |-> handle'[u]]
           /\ \A u \in Threads \ {t} :
                 pc'[u] = pc[u] /\ arg'[u] = arg[u] /\ handle'[u] = handle[u]
<1>0. /\ arg = [u \in Threads |-> arg[u]] /\ pc = [u \in Threads |-> pc[u]]
      /\ handle = [u \in Threads |-> handle[u]]
  BY DEF Types, TypeOK
<1>1. /\ \E x : pc' = [pc EXCEPT ![t] = x]
      /\ \E x : arg' = [arg EXCEPT ![t] = x]
      /\ \E x : handle' = [handle EXCEPT ![t] = x]
  <2>0. /\ pc = [pc EXCEPT ![t] = pc[t]] /\ arg = [arg EXCEPT ![t] = arg[t]]
        /\ handle = [handle EXCEPT ![t] = handle[t]]
    BY <1>0
  <2>1. CASE Reconfigures(t)
    BY <2>0, <2>1 DEF Reconfigures, Lock
  <2>2. CASE Obtains(t)
    BY <2>0, <2>2 DEF Obtains, GetOrCreate
  <2>3. CASE Sets(t)
    BY <2>0, <2>3 DEF Sets, SetLogger
  <2>4. CASE Logs(t)
    BY <2>0, <2>4 DEF Logs, Log, registryVars
  <2>5. CASE Create(t)
    <3>1. /\ pc' = [pc EXCEPT ![t] = "ready"] /\ arg' = [arg EXCEPT ![t] = NoArg]
      BY <2>5 DEF Create, Return
    <3>2. \E x : handle' = [handle EXCEPT ![t] = x]
      BY <2>5 DEF Create
    <3>3. QED
      BY <3>1, <3>2
  <2>6. CASE ApplyRuntimeMin(t)
    BY <2>0, <2>6 DEF ApplyRuntimeMin
  <2>7. CASE ApplySinks(t)
    BY <2>0, <2>7 DEF ApplySinks
  <2>8. CASE Unlock(t)
    BY <2>0, <2>8 DEF Unlock
  <2>9. CASE Store(t)
    BY <2>0, <2>9 DEF Store, Return
  <2>10. CASE Snapshot(t)
    BY <2>0, <2>10 DEF Snapshot
  <2>11. CASE Dispatch(t)
    BY <2>0, <2>11 DEF Dispatch
  <2>12. CASE LogReturn(t)
    BY <2>0, <2>12 DEF LogReturn, Return
  <2>13. QED
    BY <2>1, <2>2, <2>3, <2>4, <2>5, <2>6, <2>7, <2>8, <2>9, <2>10, <2>11, <2>12
       DEF Moves, Step
<1>2. QED
  BY <1>0, <1>1

\* A thread that is not moved keeps what it has of its call.
LEMMA ArgKept ==
    ASSUME Types, NEW u \in Threads, pc'[u] = pc[u], arg'[u] = arg[u], handle'[u] = handle[u],
           objects' \in Seq(LoggerType), Len(objects) <= Len(objects'),
           pc[u] = "apply_sinks" => todo' = todo
    PROVE  ArgOK(u)'
<1>1. DOMAIN objects \subseteq DOMAIN objects'
  BY DEF Types, TypeOK
<1>2. ArgOK(u)
  BY DEF Types
<1>3. QED
  BY <1>1, <1>2 DEF ArgOK

\* A call that begins counts.
CallsOK == calls \in [Threads -> Nat] /\ \A t \in Threads : calls[t] <= MaxCalls[t]

LEMMA CallCounted ==
    ASSUME TypeOK, NEW t \in Threads, NEW op, Begin(t, op)
    PROVE  CallsOK'
<1>1. calls \in [Threads -> Nat] /\ MaxCalls \in [Threads -> Nat]
      /\ \A u \in Threads : calls[u] <= MaxCalls[u]
  BY RegistryAssumption DEF TypeOK
<1>2. calls[t] < MaxCalls[t] /\ calls' = [calls EXCEPT ![t] = calls[t] + 1]
  BY DEF Begin
<1>3. calls' \in [Threads -> Nat]
  BY <1>1, <1>2
<1>4. ASSUME NEW u \in Threads PROVE calls'[u] <= MaxCalls[u]
  BY <1>1, <1>2
<1>5. QED
  BY <1>3, <1>4 DEF CallsOK

\* The facts that TypeOK and ArgOK give in a form the steps use.
LEMMA TypeFacts ==
    ASSUME Types
    PROVE  /\ objects \in Seq(LoggerType) /\ DOMAIN objects = 1 .. Len(objects)
           /\ Len(objects) \in Nat /\ rules \in Seq(Rules)
           /\ \A i \in DOMAIN objects : objects[i] \in LoggerType
           /\ \A n \in Names : loggers[n] \in 0 .. Len(objects)
           /\ \A n \in Names : loggers[n] # 0 => loggers[n] \in DOMAIN objects
           /\ \A t \in Threads : handle[t] # 0 => handle[t] \in DOMAIN objects
           /\ {loggers[n] : n \in Names} \ {0} \subseteq DOMAIN objects
           /\ \A t \in Threads : seen[t] \in [levels : SUBSET Levels, sinkSets : SUBSET SinkSets]
           /\ \A name : /\ ComputeEffectiveConfig(name).runtimeMin \in Levels
                        /\ ComputeEffectiveConfig(name).sinks \in SinkSets
<1>1. TypeOK
  BY DEF Types
<1>2. \A name : /\ ComputeEffectiveConfig(name).runtimeMin \in Levels
                /\ ComputeEffectiveConfig(name).sinks \in SinkSets
  BY <1>1, EffectiveType DEF TypeOK
<1>3. /\ objects \in Seq(LoggerType) /\ DOMAIN objects = 1 .. Len(objects)
      /\ Len(objects) \in Nat /\ rules \in Seq(Rules)
      /\ \A i \in DOMAIN objects : objects[i] \in LoggerType
  BY <1>1 DEF TypeOK
<1>4. \A n \in Names : loggers[n] \in 0 .. Len(objects)
  BY <1>1 DEF TypeOK
<1>5. \A t \in Threads : handle[t] \in 0 .. Len(objects)
  BY <1>1 DEF TypeOK
<1>6. \A k \in 0 .. Len(objects) : k # 0 => k \in DOMAIN objects
  BY <1>3
<1>7. \A t \in Threads : seen[t] \in [levels : SUBSET Levels, sinkSets : SUBSET SinkSets]
  BY <1>1 DEF TypeOK
<1>8. QED
  BY <1>2, <1>3, <1>4, <1>5, <1>6, <1>7

\* A new logger takes the next number.
LEMMA Created ==
    ASSUME Types, NEW t \in Threads, Create(t), loggers[arg[t].name] = 0
    PROVE  /\ arg[t].name \in Names
           /\ objects' \in Seq(LoggerType) /\ Len(objects') = Len(objects) + 1
           /\ DOMAIN objects' = DOMAIN objects \cup {Len(objects) + 1}
           /\ \A i \in DOMAIN objects : objects'[i] = objects[i]
           /\ objects'[Len(objects) + 1] = NewLogger(arg[t].name, arg[t].runtimeMin)
           /\ loggers' = [loggers EXCEPT ![arg[t].name] = Len(objects) + 1]
           /\ handle'[t] = Len(objects) + 1
<1> DEFINE name == arg[t].name
           logger == NewLogger(name, arg[t].runtimeMin)
<1>1. name \in Names /\ arg[t].runtimeMin \in Levels
  BY DEF Types, ArgOK, Create
<1>2. /\ objects' = Append(objects, logger)
      /\ loggers' = [loggers EXCEPT ![name] = Len(objects) + 1]
      /\ handle' = [handle EXCEPT ![t] = Len(objects) + 1]
  BY DEF Create, StillMissing
<1>3. logger \in LoggerType
  BY <1>1, TypeFacts DEF NewLogger, LoggerType, InitialRuntimeMin
<1> HIDE DEF logger
<1>4. /\ objects' \in Seq(LoggerType) /\ Len(objects') = Len(objects) + 1
      /\ DOMAIN objects' = DOMAIN objects \cup {Len(objects) + 1}
      /\ \A i \in DOMAIN objects : objects'[i] = objects[i]
      /\ objects'[Len(objects) + 1] = logger
  BY <1>2, <1>3, TypeFacts
<1>5. handle'[t] = Len(objects) + 1
  BY <1>2 DEF Types, TypeOK
<1>6. QED
  BY <1>1, <1>2, <1>4, <1>5 DEF logger

-----------------------------------------------------------------------------
(* Types.                                                                  *)

\* The parts of TypeOK that several variables share.
ConfigTypes == defaultRuntimeMin \in Levels /\ defaultSinks \in SinkSets /\ rules \in Seq(Rules)
ObjectTypes ==
    /\ objects \in Seq(LoggerType) /\ loggers \in [Names -> 0 .. Len(objects)]
    /\ handle \in [Threads -> 0 .. Len(objects)]
LockTypes ==
    /\ writer \in Threads \cup {NoThread} /\ todo \subseteq DOMAIN objects
    /\ Unlocked => todo = {}
    /\ pc \in [Threads -> Locations]
    /\ \A t \in Threads : pc[t] \in {"apply", "apply_sinks"} <=> writer = t
SeenTypes == seen \in [Threads -> [levels : SUBSET Levels, sinkSets : SUBSET SinkSets]]

LEMMA TypeParts ==
    /\ TypeOK <=> ConfigTypes /\ ObjectTypes /\ LockTypes /\ CallsOK /\ SeenTypes
    /\ TypeOK' <=> (ConfigTypes /\ ObjectTypes /\ LockTypes /\ CallsOK /\ SeenTypes)'
BY DEF TypeOK, ConfigTypes, ObjectTypes, LockTypes, CallsOK, SeenTypes

\* A step that changes neither who holds the lock nor what it has to visit, and takes its
\* thread from one place to another outside the section.
LEMMA LockKept ==
    ASSUME Types, NEW t \in Threads, Moves(t), UNCHANGED lockVars,
           objects' \in Seq(LoggerType), Len(objects) <= Len(objects'),
           pc[t] \notin {"apply", "apply_sinks"},
           pc'[t] \in Locations \ {"apply", "apply_sinks"}
    PROVE  LockTypes'
<1>1. LockTypes
  BY TypeParts DEF Types
<1>2. DOMAIN objects \subseteq DOMAIN objects'
  BY TypeFacts
<1>3. pc' = [u \in Threads |-> pc'[u]] /\ \A u \in Threads \ {t} : pc'[u] = pc[u]
  BY OthersStay
<1>4. pc' \in [Threads -> Locations]
  BY <1>1, <1>3 DEF LockTypes
<1>5. \A u \in Threads : pc'[u] \in {"apply", "apply_sinks"} <=> writer' = u
  BY <1>1, <1>3 DEF LockTypes, lockVars
<1>6. QED
  BY <1>1, <1>2, <1>4, <1>5 DEF LockTypes, lockVars, Unlocked

\* A call that looks something up, or begins to log.
LEMMA TypesKeptByCalls ==
    ASSUME Types, NEW t \in Threads, Obtains(t) \/ Sets(t) \/ Logs(t)
    PROVE  Types'
<1>0. Moves(t) /\ UNCHANGED registryVars /\ (\E op : Begin(t, op)) /\ pc[t] = "ready"
  BY DEF Moves, Obtains, Sets, Logs, GetOrCreate, SetLogger, Log, Begin
<1>1. UNCHANGED <<configVars, loggers, objects, lockVars>>
  BY <1>0 DEF registryVars
<1>2. ConfigTypes' /\ RulesDistinct' /\ CallsOK'
  BY <1>0, <1>1, TypeParts, CallCounted
     DEF Types, ConfigTypes, configVars, RulesDistinct
<1>3. arg[t] \in {arg[t]} /\ t \in DOMAIN arg /\ t \in DOMAIN pc /\ t \in DOMAIN handle
      /\ t \in DOMAIN seen
  BY DEF Types, TypeOK
<1>4. /\ pc'[t] \in Locations \ {"apply", "apply_sinks"}
      /\ handle' \in [Threads -> 0 .. Len(objects)] /\ SeenTypes' /\ ArgOK(t)'
  <2>1. CASE Obtains(t)
    <3>1. PICK name \in Names, level \in Levels : GetOrCreate(t, name, level)
      BY <2>1 DEF Obtains
    <3>2. SeenTypes' /\ UNCHANGED seen
      BY <3>1, TypeParts DEF GetOrCreate, Types, SeenTypes
    <3>3. CASE loggers[name] # 0
      <4>1. handle' = [handle EXCEPT ![t] = loggers[name]] /\ UNCHANGED <<pc, arg>>
        BY <3>1, <3>3 DEF GetOrCreate
      <4>2. loggers[name] \in 0 .. Len(objects) /\ handle \in [Threads -> 0 .. Len(objects)]
        BY TypeFacts DEF Types, TypeOK
      <4>3. handle' \in [Threads -> 0 .. Len(objects)]
        BY <4>1, <4>2
      <4>4. pc'[t] = "ready"
        BY <1>0, <4>1
      <4>5. QED
        BY <3>2, <4>3, <4>4 DEF ArgOK, Locations
    <3>4. CASE loggers[name] = 0
      <4>1. /\ pc' = [pc EXCEPT ![t] = "create"] /\ UNCHANGED handle
            /\ arg' = [arg EXCEPT ![t] = [op |-> "GetOrCreate", name |-> name, runtimeMin |-> level]]
        BY <3>1, <3>4 DEF GetOrCreate
      <4>2. pc'[t] = "create" /\ arg'[t].name = name /\ arg'[t].runtimeMin = level
        BY <1>3, <4>1
      <4>3. handle' \in [Threads -> 0 .. Len(objects)]
        BY <4>1 DEF Types, TypeOK
      <4>4. QED
        BY <3>2, <4>2, <4>3 DEF ArgOK, Locations
    <3>5. QED
      BY <3>3, <3>4
  <2>2. CASE Sets(t)
    <3>0. PICK op, value : \E name \in Names :
              /\ SetLogger(t, op, name, value)
              /\ op = "SetLoggerRuntimeMin" => value \in Levels
              /\ op = "ReplaceLoggerSinks" => value \in SinkSets
      BY <2>2 DEF Sets
    <3>1. PICK name \in Names :
              /\ SetLogger(t, op, name, value)
              /\ op = "SetLoggerRuntimeMin" => value \in Levels
              /\ op = "ReplaceLoggerSinks" => value \in SinkSets
      BY <3>0
    <3>2. SeenTypes' /\ handle' \in [Threads -> 0 .. Len(objects)]
      BY <3>1, TypeParts DEF SetLogger, Types, TypeOK, SeenTypes
    <3>3. CASE loggers[name] = 0
      <4>1. pc'[t] = "ready"
        BY <1>0, <3>1, <3>3 DEF SetLogger
      <4>2. QED
        BY <3>2, <4>1 DEF ArgOK, Locations
    <3>4. CASE loggers[name] # 0
      <4>1. /\ pc' = [pc EXCEPT ![t] = "store"]
            /\ arg' = [arg EXCEPT ![t] = [op |-> op, object |-> loggers[name], value |-> value]]
        BY <3>1, <3>4 DEF SetLogger
      <4>2. /\ pc'[t] = "store" /\ arg'[t].object = loggers[name]
            /\ arg'[t].op = op /\ arg'[t].value = value
        BY <1>3, <4>1
      <4>3. loggers[name] \in DOMAIN objects'
        BY <1>1, <3>4, TypeFacts
      <4>4. QED
        BY <3>1, <3>2, <4>2, <4>3 DEF ArgOK, Locations
    <3>5. QED
      BY <3>3, <3>4
  <2>3. CASE Logs(t)
    <3>1. PICK level \in Levels : Log(t, level)
      BY <2>3 DEF Logs
    <3> DEFINE logger == objects[handle[t]]
    <3>2. handle[t] # 0 /\ logger \in LoggerType
      BY <3>1, TypeFacts DEF Log
    <3>3. /\ seen' = [seen EXCEPT ![t] = [levels |-> {logger.runtimeMin}, sinkSets |-> {logger.sinks}]]
          /\ pc' = [pc EXCEPT ![t] = IF IsRuntimeEnabled(level, logger.runtimeMin)
                                     THEN "snapshot" ELSE "logged"]
          /\ arg' = [arg EXCEPT ![t] = [op |-> "Log", level |-> level, sinks |-> <<>>, given |-> <<>>]]
          /\ UNCHANGED handle
      BY <3>1 DEF Log
    <3>4. SeenTypes'
      <4>1. [levels |-> {logger.runtimeMin}, sinkSets |-> {logger.sinks}]
                \in [levels : SUBSET Levels, sinkSets : SUBSET SinkSets]
        BY <3>2 DEF LoggerType
      <4>2. SeenTypes
        BY TypeParts DEF Types
      <4>3. QED
        BY <3>3, <4>1, <4>2 DEF SeenTypes
    <3>5. pc'[t] \in {"snapshot", "logged"}
      BY <1>3, <3>3
    <3>6. arg'[t] \in LogArg /\ arg'[t].given = <<>>
      <4>1. arg'[t] = [op |-> "Log", level |-> level, sinks |-> <<>>, given |-> <<>>]
        BY <1>3, <3>3
      <4>2. <<>> \in SinkSets /\ <<>> \in Seq(Sinks)
        BY RegistryAssumption
      <4>3. QED
        BY <4>1, <4>2 DEF LogArg
    <3>7. handle' \in [Threads -> 0 .. Len(objects)] /\ handle'[t] # 0
      BY <3>2, <3>3 DEF Types, TypeOK
    <3>8. QED
      BY <3>4, <3>5, <3>6, <3>7 DEF ArgOK, Locations
  <2>4. QED
    BY <2>1, <2>2, <2>3
<1>5. LockTypes'
  <2>1. objects' \in Seq(LoggerType) /\ Len(objects) <= Len(objects')
    BY <1>1, TypeFacts
  <2>2. QED
    BY <1>0, <1>1, <1>4, <2>1, LockKept
<1>6. ObjectTypes'
  BY <1>1, <1>4, TypeParts DEF Types, ObjectTypes
<1>7. \A u \in Threads : ArgOK(u)'
  <2>1. objects' \in Seq(LoggerType) /\ Len(objects) <= Len(objects') /\ todo' = todo
    BY <1>1, TypeFacts DEF lockVars
  <2>2. ASSUME NEW u \in Threads, u # t PROVE ArgOK(u)'
    BY <1>0, <2>1, <2>2, OthersStay, ArgKept
  <2>3. QED
    BY <1>4, <2>2
<1>8. arg' = [u \in Threads |-> arg'[u]]
  BY <1>0, OthersStay
<1>9. TypeOK'
  BY <1>2, <1>4, <1>5, <1>6, TypeParts
<1>10. QED
  BY <1>2, <1>7, <1>8, <1>9 DEF Types

\* The section that changes the configuration and applies it.
LEMMA TypesKeptBySection ==
    ASSUME Types, NEW t \in Threads,
           Reconfigures(t) \/ ApplyRuntimeMin(t) \/ ApplySinks(t) \/ Unlock(t)
    PROVE  Types'
<1>0. Moves(t) /\ UNCHANGED <<loggers, handle>> /\ pc[t] \in {"ready", "apply", "apply_sinks"}
  BY DEF Moves, Step, Reconfigures, Lock, Begin, ApplyRuntimeMin, ApplySinks, Unlock
<1>1. LockTypes /\ t \in DOMAIN pc /\ t \in DOMAIN arg /\ NoThread \notin Threads
      /\ pc = [u \in Threads |-> pc[u]] /\ arg = [u \in Threads |-> arg[u]]
  BY TypeParts, RegistryAssumption DEF Types, LockTypes
<1>2. \A u \in Threads \ {t} : /\ pc[u] = "apply_sinks" => writer = u
                               /\ pc'[u] = pc[u]
  BY <1>0, <1>1, OthersStay DEF LockTypes
<1>3. /\ objects' \in Seq(LoggerType) /\ Len(objects') = Len(objects)
      /\ ConfigTypes' /\ RulesDistinct' /\ CallsOK' /\ SeenTypes' /\ LockTypes' /\ ArgOK(t)'
      /\ (writer = t \/ writer = NoThread)
  <2>0. ConfigTypes /\ RulesDistinct /\ CallsOK /\ SeenTypes
    BY TypeParts DEF Types
  <2>1. CASE Reconfigures(t)
    <3>1. /\ Unlocked /\ writer' = t /\ todo' = {loggers[n] : n \in Names} \ {0}
          /\ pc' = [pc EXCEPT ![t] = "apply"]
          /\ UNCHANGED <<loggers, objects, arg, handle, seen>>
      BY <2>1 DEF Reconfigures, Lock
    <3>2. ConfigTypes' /\ RulesDistinct'
      BY <2>1 DEF Reconfigures, ConfigTypes
    <3>3. CallsOK'
      BY <2>1, CallCounted DEF Reconfigures, Types
    <3>4. todo' \subseteq DOMAIN objects'
      BY <3>1, TypeFacts
    <3>5. pc'[t] = "apply" /\ pc' \in [Threads -> Locations]
      BY <1>1, <3>1 DEF LockTypes, Locations
    <3>6. \A u \in Threads : pc'[u] \in {"apply", "apply_sinks"} <=> writer' = u
      BY <1>1, <1>2, <3>1, <3>5 DEF LockTypes, Unlocked
    <3>7. LockTypes'
      BY <1>1, <3>1, <3>4, <3>5, <3>6 DEF LockTypes, Unlocked
    <3>8. ArgOK(t)' /\ SeenTypes'
      BY <2>0, <3>1, <3>5 DEF ArgOK, SeenTypes
    <3>9. QED
      BY <3>1, <3>2, <3>3, <3>7, <3>8, TypeFacts DEF Unlocked
  <2>2. CASE ApplyRuntimeMin(t)
    <3>1. PICK i \in todo :
              /\ StoreRuntimeMin(i, ComputeEffectiveConfig(objects[i].name).runtimeMin, FALSE)
              /\ arg' = [arg EXCEPT ![t] = [op |-> "apply", object |-> i]]
      BY <2>2 DEF ApplyRuntimeMin
    <3>2. /\ pc[t] = "apply" /\ pc' = [pc EXCEPT ![t] = "apply_sinks"]
          /\ UNCHANGED <<configVars, lockVars, calls>>
      BY <2>2 DEF ApplyRuntimeMin
    <3>3. i \in DOMAIN objects
      BY <1>1, <3>1 DEF LockTypes
    <3>4. objects' \in Seq(LoggerType) /\ Len(objects') = Len(objects) /\ SeenTypes'
      BY <3>1, <3>3, TypeFacts, LevelStored DEF Types, SeenTypes
    <3>5. pc'[t] = "apply_sinks" /\ pc' \in [Threads -> Locations] /\ arg'[t].object = i
      BY <1>1, <3>1, <3>2 DEF LockTypes, Locations
    <3>6. writer = t /\ todo' = todo /\ writer' = writer /\ DOMAIN objects' = DOMAIN objects
      BY <1>1, <3>2, <3>4, TypeFacts DEF LockTypes, lockVars
    <3>7. \A u \in Threads : pc'[u] \in {"apply", "apply_sinks"} <=> writer' = u
      BY <1>1, <1>2, <3>5, <3>6 DEF LockTypes
    <3>8. LockTypes'
      BY <1>1, <3>5, <3>6, <3>7 DEF LockTypes, Unlocked
    <3>9. ArgOK(t)'
      BY <3>1, <3>5, <3>6 DEF ArgOK
    <3>10. ConfigTypes' /\ RulesDistinct' /\ CallsOK'
      BY <2>0, <3>2 DEF ConfigTypes, RulesDistinct, CallsOK, configVars
    <3>11. QED
      BY <3>4, <3>6, <3>8, <3>9, <3>10
  <2>3. CASE ApplySinks(t)
    <3> DEFINE i == arg[t].object
    <3>1. /\ pc[t] = "apply_sinks"
          /\ StoreSinks(i, ComputeEffectiveConfig(objects[i].name).sinks, FALSE)
          /\ todo' = todo \ {i} /\ pc' = [pc EXCEPT ![t] = "apply"]
          /\ UNCHANGED <<configVars, writer, calls>>
      BY <2>3 DEF ApplySinks
    <3>2. i \in DOMAIN objects
      BY <1>1, <3>1 DEF LockTypes, Types, ArgOK
    <3>3. objects' \in Seq(LoggerType) /\ Len(objects') = Len(objects) /\ SeenTypes'
      BY <3>1, <3>2, TypeFacts, SinksStored DEF Types, SeenTypes
    <3>4. pc'[t] = "apply" /\ pc' \in [Threads -> Locations]
      BY <1>1, <3>1 DEF LockTypes, Locations
    <3>5. writer = t /\ DOMAIN objects' = DOMAIN objects
      BY <1>1, <3>1, <3>3, TypeFacts DEF LockTypes
    <3>6. \A u \in Threads : pc'[u] \in {"apply", "apply_sinks"} <=> writer' = u
      BY <1>1, <1>2, <3>1, <3>4, <3>5 DEF LockTypes
    <3>7. LockTypes'
      BY <1>1, <3>1, <3>4, <3>5, <3>6 DEF LockTypes, Unlocked
    <3>8. ArgOK(t)'
      BY <3>4 DEF ArgOK
    <3>9. ConfigTypes' /\ RulesDistinct' /\ CallsOK'
      BY <2>0, <3>1 DEF ConfigTypes, RulesDistinct, CallsOK, configVars
    <3>10. QED
      BY <3>3, <3>5, <3>7, <3>8, <3>9
  <2>4. CASE Unlock(t)
    <3>1. /\ pc[t] = "apply" /\ todo = {} /\ writer' = NoThread
          /\ pc' = [pc EXCEPT ![t] = "ready"]
          /\ UNCHANGED <<configVars, loggers, objects, todo, arg, handle, calls, seen>>
      BY <2>4 DEF Unlock, AllApplied
    <3>2. pc'[t] = "ready" /\ pc' \in [Threads -> Locations] /\ writer = t
      BY <1>1, <3>1 DEF LockTypes, Locations
    <3>3. \A u \in Threads : pc'[u] \in {"apply", "apply_sinks"} <=> writer' = u
      BY <1>1, <1>2, <3>1, <3>2 DEF LockTypes
    <3>4. LockTypes'
      BY <1>1, <3>1, <3>2, <3>3 DEF LockTypes, Unlocked
    <3>5. ArgOK(t)'
      BY <3>2 DEF ArgOK
    <3>6. ConfigTypes' /\ RulesDistinct' /\ CallsOK' /\ SeenTypes'
      BY <2>0, <3>1 DEF ConfigTypes, RulesDistinct, CallsOK, SeenTypes, configVars
    <3>7. QED
      BY <3>1, <3>2, <3>4, <3>5, <3>6, TypeFacts
  <2>5. QED
    BY <2>1, <2>2, <2>3, <2>4
<1>4. ObjectTypes'
  BY <1>0, <1>3, TypeParts DEF Types, ObjectTypes
<1>5. ASSUME NEW u \in Threads, u # t PROVE ArgOK(u)'
  <2>1. pc[u] # "apply_sinks"
    BY <1>1, <1>2, <1>3, <1>5
  <2>2. pc'[u] = pc[u] /\ arg'[u] = arg[u] /\ handle'[u] = handle[u]
    BY <1>0, <1>5, OthersStay
  <2>3. Len(objects) <= Len(objects')
    BY <1>3, TypeFacts
  <2>4. QED
    BY <1>3, <2>1, <2>2, <2>3, ArgKept
<1>6. arg' = [u \in Threads |-> arg'[u]]
  BY <1>0, OthersStay
<1>7. TypeOK'
  BY <1>3, <1>4, TypeParts
<1>8. QED
  BY <1>3, <1>5, <1>6, <1>7 DEF Types

\* The steps that create a logger, set one, and bring a record to the sinks.
LEMMA TypesKeptBySteps ==
    ASSUME Types, NEW t \in Threads,
           Create(t) \/ Store(t) \/ Snapshot(t) \/ Dispatch(t) \/ LogReturn(t)
    PROVE  Types'
<1>0. Moves(t) /\ UNCHANGED <<configVars, lockVars, calls>>
      /\ pc[t] \in Locations \ {"apply", "apply_sinks"}
  BY DEF Moves, Step, Create, Store, Snapshot, Dispatch, LogReturn, Locations, registryVars
<1>1. t \in DOMAIN pc /\ t \in DOMAIN arg /\ ArgOK(t) /\ ObjectTypes /\ SeenTypes
  BY TypeParts DEF Types, LockTypes
<1>2. ConfigTypes' /\ RulesDistinct' /\ CallsOK'
  BY <1>0, TypeParts DEF Types, ConfigTypes, RulesDistinct, CallsOK, configVars
<1>3. /\ ObjectTypes' /\ Len(objects) <= Len(objects') /\ SeenTypes' /\ ArgOK(t)'
      /\ pc'[t] \in Locations \ {"apply", "apply_sinks"}
  <2>1. CASE Create(t)
    <3>1. pc'[t] = "ready" /\ UNCHANGED seen
      BY <1>1, <2>1 DEF Create, Return
    <3>2. ObjectTypes' /\ Len(objects) <= Len(objects')
      <4>1. CASE loggers[arg[t].name] = 0
        <5>1. Len(objects') = Len(objects) + 1 /\ Len(objects) \in Nat
          BY <2>1, <4>1, Created, TypeFacts
        <5>2. Len(objects) + 1 \in 0 .. Len(objects') /\ 0 .. Len(objects) \subseteq 0 .. Len(objects')
          BY <5>1
        <5>3. loggers' \in [Names -> 0 .. Len(objects')]
          BY <1>1, <2>1, <4>1, <5>2, Created DEF ObjectTypes
        <5>4. handle' \in [Threads -> 0 .. Len(objects')]
          BY <1>1, <2>1, <4>1, <5>2 DEF ObjectTypes, Create, StillMissing
        <5>5. QED
          BY <2>1, <4>1, <5>1, <5>3, <5>4, Created DEF ObjectTypes
      <4>2. CASE loggers[arg[t].name] # 0
        <5>1. UNCHANGED <<objects, loggers>> /\ handle' = [handle EXCEPT ![t] = loggers[arg[t].name]]
          BY <2>1, <4>2 DEF Create, StillMissing
        <5>2. loggers[arg[t].name] \in 0 .. Len(objects)
          BY <1>1, <2>1, TypeFacts DEF ArgOK, Create
        <5>3. QED
          BY <1>1, <5>1, <5>2, TypeFacts DEF ObjectTypes
      <4>3. QED
        BY <4>1, <4>2
    <3>3. QED
      BY <1>1, <3>1, <3>2 DEF SeenTypes, ArgOK, Locations
  <2>2. CASE Store(t)
    <3>1. /\ pc[t] = "store" /\ pc'[t] = "ready" /\ arg[t].object \in DOMAIN objects
          /\ UNCHANGED <<loggers, handle>>
      BY <1>1, <2>2 DEF Store, Return, ArgOK
    <3>2. objects' \in Seq(LoggerType) /\ Len(objects') = Len(objects) /\ SeenTypes'
      <4>1. CASE arg[t].op = "SetLoggerRuntimeMin" /\ StoreRuntimeMin(arg[t].object, arg[t].value, TRUE)
        <5>1. arg[t].value \in Levels
          BY <1>1, <3>1, <4>1 DEF ArgOK
        <5>2. QED
          BY <3>1, <4>1, <5>1, LevelStored DEF Types, SeenTypes
      <4>2. CASE arg[t].op = "ReplaceLoggerSinks" /\ StoreSinks(arg[t].object, arg[t].value, TRUE)
        <5>1. arg[t].value \in SinkSets
          BY <1>1, <3>1, <4>2 DEF ArgOK
        <5>2. QED
          BY <3>1, <4>2, <5>1, SinksStored DEF Types, SeenTypes
      <4>3. QED
        BY <2>2, <4>1, <4>2 DEF Store
    <3>3. ObjectTypes' /\ Len(objects) <= Len(objects')
      BY <1>1, <3>1, <3>2, TypeFacts DEF ObjectTypes
    <3>4. QED
      BY <3>1, <3>2, <3>3 DEF ArgOK, Locations
  <2>3. CASE Snapshot(t)
    <3>1. /\ pc[t] = "snapshot" /\ arg' = [arg EXCEPT ![t].sinks = objects[handle[t]].sinks]
          /\ pc' = [pc EXCEPT ![t] = IF objects[handle[t]].sinks = <<>> THEN "logged" ELSE "dispatch"]
          /\ UNCHANGED <<registryVars, handle, seen>>
      BY <2>3 DEF Snapshot
    <3>2. handle[t] # 0 /\ arg[t] \in LogArg /\ objects[handle[t]].sinks \in SinkSets
      BY <1>1, <3>1, TypeFacts DEF ArgOK, LoggerType
    <3>3. arg'[t] = [arg[t] EXCEPT !.sinks = objects[handle[t]].sinks]
      BY <1>1, <3>1
    <3>4. arg'[t] \in LogArg
      BY <3>2, <3>3 DEF LogArg
    <3>5. /\ pc'[t] \in {"logged", "dispatch"}
          /\ pc'[t] = "dispatch" => Len(arg'[t].given) < Len(arg'[t].sinks)
      <4>1. pc'[t] = IF objects[handle[t]].sinks = <<>> THEN "logged" ELSE "dispatch"
        BY <1>1, <3>1
      <4>2. arg'[t].given = <<>> /\ arg'[t].sinks = objects[handle[t]].sinks
        BY <1>1, <3>1, <3>2, <3>3 DEF ArgOK, LogArg
      <4>3. objects[handle[t]].sinks \in Seq(Sinks)
        BY <3>2, RegistryAssumption
      <4>4. objects[handle[t]].sinks # <<>> => Len(objects[handle[t]].sinks) > 0
        BY <4>3
      <4>5. QED
        BY <4>1, <4>2, <4>4
    <3>6. ObjectTypes' /\ Len(objects) <= Len(objects') /\ SeenTypes'
      BY <1>1, <3>1, TypeFacts DEF ObjectTypes, SeenTypes, registryVars
    <3>7. QED
      BY <3>1, <3>2, <3>4, <3>5, <3>6 DEF ArgOK, Locations
  <2>4. CASE Dispatch(t)
    <3> DEFINE sink == arg[t].sinks[Len(arg[t].given) + 1]
    <3>1. /\ pc[t] = "dispatch" /\ arg' = [arg EXCEPT ![t].given = Append(@, sink)]
          /\ pc'[t] = IF Len(arg[t].given) + 1 = Len(arg[t].sinks) THEN "logged" ELSE "dispatch"
          /\ UNCHANGED <<registryVars, handle, seen>>
      BY <1>1, <2>4 DEF Dispatch
    <3>2. /\ handle[t] # 0 /\ arg[t] \in LogArg /\ Len(arg[t].given) < Len(arg[t].sinks)
          /\ arg[t].sinks \in Seq(Sinks) /\ arg[t].given \in Seq(Sinks)
      <4>1. arg[t].sinks \in SinkSets /\ arg[t].given \in Seq(Sinks)
        BY <1>1, <3>1 DEF ArgOK, LogArg
      <4>2. QED
        BY <1>1, <3>1, <4>1, RegistryAssumption DEF ArgOK
    <3>3. arg'[t] = [arg[t] EXCEPT !.given = Append(arg[t].given, sink)]
      BY <1>1, <3>1
    <3>4. sink \in Sinks
      BY <3>2
    <3> HIDE DEF sink
    <3>5. /\ arg'[t] \in LogArg
          /\ pc'[t] = "dispatch" => Len(arg'[t].given) < Len(arg'[t].sinks)
      <4>1. arg'[t].given = Append(arg[t].given, sink) /\ arg'[t].sinks = arg[t].sinks
            /\ arg'[t].op = "Log" /\ arg'[t].level = arg[t].level
        BY <3>2, <3>3 DEF LogArg
      <4>2. Append(arg[t].given, sink) \in Seq(Sinks)
            /\ Len(Append(arg[t].given, sink)) = Len(arg[t].given) + 1
        BY <3>2, <3>4
      <4>3. arg'[t] \in LogArg
        BY <3>2, <3>3, <4>2 DEF LogArg
      <4>4. Len(arg[t].given) \in Nat /\ Len(arg[t].sinks) \in Nat
        BY <3>2
      <4>5. QED
        BY <3>1, <3>2, <4>1, <4>2, <4>3, <4>4
    <3>6. ObjectTypes' /\ Len(objects) <= Len(objects') /\ SeenTypes'
      BY <1>1, <3>1, TypeFacts DEF ObjectTypes, SeenTypes, registryVars
    <3>7. QED
      BY <3>1, <3>2, <3>5, <3>6 DEF ArgOK, Locations
  <2>5. CASE LogReturn(t)
    <3>1. pc'[t] = "ready" /\ UNCHANGED <<registryVars, handle>>
          /\ seen' = [seen EXCEPT ![t] = NothingSeen]
      BY <1>1, <2>5 DEF LogReturn, Return
    <3>2. ObjectTypes' /\ Len(objects) <= Len(objects')
      BY <1>1, <3>1, TypeFacts DEF ObjectTypes, registryVars
    <3>3. SeenTypes'
      BY <1>1, <3>1 DEF SeenTypes, NothingSeen
    <3>4. QED
      BY <3>1, <3>2, <3>3 DEF ArgOK, Locations
  <2>6. QED
    BY <2>1, <2>2, <2>3, <2>4, <2>5
<1>4. LockTypes'
  BY <1>0, <1>3, LockKept DEF ObjectTypes
<1>5. \A u \in Threads : u # t => ArgOK(u)'
  BY <1>0, <1>3, OthersStay, ArgKept DEF ObjectTypes, lockVars
<1>6. arg' = [u \in Threads |-> arg'[u]]
  BY <1>0, OthersStay
<1>7. TypeOK'
  BY <1>2, <1>3, <1>4, TypeParts
<1>8. QED
  BY <1>2, <1>3, <1>5, <1>6, <1>7 DEF Types

LEMMA TypesInit == Init => Types
<1>1. SUFFICES ASSUME Init PROVE Types
  OBVIOUS
<1>2. <<>> \in SinkSets /\ Info \in Levels /\ NoThread \notin Threads
      /\ MaxCalls \in [Threads -> Nat]
  BY RegistryAssumption
<1>3. \A u \in Threads : ArgOK(u)
  BY <1>1 DEF Init, ArgOK
<1>4. LockTypes /\ ObjectTypes /\ ConfigTypes
  BY <1>1, <1>2 DEF Init, LockTypes, ObjectTypes, ConfigTypes, Unlocked, Locations
<1>5. CallsOK
  BY <1>1, <1>2 DEF Init, CallsOK
<1>6. SeenTypes
  BY <1>1 DEF Init, SeenTypes, NothingSeen
<1>7. arg = [u \in Threads |-> arg[u]] /\ RulesDistinct
  BY <1>1 DEF Init, RulesDistinct
<1>8. TypeOK
  BY <1>4, <1>5, <1>6, TypeParts
<1>9. QED
  BY <1>3, <1>7, <1>8 DEF Types

LEMMA TypesStep == Types /\ [Next]_vars => Types'
<1>1. ASSUME Types, Next PROVE Types'
  <2>1. PICK t \in Threads : Moves(t)
    BY <1>1, NextCases DEF Types, Moves
  <2>2. QED
    BY <1>1, <2>1, TypesKeptByCalls, TypesKeptBySection, TypesKeptBySteps DEF Moves, Step
<1>2. ASSUME Types, UNCHANGED vars PROVE Types'
  <2>1. TypeOK'
    BY <1>2 DEF Types, TypeOK, vars, registryVars, configVars, lockVars, Unlocked
  <2>2. RulesDistinct' /\ arg' = [u \in Threads |-> arg'[u]]
    BY <1>2 DEF Types, RulesDistinct, vars, registryVars, configVars
  <2>3. \A u \in Threads : ArgOK(u)'
    BY <1>2 DEF Types, ArgOK, vars, registryVars, lockVars
  <2>4. QED
    BY <2>1, <2>2, <2>3 DEF Types
<1>3. QED
  BY <1>1, <1>2

\* Every variable has its type, the lock is held exactly by the thread that applies a
\* change, and nothing is left to visit when it is free.
THEOREM TypeCorrect == Spec => []TypeOK
<1>1. Types => TypeOK
  BY DEF Types
<1>2. QED
  BY <1>1, TypesInit, TypesStep, PTL DEF Spec

LEMMA TypesInvariant == Spec => []Types
BY TypesInit, TypesStep, PTL DEF Spec

-----------------------------------------------------------------------------
(* One logger per name.                                                    *)

LEMMA RegisteredStep ==
    ASSUME Types, Types', Registered, [Next]_vars
    PROVE  Registered'
<1>1. ASSUME UNCHANGED loggers, Len(objects') = Len(objects),
             \A i \in DOMAIN objects : objects'[i].name = objects[i].name
      PROVE  Registered'
  <2>1. objects' \in Seq(LoggerType) /\ DOMAIN objects' = DOMAIN objects
    BY <1>1, TypeFacts DEF Types, TypeOK
  <2>2. QED
    BY <1>1, <2>1, TypeFacts DEF Registered
<1>2. CASE UNCHANGED vars
  BY <1>1, <1>2 DEF vars, registryVars
<1>3. ASSUME NEW t \in Threads, Reconfigures(t) \/ Obtains(t) \/ Sets(t) \/ Logs(t)
      PROVE  Registered'
  BY <1>1, <1>3 DEF Reconfigures, Lock, Obtains, GetOrCreate, Sets, SetLogger, Logs, Log, registryVars
<1>4. ASSUME NEW t \in Threads, Unlock(t) \/ Snapshot(t) \/ Dispatch(t) \/ LogReturn(t)
      PROVE  Registered'
  BY <1>1, <1>4 DEF Unlock, Snapshot, Dispatch, LogReturn, registryVars
<1>5. ASSUME NEW t \in Threads, ApplyRuntimeMin(t) PROVE Registered'
  <2>1. PICK i \in todo : StoreRuntimeMin(i, ComputeEffectiveConfig(objects[i].name).runtimeMin, FALSE)
    BY <1>5 DEF ApplyRuntimeMin
  <2>2. i \in DOMAIN objects
    BY <2>1 DEF Types, TypeOK
  <2>3. UNCHANGED loggers
    BY <1>5 DEF ApplyRuntimeMin
  <2>4. QED
    BY <1>1, <2>1, <2>2, <2>3, LevelStored, TypeFacts DEF Types
<1>6. ASSUME NEW t \in Threads, ApplySinks(t) PROVE Registered'
  <2> DEFINE i == arg[t].object
  <2>1. StoreSinks(i, ComputeEffectiveConfig(objects[i].name).sinks, FALSE) /\ UNCHANGED loggers
    BY <1>6 DEF ApplySinks
  <2>2. i \in DOMAIN objects
    BY <1>6 DEF Types, TypeOK, ArgOK, ApplySinks
  <2>3. QED
    BY <1>1, <2>1, <2>2, SinksStored, TypeFacts DEF Types
<1>7. ASSUME NEW t \in Threads, Store(t) PROVE Registered'
  <2>1. arg[t].object \in DOMAIN objects /\ UNCHANGED loggers
    BY <1>7 DEF Types, ArgOK, Store
  <2>2. CASE arg[t].op = "SetLoggerRuntimeMin" /\ StoreRuntimeMin(arg[t].object, arg[t].value, TRUE)
    <3>1. arg[t].value \in Levels
      BY <1>7, <2>2 DEF Types, ArgOK, Store
    <3>2. QED
      BY <1>1, <2>1, <2>2, <3>1, LevelStored DEF Types
  <2>3. CASE arg[t].op = "ReplaceLoggerSinks" /\ StoreSinks(arg[t].object, arg[t].value, TRUE)
    <3>1. arg[t].value \in SinkSets
      BY <1>7, <2>3 DEF Types, ArgOK, Store
    <3>2. QED
      BY <1>1, <2>1, <2>3, <3>1, SinksStored DEF Types
  <2>4. QED
    BY <1>7, <2>2, <2>3 DEF Store
<1>8. ASSUME NEW t \in Threads, Create(t) PROVE Registered'
  <2> DEFINE name == arg[t].name
             new  == Len(objects) + 1
  <2>1. CASE loggers[name] # 0
    BY <1>1, <1>8, <2>1 DEF Create, StillMissing
  <2>2. CASE loggers[name] = 0
    <3>1. /\ name \in Names /\ DOMAIN objects' = DOMAIN objects \cup {new}
          /\ \A i \in DOMAIN objects : objects'[i] = objects[i]
          /\ objects'[new].name = name
          /\ loggers' = [loggers EXCEPT ![name] = new]
      <4>1. NewLogger(name, arg[t].runtimeMin).name = name
        BY DEF NewLogger
      <4> HIDE DEF name, new
      <4>2. loggers[arg[t].name] = 0
        BY <2>2 DEF name
      <4>3. QED
        BY <1>8, <4>1, <4>2, Created DEF name, new
    <3>2. new \notin DOMAIN objects /\ new # 0 /\ DOMAIN loggers = Names
      BY TypeFacts, SMTT(30) DEF Types, TypeOK
    <3>3. ASSUME NEW n \in Names, loggers'[n] # 0 PROVE objects'[loggers'[n]].name = n
      <4>1. CASE n = name
        BY <3>1, <3>2, <4>1
      <4>2. CASE n # name
        BY <3>1, <3>2, <3>3, <4>2, TypeFacts DEF Registered
      <4>3. QED
        BY <4>1, <4>2
    <3>4. ASSUME NEW i \in DOMAIN objects' PROVE loggers'[objects'[i].name] = i
      <4>1. CASE i = new
        BY <3>1, <3>2, <4>1
      <4>2. CASE i # new
        <5>1. i \in DOMAIN objects /\ objects'[i] = objects[i] /\ objects[i].name \in Names
          BY <3>1, <4>2, TypeFacts DEF LoggerType
        <5>2. loggers[objects[i].name] = i /\ i # 0
          BY <5>1, TypeFacts DEF Registered
        <5>3. objects[i].name # name
          BY <2>2, <5>2
        <5>4. QED
          BY <3>1, <3>2, <5>1, <5>2, <5>3
      <4>3. QED
        BY <4>1, <4>2
    <3>5. QED
      BY <3>3, <3>4 DEF Registered
  <2>3. QED
    BY <2>1, <2>2
<1>9. QED
  BY <1>2, <1>3, <1>4, <1>5, <1>6, <1>7, <1>8, NextCases DEF Types, Step

LEMMA RegisteredInvariant == Spec => []Registered
<1>1. Init => Registered
  BY DEF Init, Registered
<1>2. QED
  BY <1>1, TypesInvariant, RegisteredStep, PTL DEF Spec

\* Whatever threads race to create a logger, the one they get is the one the registry
\* has under that name.
THEOREM OneLogger == Spec => []OneLoggerPerName
<1>1. Types /\ Registered => OneLoggerPerName
  <2>1. SUFFICES ASSUME Types, Registered PROVE OneLoggerPerName
    OBVIOUS
  <2>2. \A t \in Threads : handle[t] # 0 => loggers[objects[handle[t]].name] = handle[t]
    BY <2>1, TypeFacts DEF Registered
  <2>3. QED
    BY <2>1, <2>2 DEF OneLoggerPerName, Registered
<1>2. QED
  BY <1>1, TypesInvariant, RegisteredInvariant, PTL

-----------------------------------------------------------------------------
(* No logger misses a change of the configuration.                         *)

LEMMA EffectiveUnchanged ==
    ASSUME UNCHANGED configVars
    PROVE  Effective' = Effective
<1>1. \A n \in Names : ComputeEffectiveConfig(n)' = ComputeEffectiveConfig(n)
  BY EffectiveKept
<1>2. QED
  BY <1>1 DEF Effective

\* A logger that a step leaves as it is, and as far from being visited.
LEMMA ConfiguredKept ==
    ASSUME UNCHANGED configVars, NEW i, Configured(i), objects'[i] = objects[i],
           i \in todo => i \in todo', LevelPending(i) => LevelPending(i)'
    PROVE  Configured(i)'
<1>1. Effective' = Effective
  BY EffectiveUnchanged
<1>2. LevelConfigured(i)'
  BY <1>1 DEF Configured, LevelConfigured
<1>3. SinksConfigured(i)'
  BY <1>1 DEF Configured, SinksConfigured
<1>4. QED
  BY <1>2, <1>3 DEF Configured

\* Only the thread in the section comes to ApplySinks.
LEMMA PendingKept ==
    ASSUME Types, NEW t \in Threads, Moves(t), NEW i, LevelPending(i), i \in todo',
           pc'[t] = "apply_sinks" => arg'[t].object # i
    PROVE  LevelPending(i)'
<1>1. \A u \in Threads \ {t} : pc'[u] = pc[u] /\ arg'[u] = arg[u]
  BY OthersStay
<1>2. \A u \in Threads : pc'[u] = "apply_sinks" => arg'[u].object # i
  BY <1>1 DEF LevelPending
<1>3. QED
  BY <1>2 DEF LevelPending

LEMMA ConfigStep ==
    ASSUME Types, Types', Registered, ConfigInv, [Next]_vars
    PROVE  ConfigInv'
<1>0. LockTypes /\ LockTypes' /\ NoThread \notin Threads
  BY TypeParts, RegistryAssumption DEF Types
<1>1. ASSUME UNCHANGED vars PROVE ConfigInv'
  <2>1. ASSUME NEW i \in DOMAIN objects PROVE Configured(i)'
    <3>1. UNCHANGED configVars /\ objects'[i] = objects[i] /\ todo' = todo
          /\ (LevelPending(i) => LevelPending(i)')
      BY <1>1 DEF vars, registryVars, lockVars, LevelPending
    <3>2. Configured(i)
      BY DEF ConfigInv
    <3>3. QED
      BY <3>1, <3>2, ConfiguredKept
  <2>2. QED
    BY <1>1, <2>1 DEF ConfigInv, vars, registryVars
<1>2. ASSUME NEW t \in Threads, Reconfigures(t) PROVE ConfigInv'
  <2>1. /\ writer' = t /\ todo' = {loggers[n] : n \in Names} \ {0}
        /\ UNCHANGED objects /\ pc'[t] = "apply"
    BY <1>0, <1>2 DEF Reconfigures, Lock, LockTypes
  <2>2. \A u \in Threads : pc'[u] # "apply_sinks"
    BY <1>0, <2>1 DEF LockTypes
  <2>3. ASSUME NEW i \in DOMAIN objects PROVE Configured(i)'
    <3>1. objects[i].name \in Names /\ loggers[objects[i].name] = i /\ i # 0
      BY TypeFacts DEF Registered, LoggerType
    <3>2. i \in todo'
      BY <2>1, <3>1
    <3>3. QED
      BY <2>2, <3>2 DEF Configured, LevelConfigured, SinksConfigured, LevelPending
  <2>4. QED
    BY <2>1, <2>3 DEF ConfigInv
<1>3. ASSUME NEW t \in Threads, UNCHANGED <<configVars, lockVars, objects>>, Moves(t),
             pc'[t] # "apply_sinks"
      PROVE  ConfigInv'
  <2>1. ASSUME NEW i \in DOMAIN objects PROVE Configured(i)'
    <3>1. UNCHANGED configVars /\ objects'[i] = objects[i] /\ todo' = todo
      BY <1>3 DEF lockVars
    <3>2. LevelPending(i) => LevelPending(i)'
      BY <1>3, <3>1, PendingKept DEF LevelPending
    <3>3. Configured(i)
      BY DEF ConfigInv
    <3>4. QED
      BY <3>1, <3>2, <3>3, ConfiguredKept
  <2>2. QED
    BY <1>3, <2>1 DEF ConfigInv
<1>4. ASSUME NEW t \in Threads, Obtains(t) \/ Sets(t) \/ Logs(t) PROVE ConfigInv'
  <2>1. Moves(t) /\ UNCHANGED registryVars /\ pc[t] = "ready"
    BY <1>4 DEF Moves, Obtains, Sets, Logs, GetOrCreate, SetLogger, Log, Begin
  <2>2. pc'[t] # "apply_sinks"
    BY <1>0, <2>1 DEF LockTypes, registryVars, lockVars, Unlocked
  <2>3. QED
    BY <1>3, <2>1, <2>2 DEF registryVars
<1>5. ASSUME NEW t \in Threads, Snapshot(t) \/ Dispatch(t) \/ LogReturn(t) PROVE ConfigInv'
  <2>1. Moves(t) /\ UNCHANGED registryVars /\ pc[t] \in {"snapshot", "dispatch", "logged"}
    BY <1>5 DEF Moves, Step, Snapshot, Dispatch, LogReturn
  <2>2. pc'[t] # "apply_sinks"
    BY <1>0, <2>1 DEF LockTypes, registryVars, lockVars, Unlocked
  <2>3. QED
    BY <1>3, <2>1, <2>2 DEF registryVars
<1>6. ASSUME NEW t \in Threads, ApplyRuntimeMin(t) PROVE ConfigInv'
  <2>1. PICK i \in todo :
            /\ StoreRuntimeMin(i, ComputeEffectiveConfig(objects[i].name).runtimeMin, FALSE)
            /\ arg' = [arg EXCEPT ![t] = [op |-> "apply", object |-> i]]
    BY <1>6 DEF ApplyRuntimeMin
  <2>2. i \in DOMAIN objects /\ arg'[t].object = i
    BY <1>0, <2>1 DEF LockTypes, Types
  <2>3. UNCHANGED configVars /\ todo' = todo /\ Effective' = Effective /\ Moves(t)
    BY <1>6, EffectiveUnchanged DEF ApplyRuntimeMin, lockVars, Moves, Step
  <2>4. DOMAIN objects' = DOMAIN objects
    BY <2>1, <2>2, LevelStored, TypeFacts DEF Types
  <2>5. ASSUME NEW j \in DOMAIN objects, j # i PROVE Configured(j)'
    <3>1. objects'[j] = objects[j]
      BY <2>1, <2>2, <2>5, LevelStored, TypeFacts DEF Types
    <3>2. LevelPending(j) => LevelPending(j)'
      BY <2>2, <2>3, <2>5, PendingKept DEF LevelPending
    <3>3. Configured(j)
      BY DEF ConfigInv
    <3>4. QED
      BY <2>3, <3>1, <3>2, <3>3, ConfiguredKept
  <2>6. Configured(i)'
    <3>1. /\ objects'[i].runtimeMin = ComputeEffectiveConfig(objects[i].name).runtimeMin
          /\ objects'[i].name = objects[i].name /\ objects'[i].sinks = objects[i].sinks
          /\ objects'[i].sinksAlone = objects[i].sinksAlone
      BY <2>1, <2>2, LevelStored, TypeFacts DEF Types
    <3>2. objects[i].name \in Names
      BY <2>2, TypeFacts DEF LoggerType
    <3>3. LevelConfigured(i)'
      BY <2>3, <3>1, <3>2 DEF LevelConfigured, Effective
    <3>4. SinksConfigured(i)
      BY <2>2 DEF ConfigInv, Configured
    <3>5. SinksConfigured(i)'
      BY <2>3, <3>1, <3>4 DEF SinksConfigured
    <3>6. QED
      BY <3>3, <3>5 DEF Configured
  <2>7. QED
    BY <2>4, <2>5, <2>6 DEF ConfigInv
<1>7. ASSUME NEW t \in Threads, ApplySinks(t) PROVE ConfigInv'
  <2>0. PICK i : i = arg[t].object
    OBVIOUS
  <2>1. /\ pc[t] = "apply_sinks" /\ todo' = todo \ {i} /\ UNCHANGED configVars
        /\ StoreSinks(i, ComputeEffectiveConfig(objects[i].name).sinks, FALSE)
        /\ pc'[t] = "apply" /\ Moves(t)
    BY <1>0, <1>7, <2>0 DEF ApplySinks, LockTypes, Moves, Step
  <2>2. i \in DOMAIN objects
    BY <1>0, <2>0, <2>1 DEF LockTypes, Types, ArgOK
  <2>3. Effective' = Effective
    BY <2>1, EffectiveUnchanged
  <2>4. DOMAIN objects' = DOMAIN objects
    BY <2>1, <2>2, SinksStored, TypeFacts DEF Types
  <2>5. ASSUME NEW j \in DOMAIN objects, j # i PROVE Configured(j)'
    <3>1. objects'[j] = objects[j]
      BY <2>1, <2>2, <2>5, SinksStored, TypeFacts DEF Types
    <3>2. LevelPending(j) => LevelPending(j)'
      BY <2>1, <2>5, PendingKept DEF LevelPending
    <3>3. Configured(j)
      BY DEF ConfigInv
    <3>4. QED
      BY <2>1, <2>5, <3>1, <3>2, <3>3, ConfiguredKept
  <2>6. Configured(i)'
    <3>1. /\ objects'[i].sinks = ComputeEffectiveConfig(objects[i].name).sinks
          /\ objects'[i].name = objects[i].name /\ objects'[i].runtimeMin = objects[i].runtimeMin
          /\ objects'[i].levelAlone = objects[i].levelAlone
      BY <2>1, <2>2, SinksStored, TypeFacts DEF Types
    <3>2. objects[i].name \in Names
      BY <2>2, TypeFacts DEF LoggerType
    <3>3. SinksConfigured(i)'
      BY <2>3, <3>1, <3>2 DEF SinksConfigured, Effective
    <3>4. LevelConfigured(i) /\ ~LevelPending(i)
      BY <2>0, <2>1, <2>2 DEF ConfigInv, Configured, LevelConfigured, LevelPending
    <3>5. LevelConfigured(i)'
      BY <2>3, <3>1, <3>4 DEF LevelConfigured
    <3>6. QED
      BY <3>3, <3>5 DEF Configured
  <2>7. QED
    BY <2>4, <2>5, <2>6 DEF ConfigInv
<1>8. ASSUME NEW t \in Threads, Unlock(t) PROVE ConfigInv'
  <2>1. /\ pc'[t] = "ready" /\ todo' = todo /\ UNCHANGED <<configVars, objects>> /\ Moves(t)
    BY <1>0, <1>8 DEF Unlock, LockTypes, Moves, Step
  <2>2. ASSUME NEW i \in DOMAIN objects PROVE Configured(i)'
    <3>1. LevelPending(i) => LevelPending(i)'
      BY <2>1, PendingKept DEF LevelPending
    <3>2. Configured(i)
      BY DEF ConfigInv
    <3>3. QED
      BY <2>1, <3>1, <3>2, ConfiguredKept
  <2>3. QED
    BY <2>1, <2>2 DEF ConfigInv
<1>9. ASSUME NEW t \in Threads, Store(t) PROVE ConfigInv'
  <2>0. PICK i : i = arg[t].object
    OBVIOUS
  <2>1. /\ pc[t] = "store" /\ i \in DOMAIN objects /\ UNCHANGED configVars
        /\ todo' = todo /\ pc'[t] = "ready" /\ Moves(t)
    BY <1>0, <1>9, <2>0 DEF Types, ArgOK, Store, Return, LockTypes, lockVars, Moves, Step
  <2>2. \A j : LevelPending(j) => LevelPending(j)'
    BY <2>1, PendingKept DEF LevelPending
  <2>3. Effective' = Effective
    BY <2>1, EffectiveUnchanged
  <2>4. \A j \in DOMAIN objects : j # i => objects'[j] = objects[j]
    <3>1. CASE arg[t].op = "SetLoggerRuntimeMin" /\ StoreRuntimeMin(i, arg[t].value, TRUE)
      <4>1. arg[t].value \in Levels
        BY <2>1, <3>1 DEF Types, ArgOK
      <4>2. QED
        BY <2>1, <3>1, <4>1, LevelStored DEF Types
    <3>2. CASE arg[t].op = "ReplaceLoggerSinks" /\ StoreSinks(i, arg[t].value, TRUE)
      <4>1. arg[t].value \in SinkSets
        BY <2>1, <3>2 DEF Types, ArgOK
      <4>2. QED
        BY <2>1, <3>2, <4>1, SinksStored DEF Types
    <3>3. QED
      BY <1>9, <2>0, <3>1, <3>2 DEF Store
  <2>5. DOMAIN objects' = DOMAIN objects /\ Configured(i)'
    <3>1. CASE arg[t].op = "SetLoggerRuntimeMin" /\ StoreRuntimeMin(i, arg[t].value, TRUE)
      <4>1. arg[t].value \in Levels
        BY <2>1, <3>1 DEF Types, ArgOK
      <4>2. /\ DOMAIN objects' = DOMAIN objects /\ objects'[i].levelAlone = TRUE
            /\ objects'[i].name = objects[i].name /\ objects'[i].sinks = objects[i].sinks
            /\ objects'[i].sinksAlone = objects[i].sinksAlone
        BY <2>1, <3>1, <4>1, LevelStored, TypeFacts DEF Types
      <4>3. SinksConfigured(i)
        BY <2>1 DEF ConfigInv, Configured
      <4>4. SinksConfigured(i)'
        BY <2>1, <2>3, <4>2, <4>3 DEF SinksConfigured
      <4>5. LevelConfigured(i)'
        BY <4>2 DEF LevelConfigured
      <4>6. QED
        BY <4>2, <4>4, <4>5 DEF Configured
    <3>2. CASE arg[t].op = "ReplaceLoggerSinks" /\ StoreSinks(i, arg[t].value, TRUE)
      <4>1. arg[t].value \in SinkSets
        BY <2>1, <3>2 DEF Types, ArgOK
      <4>2. /\ DOMAIN objects' = DOMAIN objects /\ objects'[i].sinksAlone = TRUE
            /\ objects'[i].name = objects[i].name /\ objects'[i].runtimeMin = objects[i].runtimeMin
            /\ objects'[i].levelAlone = objects[i].levelAlone
        BY <2>1, <3>2, <4>1, SinksStored, TypeFacts DEF Types
      <4>3. LevelConfigured(i)
        BY <2>1 DEF ConfigInv, Configured
      <4>4. LevelConfigured(i)'
        BY <2>2, <2>3, <4>2, <4>3 DEF LevelConfigured
      <4>5. SinksConfigured(i)'
        BY <4>2 DEF SinksConfigured
      <4>6. QED
        BY <4>2, <4>4, <4>5 DEF Configured
    <3>3. QED
      BY <1>9, <2>0, <3>1, <3>2 DEF Store
  <2>6. ASSUME NEW j \in DOMAIN objects, j # i PROVE Configured(j)'
    <3>1. Configured(j)
      BY DEF ConfigInv
    <3>2. QED
      BY <2>1, <2>2, <2>4, <2>6, <3>1, ConfiguredKept
  <2>7. QED
    BY <2>5, <2>6 DEF ConfigInv
<1>10. ASSUME NEW t \in Threads, Create(t) PROVE ConfigInv'
  <2>1. UNCHANGED <<configVars, lockVars>> /\ pc'[t] = "ready" /\ Moves(t)
    BY <1>0, <1>10 DEF Create, Return, LockTypes, Moves, Step
  <2>2. CASE loggers[arg[t].name] # 0
    BY <1>3, <1>10, <2>1, <2>2 DEF Create, StillMissing
  <2>3. CASE loggers[arg[t].name] = 0
    <3>0. PICK name, new : name = arg[t].name /\ new = Len(objects) + 1
      OBVIOUS
    <3> DEFINE config == ComputeEffectiveConfig(name)
    <3>1. /\ name \in Names /\ DOMAIN objects' = DOMAIN objects \cup {new}
          /\ \A i \in DOMAIN objects : objects'[i] = objects[i]
          /\ objects'[new] = NewLogger(name, arg[t].runtimeMin)
      BY <1>10, <2>3, <3>0, Created
    <3>2. Effective' = Effective /\ Effective[name] = config
      BY <2>1, <3>1, EffectiveUnchanged DEF Effective
    <3>3. /\ objects'[new].name = name /\ objects'[new].sinks = config.sinks
          /\ objects'[new].levelAlone \/ objects'[new].runtimeMin = config.runtimeMin
      <4>1. /\ NewLogger(name, arg[t].runtimeMin).name = name
            /\ NewLogger(name, arg[t].runtimeMin).sinks = config.sinks
            /\ \/ NewLogger(name, arg[t].runtimeMin).levelAlone
               \/ NewLogger(name, arg[t].runtimeMin).runtimeMin = config.runtimeMin
        BY DEF NewLogger
      <4>2. QED
        BY <3>1, <4>1
    <3>4. Configured(new)'
      BY <3>2, <3>3 DEF Configured, LevelConfigured, SinksConfigured
    <3>5. ASSUME NEW i \in DOMAIN objects PROVE Configured(i)'
      <4>1. todo' = todo /\ objects'[i] = objects[i]
        BY <2>1, <3>1 DEF lockVars
      <4>2. LevelPending(i) => LevelPending(i)'
        BY <2>1, <4>1, PendingKept DEF LevelPending
      <4>3. Configured(i)
        BY DEF ConfigInv
      <4>4. QED
        BY <2>1, <4>1, <4>2, <4>3, ConfiguredKept
    <3>6. QED
      BY <3>1, <3>4, <3>5 DEF ConfigInv
  <2>4. QED
    BY <2>2, <2>3
<1>11. QED
  BY <1>1, <1>2, <1>4, <1>5, <1>6, <1>7, <1>8, <1>9, <1>10, NextCases DEF Types, Step

LEMMA ConfigInvariant == Spec => []ConfigInv
<1>1. Init => ConfigInv
  BY DEF Init, ConfigInv
<1>2. QED
  BY <1>1, TypesInvariant, RegisteredInvariant, ConfigStep, PTL DEF Spec

\* Whenever no change is being applied, every logger has what the rule with the longest
\* matching prefix and the defaults say, unless it was set alone.
THEOREM NoLoggerMissesAChange == Spec => []ConfigurationApplied
<1>1. Types /\ ConfigInv => ConfigurationApplied
  <2>1. SUFFICES ASSUME Types, ConfigInv, Unlocked, NEW i \in DOMAIN objects
                 PROVE  /\ \A rule \in ToSet(rules) :
                              Governs(rule, objects[i].name) =>
                                  HasConfiguration(objects[i], rule.runtimeMin, rule.sinks)
                        /\ ~(\E rule \in ToSet(rules) : Matches(rule, objects[i].name)) =>
                               HasConfiguration(objects[i], Inherit, Inherit)
    BY DEF ConfigurationApplied
  <2> DEFINE name == objects[i].name
  <2>2. name \in Names /\ todo = {} /\ rules \in Seq(Rules) /\ RulesDistinct
    BY <2>1, TypeFacts DEF Types, TypeOK, LoggerType
  <2>3. /\ \/ objects[i].levelAlone
           \/ objects[i].runtimeMin = ComputeEffectiveConfig(name).runtimeMin
        /\ \/ objects[i].sinksAlone
           \/ objects[i].sinks = ComputeEffectiveConfig(name).sinks
    BY <2>1, <2>2 DEF ConfigInv, Configured, LevelConfigured, SinksConfigured, LevelPending, Effective
  <2> HIDE DEF name
  <2>4. ASSUME NEW rule \in ToSet(rules), Governs(rule, name)
        PROVE  HasConfiguration(objects[i], rule.runtimeMin, rule.sinks)
    <3>1. ComputeEffectiveConfig(name) =
              [runtimeMin |-> Given(rule.runtimeMin, defaultRuntimeMin),
               sinks      |-> Given(rule.sinks, defaultSinks)]
      BY <2>2, <2>4, EffectiveGoverns
    <3>2. QED
      BY <2>3, <3>1 DEF HasConfiguration
  <2>5. ASSUME ~(\E rule \in ToSet(rules) : Matches(rule, name))
        PROVE  HasConfiguration(objects[i], Inherit, Inherit)
    <3>1. ComputeEffectiveConfig(name) =
              [runtimeMin |-> defaultRuntimeMin, sinks |-> defaultSinks]
      BY <2>2, <2>5, EffectiveGoverns
    <3>2. QED
      BY <2>3, <3>1 DEF HasConfiguration, Given
  <2>6. QED
    BY <2>4, <2>5 DEF name
<1>2. QED
  BY <1>1, TypesInvariant, ConfigInvariant, PTL

-----------------------------------------------------------------------------
(* A record goes to one set of sinks.                                      *)

\* The history of a thread only grows while others move.
Remembers(u) ==
    /\ seen[u].levels \subseteq seen'[u].levels /\ seen[u].sinkSets \subseteq seen'[u].sinkSets
    /\ pc[u] = "snapshot" => \/ objects'[handle[u]].sinks \in seen'[u].sinkSets
                             \/ objects'[handle[u]].sinks = objects[handle[u]].sinks

LEMMA LogKept ==
    ASSUME NEW u, LogOK(u), Remembers(u),
           pc'[u] = pc[u], arg'[u] = arg[u], handle'[u] = handle[u]
    PROVE  LogOK(u)'
<1>1. Allowed(u) => Allowed(u)'
  BY DEF Allowed, Remembers
<1>2. QED
  BY <1>1 DEF LogOK, Remembers

LEMMA LogStep ==
    ASSUME Types, Types', LogInv, [Next]_vars
    PROVE  LogInv'
<1>0. LockTypes /\ SeenTypes
  BY TypeParts DEF Types
<1>1. ASSUME UNCHANGED vars PROVE LogInv'
  BY <1>1 DEF LogInv, LogOK, Allowed, vars, registryVars
<1>2. ASSUME NEW t \in Threads, Moves(t), \A u \in Threads \ {t} : Remembers(u), LogOK(t)'
      PROVE  LogInv'
  <2>1. ASSUME NEW u \in Threads, u # t PROVE LogOK(u)'
    BY <1>2, <2>1, OthersStay, LogKept DEF LogInv
  <2>2. QED
    BY <1>2, <2>1 DEF LogInv
<1>3. ASSUME UNCHANGED <<objects, seen>> PROVE \A u : Remembers(u)
  BY <1>3 DEF Remembers
<1>4. \A t : pc'[t] \notin {"snapshot", "dispatch", "logged"} => LogOK(t)'
  BY DEF LogOK
<1>5. ASSUME NEW i \in DOMAIN objects, NEW level \in Levels, NEW alone \in BOOLEAN,
             StoreRuntimeMin(i, level, alone), NEW u \in Threads
      PROVE  Remembers(u)
  <2>1. /\ seen[u].levels \subseteq seen'[u].levels /\ seen'[u].sinkSets = seen[u].sinkSets
        /\ \A j \in DOMAIN objects : objects'[j].sinks = objects[j].sinks
    BY <1>5, LevelStored DEF Types
  <2>2. pc[u] = "snapshot" => handle[u] \in DOMAIN objects
    BY TypeFacts DEF Types, ArgOK
  <2>3. QED
    BY <2>1, <2>2 DEF Remembers
<1>6. ASSUME NEW i \in DOMAIN objects, NEW sinks \in SinkSets, NEW alone \in BOOLEAN,
             StoreSinks(i, sinks, alone), NEW u \in Threads
      PROVE  Remembers(u)
  <2>1. /\ seen'[u].levels = seen[u].levels /\ seen[u].sinkSets \subseteq seen'[u].sinkSets
        /\ (pc[u] \in {"snapshot", "dispatch"} /\ handle[u] = i) => sinks \in seen'[u].sinkSets
        /\ objects'[i].sinks = sinks
        /\ \A j \in DOMAIN objects : j # i => objects'[j] = objects[j]
    BY <1>6, SinksStored DEF Types
  <2>2. pc[u] = "snapshot" => handle[u] \in DOMAIN objects
    BY TypeFacts DEF Types, ArgOK
  <2>3. QED
    BY <2>1, <2>2 DEF Remembers
<1>7. ASSUME NEW t \in Threads, Reconfigures(t) \/ Obtains(t) \/ Sets(t) \/ Unlock(t)
      PROVE  LogInv'
  <2>1. Moves(t) /\ UNCHANGED <<objects, seen>>
    BY <1>7 DEF Moves, Step, Reconfigures, Lock, Obtains, GetOrCreate, Sets, SetLogger, Unlock, registryVars
  <2>2. pc'[t] \in {"ready", "create", "store", "apply"}
    BY <1>0, <1>7 DEF Reconfigures, Lock, Obtains, GetOrCreate, Sets, SetLogger, Unlock, LockTypes, Begin
  <2>3. QED
    BY <1>2, <1>3, <1>4, <2>1, <2>2
<1>8. ASSUME NEW t \in Threads, ApplyRuntimeMin(t) PROVE LogInv'
  <2>1. PICK i \in todo : StoreRuntimeMin(i, ComputeEffectiveConfig(objects[i].name).runtimeMin, FALSE)
    BY <1>8 DEF ApplyRuntimeMin
  <2>2. \A u \in Threads : Remembers(u)
    BY <1>0, <1>5, <2>1, TypeFacts DEF LockTypes
  <2>3. Moves(t) /\ pc'[t] = "apply_sinks"
    BY <1>0, <1>8 DEF Moves, Step, ApplyRuntimeMin, LockTypes
  <2>4. QED
    BY <1>2, <1>4, <2>2, <2>3
<1>9. ASSUME NEW t \in Threads, ApplySinks(t) PROVE LogInv'
  <2>1. PICK i : i = arg[t].object
    OBVIOUS
  <2>2. i \in DOMAIN objects /\ StoreSinks(i, ComputeEffectiveConfig(objects[i].name).sinks, FALSE)
    BY <1>0, <1>9, <2>1 DEF LockTypes, Types, ArgOK, ApplySinks
  <2>3. \A u \in Threads : Remembers(u)
    BY <1>6, <2>2, TypeFacts
  <2>4. Moves(t) /\ pc'[t] = "apply"
    BY <1>0, <1>9 DEF Moves, Step, ApplySinks, LockTypes
  <2>5. QED
    BY <1>2, <1>4, <2>3, <2>4
<1>10. ASSUME NEW t \in Threads, Store(t) PROVE LogInv'
  <2>1. PICK i : i = arg[t].object
    OBVIOUS
  <2>2. i \in DOMAIN objects /\ Moves(t) /\ pc'[t] = "ready" /\ pc[t] = "store"
    BY <1>0, <1>10, <2>1 DEF Moves, Step, Store, Return, LockTypes, Types, ArgOK
  <2>3. \A u \in Threads : Remembers(u)
    <3>1. CASE arg[t].op = "SetLoggerRuntimeMin" /\ StoreRuntimeMin(i, arg[t].value, TRUE)
      <4>1. arg[t].value \in Levels
        BY <2>2, <3>1 DEF Types, ArgOK
      <4>2. QED
        BY <1>5, <2>2, <3>1, <4>1
    <3>2. CASE arg[t].op = "ReplaceLoggerSinks" /\ StoreSinks(i, arg[t].value, TRUE)
      <4>1. arg[t].value \in SinkSets
        BY <2>2, <3>2 DEF Types, ArgOK
      <4>2. QED
        BY <1>6, <2>2, <3>2, <4>1
    <3>3. QED
      BY <1>10, <2>1, <3>1, <3>2 DEF Store
  <2>4. QED
    BY <1>2, <1>4, <2>2, <2>3
<1>11. ASSUME NEW t \in Threads, Create(t) PROVE LogInv'
  <2>1. Moves(t) /\ pc'[t] = "ready" /\ UNCHANGED seen
    BY <1>0, <1>11 DEF Moves, Step, Create, Return, LockTypes
  <2>2. \A i \in DOMAIN objects : objects'[i] = objects[i]
    BY <1>11, Created DEF Create, StillMissing
  <2>3. ASSUME NEW u \in Threads PROVE Remembers(u)
    <3>1. pc[u] = "snapshot" => handle[u] \in DOMAIN objects
      BY TypeFacts DEF Types, ArgOK
    <3>2. QED
      BY <2>1, <2>2, <3>1 DEF Remembers
  <2>4. QED
    BY <1>2, <1>4, <2>1, <2>3
<1>12. ASSUME NEW t \in Threads, Logs(t) PROVE LogInv'
  <2>1. PICK level \in Levels : Log(t, level)
    BY <1>12 DEF Logs
  <2> DEFINE logger == objects[handle[t]]
  <2>2. /\ handle[t] # 0 /\ UNCHANGED <<objects, handle>>
        /\ seen' = [seen EXCEPT ![t] = [levels |-> {logger.runtimeMin}, sinkSets |-> {logger.sinks}]]
        /\ pc' = [pc EXCEPT ![t] = IF IsRuntimeEnabled(level, logger.runtimeMin)
                                   THEN "snapshot" ELSE "logged"]
        /\ arg' = [arg EXCEPT ![t] = [op |-> "Log", level |-> level, sinks |-> <<>>, given |-> <<>>]]
    BY <2>1 DEF Log, registryVars
  <2>3. /\ seen'[t] = [levels |-> {logger.runtimeMin}, sinkSets |-> {logger.sinks}]
        /\ pc'[t] = IF IsRuntimeEnabled(level, logger.runtimeMin) THEN "snapshot" ELSE "logged"
        /\ arg'[t].level = level /\ arg'[t].given = <<>>
        /\ objects'[handle'[t]] = logger
    BY <1>0, <2>2 DEF LockTypes, SeenTypes, Types
  <2>4. level \in 0 .. 6 /\ logger.runtimeMin \in 0 .. 6
    <3>1. logger.runtimeMin \in Levels /\ Levels \subseteq 0 .. 6
      BY <2>2, TypeFacts, RegistryAssumption DEF LoggerType, Off
    <3>2. QED
      BY <2>1, <3>1
  <2>5. LogOK(t)'
    <3>1. CASE IsRuntimeEnabled(level, logger.runtimeMin)
      BY <2>3, <3>1 DEF LogOK, Allowed
    <3>2. CASE ~IsRuntimeEnabled(level, logger.runtimeMin)
      <4>1. level < logger.runtimeMin \/ level = Off
        <5> DEFINE minimum == logger.runtimeMin
        <5> HIDE DEF minimum
        <5>1. level \in 0 .. 6 /\ minimum \in 0 .. 6 /\ ~(level >= minimum /\ level # Off)
          BY <2>4, <3>2 DEF IsRuntimeEnabled, minimum
        <5>2. level < minimum \/ level = Off
          BY <5>1
        <5>3. QED
          BY <5>2 DEF minimum
      <4>2. QED
        BY <2>3, <3>2, <4>1 DEF LogOK
    <3>3. QED
      BY <3>1, <3>2
  <2>6. \A u \in Threads \ {t} : Remembers(u)
    BY <1>0, <2>2 DEF Remembers, SeenTypes
  <2>7. QED
    BY <1>2, <1>12, <2>5, <2>6 DEF Moves
<1>13. ASSUME NEW t \in Threads, Snapshot(t) PROVE LogInv'
  <2> DEFINE sinks == objects[handle[t]].sinks
  <2>1. /\ pc[t] = "snapshot" /\ UNCHANGED <<objects, seen>> /\ Moves(t)
        /\ arg'[t] = [arg[t] EXCEPT !.sinks = sinks]
        /\ pc'[t] = IF sinks = <<>> THEN "logged" ELSE "dispatch"
    BY <1>0, <1>13 DEF Moves, Step, Snapshot, LockTypes, Types, registryVars
  <2>2. /\ Allowed(t) /\ sinks \in seen[t].sinkSets /\ arg[t].given = <<>> /\ arg[t] \in LogArg
    BY <2>1 DEF LogInv, LogOK, Types, ArgOK
  <2>3. arg'[t].sinks = sinks /\ arg'[t].given = <<>> /\ arg'[t].level = arg[t].level
    BY <2>1, <2>2 DEF LogArg
  <2>4. Allowed(t)'
    BY <2>1, <2>2, <2>3 DEF Allowed
  <2> HIDE DEF sinks
  <2>5. LogOK(t)'
    <3>1. \A k \in 1 .. Len(arg'[t].given) : FALSE
      BY <2>3
    <3>2. QED
      BY <2>1, <2>2, <2>3, <2>4, <3>1 DEF LogOK
  <2>6. QED
    BY <1>2, <1>3, <2>1, <2>5
<1>14. ASSUME NEW t \in Threads, Dispatch(t) PROVE LogInv'
  <2> DEFINE given == arg[t].given
             sinks == arg[t].sinks
             n     == Len(given) + 1
  <2>1. /\ pc[t] = "dispatch" /\ UNCHANGED <<objects, seen>> /\ Moves(t)
        /\ arg'[t] = [arg[t] EXCEPT !.given = Append(given, sinks[n])]
        /\ pc'[t] = IF n = Len(sinks) THEN "logged" ELSE "dispatch"
    BY <1>0, <1>14 DEF Moves, Step, Dispatch, LockTypes, Types, registryVars
  <2>2. /\ Allowed(t) /\ sinks \in seen[t].sinkSets /\ arg[t] \in LogArg
        /\ Len(given) < Len(sinks) /\ \A k \in 1 .. Len(given) : given[k] = sinks[k]
    BY <2>1 DEF LogInv, LogOK, Types, ArgOK
  <2>3. given \in Seq(Sinks) /\ sinks \in Seq(Sinks)
    BY <2>2, RegistryAssumption DEF LogArg
  <2>4. /\ arg'[t].sinks = sinks /\ arg'[t].given = Append(given, sinks[n])
        /\ arg'[t].level = arg[t].level
    BY <2>1, <2>2 DEF LogArg
  <2>5. Allowed(t)'
    BY <2>1, <2>2, <2>4 DEF Allowed
  <2> HIDE DEF given, sinks
  <2>6. /\ Append(given, sinks[n]) \in Seq(Sinks) /\ Len(Append(given, sinks[n])) = n
        /\ \A k \in 1 .. n : Append(given, sinks[n])[k] = sinks[k]
    <3>1. n \in 1 .. Len(sinks) /\ sinks[n] \in Sinks
      BY <2>2, <2>3
    <3> DEFINE sink == sinks[n]
    <3> HIDE DEF sink
    <3>2. /\ Append(given, sink) \in Seq(Sinks) /\ Len(Append(given, sink)) = n
          /\ \A k \in 1 .. n : Append(given, sink)[k] = IF k = n THEN sink ELSE given[k]
      BY <2>3, <3>1 DEF sink
    <3>3. \A k \in 1 .. n : k = n \/ k \in 1 .. Len(given)
      BY <2>3
    <3>4. QED
      BY <2>2, <3>2, <3>3 DEF sink
  <2>7. CASE n = Len(sinks)
    <3>1. Append(given, sinks[n]) = sinks
      <4> DEFINE after == Append(given, sinks[n])
      <4> HIDE DEF after
      <4>1. /\ after \in Seq(Sinks) /\ Len(after) = Len(sinks)
            /\ \A k \in 1 .. Len(sinks) : after[k] = sinks[k]
        BY <2>6, <2>7 DEF after
      <4>2. after = sinks
        BY <2>3, <4>1
      <4>3. QED
        BY <4>2 DEF after
    <3>2. LogOK(t)'
      BY <2>1, <2>2, <2>4, <2>5, <2>7, <3>1 DEF LogOK
    <3>3. QED
      BY <1>2, <1>3, <2>1, <3>2
  <2>8. CASE n # Len(sinks)
    <3>1. LogOK(t)'
      BY <2>1, <2>2, <2>4, <2>5, <2>6, <2>8 DEF LogOK
    <3>2. QED
      BY <1>2, <1>3, <2>1, <3>1
  <2>9. QED
    BY <2>7, <2>8
<1>15. ASSUME NEW t \in Threads, LogReturn(t) PROVE LogInv'
  <2>1. /\ Moves(t) /\ pc'[t] = "ready" /\ UNCHANGED objects
        /\ seen' = [seen EXCEPT ![t] = NothingSeen]
    BY <1>0, <1>15 DEF Moves, Step, LogReturn, Return, LockTypes, registryVars
  <2>2. \A u \in Threads \ {t} : Remembers(u)
    BY <1>0, <2>1 DEF Remembers, SeenTypes
  <2>3. QED
    BY <1>2, <1>4, <2>1, <2>2
<1>16. QED
  BY <1>1, <1>7, <1>8, <1>9, <1>10, <1>11, <1>12, <1>13, <1>14, <1>15, NextCases
     DEF Types, Step

\* Whatever changes while a record is brought to the sinks, it goes to all the sinks of
\* one set its logger had during the call, in their order, and only if a level the logger
\* had during the call lets it.
THEOREM OneSinkSet == Spec => []RecordGoesToOneSinkSet
<1>1. Init => LogInv
  BY DEF Init, LogInv, LogOK
<1>2. LogInv => RecordGoesToOneSinkSet
  BY DEF LogInv, LogOK, Allowed, RecordGoesToOneSinkSet
<1>3. QED
  BY <1>1, <1>2, TypesInvariant, LogStep, PTL DEF Spec
=============================================================================
