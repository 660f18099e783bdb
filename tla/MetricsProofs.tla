---------------------------- MODULE MetricsProofs ----------------------------
(***************************************************************************)
(* Proofs about Metrics, for every training, window and threshold.          *)
(*                                                                         *)
(* What the probes look at is defined by recursion over a log, so most of   *)
(* it rests on induction over the natural numbers.  It is used here as a    *)
(* fact about sets (Induction), a consequence of the well-foundedness of    *)
(* Nat, since a theorem about every predicate could not be instantiated.    *)
(***************************************************************************)
EXTENDS Metrics, WellFoundedInduction, TLAPS

------------------------------------------------------------------------------
(* Induction *)

\* A set of naturals that is not empty has a least element.
LEMMA LeastElement ==
  ASSUME NEW T \in SUBSET Nat, T # {}
  PROVE  \E m \in T : \A k \in T : m <= k
<1>1. PICK m \in T : \A k \in T : ~(<<k, m>> \in OpToRel(<, Nat))
  BY NatLessThanWellFounded, WFMin
<1>2. \A k \in T : ~(k < m)
  BY <1>1 DEF OpToRel
<1> QED BY <1>2

\* A set that holds 0, and n + 1 for each n it holds, holds every natural number.
LEMMA Induction ==
  ASSUME NEW T, 0 \in T, \A n \in Nat : n \in T => n + 1 \in T
  PROVE  \A n \in Nat : n \in T
<1> SUFFICES ASSUME NEW n \in Nat, n \notin T PROVE FALSE
  OBVIOUS
<1> DEFINE B == {k \in Nat : k \notin T}
<1>1. PICK m \in B : \A k \in B : m <= k
  BY LeastElement
<1>2. m - 1 \in Nat /\ m - 1 \notin B
  BY <1>1
<1> QED BY <1>1, <1>2

------------------------------------------------------------------------------
(* Sequences *)

\* An element of a sequence is one of its values.
LEMMA ElementOf ==
  ASSUME NEW S, NEW s \in Seq(S), NEW i \in 1..Len(s)
  PROVE  s[i] \in S
OBVIOUS

\* Append puts its value at the end and leaves the others where they are.
LEMMA Appended ==
  ASSUME NEW S, NEW s \in Seq(S), NEW e \in S
  PROVE  /\ Append(s, e) \in Seq(S)
         /\ Len(Append(s, e)) = Len(s) + 1
         /\ \A i \in 1..Len(s) : Append(s, e)[i] = s[i]
         /\ Append(s, e)[Len(s) + 1] = e
OBVIOUS

\* The maximum of a set that has one.
LEMMA MaxOf ==
  ASSUME NEW S \in SUBSET Int, NEW x \in S, \A y \in S : x >= y
  PROVE  Max(S) = x
<1>1. Max(S) \in S /\ \A y \in S : Max(S) >= y
  BY DEF Max
<1>2. Max(S) \in Int /\ x \in Int
  BY <1>1
<1>3. Max(S) >= x /\ x >= Max(S)
  BY <1>1
<1> QED BY <1>2, <1>3

\* LastOf keeps the n latest values, or all of them where there are fewer.
LEMMA Latest ==
  ASSUME NEW S, NEW s \in Seq(S), NEW n \in Nat \ {0}
  PROVE  /\ LastOf(s, n) \in Seq(S)
         /\ Len(LastOf(s, n)) = IF Len(s) < n THEN Len(s) ELSE n
         /\ \A i \in 1..Len(LastOf(s, n)) :
               LastOf(s, n)[i] = s[Len(s) - Len(LastOf(s, n)) + i]
<1> DEFINE from == IF Len(s) < n THEN 1 ELSE Len(s) - n + 1
<1>1. Len(s) \in Nat /\ from \in Nat \ {0}
  OBVIOUS
<1>2. /\ {1, Len(s) - n + 1} \in SUBSET Int
      /\ from \in {1, Len(s) - n + 1}
      /\ \A y \in {1, Len(s) - n + 1} : from >= y
  BY <1>1
<1>3. Max({1, Len(s) - n + 1}) = from
  BY <1>2, MaxOf
<1>4. LastOf(s, n) = SubSeq(s, from, Len(s))
  BY <1>3 DEF LastOf
<1> HIDE DEF from
<1>5. /\ SubSeq(s, from, Len(s)) \in Seq(S)
      /\ Len(SubSeq(s, from, Len(s))) = IF from <= Len(s) THEN Len(s) - from + 1 ELSE 0
      /\ \A i \in 1..Len(s) - from + 1 : SubSeq(s, from, Len(s))[i] = s[from + i - 1]
  BY <1>1
<1>6. /\ from \in Nat \ {0}
      /\ from = IF Len(s) < n THEN 1 ELSE Len(s) - n + 1
  BY <1>1 DEF from
<1>7. Len(LastOf(s, n)) = IF Len(s) < n THEN Len(s) ELSE n
  <2> DEFINE l == Len(s)
             m == Len(SubSeq(s, from, Len(s)))
  <2>1. l \in Nat /\ m = IF from <= l THEN l - from + 1 ELSE 0
    BY <1>1, <1>5
  <2>2. from = IF l < n THEN 1 ELSE l - n + 1
    BY <1>6
  <2> HIDE DEF l, m
  <2>3. m = IF l < n THEN l ELSE n
    BY <2>1, <2>2
  <2> QED BY <1>4, <2>3 DEF l, m
<1>8. ASSUME NEW i \in 1..Len(LastOf(s, n))
      PROVE  LastOf(s, n)[i] = s[Len(s) - Len(LastOf(s, n)) + i]
  <2>1. i \in 1..Len(s) - from + 1 /\ from + i - 1 = Len(s) - Len(LastOf(s, n)) + i
    BY <1>1, <1>6, <1>7
  <2> QED BY <1>4, <1>5, <2>1
<1> QED BY <1>4, <1>5, <1>7, <1>8

\* A window is empty only when nothing was logged.
LEMMA LatestEmpty ==
  ASSUME NEW S, NEW s \in Seq(S), NEW n \in Nat \ {0}
  PROVE  LastOf(s, n) = << >> <=> s = << >>
BY Latest

------------------------------------------------------------------------------
(* The finite values of a log *)

\* Values a log may hold, and the equation by which FiniteOf is computed.
Logged == Int \cup {NaN}

IsFiniteUpTo(f, s) ==
    f = [i \in 0..Len(s) |->
           IF i = 0 THEN << >>
           ELSE IF Finite(s[i]) THEN Append(f[i - 1], s[i]) ELSE f[i - 1]]

LEMMA FiniteUpToStep ==
  ASSUME NEW s, Len(s) \in Nat, NEW f, IsFiniteUpTo(f, s)
  PROVE  /\ f[0] = << >>
         /\ \A i \in 1..Len(s) :
               f[i] = IF Finite(s[i]) THEN Append(f[i - 1], s[i]) ELSE f[i - 1]
<1> DEFINE val(h, i) == IF i = 0 THEN << >>
                        ELSE IF Finite(s[i]) THEN Append(h[i - 1], s[i]) ELSE h[i - 1]
<1>1. f = [i \in 0..Len(s) |-> val(f, i)]
  BY DEF IsFiniteUpTo
<1>2. \A i \in 0..Len(s) : f[i] = val(f, i)
  <2> HIDE DEF val
  <2> QED BY <1>1
<1>3. \A i \in 1..Len(s) : i \in 0..Len(s) /\ i # 0
  OBVIOUS
<1>4. 0 \in 0..Len(s)
  OBVIOUS
<1> QED BY <1>2, <1>3, <1>4

\* The equation has a solution, which lists finite values.
LEMMA FiniteUpToExists ==
  ASSUME NEW s \in Seq(Logged)
  PROVE  \E f : IsFiniteUpTo(f, s) /\ f[Len(s)] \in Seq(Int)
<1> DEFINE n == Len(s)
           Solves(f, m) ==
             /\ f \in [0..m -> Seq(Int)]
             /\ f[0] = << >>
             /\ \A i \in 1..m :
                   f[i] = IF Finite(s[i]) THEN Append(f[i - 1], s[i]) ELSE f[i - 1]
           T == {m \in Nat : m <= n => \E f : Solves(f, m)}
<1>1. 0 \in T
  <2>1. Solves([i \in 0..0 |-> << >>], 0)
    OBVIOUS
  <2> QED BY <2>1
<1>2. ASSUME NEW m \in Nat, m \in T, m + 1 <= n
      PROVE  \E f : Solves(f, m + 1)
  <2>1. \E f : Solves(f, m)
    <3> HIDE DEF Solves
    <3>1. m <= n
      BY <1>2
    <3> QED BY <1>2, <3>1
  <2>8. PICK f : Solves(f, m)
    BY <2>1
  <2> DEFINE e == s[m + 1]
             last == IF Finite(e) THEN Append(f[m], e) ELSE f[m]
             g == [i \in 0..m + 1 |-> IF i = m + 1 THEN last ELSE f[i]]
  <2>2. m + 1 \in 1..n /\ e \in Logged
    BY <1>2, ElementOf
  <2>3. Finite(e) => e \in Int
    BY <2>2 DEF Finite, Logged
  <2>4. f[m] \in Seq(Int)
    BY <2>8
  <2>5. last \in Seq(Int)
    BY <2>3, <2>4
  <2> HIDE DEF last
  <2>6. g \in [0..m + 1 -> Seq(Int)] /\ g[0] = << >>
    BY <2>8, <2>5
  <2>7. ASSUME NEW i \in 1..m + 1
        PROVE  g[i] = IF Finite(s[i]) THEN Append(g[i - 1], s[i]) ELSE g[i - 1]
    <3>1. CASE i = m + 1
      <4>1. g[i] = last /\ g[i - 1] = f[m]
        BY <3>1
      <4> QED BY <3>1, <4>1 DEF last
    <3>2. CASE i # m + 1
      <4>1. i \in 1..m /\ g[i] = f[i] /\ g[i - 1] = f[i - 1]
        BY <3>2
      <4> QED BY <4>1, <2>8
    <3> QED BY <3>1, <3>2
  <2> HIDE DEF g
  <2> QED BY <2>6, <2>7
<1>3. \A m \in Nat : m \in T
  <2> HIDE DEF Solves
  <2>1. \A m \in Nat : m \in T => m + 1 \in T
    BY <1>2
  <2> HIDE DEF T
  <2> QED BY <1>1, <2>1, Induction
<1>4. PICK f : Solves(f, n)
  BY <1>3
<1> DEFINE val(i) == IF i = 0 THEN << >>
                     ELSE IF Finite(s[i]) THEN Append(f[i - 1], s[i]) ELSE f[i - 1]
<1>5. f = [i \in 0..Len(s) |-> val(i)]
  <2>1. \A i \in 0..n : f[i] = val(i)
    <3>1. \A i \in 0..n : i # 0 => i \in 1..n
      OBVIOUS
    <3> QED BY <1>4, <3>1
  <2>2. f = [i \in 0..n |-> f[i]]
    BY <1>4
  <2> HIDE DEF val
  <2> QED BY <2>1, <2>2
<1>6. f[Len(s)] \in Seq(Int)
  BY <1>4
<1> QED BY <1>5, <1>6 DEF IsFiniteUpTo

\* FiniteOf is the last value of any solution: there is only one.
LEMMA FiniteUpToUnique ==
  ASSUME NEW s \in Seq(Logged), NEW t \in Seq(Logged), NEW f, NEW g,
         IsFiniteUpTo(f, s), IsFiniteUpTo(g, t),
         Len(s) <= Len(t), \A i \in 1..Len(s) : s[i] = t[i]
  PROVE  \A i \in 0..Len(s) : f[i] = g[i]
<1> DEFINE T == {m \in Nat : m <= Len(s) => f[m] = g[m]}
<1>1. 0 \in T
  BY DEF IsFiniteUpTo
<1>2. ASSUME NEW m \in Nat, m \in T PROVE m + 1 \in T
  <2> SUFFICES ASSUME m + 1 <= Len(s) PROVE f[m + 1] = g[m + 1]
    OBVIOUS
  <2>1. m + 1 \in 1..Len(s) /\ m + 1 \in 1..Len(t) /\ m + 1 - 1 = m
    OBVIOUS
  <2>2. f[m + 1] = IF Finite(s[m + 1]) THEN Append(f[m], s[m + 1]) ELSE f[m]
    BY <2>1, FiniteUpToStep
  <2>3. g[m + 1] = IF Finite(t[m + 1]) THEN Append(g[m], t[m + 1]) ELSE g[m]
    BY <2>1, FiniteUpToStep
  <2>4. s[m + 1] = t[m + 1] /\ f[m] = g[m]
    BY <1>2, <2>1
  <2> QED BY <2>2, <2>3, <2>4
<1>3. \A m \in Nat : m \in T
  <2> HIDE DEF T
  <2> QED BY <1>1, <1>2, Induction
<1> QED BY <1>3

LEMMA FiniteOfIs ==
  ASSUME NEW s \in Seq(Logged), NEW f, IsFiniteUpTo(f, s)
  PROVE  FiniteOf(s) = f[Len(s)]
<1> DEFINE g == CHOOSE h : IsFiniteUpTo(h, s)
<1>1. IsFiniteUpTo(g, s)
  OBVIOUS
<1>2. FiniteOf(s) = g[Len(s)]
  BY DEF FiniteOf, IsFiniteUpTo
<1> HIDE DEF g
<1>3. Len(s) \in 0..Len(s)
  OBVIOUS
<1> QED BY <1>1, <1>2, <1>3, FiniteUpToUnique

\* FiniteOf along a log: nothing of nothing, and each value adds itself if it is
\* finite and nothing otherwise.
LEMMA FiniteOfEmpty == FiniteOf(<< >>) = << >>
<1>1. << >> \in Seq(Logged) /\ Len(<< >>) = 0
  OBVIOUS
<1>2. PICK f : IsFiniteUpTo(f, << >>)
  BY <1>1, FiniteUpToExists
<1>3. f[0] = << >>
  BY <1>1, <1>2 DEF IsFiniteUpTo
<1> QED BY <1>1, <1>2, <1>3, FiniteOfIs

LEMMA FiniteOfAppend ==
  ASSUME NEW s \in Seq(Logged), NEW e \in Logged
  PROVE  FiniteOf(Append(s, e)) =
           IF Finite(e) THEN Append(FiniteOf(s), e) ELSE FiniteOf(s)
<1> DEFINE t == Append(s, e)
           n == Len(s)
<1>1. /\ t \in Seq(Logged) /\ Len(t) = n + 1 /\ n \in Nat
      /\ \A i \in 1..n : t[i] = s[i]
      /\ t[n + 1] = e
  BY Appended
<1> HIDE DEF t
<1>2. PICK f : IsFiniteUpTo(f, s)
  BY FiniteUpToExists
<1>3. PICK g : IsFiniteUpTo(g, t)
  BY <1>1, FiniteUpToExists
<1>4. f[n] = g[n]
  BY <1>1, <1>2, <1>3, FiniteUpToUnique
<1>5. g[n + 1] = IF Finite(t[n + 1]) THEN Append(g[n], t[n + 1]) ELSE g[n]
  <2>1. n + 1 \in 1..Len(t) /\ n + 1 - 1 = n /\ Len(t) \in Nat
    BY <1>1
  <2> QED BY <1>3, <2>1, FiniteUpToStep
<1>6. FiniteOf(s) = f[n] /\ FiniteOf(t) = g[n + 1]
  BY <1>1, <1>2, <1>3, FiniteOfIs
<1> QED BY <1>1, <1>4, <1>5, <1>6 DEF t

LEMMA FiniteOfType ==
  ASSUME NEW s \in Seq(Logged)
  PROVE  FiniteOf(s) \in Seq(Int)
<1>1. PICK f : IsFiniteUpTo(f, s) /\ f[Len(s)] \in Seq(Int)
  BY FiniteUpToExists
<1> QED BY <1>1, FiniteOfIs

------------------------------------------------------------------------------
(* Type correctness *)

Answers == {"ok", "warn", "fail", "unknown"}

\* A log is a function from the metrics of the training to sequences of their values.
LogOK ==
    /\ logged = [k \in DOMAIN training.logs |-> logged[k]]
    /\ \A k \in DOMAIN training.logs : logged[k] \in Seq(training.logs[k])

MetricsInd == MetricsTypeOK /\ LogOK

\* Whatever a probe is asked about, Judge gives it one of the four answers.
LEMMA JudgeAnswers ==
  ASSUME NEW known, NEW fails, NEW warns
  PROVE  Judge(known, fails, warns) \in Answers
BY DEF Judge, Answers

LEMMA ProbesAnswer == HealthProbes \cup RlProbes \cup SftProbes \subseteq Answers
<1>1. {LossFinite, GradNorm, Throughput} \subseteq Answers
  <2>1. LossFinite \in Answers
    BY DEF LossFinite, Judge, Answers
  <2>2. GradNorm \in Answers
    BY DEF GradNorm, JudgeLatest, Judge, Answers
  <2>3. Throughput \in Answers
    BY DEF Throughput, Judge, Answers
  <2> QED BY <2>1, <2>2, <2>3
<1>2. {RewardStd, KlRef, Entropy, FormatSuccess, RolloutDuration, CompletionLength}
        \subseteq Answers
  <2>1. RewardStd \in Answers
    BY DEF RewardStd, Judge, Answers
  <2>2. KlRef \in Answers
    BY DEF KlRef, Judge, Answers
  <2>3. Entropy \in Answers
    BY DEF Entropy, Judge, Answers
  <2>4. FormatSuccess \in Answers
    BY DEF FormatSuccess, JudgeLatest, Judge, Answers
  <2>5. RolloutDuration \in Answers
    BY DEF RolloutDuration, Judge, Answers
  <2>6. CompletionLength \in Answers
    BY DEF CompletionLength, JudgeLatest, Judge, Answers
  <2> QED BY <2>1, <2>2, <2>3, <2>4, <2>5, <2>6
<1>3. {ClipFraction, VramHeadroom, RewardModel, RewardHacking, ReplDegeneracy}
        \subseteq Answers
  <2>1. ClipFraction \in Answers
    BY DEF ClipFraction, JudgeLatest, Judge, Answers
  <2>2. VramHeadroom \in Answers
    BY DEF VramHeadroom, Judge, Answers
  <2>3. RewardModel \in Answers
    BY DEF RewardModel, Judge, Answers
  <2>4. RewardHacking \in Answers
    BY DEF RewardHacking, Judge, Answers
  <2>5. ReplDegeneracy \in Answers
    BY DEF ReplDegeneracy, Judge, Answers
  <2> QED BY <2>1, <2>2, <2>3, <2>4, <2>5
<1>4. {LossPlateau, ReasoningTokenAccuracy, SequenceLength, PackingEfficiency, HeldOutEval}
        \subseteq Answers
  <2>1. LossPlateau \in Answers
    BY DEF LossPlateau, Judge, Answers
  <2>2. ReasoningTokenAccuracy \in Answers
    BY DEF ReasoningTokenAccuracy, Judge, Answers
  <2>3. SequenceLength \in Answers
    BY DEF SequenceLength, Judge, Answers
  <2>4. PackingEfficiency \in Answers
    BY DEF PackingEfficiency, JudgeLatest, Judge, Answers
  <2>5. HeldOutEval \in Answers
    BY DEF HeldOutEval, Judge, Answers
  <2> QED BY <2>1, <2>2, <2>3, <2>4, <2>5
<1> QED BY <1>1, <1>2, <1>3, <1>4 DEF HealthProbes, RlProbes, SftProbes

LEMMA ProbesAnswerNext == (HealthProbes \cup RlProbes \cup SftProbes \subseteq Answers)'
BY ProbesAnswer, PTL

LEMMA EmptyIn == \A S : << >> \in Seq(S)
OBVIOUS

\* The values of a sequence are those it was made of.
LEMMA ValuesOf ==
  ASSUME NEW S, NEW s \in Seq(S)
  PROVE  ToSet(s) \subseteq S
BY DEF ToSet

LEMMA InitTyped == MetricsInit => MetricsInd
<1> SUFFICES ASSUME MetricsInit PROVE MetricsInd
  OBVIOUS
<1> USE EmptyIn
<1>1. LogOK
  <2>1. \A k \in DOMAIN training.logs : logged[k] = << >>
    BY DEF MetricsInit
  <2>2. logged = [k \in DOMAIN training.logs |-> logged[k]]
    BY <2>1 DEF MetricsInit
  <2> QED BY <2>1, <2>2 DEF LogOK
<1>2. ASSUME NEW k \in DOMAIN logged
      PROVE  Len(logged[k]) <= training.rows[k] /\ ToSet(logged[k]) \subseteq training.logs[k]
  <2>1. logged[k] = << >> /\ k \in DOMAIN training.logs /\ training \in Trainings
    BY <1>2 DEF MetricsInit
  <2>2. training.rows[k] \in Nat
    BY <2>1, MetricsAssumption
  <2>3. Len(logged[k]) = 0
    BY <2>1
  <2>4. ToSet(logged[k]) \subseteq training.logs[k]
    BY <2>1, ValuesOf
  <2> QED BY <2>2, <2>3, <2>4
<1>3. /\ training \in Trainings
      /\ wandbUp \in BOOLEAN
      /\ flat \in Nat /\ sinceBest \in Nat
      /\ DOMAIN logged = DOMAIN training.logs
  BY DEF MetricsInit
<1> QED BY <1>1, <1>2, <1>3, ProbesAnswer DEF MetricsInd, MetricsTypeOK, Answers

\* What a step does to the log: one metric gets one more of its values.
LEMMA LogStep ==
  ASSUME LogOK, NEW k \in DOMAIN training.logs, NEW v \in training.logs[k], LogMetric(k, v)
  PROVE  /\ training' = training /\ wandbUp' = wandbUp
         /\ LogOK'
         /\ logged'[k] = Append(logged[k], v)
         /\ \A j \in DOMAIN training.logs : j # k => logged'[j] = logged[j]
<1>1. /\ training' = training /\ wandbUp' = wandbUp
      /\ logged' = [logged EXCEPT ![k] = Append(@, v)]
  BY DEF LogMetric
<1>2. DOMAIN logged = DOMAIN training.logs
  BY DEF LogOK
<1>3. /\ logged'[k] = Append(logged[k], v)
      /\ \A j \in DOMAIN training.logs : j # k => logged'[j] = logged[j]
  BY <1>1, <1>2
<1>4. logged[k] \in Seq(training.logs[k])
  BY DEF LogOK
<1>5. Append(logged[k], v) \in Seq(training.logs[k])
  BY <1>4, Appended
<1>6. \A j \in DOMAIN training.logs : logged'[j] \in Seq(training.logs[j])
  BY <1>3, <1>5 DEF LogOK
<1>7. logged' = [j \in DOMAIN training.logs |-> logged'[j]]
  BY <1>1, <1>2
<1> QED BY <1>1, <1>3, <1>6, <1>7 DEF LogOK

LEMMA StepTyped == MetricsInd /\ [MetricsNext]_vars => MetricsInd'
<1> SUFFICES ASSUME MetricsInd, [MetricsNext]_vars PROVE MetricsInd'
  OBVIOUS
<1> USE DEF MetricsInd
<1>1. ASSUME NEW k \in DOMAIN training.logs, NEW v \in training.logs[k], LogMetric(k, v)
      PROVE  MetricsInd'
  <2>1. /\ training' = training /\ wandbUp' = wandbUp
        /\ LogOK'
        /\ logged'[k] = Append(logged[k], v)
        /\ \A j \in DOMAIN training.logs : j # k => logged'[j] = logged[j]
    BY <1>1, LogStep
  <2>2. Len(logged[k]) < training.rows[k] /\ logged[k] \in Seq(training.logs[k])
    BY <1>1 DEF LogMetric, LogOK
  <2>3. training.rows[k] \in Nat
    BY MetricsAssumption DEF MetricsTypeOK
  <2>4. Len(logged'[k]) <= training.rows[k]
    BY <2>1, <2>2, <2>3, Appended
  <2>5. DOMAIN logged' = DOMAIN training'.logs
    BY <2>1 DEF LogOK
  <2>6. \A j \in DOMAIN logged' : ToSet(logged'[j]) \subseteq training'.logs[j]
    BY <2>1, <2>5, ValuesOf DEF LogOK
  <2>7. \A j \in DOMAIN logged' : Len(logged'[j]) <= training'.rows[j]
    BY <2>1, <2>4, <2>5 DEF MetricsTypeOK
  <2>8. flat' \in Nat /\ sinceBest' \in Nat
    <3>1. flat' \in {flat, flat + 1, 0} /\ sinceBest' \in {sinceBest, sinceBest + 1, 0}
      BY <1>1 DEF LogMetric
    <3> QED BY <3>1 DEF MetricsTypeOK
  <2>9. training' \in Trainings /\ wandbUp' \in BOOLEAN
    BY <2>1 DEF MetricsTypeOK
  <2> QED BY <2>1, <2>5, <2>6, <2>7, <2>8, <2>9, ProbesAnswerNext DEF MetricsTypeOK, Answers
<1>2. CASE Blink \/ UNCHANGED vars
  <2>1. /\ training' = training /\ logged' = logged /\ flat' = flat
        /\ sinceBest' = sinceBest
        /\ wandbUp' \in BOOLEAN
    BY <1>2 DEF Blink, vars, MetricsTypeOK
  <2> QED BY <2>1, ProbesAnswerNext DEF MetricsTypeOK, LogOK, Answers
<1> QED BY <1>1, <1>2 DEF MetricsNext

\* The logs and histories of a training are well formed, and every probe answers one of
\* the four statuses, whatever it finds.
THEOREM MetricsTyped == MetricsSpec => []MetricsTypeOK
<1>1. MetricsInd => MetricsTypeOK
  BY DEF MetricsInd
<1> QED BY <1>1, InitTyped, StepTyped, PTL DEF MetricsSpec

------------------------------------------------------------------------------
(* What a step does to the series the probes read *)

LEMMA WiderSeq ==
  ASSUME NEW S, NEW T, S \subseteq T, NEW s \in Seq(S)
  PROVE  s \in Seq(T)
OBVIOUS

LEMMA SeriesTyped == MetricsInd => \A k : Series(k) \in Seq(Logged)
<1> SUFFICES ASSUME MetricsInd, NEW k PROVE Series(k) \in Seq(Logged)
  OBVIOUS
<1>1. CASE k \in DOMAIN logged
  <2>1. k \in DOMAIN training.logs /\ logged[k] \in Seq(training.logs[k])
    BY <1>1 DEF MetricsInd, MetricsTypeOK, LogOK
  <2>2. training.logs[k] \subseteq Logged
    BY <2>1, MetricsAssumption DEF MetricsInd, MetricsTypeOK, Logged
  <2> QED BY <1>1, <2>1, <2>2, WiderSeq DEF Series
<1>2. CASE k \notin DOMAIN logged
  BY <1>2, EmptyIn DEF Series
<1> QED BY <1>1, <1>2

LEMMA SeriesStep ==
  ASSUME MetricsInd,
         NEW k \in DOMAIN training.logs, NEW v \in training.logs[k], LogMetric(k, v)
  PROVE  /\ v \in Logged
         /\ Series(k)' = Append(Series(k), v)
         /\ \A j : j # k => Series(j)' = Series(j)
<1>1. /\ training' = training
      /\ LogOK'
      /\ logged'[k] = Append(logged[k], v)
      /\ \A j \in DOMAIN training.logs : j # k => logged'[j] = logged[j]
  BY LogStep DEF MetricsInd
<1>2. DOMAIN logged = DOMAIN training.logs /\ DOMAIN logged' = DOMAIN training.logs
  BY <1>1 DEF MetricsInd, MetricsTypeOK, LogOK
<1>3. v \in Logged
  BY MetricsAssumption DEF MetricsInd, MetricsTypeOK, Logged
<1> QED BY <1>1, <1>2, <1>3 DEF Series

\* Every other step leaves all series alone, and the histories kept beside them.
LEMMA QuietStep ==
  ASSUME Blink \/ UNCHANGED vars
  PROVE  /\ \A j : Series(j)' = Series(j)
         /\ \A j : FiniteOf(Series(j))' = FiniteOf(Series(j))
         /\ flat' = flat /\ sinceBest' = sinceBest
<1>1. /\ \A j : Series(j)' = Series(j)
      /\ flat' = flat /\ sinceBest' = sinceBest
  BY DEF Blink, vars, Series
<1>2. ASSUME NEW j PROVE FiniteOf(Series(j))' = FiniteOf(Series(j))
  <2>1. Series(j)' = Series(j)
    BY <1>1
  <2> QED BY <2>1 DEF FiniteOf, Finite
<1> QED BY <1>1, <1>2

\* A probe that has read nothing knows nothing; one that has reads n values or all.
LEMMA SeenIs ==
  ASSUME MetricsInd, NEW k, NEW n \in Nat \ {0}
  PROVE  /\ FiniteOf(Series(k)) \in Seq(Int)
         /\ Seen(k, n) \in Seq(Int)
         /\ Len(Seen(k, n)) = IF Len(FiniteOf(Series(k))) < n
                               THEN Len(FiniteOf(Series(k))) ELSE n
         /\ \A i \in 1..Len(Seen(k, n)) :
               Seen(k, n)[i] =
                 FiniteOf(Series(k))[Len(FiniteOf(Series(k))) - Len(Seen(k, n)) + i]
<1>1. FiniteOf(Series(k)) \in Seq(Int)
  BY SeriesTyped, FiniteOfType
<1> QED BY <1>1, Latest DEF Seen

------------------------------------------------------------------------------
(* A poisoned loss *)

\* A loss that is not finite is followed by no finite one.
PoisonStays ==
    \A i, j \in 1..Len(Series("train/loss")) :
        i < j /\ Series("train/loss")[i] = NaN => Series("train/loss")[j] = NaN

LEMMA InitPoison == MetricsInit => PoisonStays
<1> SUFFICES ASSUME MetricsInit PROVE PoisonStays
  OBVIOUS
<1>1. Series("train/loss") = << >>
  BY DEF MetricsInit, Series
<1>2. Len(Series("train/loss")) = 0
  BY <1>1
<1> QED BY <1>2 DEF PoisonStays

LEMMA StepPoison ==
  MetricsInd /\ PoisonStays /\ [MetricsNext]_vars => PoisonStays'
<1> SUFFICES ASSUME MetricsInd, PoisonStays, [MetricsNext]_vars PROVE PoisonStays'
  OBVIOUS
<1> DEFINE s == Series("train/loss")
<1>1. s \in Seq(Logged)
  BY SeriesTyped
<1>2. ASSUME NEW k \in DOMAIN training.logs, NEW v \in training.logs[k], LogMetric(k, v)
      PROVE  PoisonStays'
  <2>1. CASE k # "train/loss"
    <3>1. s' = s
      BY <1>2, <2>1, SeriesStep
    <3> QED BY <3>1 DEF PoisonStays
  <2>2. CASE k = "train/loss"
    <3>1. v \in Logged /\ s' = Append(s, v)
      BY <1>2, <2>2, SeriesStep
    <3>2. (\E i \in 1..Len(s) : s[i] = NaN) => v = NaN
      BY <1>2, <2>2 DEF LogMetric, Poisoned
    <3>3. /\ Len(s') = Len(s) + 1 /\ Len(s) \in Nat
          /\ \A i \in 1..Len(s) : s'[i] = s[i]
          /\ s'[Len(s) + 1] = v
      BY <1>1, <3>1, Appended
    <3> HIDE DEF s
    <3>4. \A i, j \in 1..Len(s') : i < j /\ s'[i] = NaN => s'[j] = NaN
      <4> SUFFICES ASSUME NEW i \in 1..Len(s'), NEW j \in 1..Len(s'), i < j, s'[i] = NaN
                   PROVE  s'[j] = NaN
        OBVIOUS
      <4>1. i \in 1..Len(s) /\ s[i] = NaN
        BY <3>3
      <4>2. CASE j = Len(s) + 1
        BY <3>2, <3>3, <4>1, <4>2
      <4>3. CASE j \in 1..Len(s)
        BY <3>3, <4>1, <4>3 DEF PoisonStays, s
      <4> QED BY <3>3, <4>2, <4>3
    <3> QED BY <3>4 DEF PoisonStays, s
  <2> QED BY <2>1, <2>2
<1>3. CASE Blink \/ UNCHANGED vars
  BY <1>3, QuietStep DEF PoisonStays
<1> QED BY <1>2, <1>3 DEF MetricsNext

LEMMA LossFiniteFails ==
  LossFinite = "fail" <=>
    /\ wandbUp /\ RawWindow("train/loss", Short) # << >>
    /\ \E i \in 1..Len(RawWindow("train/loss", Short)) :
          RawWindow("train/loss", Short)[i] = NaN
BY DEF LossFinite, Judge, Finite

LEMMA PoisonSeen == MetricsInd /\ PoisonStays => PoisonedRunIsFailed
<1> SUFFICES ASSUME MetricsInd, PoisonStays, wandbUp
             PROVE  Poisoned <=> LossFinite = "fail"
  BY DEF PoisonedRunIsFailed
<1> DEFINE s == Series("train/loss")
           w == RawWindow("train/loss", Short)
<1>1. s \in Seq(Logged) /\ Short \in Nat \ {0}
  BY SeriesTyped, MetricsAssumption
<1>2. /\ w \in Seq(Logged)
      /\ Len(w) = IF Len(s) < Short THEN Len(s) ELSE Short
      /\ \A i \in 1..Len(w) : w[i] = s[Len(s) - Len(w) + i]
  BY <1>1, Latest DEF RawWindow
<1>3. Len(s) \in Nat /\ Len(w) \in Nat /\ (w = << >> <=> Len(w) = 0)
  BY <1>1, <1>2
<1>4. LossFinite = "fail" <=> w # << >> /\ \E i \in 1..Len(w) : w[i] = NaN
  BY LossFiniteFails
<1>5. Poisoned <=> \E i \in 1..Len(s) : s[i] = NaN
  BY DEF Poisoned
<1>6. \A i, j \in 1..Len(s) : i < j /\ s[i] = NaN => s[j] = NaN
  BY DEF PoisonStays
<1> HIDE DEF s, w
<1>7. ASSUME NEW i \in 1..Len(s), s[i] = NaN
      PROVE  w # << >> /\ w[Len(w)] = NaN /\ Len(w) \in 1..Len(w)
  <2>1. Len(w) \in Nat \ {0} /\ Len(w) \in 1..Len(w)
    BY <1>1, <1>2, <1>3
  <2>2. w[Len(w)] = s[Len(s)]
    BY <1>2, <1>3, <2>1
  <2>3. s[Len(s)] = NaN
    BY <1>3, <1>6, <1>7
  <2> QED BY <1>3, <2>1, <2>2, <2>3
<1>8. ASSUME NEW i \in 1..Len(w), w[i] = NaN
      PROVE  \E j \in 1..Len(s) : s[j] = NaN
  <2>1. Len(s) - Len(w) + i \in 1..Len(s)
    BY <1>1, <1>2, <1>3
  <2> QED BY <1>2, <1>8, <2>1
<1> QED BY <1>4, <1>5, <1>7, <1>8

\* From the first loss that is not finite on, the loss probe fails at every poll that
\* W&B answers, and at none before.  What makes it so is that the raw window always
\* holds the latest loss, and that a loss once poisoned stays so.
THEOREM PoisonAlwaysFails == MetricsSpec => []PoisonedRunIsFailed
BY InitTyped, StepTyped, InitPoison, StepPoison, PoisonSeen, PTL DEF MetricsSpec

------------------------------------------------------------------------------
(* A reward std that collapsed *)

\* What was logged of a metric and is finite, as the step before and after sees it.
LEMMA FiniteStep ==
  ASSUME MetricsInd,
         NEW k \in DOMAIN training.logs, NEW v \in training.logs[k], LogMetric(k, v)
  PROVE  /\ Finite(v) => v \in Int
         /\ FiniteOf(Series(k))' = IF Finite(v) THEN Append(FiniteOf(Series(k)), v)
                                   ELSE FiniteOf(Series(k))
         /\ \A j : j # k => FiniteOf(Series(j))' = FiniteOf(Series(j))
<1>1. /\ v \in Logged /\ Series(k) \in Seq(Logged)
      /\ Series(k)' = Append(Series(k), v)
      /\ \A j : j # k => Series(j)' = Series(j)
  BY SeriesStep, SeriesTyped
<1>2. FiniteOf(Append(Series(k), v)) = IF Finite(v) THEN Append(FiniteOf(Series(k)), v)
                                       ELSE FiniteOf(Series(k))
  BY <1>1, FiniteOfAppend
<1>3. FiniteOf(Series(k))' = FiniteOf(Append(Series(k), v))
  BY <1>1 DEF FiniteOf, Finite
<1>4. ASSUME NEW j, j # k PROVE FiniteOf(Series(j))' = FiniteOf(Series(j))
  <2>1. Series(j)' = Series(j)
    BY <1>1, <1>4
  <2> QED BY <2>1 DEF FiniteOf, Finite
<1> QED BY <1>1, <1>2, <1>3, <1>4 DEF Logged, Finite

\* flat counts the collapsed steps at the end of the log, and is cut short by the
\* first that is not collapsed.
FlatCounts(s) ==
    /\ flat <= Len(s)
    /\ \A i \in 1..Len(s) : i > Len(s) - flat => s[i] < Health.reward_std_min
    /\ flat < Len(s) => ~(s[Len(s) - flat] < Health.reward_std_min)

FlatIsTheTail == FlatCounts(FiniteOf(Series("reward/std")))

LEMMA InitFlat == MetricsInit => FlatIsTheTail
<1> SUFFICES ASSUME MetricsInit PROVE FlatIsTheTail
  OBVIOUS
<1>1. Series("reward/std") = << >> /\ flat = 0
  BY DEF MetricsInit, Series
<1>2. FiniteOf(Series("reward/std")) = << >>
  BY <1>1, FiniteOfEmpty
<1> QED BY <1>1, <1>2 DEF FlatIsTheTail, FlatCounts

LEMMA StepFlat ==
  MetricsInd /\ FlatIsTheTail /\ [MetricsNext]_vars => FlatIsTheTail'
<1> SUFFICES ASSUME MetricsInd, FlatIsTheTail, [MetricsNext]_vars PROVE FlatIsTheTail'
  OBVIOUS
<1> DEFINE s == FiniteOf(Series("reward/std"))
           floor == Health.reward_std_min
<1>1. s \in Seq(Int) /\ flat \in Nat /\ floor \in Int
  BY SeriesTyped, FiniteOfType, MetricsAssumption DEF MetricsInd, MetricsTypeOK
<1>2. /\ flat <= Len(s)
      /\ \A i \in 1..Len(s) : i > Len(s) - flat => s[i] < floor
      /\ flat < Len(s) => ~(s[Len(s) - flat] < floor)
  BY DEF FlatIsTheTail, FlatCounts
<1>3. ASSUME NEW k \in DOMAIN training.logs, NEW v \in training.logs[k], LogMetric(k, v)
      PROVE  FlatIsTheTail'
  <2>1. CASE k # "reward/std" \/ ~Finite(v)
    <3>1. s' = s
      BY <1>3, <2>1, FiniteStep
    <3>2. flat' = flat
      BY <1>3, <2>1 DEF LogMetric
    <3> QED BY <3>1, <3>2 DEF FlatIsTheTail, FlatCounts
  <2>2. CASE k = "reward/std" /\ Finite(v)
    <3>1. v \in Int /\ s' = Append(s, v)
      BY <1>3, <2>2, FiniteStep
    <3>2. flat' = IF v < floor THEN flat + 1 ELSE 0
      BY <1>3, <2>2 DEF LogMetric
    <3>3. /\ Len(s') = Len(s) + 1 /\ Len(s) \in Nat
          /\ \A i \in 1..Len(s) : s'[i] = s[i]
          /\ s'[Len(s) + 1] = v
      BY <1>1, <3>1, Appended
    <3> HIDE DEF s, floor
    <3>4. flat' <= Len(s')
      BY <1>1, <1>2, <3>2, <3>3
    <3>5. ASSUME NEW i \in 1..Len(s'), i > Len(s') - flat' PROVE s'[i] < floor
      <4>1. CASE i = Len(s) + 1
        BY <3>2, <3>3, <3>5, <4>1
      <4>2. CASE i # Len(s) + 1
        <5>1. i \in 1..Len(s)
          BY <3>3, <4>2
        <5>2. i > Len(s) - flat
          BY <1>1, <3>2, <3>3, <3>5, <5>1
        <5> QED BY <1>2, <3>3, <5>1, <5>2
      <4> QED BY <4>1, <4>2
    <3>6. ASSUME flat' < Len(s') PROVE ~(s'[Len(s') - flat'] < floor)
      <4>1. CASE v < floor
        <5>1. flat' = flat + 1 /\ flat < Len(s)
          BY <1>1, <3>2, <3>3, <3>6, <4>1
        <5>2. Len(s') - flat' = Len(s) - flat /\ Len(s) - flat \in 1..Len(s)
          BY <1>1, <3>3, <5>1
        <5> QED BY <1>2, <3>3, <5>1, <5>2
      <4>2. CASE ~(v < floor)
        <5>1. flat' = 0 /\ Len(s') - flat' = Len(s) + 1
          BY <3>2, <3>3, <4>2
        <5> QED BY <3>3, <4>2, <5>1
      <4> QED BY <4>1, <4>2
    <3>7. /\ flat' <= Len(s')
          /\ \A i \in 1..Len(s') : i > Len(s') - flat' => s'[i] < floor
          /\ flat' < Len(s') => ~(s'[Len(s') - flat'] < floor)
      BY <3>4, <3>5, <3>6
    <3>8. FlatCounts(s)'
      BY <3>7 DEF FlatCounts, floor
    <3> QED BY <3>8 DEF FlatIsTheTail, s
  <2> QED BY <2>1, <2>2
<1>4. CASE Blink \/ UNCHANGED vars
  <2>1. s' = s /\ flat' = flat
    BY <1>4, QuietStep
  <2> QED BY <2>1 DEF FlatIsTheTail, FlatCounts
<1> QED BY <1>3, <1>4 DEF MetricsNext

LEMMA RewardStdFails ==
  RewardStd = "fail" <=>
    /\ wandbUp /\ Seen("reward/std", Health.reward_std_patience) # << >>
    /\ Len(Seen("reward/std", Health.reward_std_patience)) >= Health.reward_std_patience
    /\ \A i \in 1..Len(Seen("reward/std", Health.reward_std_patience)) :
          Seen("reward/std", Health.reward_std_patience)[i] < Health.reward_std_min
BY DEF RewardStd, Judge

LEMMA FlatSeen == MetricsInd /\ FlatIsTheTail => NoopIsCaught
<1> SUFFICES ASSUME MetricsInd, FlatIsTheTail, wandbUp
             PROVE  RewardStd = "fail" <=> flat >= Health.reward_std_patience
  BY DEF NoopIsCaught
<1> DEFINE s == FiniteOf(Series("reward/std"))
           p == Health.reward_std_patience
           w == Seen("reward/std", p)
           floor == Health.reward_std_min
<1>1. p \in Nat \ {0} /\ floor \in Int
  BY MetricsAssumption
<1>2. /\ s \in Seq(Int) /\ w \in Seq(Int)
      /\ Len(w) = IF Len(s) < p THEN Len(s) ELSE p
      /\ \A i \in 1..Len(w) : w[i] = s[Len(s) - Len(w) + i]
  BY <1>1, SeenIs
<1>3. /\ Len(s) \in Nat /\ Len(w) \in Nat /\ (w = << >> <=> Len(w) = 0)
      /\ flat \in Nat
  BY <1>2 DEF MetricsInd, MetricsTypeOK
<1>4. /\ flat <= Len(s)
      /\ \A i \in 1..Len(s) : i > Len(s) - flat => s[i] < floor
      /\ flat < Len(s) => ~(s[Len(s) - flat] < floor)
  BY DEF FlatIsTheTail, FlatCounts
<1>5. RewardStd = "fail" <=>
        w # << >> /\ Len(w) >= p /\ \A i \in 1..Len(w) : w[i] < floor
  BY RewardStdFails
<1> HIDE DEF s, p, w, floor
<1>6. ASSUME flat >= p
      PROVE  w # << >> /\ Len(w) >= p /\ \A i \in 1..Len(w) : w[i] < floor
  <2>1. Len(w) = p /\ Len(s) >= p
    BY <1>1, <1>2, <1>3, <1>4, <1>6
  <2>2. ASSUME NEW i \in 1..Len(w) PROVE w[i] < floor
    <3>1. Len(s) - Len(w) + i \in 1..Len(s) /\ Len(s) - Len(w) + i > Len(s) - flat
      BY <1>1, <1>3, <1>6, <2>1
    <3> QED BY <1>2, <1>4, <3>1
  <2> QED BY <1>1, <1>3, <2>1, <2>2
<1>7. ASSUME w # << >>, Len(w) >= p, \A i \in 1..Len(w) : w[i] < floor
      PROVE  flat >= p
  <2> SUFFICES ASSUME flat < p PROVE FALSE
    BY <1>1, <1>3
  <2>1. Len(w) = p /\ Len(s) >= p
    BY <1>1, <1>2, <1>3, <1>7
  <2>2. p - flat \in 1..Len(w) /\ Len(s) - Len(w) + (p - flat) = Len(s) - flat
    BY <1>1, <1>3, <2>1
  <2>3. w[p - flat] = s[Len(s) - flat]
    BY <1>2, <2>2
  <2>4. ~(s[Len(s) - flat] < floor)
    BY <1>1, <1>3, <1>4, <2>1
  <2> QED BY <1>7, <2>2, <2>3, <2>4
<1>8. RewardStd = "fail" <=> flat >= p
  BY <1>5, <1>6, <1>7
<1> QED BY <1>8 DEF p

\* The reward_std probe fails exactly when the last reward_std_patience steps whose
\* reward std could be read were all collapsed, however many could not be read in
\* between, for every patience and every floor.
THEOREM NoopAlwaysCaught == MetricsSpec => []NoopIsCaught
BY InitTyped, StepTyped, InitFlat, StepFlat, FlatSeen, PTL DEF MetricsSpec

------------------------------------------------------------------------------
(* Held-out evals that no longer improve *)

\* sinceBest counts back to an eval that is the best of all, ties with later ones
\* excluded: every eval after it is worse.
BestIsAt(s) ==
    /\ sinceBest <= Len(s)
    /\ Len(s) > 0 => sinceBest < Len(s)
    /\ \A i \in 1..Len(s) : i <= Len(s) - sinceBest => s[i] <= s[Len(s) - sinceBest]
    /\ \A i \in 1..Len(s) : i > Len(s) - sinceBest => s[i] < s[Len(s) - sinceBest]

BestIsKnown == BestIsAt(FiniteOf(Series("eval/score")))

LEMMA InitBest == MetricsInit => BestIsKnown
<1> SUFFICES ASSUME MetricsInit PROVE BestIsKnown
  OBVIOUS
<1>1. Series("eval/score") = << >> /\ sinceBest = 0
  BY DEF MetricsInit, Series
<1>2. FiniteOf(Series("eval/score")) = << >>
  BY <1>1, FiniteOfEmpty
<1> QED BY <1>1, <1>2 DEF BestIsKnown, BestIsAt

\* The maximum of the values of a sequence is the one no other exceeds.
LEMMA MaxOfSeq ==
  ASSUME NEW s \in Seq(Int), NEW b \in 1..Len(s), \A i \in 1..Len(s) : s[i] <= s[b]
  PROVE  Max(ToSet(s)) = s[b]
<1>1. \A i \in 1..Len(s) : s[i] \in Int
  BY ElementOf
<1>2. ToSet(s) = {s[i] : i \in 1..Len(s)}
  BY DEF ToSet
<1>3. ToSet(s) \in SUBSET Int
  BY <1>1, <1>2
<1>4. s[b] \in ToSet(s) /\ \A y \in ToSet(s) : s[b] >= y
  BY <1>1, <1>2
<1> QED BY <1>3, <1>4, MaxOf

LEMMA StepBest ==
  MetricsInd /\ BestIsKnown /\ [MetricsNext]_vars => BestIsKnown'
<1> SUFFICES ASSUME MetricsInd, BestIsKnown, [MetricsNext]_vars PROVE BestIsKnown'
  OBVIOUS
<1> DEFINE s == FiniteOf(Series("eval/score"))
           b == Len(s) - sinceBest
<1>1. s \in Seq(Int) /\ Len(s) \in Nat /\ sinceBest \in Nat
  BY SeriesTyped, FiniteOfType DEF MetricsInd, MetricsTypeOK
<1>2. /\ sinceBest <= Len(s)
      /\ Len(s) > 0 => sinceBest < Len(s)
      /\ \A i \in 1..Len(s) : i <= b => s[i] <= s[b]
      /\ \A i \in 1..Len(s) : i > b => s[i] < s[b]
  BY DEF BestIsKnown, BestIsAt
<1>3. ASSUME NEW k \in DOMAIN training.logs, NEW v \in training.logs[k], LogMetric(k, v)
      PROVE  BestIsKnown'
  <2>1. CASE k # "eval/score" \/ ~Finite(v)
    <3>1. s' = s
      BY <1>3, <2>1, FiniteStep
    <3>2. sinceBest' = sinceBest
      BY <1>3, <2>1 DEF LogMetric
    <3> QED BY <3>1, <3>2 DEF BestIsKnown, BestIsAt
  <2>2. CASE k = "eval/score" /\ Finite(v)
    <3>1. v \in Int /\ s' = Append(s, v)
      BY <1>3, <2>2, FiniteStep
    <3>2. sinceBest' = IF BelowBest(v) THEN sinceBest + 1 ELSE 0
      BY <1>3, <2>2 DEF LogMetric
    <3>3. /\ Len(s') = Len(s) + 1
          /\ \A i \in 1..Len(s) : s'[i] = s[i]
          /\ s'[Len(s) + 1] = v
      BY <1>1, <3>1, Appended
    <3>4. BelowBest(v) <=> s # << >> /\ v < Max(ToSet(s))
      BY DEF BelowBest
    <3>5. s = << >> <=> Len(s) = 0
      BY <1>1
    <3> HIDE DEF s
    <3>6. \A i \in 1..Len(s) : s[i] \in Int
      BY <1>1, ElementOf
    <3>7. CASE Len(s) = 0
      <4>1. sinceBest' = 0 /\ Len(s') = 1 /\ s'[1] = v
        BY <3>2, <3>3, <3>4, <3>5, <3>7
      <4>2. BestIsAt(s)'
        BY <3>1, <4>1 DEF BestIsAt
      <4> QED BY <4>2 DEF BestIsKnown, s
    <3>8. CASE Len(s) # 0
      <4>1. b \in 1..Len(s) /\ \A i \in 1..Len(s) : s[i] <= s[b]
        <5>1. b \in 1..Len(s)
          BY <1>1, <1>2, <3>8
        <5>2. ASSUME NEW i \in 1..Len(s) PROVE s[i] <= s[b]
          <6>1. CASE i <= b
            BY <1>2, <6>1
          <6>2. CASE i > b
            BY <1>2, <3>6, <5>1, <6>2
          <6>3. i \in Int /\ b \in Int
            BY <5>1
          <6> HIDE DEF b
          <6> QED BY <6>1, <6>2, <6>3
        <5> QED BY <5>1, <5>2
      <4>2. Max(ToSet(s)) = s[b]
        BY <1>1, <4>1, MaxOfSeq
      <4>3. CASE v < s[b]
        <5>1. sinceBest' = sinceBest + 1 /\ Len(s') - sinceBest' = b
          BY <1>1, <3>2, <3>3, <3>4, <3>5, <3>8, <4>2, <4>3
        <5>2. s'[b] = s[b]
          BY <3>3, <4>1
        <5>3. sinceBest' <= Len(s') /\ (Len(s') > 0 => sinceBest' < Len(s'))
          BY <1>1, <1>2, <3>3, <3>8, <5>1
        <5>4. ASSUME NEW i \in 1..Len(s') PROVE i <= b => s'[i] <= s'[b]
          <6> SUFFICES ASSUME i <= b PROVE s'[i] <= s'[b]
            OBVIOUS
          <6>1. i \in 1..Len(s)
            BY <1>1, <3>3, <4>1
          <6> QED BY <3>3, <4>1, <5>2, <6>1
        <5>5. ASSUME NEW i \in 1..Len(s') PROVE i > b => s'[i] < s'[b]
          <6>1. i = Len(s) + 1 \/ i \in 1..Len(s)
            BY <1>1, <3>3
          <6>2. CASE i = Len(s) + 1
            BY <3>3, <4>3, <5>2, <6>2
          <6>3. CASE i \in 1..Len(s)
            BY <1>2, <3>3, <5>2, <6>3
          <6> QED BY <6>1, <6>2, <6>3
        <5>6. BestIsAt(s)'
          BY <5>1, <5>3, <5>4, <5>5 DEF BestIsAt
        <5> QED BY <5>6 DEF BestIsKnown, s
      <4>4. CASE ~(v < s[b])
        <5>1. sinceBest' = 0 /\ Len(s') - sinceBest' = Len(s) + 1
          BY <1>1, <3>2, <3>3, <3>4, <4>2, <4>4
        <5>2. ASSUME NEW i \in 1..Len(s') PROVE s'[i] <= s'[Len(s) + 1]
          <6>1. i = Len(s) + 1 \/ i \in 1..Len(s)
            BY <1>1, <3>3
          <6>2. CASE i = Len(s) + 1
            BY <3>1, <3>3, <6>2
          <6>3. CASE i \in 1..Len(s)
            <7>1. s[i] \in Int /\ s[b] \in Int /\ s[i] <= s[b]
              BY <3>6, <4>1, <6>3
            <7>2. s[i] <= v
              BY <3>1, <4>4, <7>1
            <7> QED BY <3>3, <6>3, <7>2
          <6> QED BY <6>1, <6>2, <6>3
        <5>3. BestIsAt(s)'
          BY <1>1, <3>3, <5>1, <5>2 DEF BestIsAt
        <5> QED BY <5>3 DEF BestIsKnown, s
      <4> QED BY <4>3, <4>4
    <3> QED BY <3>7, <3>8
  <2> QED BY <2>1, <2>2
<1>4. CASE Blink \/ UNCHANGED vars
  <2>1. s' = s /\ sinceBest' = sinceBest
    BY <1>4, QuietStep
  <2> QED BY <2>1 DEF BestIsKnown, BestIsAt
<1> QED BY <1>3, <1>4 DEF MetricsNext

LEMMA HeldOutEvalWarns ==
  HeldOutEval = "warn" <=>
    /\ wandbUp
    /\ Len(Seen("eval/score", Health.eval_patience + 1)) >= Health.eval_patience + 1
    /\ \A i \in 2..Len(Seen("eval/score", Health.eval_patience + 1)) :
          Seen("eval/score", Health.eval_patience + 1)[i]
            < Max(ToSet(Seen("eval/score", Health.eval_patience + 1)))
BY DEF HeldOutEval, Judge

LEMMA BestSeen == MetricsInd /\ BestIsKnown => OverfittingIsWarned
<1> SUFFICES ASSUME MetricsInd, BestIsKnown, wandbUp
             PROVE  /\ sinceBest = Health.eval_patience => HeldOutEval = "warn"
                    /\ HeldOutEval = "warn" => sinceBest >= Health.eval_patience
  BY DEF OverfittingIsWarned
<1> DEFINE s == FiniteOf(Series("eval/score"))
           p == Health.eval_patience
           w == Seen("eval/score", p + 1)
           b == Len(s) - sinceBest
<1>1. p \in Nat \ {0} /\ p + 1 \in Nat \ {0}
  BY MetricsAssumption
<1>2. /\ s \in Seq(Int) /\ w \in Seq(Int)
      /\ Len(w) = IF Len(s) < p + 1 THEN Len(s) ELSE p + 1
      /\ \A i \in 1..Len(w) : w[i] = s[Len(s) - Len(w) + i]
  BY <1>1, SeenIs
<1>3. Len(s) \in Nat /\ Len(w) \in Nat /\ sinceBest \in Nat
  BY <1>2 DEF MetricsInd, MetricsTypeOK
<1>4. /\ sinceBest <= Len(s)
      /\ Len(s) > 0 => sinceBest < Len(s)
      /\ \A i \in 1..Len(s) : i <= b => s[i] <= s[b]
      /\ \A i \in 1..Len(s) : i > b => s[i] < s[b]
  BY DEF BestIsKnown, BestIsAt
<1>5. HeldOutEval = "warn" <=>
        Len(w) >= p + 1 /\ \A i \in 2..Len(w) : w[i] < Max(ToSet(w))
  BY HeldOutEvalWarns
<1> HIDE DEF s, p, w
<1>6. \A i \in 1..Len(s) : s[i] \in Int
  BY <1>2, ElementOf
<1>7. ASSUME sinceBest < Len(s), Len(w) = p + 1, sinceBest <= p
      PROVE  /\ Len(w) - sinceBest \in 1..Len(w)
             /\ w[Len(w) - sinceBest] = s[b]
             /\ Max(ToSet(w)) = s[b]
  <2>1. /\ Len(w) - sinceBest \in 1..Len(w)
        /\ Len(s) - Len(w) + (Len(w) - sinceBest) = b
    BY <1>1, <1>3, <1>7
  <2>2. w[Len(w) - sinceBest] = s[b]
    BY <1>2, <2>1
  <2>3. b \in 1..Len(s) /\ \A i \in 1..Len(s) : s[i] <= s[b]
    <3>1. b \in 1..Len(s)
      BY <1>3, <1>7
    <3>2. ASSUME NEW i \in 1..Len(s) PROVE s[i] <= s[b]
      <4>1. i <= b \/ i > b
        BY <3>1
      <4>2. s[i] \in Int /\ s[b] \in Int
        BY <1>6, <3>1
      <4> QED BY <1>4, <4>1, <4>2
    <3> QED BY <3>1, <3>2
  <2>4. \A i \in 1..Len(w) : Len(s) - Len(w) + i \in 1..Len(s)
    BY <1>1, <1>2, <1>3
  <2>5. \A i \in 1..Len(w) : w[i] <= w[Len(w) - sinceBest]
    BY <1>2, <2>2, <2>3, <2>4
  <2> QED BY <1>2, <2>1, <2>2, <2>5, MaxOfSeq
<1>8. ASSUME sinceBest = p
      PROVE  Len(w) >= p + 1 /\ \A i \in 2..Len(w) : w[i] < Max(ToSet(w))
  <2>1. sinceBest < Len(s) /\ Len(w) = p + 1
    BY <1>1, <1>2, <1>3, <1>4, <1>8
  <2>2. Max(ToSet(w)) = s[b]
    BY <1>1, <1>7, <1>8, <2>1
  <2>3. ASSUME NEW i \in 2..Len(w) PROVE w[i] < s[b]
    <3>1. /\ i \in 1..Len(w)
          /\ Len(s) - Len(w) + i \in 1..Len(s) /\ Len(s) - Len(w) + i > b
      BY <1>1, <1>3, <1>8, <2>1
    <3> QED BY <1>2, <1>4, <3>1
  <2> QED BY <1>1, <2>1, <2>2, <2>3
<1>9. ASSUME Len(w) >= p + 1, \A i \in 2..Len(w) : w[i] < Max(ToSet(w))
      PROVE  sinceBest >= p
  <2> SUFFICES ASSUME sinceBest < p PROVE FALSE
    BY <1>1, <1>3
  <2>1. Len(w) = p + 1 /\ sinceBest < Len(s)
    BY <1>1, <1>2, <1>3, <1>9
  <2>2. /\ Len(w) - sinceBest \in 2..Len(w)
        /\ w[Len(w) - sinceBest] = Max(ToSet(w)) /\ Max(ToSet(w)) \in Int
    <3>1. b \in 1..Len(s)
      BY <1>3, <2>1
    <3> QED BY <1>1, <1>3, <1>6, <1>7, <2>1, <3>1
  <2> QED BY <1>9, <2>2
<1>10. /\ sinceBest = p => HeldOutEval = "warn"
       /\ HeldOutEval = "warn" => sinceBest >= p
  BY <1>5, <1>8, <1>9
<1> QED BY <1>10 DEF p

\* The held-out-eval probe, which remembers one eval more than its patience, warns at the
\* very eval with which the patience since the best eval ever ends, and warns of no run
\* that improved within its patience.
THEOREM OverfittingAlwaysWarned == MetricsSpec => []OverfittingIsWarned
BY InitTyped, StepTyped, InitBest, StepBest, BestSeen, PTL DEF MetricsSpec

------------------------------------------------------------------------------
(* Sums and trends *)

\* SumOf(s) is the last of the partial sums of s.
LEMMA SumOfIs ==
  ASSUME NEW s \in Seq(Int)
  PROVE  \E f \in [0..Len(s) -> Int] :
            /\ f[0] = 0
            /\ \A i \in 1..Len(s) : f[i] = f[i - 1] + s[i]
            /\ SumOf(s) = f[Len(s)]
<1> DEFINE n == Len(s)
           Solves(f, m) ==
             /\ f \in [0..m -> Int]
             /\ f[0] = 0
             /\ \A i \in 1..m : f[i] = f[i - 1] + s[i]
           T == {m \in Nat : m <= n => \E f : Solves(f, m)}
           Equation(f) == f = [i \in 0..n |-> IF i = 0 THEN 0 ELSE f[i - 1] + s[i]]
<1>1. 0 \in T
  <2>1. Solves([i \in 0..0 |-> 0], 0)
    OBVIOUS
  <2> QED BY <2>1
<1>2. ASSUME NEW m \in Nat, m \in T, m + 1 <= n
      PROVE  \E f : Solves(f, m + 1)
  <2>1. \E f : Solves(f, m)
    <3> HIDE DEF Solves
    <3>1. m <= n
      BY <1>2
    <3> QED BY <1>2, <3>1
  <2>2. PICK f : Solves(f, m)
    BY <2>1
  <2> DEFINE g == [i \in 0..m + 1 |-> IF i = m + 1 THEN f[m] + s[m + 1] ELSE f[i]]
  <2>3. s[m + 1] \in Int /\ f[m] \in Int
    BY <1>2, <2>2, ElementOf
  <2>4. g \in [0..m + 1 -> Int] /\ g[0] = 0
    BY <2>2, <2>3
  <2>5. ASSUME NEW i \in 1..m + 1 PROVE g[i] = g[i - 1] + s[i]
    <3>1. CASE i = m + 1
      BY <3>1
    <3>2. CASE i # m + 1
      <4>1. i \in 1..m /\ g[i] = f[i] /\ g[i - 1] = f[i - 1]
        BY <3>2
      <4> QED BY <2>2, <4>1
    <3> QED BY <3>1, <3>2
  <2> HIDE DEF g
  <2> QED BY <2>4, <2>5
<1>3. \A m \in Nat : m \in T
  <2> HIDE DEF Solves
  <2>1. \A m \in Nat : m \in T => m + 1 \in T
    BY <1>2
  <2> HIDE DEF T
  <2> QED BY <1>1, <2>1, Induction
<1>4. \E f : Equation(f)
  <2>1. PICK f : Solves(f, n)
    BY <1>3
  <2>2. \A i \in 0..n : f[i] = IF i = 0 THEN 0 ELSE f[i - 1] + s[i]
    <3>1. \A i \in 0..n : i # 0 => i \in 1..n
      OBVIOUS
    <3> QED BY <2>1, <3>1
  <2>3. f = [i \in 0..n |-> f[i]]
    BY <2>1
  <2>4. Equation(f)
    BY <2>2, <2>3
  <2> QED BY <2>4
<1> DEFINE g == CHOOSE f : Equation(f)
<1>5. Equation(g)
  <2> HIDE DEF Equation
  <2> QED BY <1>4
<1>6. SumOf(s) = g[n]
  BY DEF SumOf
<1> HIDE DEF g
<1>7. /\ DOMAIN g = 0..n
      /\ \A i \in 0..n : g[i] = IF i = 0 THEN 0 ELSE g[i - 1] + s[i]
  <2> DEFINE val(i) == IF i = 0 THEN 0 ELSE g[i - 1] + s[i]
  <2>1. g = [i \in 0..n |-> val(i)]
    BY <1>5
  <2> HIDE DEF val
  <2>2. DOMAIN g = 0..n /\ \A i \in 0..n : g[i] = val(i)
    BY <2>1
  <2> QED BY <2>2 DEF val
<1>8. g[0] = 0 /\ \A i \in 1..n : g[i] = g[i - 1] + s[i]
  BY <1>7
<1> DEFINE R == {m \in Nat : m <= n => g[m] \in Int}
<1>9. 0 \in R
  BY <1>8
<1>10. ASSUME NEW m \in Nat, m \in R PROVE m + 1 \in R
  <2> SUFFICES ASSUME m + 1 <= n PROVE g[m + 1] \in Int
    OBVIOUS
  <2>1. m + 1 \in 1..n /\ m + 1 - 1 = m /\ g[m] \in Int
    BY <1>10
  <2>2. s[m + 1] \in Int
    BY <2>1, ElementOf
  <2> QED BY <1>8, <2>1, <2>2
<1>11. \A m \in Nat : m \in R
  <2> HIDE DEF R
  <2> QED BY <1>9, <1>10, Induction
<1>12. g \in [0..n -> Int]
  <2>1. g = [i \in 0..n |-> g[i]]
    BY <1>5
  <2> QED BY <1>11, <2>1
<1> QED BY <1>6, <1>8, <1>12

\* A sum of terms none of which is negative is positive as soon as one of them is.
LEMMA GrowingSum ==
  ASSUME NEW n \in Nat \ {0}, NEW e \in [1..n -> Int], e[1] = 0,
         \A i \in 2..n : e[i] >= e[i - 1]
  PROVE  /\ e[n] >= 0
         /\ (\E i \in 2..n : e[i] > e[i - 1]) => e[n] > 0
<1> DEFINE T == {m \in Nat : m + 1 <= n => \A j \in 1..m + 1 : e[j] <= e[m + 1]}
<1>1. 0 \in T
  OBVIOUS
<1>2. ASSUME NEW m \in Nat, m \in T PROVE m + 1 \in T
  <2> SUFFICES ASSUME m + 2 <= n, NEW j \in 1..m + 2 PROVE e[j] <= e[m + 2]
    OBVIOUS
  <2>1. m + 2 \in 2..n /\ m + 2 - 1 = m + 1
    OBVIOUS
  <2>2. e[m + 2] >= e[m + 1]
    BY <2>1
  <2>3. e[m + 2] \in Int /\ e[m + 1] \in Int
    BY <2>1
  <2>4. CASE j = m + 2
    BY <2>3, <2>4
  <2>5. CASE j # m + 2
    <3>1. j \in 1..m + 1 /\ e[j] <= e[m + 1] /\ e[j] \in Int
      BY <1>2, <2>1, <2>5
    <3> QED BY <2>2, <2>3, <3>1
  <2> QED BY <2>4, <2>5
<1>3. \A m \in Nat : m \in T
  <2> HIDE DEF T
  <2> QED BY <1>1, <1>2, Induction
<1>4. \A j \in 1..n : e[j] <= e[n]
  <2>1. n - 1 \in Nat /\ n - 1 + 1 = n
    OBVIOUS
  <2>2. n - 1 \in T
    <3> HIDE DEF T
    <3> QED BY <1>3, <2>1
  <2> QED BY <2>1, <2>2
<1>5. e[n] >= 0
  BY <1>4
<1>6. ASSUME NEW i \in 2..n, e[i] > e[i - 1] PROVE e[n] > 0
  <2>1. i - 1 \in Nat /\ i \in 1..n /\ i - 1 \in 1..n
    OBVIOUS
  <2>2. i - 2 \in Nat /\ i - 2 + 1 = i - 1
    OBVIOUS
  <2>6. i - 2 \in T
    <3> HIDE DEF T
    <3> QED BY <1>3, <2>2
  <2>3. e[1] <= e[i - 1]
    BY <2>1, <2>2, <2>6
  <2>4. e[i] <= e[n]
    BY <1>4, <2>1
  <2>5. e[i] \in Int /\ e[i - 1] \in Int /\ e[n] \in Int
    BY <2>1
  <2> QED BY <1>6, <2>3, <2>4, <2>5
<1> QED BY <1>5, <1>6

\* Two polynomial identities: the steps of a trend, and of the sum of its weights.
LEMMA TrendStepIdentity ==
  ASSUME NEW n \in Int, NEW i \in Int, NEW a \in Int, NEW b \in Int
  PROVE  (2 * i - n - 1) * a + i * (n - i) * a
           = (i - 1) * (n - i + 1) * b + (i - 1) * (n - i + 1) * (a - b)
OBVIOUS

LEMMA WeightStepIdentity ==
  ASSUME NEW n \in Int, NEW i \in Int
  PROVE  (i - 1) * i * (3 * n - 2 * i + 1)
           = (i - 2) * (i - 1) * (3 * n - 2 * (i - 1) + 1) + 6 * ((i - 1) * (n - i + 1))
OBVIOUS

\* The samples of a trend weigh each other out: a trend is the sum of the climbs from
\* sample to sample, weighted by how many samples lie before and after them.
LEMMA TrendByClimbs ==
  ASSUME NEW s \in Seq(Int), Len(s) > 0
  PROVE  \E e \in [1..Len(s) -> Int] :
            /\ e[1] = 0
            /\ \A i \in 2..Len(s) :
                  e[i] = e[i - 1] + ((i - 1) * (Len(s) - i + 1)) * (s[i] - s[i - 1])
            /\ Trend(s) = e[Len(s)]
<1> DEFINE n == Len(s)
           t == [i \in 1..n |-> (2 * i - n - 1) * s[i]]
<1>1. n \in Nat \ {0} /\ \A i \in 1..n : s[i] \in Int
  BY ElementOf
<1>2. t \in Seq(Int) /\ Len(t) = n /\ \A i \in 1..n : t[i] = (2 * i - n - 1) * s[i]
  BY <1>1
<1>3. Trend(s) = SumOf(t)
  BY DEF Trend
<1> HIDE DEF n, t
<1>4. PICK f \in [0..n -> Int] :
        /\ f[0] = 0
        /\ \A i \in 1..n : f[i] = f[i - 1] + t[i]
        /\ SumOf(t) = f[n]
  BY <1>2, SumOfIs
<1> DEFINE e == [i \in 1..n |-> f[i] + i * (n - i) * s[i]]
<1>5. e \in [1..n -> Int]
  BY <1>1
<1>6. e[1] = 0
  <2>1. 1 \in 1..n /\ 1 - 1 = 0
    BY <1>1
  <2>2. f[1] = t[1] /\ t[1] = (1 - n) * s[1] /\ s[1] \in Int
    BY <1>1, <1>2, <1>4, <2>1
  <2>3. e[1] = f[1] + 1 * (n - 1) * s[1]
    BY <2>1
  <2>4. (1 - n) * s[1] + 1 * (n - 1) * s[1] = 0
    BY <1>1, <2>2
  <2> QED BY <2>2, <2>3, <2>4
<1>7. ASSUME NEW i \in 2..n
      PROVE  e[i] = e[i - 1] + ((i - 1) * (n - i + 1)) * (s[i] - s[i - 1])
  <2>1. i \in 1..n /\ i - 1 \in 1..n /\ i \in Int /\ n \in Int
    BY <1>1
  <2> DEFINE a == s[i]
             b == s[i - 1]
  <2>2. a \in Int /\ b \in Int /\ f[i - 1] \in Int
    BY <1>1, <2>1
  <2>3. f[i] = f[i - 1] + (2 * i - n - 1) * a
    BY <1>2, <1>4, <2>1
  <2>4. e[i] = f[i] + i * (n - i) * a /\ e[i - 1] = f[i - 1] + (i - 1) * (n - (i - 1)) * b
    BY <2>1
  <2> HIDE DEF a, b, e
  <2>5. (i - 1) * (n - (i - 1)) * b = (i - 1) * (n - i + 1) * b
    BY <2>1, <2>2
  <2>6. (2 * i - n - 1) * a + i * (n - i) * a
           = (i - 1) * (n - i + 1) * b + (i - 1) * (n - i + 1) * (a - b)
    BY <2>1, <2>2, TrendStepIdentity
  <2>7. /\ (2 * i - n - 1) * a \in Int /\ i * (n - i) * a \in Int
        /\ (i - 1) * (n - i + 1) * b \in Int /\ (i - 1) * (n - i + 1) * (a - b) \in Int
    BY <2>1, <2>2
  <2>8. e[i] = e[i - 1] + (i - 1) * (n - i + 1) * (a - b)
    <3> DEFINE A == (2 * i - n - 1) * a
               B == i * (n - i) * a
               C == (i - 1) * (n - i + 1) * b
               D == (i - 1) * (n - i + 1) * (a - b)
    <3>1. A \in Int /\ B \in Int /\ C \in Int /\ D \in Int /\ A + B = C + D
      BY <2>6, <2>7
    <3>2. f[i] = f[i - 1] + A /\ e[i] = f[i] + B /\ e[i - 1] = f[i - 1] + C
      BY <2>3, <2>4, <2>5
    <3> HIDE DEF A, B, C, D
    <3>3. (f[i - 1] + A) + B = (f[i - 1] + C) + D
      <4> DEFINE p == f[i - 1]
      <4>1. p \in Int
        BY <2>2
      <4> HIDE DEF p
      <4>2. (p + A) + B = (p + C) + D
        BY <3>1, <4>1
      <4> QED BY <4>2 DEF p
    <3>4. e[i] = (f[i - 1] + A) + B
      BY <3>2, Zenon
    <3>5. e[i] = e[i - 1] + D
      BY <3>2, <3>3, <3>4, Zenon
    <3> QED BY <3>5 DEF D
  <2> QED BY <2>8 DEF a, b
<1>8. e[n] = f[n]
  <2>1. n \in 1..n /\ n - n = 0 /\ s[n] \in Int /\ f[n] \in Int
    BY <1>1
  <2>2. e[n] = f[n] + n * (n - n) * s[n]
    BY <2>1
  <2>3. n * (n - n) * s[n] = 0
    BY <1>1, <2>1
  <2> QED BY <2>1, <2>2, <2>3
<1> HIDE DEF e
<1>9. Trend(s) = e[n]
  BY <1>3, <1>4, <1>8
<1> QED BY <1>5, <1>6, <1>7, <1>9 DEF n

LEMMA WeightIsPositive ==
  ASSUME NEW n \in Int, NEW i \in 2..n
  PROVE  (i - 1) * (n - i + 1) \in Int /\ (i - 1) * (n - i + 1) > 0
<1>1. \A a, b \in Nat \ {0} : a * b \in Int /\ a * b > 0
  OBVIOUS
<1>2. i - 1 \in Nat \ {0} /\ n - i + 1 \in Nat \ {0}
  OBVIOUS
<1> QED BY <1>1, <1>2

\* A weight times a climb has the sign of the climb.
LEMMA WeightedSign ==
  ASSUME NEW w \in Int, w > 0, NEW d \in Int
  PROVE  /\ w * d \in Int
         /\ d >= 0 => w * d >= 0
         /\ d <= 0 => w * d <= 0
         /\ d > 0 => w * d > 0
         /\ d < 0 => w * d < 0
OBVIOUS

LEMMA DifferenceSign ==
  ASSUME NEW a \in Int, NEW b \in Int
  PROVE  /\ a - b \in Int
         /\ a > b => a - b > 0
         /\ a < b => a - b < 0
         /\ ~(b > a) => a - b >= 0
         /\ ~(b < a) => a - b <= 0
OBVIOUS

\* A series that never falls has no negative trend, and a positive one once it rises.
LEMMA RisingTrend ==
  ASSUME NEW s \in Seq(Int), Len(s) > 0, ~Falls(s)
  PROVE  Trend(s) \in Int /\ Trend(s) >= 0 /\ (Rises(s) => Trend(s) > 0)
<1> DEFINE n == Len(s)
           w(i) == (i - 1) * (n - i + 1)
<1>1. n \in Nat \ {0} /\ n \in 1..n /\ n \in Int /\ \A i \in 1..n : s[i] \in Int
  BY ElementOf
<1>2. PICK e \in [1..n -> Int] :
        /\ e[1] = 0
        /\ \A i \in 2..n : e[i] = e[i - 1] + w(i) * (s[i] - s[i - 1])
        /\ Trend(s) = e[n]
  BY TrendByClimbs
<1> HIDE DEF n
<1>3. ASSUME NEW i \in 2..n
      PROVE  /\ i - 1 \in 1..n - 1 /\ i \in 1..n /\ i - 1 \in 1..n /\ i - 1 + 1 = i
             /\ w(i) \in Int /\ w(i) > 0
             /\ s[i] \in Int /\ s[i - 1] \in Int /\ e[i - 1] \in Int
  <2>1. i - 1 \in 1..n - 1 /\ i \in 1..n /\ i - 1 \in 1..n /\ i - 1 + 1 = i
    BY <1>1
  <2>2. w(i) \in Int /\ w(i) > 0
    BY <1>1, WeightIsPositive, Zenon
  <2> HIDE DEF w
  <2> QED BY <1>1, <1>2, <2>1, <2>2
<1> HIDE DEF w
<1>4. ASSUME NEW i \in 2..n PROVE e[i] >= e[i - 1] /\ (s[i] > s[i - 1] => e[i] > e[i - 1])
  <2>1. ~(s[i - 1] > s[i - 1 + 1])
    BY <1>3 DEF Falls, n
  <2>2. s[i] - s[i - 1] >= 0
    <3>1. ~(s[i - 1] > s[i])
      BY <1>3, <2>1, Zenon
    <3> QED BY <1>3, <3>1, DifferenceSign, Zenon
  <2> DEFINE d == s[i] - s[i - 1]
  <2>3. /\ w(i) * d \in Int /\ w(i) * d >= 0
        /\ d > 0 => w(i) * d > 0
        /\ e[i] = e[i - 1] + w(i) * d
    <3>1. d \in Int
      BY <1>3
    <3> QED BY <1>2, <1>3, <2>2, <3>1, WeightedSign
  <2>4. s[i] > s[i - 1] => d > 0
    BY <1>3, DifferenceSign, Zenon
  <2> QED BY <1>3, <2>3, <2>4
<1>5. /\ e[n] >= 0 /\ e[n] \in Int
      /\ (\E i \in 2..n : e[i] > e[i - 1]) => e[n] > 0
  <2>1. \A i \in 2..n : e[i] >= e[i - 1]
    BY <1>4
  <2> QED BY <1>1, <1>2, <2>1, GrowingSum
<1>6. ASSUME Rises(s) PROVE e[n] > 0
  <2>1. PICK j \in 1..n - 1 : s[j] < s[j + 1]
    BY <1>6 DEF Rises, n
  <2>2. j + 1 \in 2..n /\ j + 1 - 1 = j /\ j \in 1..n
    BY <1>1
  <2>3. e[j + 1] > e[j + 1 - 1]
    BY <1>1, <1>4, <2>1, <2>2
  <2> QED BY <1>5, <2>2, <2>3
<1> QED BY <1>2, <1>5, <1>6

\* The same of a series that never rises, turned over.
LEMMA FallingTrend ==
  ASSUME NEW s \in Seq(Int), Len(s) > 0, ~Rises(s)
  PROVE  Trend(s) \in Int /\ Trend(s) <= 0 /\ (Falls(s) => Trend(s) < 0)
<1> DEFINE n == Len(s)
           w(i) == (i - 1) * (n - i + 1)
<1>1. n \in Nat \ {0} /\ n \in 1..n /\ n \in Int /\ \A i \in 1..n : s[i] \in Int
  BY ElementOf
<1>2. PICK e \in [1..n -> Int] :
        /\ e[1] = 0
        /\ \A i \in 2..n : e[i] = e[i - 1] + w(i) * (s[i] - s[i - 1])
        /\ Trend(s) = e[n]
  BY TrendByClimbs
<1> HIDE DEF n
<1>3. ASSUME NEW i \in 2..n
      PROVE  /\ i - 1 \in 1..n - 1 /\ i \in 1..n /\ i - 1 \in 1..n /\ i - 1 + 1 = i
             /\ w(i) \in Int /\ w(i) > 0
             /\ s[i] \in Int /\ s[i - 1] \in Int /\ e[i - 1] \in Int
  <2>1. i - 1 \in 1..n - 1 /\ i \in 1..n /\ i - 1 \in 1..n /\ i - 1 + 1 = i
    BY <1>1
  <2>2. w(i) \in Int /\ w(i) > 0
    BY <1>1, WeightIsPositive, Zenon
  <2> HIDE DEF w
  <2> QED BY <1>1, <1>2, <2>1, <2>2
<1> DEFINE g == [i \in 1..n |-> 0 - e[i]]
<1>4. g \in [1..n -> Int] /\ g[1] = 0 /\ \A i \in 1..n : g[i] = 0 - e[i]
  <2>1. 1 \in 1..n
    BY <1>1
  <2> QED BY <1>2, <2>1
<1> HIDE DEF w, g
<1>5. ASSUME NEW i \in 2..n PROVE g[i] >= g[i - 1] /\ (s[i] < s[i - 1] => g[i] > g[i - 1])
  <2>1. ~(s[i - 1] < s[i - 1 + 1])
    BY <1>3 DEF Rises, n
  <2>2. s[i] - s[i - 1] <= 0
    <3>1. ~(s[i - 1] < s[i])
      BY <1>3, <2>1, Zenon
    <3> QED BY <1>3, <3>1, DifferenceSign, Zenon
  <2> DEFINE d == s[i] - s[i - 1]
  <2>3. /\ w(i) * d \in Int /\ w(i) * d <= 0
        /\ d < 0 => w(i) * d < 0
        /\ e[i] = e[i - 1] + w(i) * d
    <3>1. d \in Int
      BY <1>3
    <3> QED BY <1>2, <1>3, <2>2, <3>1, WeightedSign
  <2>4. s[i] < s[i - 1] => d < 0
    BY <1>3, DifferenceSign, Zenon
  <2>5. g[i] = 0 - e[i] /\ g[i - 1] = 0 - e[i - 1]
    BY <1>1, <1>3, <1>4
  <2> QED BY <1>3, <2>3, <2>4, <2>5
<1>6. n \in 1..n
  BY <1>1
<1>7. /\ g[n] >= 0 /\ g[n] = 0 - e[n] /\ e[n] \in Int
      /\ (\E i \in 2..n : g[i] > g[i - 1]) => g[n] > 0
  <2>1. \A i \in 2..n : g[i] >= g[i - 1]
    BY <1>5
  <2> QED BY <1>1, <1>2, <1>4, <1>6, <2>1, GrowingSum
<1>8. ASSUME Falls(s) PROVE g[n] > 0
  <2>1. PICK j \in 1..n - 1 : s[j] > s[j + 1]
    BY <1>8 DEF Falls, n
  <2>2. j + 1 \in 2..n /\ j + 1 - 1 = j /\ j \in 1..n
    BY <1>1
  <2>3. g[j + 1] > g[j + 1 - 1]
    BY <1>1, <1>5, <2>1, <2>2
  <2> QED BY <1>7, <2>2, <2>3
<1> QED BY <1>2, <1>7, <1>8

------------------------------------------------------------------------------
(* The signatures of a run gone wrong *)

\* A series of two samples or more that climbs throughout rises and never falls, and so
\* its trend is up.
LEMMA ClimbingTrend ==
  ASSUME NEW s \in Seq(Int), Climbs(s)
  PROVE  Trend(s) > 0
<1>1. Len(s) \in Nat /\ Len(s) > 1 /\ \A i \in 1..Len(s) - 1 : s[i] < s[i + 1]
  BY DEF Climbs
<1>2. \A i \in 1..Len(s) : s[i] \in Int
  BY ElementOf
<1>3. ~Falls(s)
  <2>1. ASSUME NEW i \in 1..Len(s) - 1 PROVE ~(s[i] > s[i + 1])
    <3>1. i \in 1..Len(s) /\ i + 1 \in 1..Len(s)
      BY <1>1
    <3> QED BY <1>1, <1>2, <3>1
  <2> QED BY <2>1 DEF Falls
<1>4. Rises(s)
  <2>1. 1 \in 1..Len(s) - 1
    BY <1>1
  <2> QED BY <1>1, <2>1 DEF Rises
<1> QED BY <1>1, <1>3, <1>4, RisingTrend

\* When each of the probes that look for a signature speaks.
LEMMA RewardHackingWarns ==
  RewardHacking = "warn" <=>
    /\ wandbUp
    /\ Len(Seen("reward/mean", Long)) >= Short /\ Len(Seen("kl/ref", Long)) >= Short
    /\ Trend(Seen("reward/mean", Long)) > 0 /\ Trend(Seen("kl/ref", Long)) > 0
    /\ Len(Seen("eval/score", Few)) >= FewEvals
    /\ Trend(Seen("eval/score", Few)) <= 0
BY DEF RewardHacking, Judge

LEMMA ReplDegeneracyFails ==
  ReplDegeneracy = "fail" <=>
    /\ wandbUp
    /\ Len(Seen("repl/mean_turns", Long)) >= Short
    /\ Len(Seen("reward/mean", Long)) >= Short
    /\ Trend(Seen("reward/mean", Long)) > 0 /\ Trend(Seen("repl/mean_turns", Long)) < 0
    /\ Len(Seen("repl/nontrivial_fraction", Long)) >= Short
       => Trend(Seen("repl/nontrivial_fraction", Long)) <= 0
BY DEF ReplDegeneracy, Judge

\* Entropy's second arm: falling, and no rise among the last samples.
Collapsing ==
    LET v == Seen("policy/entropy", Long)
        w == LastOf(v, Short)
    IN /\ Len(v) >= Short
       /\ Trend(v) < 0
       /\ \A i \in 1..Len(w) - 1 : w[i + 1] <= w[i]

LEMMA EntropySpeaks ==
  /\ Entropy = "warn" => Collapsing
  /\ wandbUp /\ Seen("policy/entropy", Long) # << >> /\ Collapsing
     => Entropy \in {"warn", "fail"}
BY DEF Entropy, Judge, Collapsing

\* The windows of the signatures are sequences of integers, and the least length the
\* probes ask for is at least one sample.
LEMMA WindowsTyped ==
  ASSUME MetricsInd
  PROVE  /\ \A k : Seen(k, Long) \in Seq(Int) /\ Seen(k, Few) \in Seq(Int)
         /\ Short \in Nat \ {0} /\ FewEvals \in Nat \ {0} /\ Few \in Nat \ {0}
         /\ Long \in Nat \ {0}
<1>1. {Long, Short, Few, FewEvals} \subseteq Nat \ {0}
  BY MetricsAssumption
<1> QED BY <1>1, SeenIs

LEMMA SignatureSeen == MetricsInd => SteadySignatureIsCaught
<1> SUFFICES ASSUME MetricsInd, wandbUp PROVE SteadySignatureIsCaught
  BY DEF SteadySignatureIsCaught
<1> DEFINE reward == Seen("reward/mean", Long)
           kl == Seen("kl/ref", Long)
           evals == Seen("eval/score", Few)
           turns == Seen("repl/mean_turns", Long)
           nontrivial == Seen("repl/nontrivial_fraction", Long)
           entropy == Seen("policy/entropy", Long)
<1>1. /\ reward \in Seq(Int) /\ kl \in Seq(Int) /\ evals \in Seq(Int)
      /\ turns \in Seq(Int) /\ nontrivial \in Seq(Int) /\ entropy \in Seq(Int)
      /\ Short \in Nat \ {0} /\ FewEvals \in Nat \ {0}
  BY WindowsTyped
<1>2. ASSUME Len(reward) >= Short, Climbs(reward), Len(kl) >= Short, Climbs(kl),
             Len(evals) >= FewEvals, ~Rises(evals)
      PROVE  RewardHacking = "warn"
  <2>1. Trend(reward) > 0 /\ Trend(kl) > 0
    BY <1>1, <1>2, ClimbingTrend
  <2>2. Len(evals) > 0
    BY <1>1, <1>2
  <2>3. Trend(evals) <= 0
    BY <1>1, <1>2, <2>2, FallingTrend
  <2> QED BY <1>2, <2>1, <2>3, RewardHackingWarns
<1>3. ASSUME Len(reward) >= Short, Climbs(reward),
             Len(turns) >= Short, Falls(turns), ~Rises(turns), ~Rises(nontrivial)
      PROVE  ReplDegeneracy = "fail"
  <2>1. Trend(reward) > 0
    BY <1>1, <1>3, ClimbingTrend
  <2>2. Len(turns) > 0
    BY <1>1, <1>3
  <2>3. Trend(turns) < 0
    BY <1>1, <1>3, <2>2, FallingTrend
  <2>4. Len(nontrivial) >= Short => Trend(nontrivial) <= 0
    <3>1. Len(nontrivial) >= Short => Len(nontrivial) > 0
      BY <1>1
    <3> QED BY <1>1, <1>3, <3>1, FallingTrend
  <2> QED BY <1>3, <2>1, <2>3, <2>4, ReplDegeneracyFails
<1>4. ASSUME Len(entropy) >= Short, Falls(entropy), ~Rises(entropy)
      PROVE  Entropy \in {"warn", "fail"}
  <2> DEFINE w == LastOf(entropy, Short)
  <2>1. Len(entropy) \in Nat \ {0} /\ entropy # << >>
    BY <1>1, <1>4
  <2>2. Trend(entropy) < 0
    BY <1>1, <1>4, <2>1, FallingTrend
  <2>3. /\ Len(w) = Short
        /\ \A i \in 1..Len(w) : w[i] = entropy[Len(entropy) - Len(w) + i]
    BY <1>1, <1>4, <2>1, Latest
  <2>4. \A i \in 1..Len(entropy) : entropy[i] \in Int
    BY <1>1, ElementOf
  <2> HIDE DEF w, entropy
  <2>5. ASSUME NEW i \in 1..Len(w) - 1 PROVE w[i + 1] <= w[i]
    <3> DEFINE j == Len(entropy) - Len(w) + i
    <3>1. i \in 1..Len(w) /\ i + 1 \in 1..Len(w)
      BY <1>1, <2>3
    <3>2. w[i] = entropy[j] /\ w[i + 1] = entropy[j + 1]
      <4>1. Len(entropy) - Len(w) + (i + 1) = j + 1
        BY <1>1, <2>1, <2>3
      <4> QED BY <2>3, <3>1, <4>1
    <3>3. j \in 1..Len(entropy) - 1 /\ j \in 1..Len(entropy) /\ j + 1 \in 1..Len(entropy)
      BY <1>1, <1>4, <2>1, <2>3
    <3> HIDE DEF j
    <3>4. ~(entropy[j] < entropy[j + 1])
      BY <1>4, <3>3 DEF Rises
    <3>5. entropy[j] \in Int /\ entropy[j + 1] \in Int
      BY <2>4, <3>3
    <3> QED BY <3>2, <3>4, <3>5
  <2>6. Collapsing
    BY <1>4, <2>2, <2>5 DEF Collapsing, w, entropy
  <2> QED BY <2>1, <2>6, EntropySpeaks DEF entropy
<1> QED BY <1>2, <1>3, <1>4 DEF SteadySignatureIsCaught

LEMMA NoFalseSignature == MetricsInd => NoSignatureWithoutCause
<1> SUFFICES ASSUME MetricsInd PROVE NoSignatureWithoutCause
  OBVIOUS
<1>1. /\ \A k : Seen(k, Long) \in Seq(Int) /\ Seen(k, Few) \in Seq(Int)
      /\ Short \in Nat \ {0} /\ FewEvals \in Nat \ {0}
  BY WindowsTyped
<1>2. ASSUME NEW s \in Seq(Int), Len(s) > 0, Trend(s) > 0 PROVE Rises(s)
  BY <1>2, FallingTrend
<1>3. ASSUME NEW s \in Seq(Int), Len(s) > 0, Trend(s) < 0 PROVE Falls(s)
  BY <1>3, RisingTrend
<1>4. ASSUME NEW s \in Seq(Int), Len(s) > 0, Trend(s) <= 0 PROVE ~Climbs(s)
  <2>1. Climbs(s) => Trend(s) > 0 /\ ~Falls(s)
    <3>1. ASSUME Climbs(s) PROVE ~Falls(s)
      <4>1. ASSUME NEW i \in 1..Len(s) - 1 PROVE ~(s[i] > s[i + 1])
        <5>1. i \in 1..Len(s) /\ i + 1 \in 1..Len(s)
          OBVIOUS
        <5>2. s[i] \in Int /\ s[i + 1] \in Int
          BY <5>1, ElementOf
        <5> QED BY <3>1, <5>2 DEF Climbs
      <4> QED BY <4>1 DEF Falls
    <3> QED BY <3>1, ClimbingTrend
  <2>2. Climbs(s) => Trend(s) \in Int
    BY <1>4, <2>1, RisingTrend
  <2> QED BY <1>4, <2>1, <2>2
<1>5. \A k : /\ Len(Seen(k, Long)) >= Short => Len(Seen(k, Long)) > 0
             /\ Len(Seen(k, Few)) >= FewEvals => Len(Seen(k, Few)) > 0
  <2> SUFFICES ASSUME NEW k
               PROVE  /\ Len(Seen(k, Long)) >= Short => Len(Seen(k, Long)) > 0
                      /\ Len(Seen(k, Few)) >= FewEvals => Len(Seen(k, Few)) > 0
    OBVIOUS
  <2>1. Len(Seen(k, Long)) \in Nat /\ Len(Seen(k, Few)) \in Nat
    BY <1>1
  <2> QED BY <1>1, <2>1
<1>6. RewardHacking = "warn" =>
        /\ Rises(Seen("reward/mean", Long)) /\ Rises(Seen("kl/ref", Long))
        /\ Len(Seen("eval/score", Few)) >= FewEvals /\ ~Climbs(Seen("eval/score", Few))
  BY <1>1, <1>2, <1>4, <1>5, RewardHackingWarns
<1>7. ReplDegeneracy = "fail" =>
        /\ Rises(Seen("reward/mean", Long)) /\ Falls(Seen("repl/mean_turns", Long))
        /\ ~(Len(Seen("repl/nontrivial_fraction", Long)) >= Short
               /\ Climbs(Seen("repl/nontrivial_fraction", Long)))
  BY <1>1, <1>2, <1>3, <1>4, <1>5, ReplDegeneracyFails
<1>8. Entropy = "warn" => Falls(Seen("policy/entropy", Long))
  BY <1>1, <1>3, <1>5, EntropySpeaks DEF Collapsing
<1> QED BY <1>6, <1>7, <1>8 DEF NoSignatureWithoutCause

\* A run that shows a signature at every sample of the windows is caught by the probe
\* that looks for it, whatever the lengths of the windows and the size of the changes:
\* the least-squares slope of a series that never falls is not negative, and positive
\* when it rises at all.
THEOREM SignaturesCaught == MetricsSpec => []SteadySignatureIsCaught
BY InitTyped, StepTyped, SignatureSeen, PTL DEF MetricsSpec

\* No signature is reported of a run that does not show its parts.
THEOREM NoSignatureInvented == MetricsSpec => []NoSignatureWithoutCause
BY InitTyped, StepTyped, NoFalseSignature, PTL DEF MetricsSpec

------------------------------------------------------------------------------
(* A climb is warned about before its limit *)

LEMMA ScaleIs ==
  ASSUME NEW n \in Int
  PROVE  (n - 1) * n * (3 * n - 2 * n + 1) = n * (n * n - 1)
OBVIOUS

\* A part of a sum that grows by six weights times what a climb has over c.
LEMMA ClimbOverIdentity ==
  ASSUME NEW w \in Int, NEW d \in Int, NEW c \in Int,
         NEW a \in Int, NEW b \in Int, NEW p \in Int, NEW q \in Int,
         a = b + w * d, p = q + 6 * w
  PROVE  6 * a - c * p = (6 * b - c * q) + 6 * (w * (d - c))
<1>1. 6 * a = 6 * b + 6 * (w * d)
  OBVIOUS
<1>2. c * p = c * q + 6 * (w * c)
  OBVIOUS
<1>3. w * (d - c) = w * d - w * c
  OBVIOUS
<1>4. w * d \in Int /\ w * c \in Int /\ c * p \in Int /\ c * q \in Int
  OBVIOUS
<1> QED BY <1>1, <1>2, <1>3, <1>4

\* A series that climbs by c or more at every sample has at least the trend of a line
\* that climbs by c.
LEMMA TrendOfClimbs ==
  ASSUME NEW s \in Seq(Int), NEW c \in Int, Len(s) > 0,
         \A i \in 1..Len(s) - 1 : s[i + 1] - s[i] >= c
  PROVE  Trend(s) \in Int /\ 6 * Trend(s) >= c * Scale(s)
<1> DEFINE n == Len(s)
           w(i) == (i - 1) * (n - i + 1)
           W(i) == (i - 1) * i * (3 * n - 2 * i + 1)
<1>1. n \in Nat \ {0} /\ n \in 1..n /\ n \in Int /\ 1 \in 1..n /\ \A i \in 1..n : s[i] \in Int
  BY ElementOf
<1>2. PICK e \in [1..n -> Int] :
        /\ e[1] = 0
        /\ \A i \in 2..n : e[i] = e[i - 1] + w(i) * (s[i] - s[i - 1])
        /\ Trend(s) = e[n]
  BY TrendByClimbs
<1> DEFINE h == [i \in 1..n |-> 6 * e[i] - c * W(i)]
<1>3. \A i \in 1..n : W(i) \in Int /\ e[i] \in Int
  BY <1>1, <1>2
<1>4. h \in [1..n -> Int] /\ \A i \in 1..n : h[i] = 6 * e[i] - c * W(i)
  <2> HIDE DEF W
  <2> QED BY <1>1, <1>3
<1>5. h[1] = 0
  <2>1. W(1) = 0
    BY <1>1
  <2> HIDE DEF W, h
  <2> QED BY <1>1, <1>2, <1>4, <2>1
<1>6. Scale(s) = W(n)
  BY <1>1, ScaleIs DEF Scale
<1>7. ASSUME NEW i \in 2..n PROVE h[i] >= h[i - 1]
  <2>1. i - 1 \in 1..n - 1 /\ i \in 1..n /\ i - 1 \in 1..n /\ i - 1 + 1 = i /\ i \in Int
    BY <1>1
  <2>2. w(i) \in Int /\ w(i) > 0
    BY <1>1, WeightIsPositive, Zenon
  <2>3. W(i) = W(i - 1) + 6 * w(i)
    <3>1. (i - 1) * i * (3 * n - 2 * i + 1)
            = (i - 2) * (i - 1) * (3 * n - 2 * (i - 1) + 1) + 6 * ((i - 1) * (n - i + 1))
      BY <1>1, <2>1, WeightStepIdentity, Zenon
    <3>2. i - 1 - 1 = i - 2
      BY <2>1
    <3> QED BY <3>1, <3>2, Zenon
  <2> DEFINE d == s[i] - s[i - 1]
  <2>4. d \in Int /\ d - c \in Int /\ d - c >= 0
    BY <1>1, <2>1
  <2>5. e[i] = e[i - 1] + w(i) * d
    BY <1>2
  <2>6. W(i) \in Int /\ W(i - 1) \in Int /\ e[i] \in Int /\ e[i - 1] \in Int
    BY <1>3, <2>1
  <2>7. h[i] = 6 * e[i] - c * W(i) /\ h[i - 1] = 6 * e[i - 1] - c * W(i - 1)
    BY <1>4, <2>1
  <2> HIDE DEF d, w, W, h
  <2>8. h[i] = h[i - 1] + 6 * (w(i) * (d - c))
    <3> DEFINE x == w(i)
               a == e[i]
               b == e[i - 1]
               p == W(i)
               q == W(i - 1)
    <3>1. /\ x \in Int /\ a \in Int /\ b \in Int /\ p \in Int /\ q \in Int
          /\ a = b + x * d /\ p = q + 6 * x
      BY <2>2, <2>3, <2>5, <2>6
    <3>2. 6 * a - c * p = (6 * b - c * q) + 6 * (x * (d - c))
      <4> HIDE DEF x, a, b, p, q
      <4>1. d \in Int
        BY <2>4
      <4> QED BY <3>1, <4>1, ClimbOverIdentity
    <3> QED BY <2>7, <3>2
  <2>9. w(i) * (d - c) \in Int /\ w(i) * (d - c) >= 0
    BY <2>2, <2>4, WeightedSign
  <2>10. h[i - 1] \in Int
    BY <1>4, <2>1
  <2> QED BY <2>8, <2>9, <2>10
<1> HIDE DEF h, W, n
<1>8. h[n] >= 0
  BY <1>1, <1>4, <1>5, <1>7, GrowingSum
<1>9. h[n] = 6 * e[n] - c * W(n) /\ W(n) \in Int /\ e[n] \in Int
  BY <1>1, <1>3, <1>4
<1> QED BY <1>2, <1>6, <1>8, <1>9

LEMMA ScalePositive ==
  ASSUME NEW n \in Nat, n > 1
  PROVE  n * (n * n - 1) \in Int /\ n * (n * n - 1) > 0
<1>1. n * n \in Int /\ n * n >= 2
  OBVIOUS
<1>2. \A m \in Int : m >= 2 => n * (m - 1) \in Int /\ n * (m - 1) > 0
  OBVIOUS
<1> QED BY <1>1, <1>2

LEMMA BeyondIdentity ==
  ASSUME NEW last \in Int, NEW c \in Int, NEW limit \in Int, NEW scale \in Int, NEW t \in Int,
         scale > 0, last + 10 * c > limit, 6 * t >= c * scale
  PROVE  last * scale + 10 * 6 * t > limit * scale
<1>1. (last + 10 * c - limit) * scale > 0
  OBVIOUS
<1>2. (last + 10 * c - limit) * scale = last * scale + 10 * (c * scale) - limit * scale
  OBVIOUS
<1>3. last * scale \in Int /\ c * scale \in Int /\ limit * scale \in Int
  OBVIOUS
<1> QED BY <1>1, <1>2, <1>3

LEMMA BeyondStep ==
  ASSUME NEW v \in Int, NEW limit \in Int, NEW z \in Int, NEW c \in Int,
         v > limit, v - z <= 10 * c
  PROVE  z + 10 * c > limit
OBVIOUS

\* Where the samples of a window lie in the series it is cut from.
LEMMA WindowIndex ==
  ASSUME NEW n \in Nat, NEW m \in Nat, m > 1, m <= n
  PROVE  m \in 1..m /\ n \in 1..n /\ n - m + m = n /\ 1 \in 1..m - 1
OBVIOUS

LEMMA PlaceInWindow ==
  ASSUME NEW n \in Nat, NEW m \in Nat, m <= n, NEW i \in 1..m - 1
  PROVE  /\ i \in 1..m /\ i + 1 \in 1..m
         /\ n - m + i \in 1..n /\ n - m + i + 1 \in 1..n
         /\ n - m + (i + 1) = n - m + i + 1
OBVIOUS

\* What the probe has seen of a climb when the value that passes the limit comes.
LEMMA ClimbForeseen ==
  ASSUME NEW s \in Seq(Int), NEW v \in Int, NEW limit \in Int, NEW w \in Seq(Int),
         Len(w) > 1, Len(w) <= Len(s),
         \A i \in 1..Len(w) : w[i] = s[Len(s) - Len(w) + i],
         Climbs(Append(s, v)),
         \A i, j \in 1..Len(Append(s, v)) - 1 :
            Climb(Append(s, v), i) <= 10 * Climb(Append(s, v), j),
         v > limit
  PROVE  /\ Trend(w) > 0
         /\ w[Len(w)] * Scale(w) + 10 * 6 * Trend(w) > limit * Scale(w)
<1> DEFINE n == Len(s)
           m == Len(w)
           all == Append(s, v)
<1>1. n \in Nat /\ m \in Nat /\ m > 1 /\ m <= n
  OBVIOUS
<1>2. /\ Len(all) = n + 1 /\ all[n + 1] = v
      /\ \A i \in 1..n : all[i] = s[i] /\ s[i] \in Int
  OBVIOUS
<1>3. /\ \A i \in 1..n : all[i] < all[i + 1]
      /\ \A i, j \in 1..n : all[i + 1] - all[i] <= 10 * (all[j + 1] - all[j])
  <2>1. Len(all) - 1 = n
    BY <1>1, <1>2
  <2> QED BY <2>1 DEF Climbs, Climb
<1> HIDE DEF all
<1>4. ASSUME NEW i \in 1..m - 1
      PROVE  /\ w[i] \in Int /\ w[i + 1] \in Int /\ w[i + 1] - w[i] \in Nat \ {0}
             /\ v - s[n] <= 10 * (w[i + 1] - w[i])
  <2> DEFINE j == n - m + i
  <2>1. /\ i \in 1..m /\ i + 1 \in 1..m /\ j \in 1..n /\ j + 1 \in 1..n /\ n \in 1..n
        /\ n - m + (i + 1) = j + 1
    <3> HIDE DEF n, m
    <3> QED BY <1>1, WindowIndex, PlaceInWindow
  <2>2. w[i] = s[j] /\ w[i + 1] = s[j + 1]
    <3>1. \A k \in 1..m : w[k] = s[n - m + k]
      OBVIOUS
    <3> HIDE DEF n, m
    <3>2. w[i] = s[n - m + i] /\ w[i + 1] = s[n - m + (i + 1)]
      BY <2>1, <3>1, Zenon
    <3> QED BY <2>1, <3>2, Zenon
  <2> HIDE DEF j
  <2>3. all[j] = w[i] /\ all[j + 1] = w[i + 1] /\ all[n] = s[n] /\ all[n + 1] = v
    BY <1>2, <2>1, <2>2
  <2>4. all[j] < all[j + 1] /\ all[n + 1] - all[n] <= 10 * (all[j + 1] - all[j])
    BY <1>3, <2>1
  <2>5. w[i] \in Int /\ w[i + 1] \in Int /\ s[n] \in Int
    BY <1>2, <2>1, <2>2
  <2> DEFINE a == w[i]
             b == w[i + 1]
             z == s[n]
  <2>6. a < b /\ v - z <= 10 * (b - a)
    BY <2>3, <2>4
  <2>7. a \in Int /\ b \in Int /\ z \in Int
    BY <2>5
  <2>8. a \in Int /\ b \in Int /\ b - a \in Nat \ {0} /\ v - z <= 10 * (b - a)
    <3> HIDE DEF a, b, z
    <3> QED BY <2>6, <2>7
  <2> QED BY <2>8
<1> DEFINE T == {w[i + 1] - w[i] : i \in 1..m - 1}
<1>5. PICK c \in T : \A k \in T : c <= k
  <2>1. T \in SUBSET Nat
    BY <1>4
  <2>2. 1 \in 1..m - 1
    BY <1>1
  <2>3. T # {}
    BY <2>2
  <2> HIDE DEF T
  <2> QED BY <2>1, <2>3, LeastElement
<1>6. /\ c \in Int /\ c > 0 /\ v - s[n] <= 10 * c
      /\ \A i \in 1..m - 1 : w[i + 1] - w[i] >= c
  <2>1. PICK k \in 1..m - 1 : c = w[k + 1] - w[k]
    BY <1>5
  <2>2. c \in Nat \ {0} /\ v - s[n] <= 10 * c
    BY <1>4, <2>1
  <2>3. ASSUME NEW i \in 1..m - 1 PROVE w[i + 1] - w[i] >= c
    <3> DEFINE d == w[i + 1] - w[i]
    <3>1. d \in T /\ d \in Nat
      BY <1>4
    <3>2. c <= d
      BY <1>5, <3>1
    <3> HIDE DEF d
    <3>3. d >= c
      BY <2>2, <3>1, <3>2
    <3> QED BY <3>3 DEF d
  <2> HIDE DEF T
  <2> QED BY <2>2, <2>3
<1>7. w[m] = s[n] /\ s[n] \in Int
  <2>1. m \in 1..m /\ n \in 1..n /\ n - m + m = n
    <3> HIDE DEF n, m
    <3> QED BY <1>1, WindowIndex
  <2>2. w[m] = s[n - m + m]
    BY <2>1
  <2> QED BY <1>2, <2>1, <2>2
<1>8. w[m] + 10 * c > limit /\ w[m] \in Int
  <2> DEFINE z == s[n]
  <2>1. z \in Int /\ c \in Int /\ v - z <= 10 * c /\ w[m] = z
    BY <1>6, <1>7
  <2> HIDE DEF z
  <2>2. z + 10 * c > limit
    BY <2>1, BeyondStep
  <2> QED BY <2>1, <2>2
<1>9. Scale(w) \in Int /\ Scale(w) > 0
  BY <1>1, ScalePositive DEF Scale
<1>10. Trend(w) \in Int /\ 6 * Trend(w) >= c * Scale(w)
  <2>1. Len(w) > 0
    BY <1>1
  <2> QED BY <1>6, <2>1, TrendOfClimbs
<1>11. Trend(w) > 0
  <2>1. c * Scale(w) \in Int /\ c * Scale(w) > 0
    BY <1>6, <1>9, WeightedSign
  <2> QED BY <1>10, <2>1
<1> QED BY <1>6, <1>8, <1>9, <1>10, <1>11, BeyondIdentity, Zenon

LEMMA KlRefFails ==
  KlRef = "fail" <=>
    /\ wandbUp /\ Seen("kl/ref", Long) # << >>
    /\ Last(Seen("kl/ref", Long)) > Health.kl_max
BY DEF KlRef, Judge

LEMMA KlRefWarns ==
  KlRef = "warn" <=>
    LET w == Seen("kl/ref", Long)
    IN /\ wandbUp /\ w # << >>
       /\ ~(Last(w) > Health.kl_max)
       /\ Trend(w) > 0
       /\ Len(w) >= Few
       /\ Last(w) * Scale(w) + 10 * 6 * Trend(w) > Health.kl_max * Scale(w)
BY DEF KlRef, Judge

LEMMA KlRefFailsNext ==
  (KlRef = "fail" <=>
    /\ wandbUp /\ Seen("kl/ref", Long) # << >>
    /\ Last(Seen("kl/ref", Long)) > Health.kl_max)'
BY KlRefFails, PTL

ClimbForetold ==
    LET before == Seen("kl/ref", Long)
        all == FiniteOf(Series("kl/ref"))'
    IN /\ wandbUp /\ Len(before) >= Few
       /\ Climbs(all)
       /\ \A i, j \in 1..Len(all) - 1 : Climb(all, i) <= 10 * Climb(all, j)
       /\ KlRef # "fail" /\ KlRef' = "fail"
       => KlRef = "warn"

LEMMA ClimbStep == MetricsInd /\ [MetricsNext]_vars => ClimbForetold
<1> SUFFICES ASSUME MetricsInd, [MetricsNext]_vars, wandbUp,
                    Len(Seen("kl/ref", Long)) >= Few,
                    Climbs(FiniteOf(Series("kl/ref"))'),
                    \A i, j \in 1..Len(FiniteOf(Series("kl/ref"))') - 1 :
                       Climb(FiniteOf(Series("kl/ref"))', i)
                         <= 10 * Climb(FiniteOf(Series("kl/ref"))', j),
                    KlRef # "fail", KlRef' = "fail"
             PROVE  KlRef = "warn"
  BY DEF ClimbForetold
<1> DEFINE s == FiniteOf(Series("kl/ref"))
           w == Seen("kl/ref", Long)
<1>1. /\ s \in Seq(Int) /\ w \in Seq(Int)
      /\ Len(w) = IF Len(s) < Long THEN Len(s) ELSE Long
      /\ \A i \in 1..Len(w) : w[i] = s[Len(s) - Len(w) + i]
      /\ Long \in Nat \ {0} /\ Few \in Nat /\ Few > 1 /\ Health.kl_max \in Int
  BY SeenIs, MetricsAssumption
<1> HIDE DEF s, w
<1>2. /\ Len(w) \in Nat /\ Len(s) \in Nat /\ Len(w) > 1 /\ Len(w) <= Len(s)
      /\ w # << >> /\ Last(w) = w[Len(w)] /\ w[Len(w)] \in Int
  <2>1. Len(w) \in Nat /\ Len(s) \in Nat
    BY <1>1
  <2>2. Len(w) >= Few
    BY DEF w
  <2>3. Len(w) > 1 /\ Len(w) <= Len(s)
    BY <1>1, <2>1, <2>2
  <2> QED BY <1>1, <2>1, <2>3 DEF Last
<1>3. ~(w[Len(w)] > Health.kl_max)
  BY <1>2, KlRefFails DEF w
<1>4. wandbUp' /\ w' # << >> /\ Last(w') > Health.kl_max
  BY KlRefFailsNext DEF w
<1>5. s' # s
  <2> SUFFICES ASSUME s' = s PROVE FALSE
    OBVIOUS
  <2>1. w' = w
    BY DEF Seen, s, w
  <2> QED BY <1>2, <1>3, <1>4, <2>1
<1>6. PICK v \in Int : s' = Append(s, v)
  <2>1. ~(Blink \/ UNCHANGED vars)
    BY <1>5, QuietStep DEF s
  <2>2. PICK k \in DOMAIN training.logs : \E v \in training.logs[k] : LogMetric(k, v)
    BY <2>1 DEF MetricsNext
  <2> PICK v \in training.logs[k] : LogMetric(k, v)
    BY <2>2
  <2>3. k = "kl/ref" /\ Finite(v) /\ v \in Int
    BY <1>5, FiniteStep DEF s
  <2> QED BY <2>3, FiniteStep DEF s
<1>7. v > Health.kl_max
  <2>1. w' = LastOf(s', Long)
    BY DEF Seen, s, w
  <2>2. s' \in Seq(Int) /\ Len(s') = Len(s) + 1 /\ s'[Len(s')] = v
    BY <1>1, <1>6
  <2>3. /\ w' \in Seq(Int)
        /\ Len(w') = IF Len(s') < Long THEN Len(s') ELSE Long
        /\ \A i \in 1..Len(w') : w'[i] = s'[Len(s') - Len(w') + i]
    <3>1. Long \in Nat \ {0} /\ s' \in Seq(Int)
      BY <1>1, <2>2
    <3> QED BY <2>1, <3>1, Latest, Zenon
  <2>4. Len(w') \in Nat \ {0} /\ Len(w') \in 1..Len(w')
    BY <1>1, <1>2, <2>2, <2>3
  <2>5. Last(w') = v
    <3>1. Len(s') - Len(w') + Len(w') = Len(s')
      BY <1>2, <2>2, <2>4
    <3>2. w'[Len(w')] = v
      BY <2>2, <2>3, <2>4, <3>1
    <3> QED BY <3>2 DEF Last
  <2> QED BY <1>4, <2>5
<1>8. /\ Climbs(Append(s, v))
      /\ \A i, j \in 1..Len(Append(s, v)) - 1 :
            Climb(Append(s, v), i) <= 10 * Climb(Append(s, v), j)
  <2>1. /\ Climbs(s')
        /\ \A i, j \in 1..Len(s') - 1 : Climb(s', i) <= 10 * Climb(s', j)
    BY DEF s
  <2> QED BY <1>6, <2>1
<1>9. /\ Trend(w) > 0
      /\ w[Len(w)] * Scale(w) + 10 * 6 * Trend(w) > Health.kl_max * Scale(w)
  BY <1>1, <1>2, <1>6, <1>7, <1>8, ClimbForeseen
<1>10. Len(w) >= Few
  BY DEF w
<1> QED BY <1>2, <1>3, <1>9, <1>10, KlRefWarns DEF w

\* A KL that climbs evenly enough is warned about before it fails, whatever the limit
\* and the size of the climbs: its least-squares slope is at least its least climb, so
\* ten samples ahead of it lies at least the next value.
THEOREM ClimbAlwaysWarned == MetricsSpec => ClimbIsWarnedFirst
<1>1. MetricsInd /\ [MetricsNext]_vars => [ClimbForetold]_vars
  BY ClimbStep
<1>2. MetricsSpec => [][ClimbForetold]_vars
  BY <1>1, InitTyped, StepTyped, PTL DEF MetricsSpec
<1> QED BY <1>2 DEF ClimbIsWarnedFirst, ClimbForetold

==============================================================================
