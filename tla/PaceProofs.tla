----------------------------- MODULE PaceProofs ------------------------------
(***************************************************************************)
(* Proofs about Pace, for every planned length, lead, duration of a step    *)
(* and number of rows that other writers add.                               *)
(***************************************************************************)
EXTENDS Pace, FiniteSetTheorems, TLAPS

------------------------------------------------------------------------------
(* Numbers *)

\* A set of naturals that is not empty has a least element.
LEMMA LeastElement ==
  ASSUME NEW T \in SUBSET Nat, T # {}
  PROVE  \E m \in T : \A k \in T : m <= k
<1>1. PICK m \in T : \A k \in T : ~(<<k, m>> \in OpToRel(<, Nat))
  BY NatLessThanWellFounded, WFMin
<1>2. \A k \in T : ~(k < m)
  BY <1>1 DEF OpToRel
<1> QED BY <1>2

\* A set that holds 0, and n + 1 for each n it holds, holds every natural number.
LEMMA Induction ==
  ASSUME NEW T, 0 \in T, \A n \in Nat : n \in T => n + 1 \in T
  PROVE  \A n \in Nat : n \in T
<1> SUFFICES ASSUME NEW n \in Nat, n \notin T PROVE FALSE
  OBVIOUS
<1> DEFINE B == {k \in Nat : k \notin T}
<1>1. PICK m \in B : \A k \in B : m <= k
  BY LeastElement
<1>2. m - 1 \in Nat /\ m - 1 \notin B
  BY <1>1
<1> QED BY <1>1, <1>2

\* The minimum and the maximum of a set that has one.
LEMMA MinOf ==
  ASSUME NEW S \in SUBSET Int, NEW x \in S, \A y \in S : x <= y
  PROVE  Min(S) = x
<1>1. Min(S) \in S /\ \A y \in S : Min(S) <= y
  BY DEF Min
<1>2. Min(S) \in Int /\ x \in Int /\ Min(S) <= x /\ x <= Min(S)
  BY <1>1
<1> QED BY <1>2

LEMMA MaxOf ==
  ASSUME NEW S \in SUBSET Int, NEW x \in S, \A y \in S : x >= y
  PROVE  Max(S) = x
<1>1. Max(S) \in S /\ \A y \in S : Max(S) >= y
  BY DEF Max
<1>2. Max(S) \in Int /\ x \in Int /\ Max(S) >= x /\ x >= Max(S)
  BY <1>1
<1> QED BY <1>2

\* A set of naturals below a bound has a greatest element.
LEMMA GreatestElement ==
  ASSUME NEW b \in Nat, NEW T \in SUBSET (0..b), T # {}
  PROVE  \E m \in T : \A k \in T : k <= m
<1> DEFINE B == {b - k : k \in T}
<1>1. B \in SUBSET Nat /\ B # {}
  <2>1. \A k \in T : b - k \in Nat
    OBVIOUS
  <2>2. PICK k \in T : TRUE
    OBVIOUS
  <2>3. b - k \in B
    BY <2>2
  <2> QED BY <2>1, <2>3
<1>2. PICK z \in B : \A k \in B : z <= k
  <2> HIDE DEF B
  <2> QED BY <1>1, LeastElement
<1>3. PICK m \in T : z = b - m
  OBVIOUS
<1>4. ASSUME NEW k \in T PROVE k <= m
  <2>1. b - k \in B
    OBVIOUS
  <2>2. b - m <= b - k
    BY <1>2, <1>3, <2>1
  <2> HIDE DEF B
  <2>3. k \in Int /\ m \in Int
    OBVIOUS
  <2> QED BY <2>2, <2>3
<1> QED BY <1>4

------------------------------------------------------------------------------
(* The clock and the records *)

\* The clock ticks by whole units, and so do the steps it times.
Times == {a * Unit : a \in Nat}

LEMMA TimesAdd ==
  ASSUME NEW x \in Times, NEW n \in Nat
  PROVE  x \in Nat /\ x + n * Unit \in Times
<1>1. PICK a \in Nat : x = a * Unit
  BY DEF Times
<1>2. Unit \in Nat
  BY PaceAssumption
<1>3. x + n * Unit = (a + n) * Unit /\ x \in Nat /\ a + n \in Nat
  BY <1>1, <1>2
<1> QED BY <1>3 DEF Times

LEMMA TimesApart ==
  ASSUME NEW x \in Times, NEW y \in Times, x < y
  PROVE  x + Unit <= y
<1>1. PICK a \in Nat : x = a * Unit
  BY DEF Times
<1>2. PICK b \in Nat : y = b * Unit
  BY DEF Times
<1>3. Unit \in Nat \ {0}
  BY PaceAssumption
<1>4. a < b
  <2> SUFFICES ASSUME b <= a PROVE FALSE
    OBVIOUS
  <2>1. PICK c \in Nat : a = b + c
    OBVIOUS
  <2>2. a * Unit = b * Unit + c * Unit /\ c * Unit \in Nat /\ b * Unit \in Nat
    BY <1>3, <2>1
  <2> QED BY <1>1, <1>2, <2>2
<1>5. PICK c \in Nat : b = a + 1 + c
  BY <1>4
<1>6. b * Unit = a * Unit + Unit + c * Unit /\ c * Unit \in Nat /\ a * Unit \in Nat
  BY <1>3, <1>5
<1> QED BY <1>1, <1>2, <1>3, <1>6

\* What is recorded is past, in order, and before the step under way ends.
ClockOK ==
    /\ now \in Times /\ due \in Times /\ now <= due /\ Lead * Unit <= now
    /\ stamps \in Seq(Nat) /\ Len(stamps) <= MaxSteps + 1
    /\ \A k \in 1..Len(stamps) : Lead * Unit <= stamps[k] /\ stamps[k] <= now
    /\ \A k \in 1..Len(stamps) - 1 : stamps[k] < stamps[k + 1]
    /\ Len(stamps) \in 1..MaxSteps => stamps[Len(stamps)] < due

\* A row about a step is about one already recorded, logged since.
RowsOK ==
    /\ rows \in Seq(Row) /\ extra \in Nat /\ extra <= MaxExtra
    /\ Len(rows) <= Len(stamps) + extra
    /\ \A i \in 1..Len(rows) : rows[i].step # None =>
          /\ rows[i].step + 1 \in 1..Len(stamps)
          /\ stamps[rows[i].step + 1] <= rows[i].ts /\ rows[i].ts <= now

HistoryOK == ClockOK /\ RowsOK

LEMMA InitHistory == PaceInit => HistoryOK
<1> SUFFICES ASSUME PaceInit PROVE HistoryOK
  OBVIOUS
<1>1. Lead \in Nat /\ Unit \in Nat /\ MaxExtra \in Nat /\ MaxSteps \in Nat
  BY PaceAssumption
<1>2. Lead * Unit \in Times /\ Lead * Unit \in Nat
  BY <1>1 DEF Times
<1>3. /\ now = Lead * Unit /\ due = now
      /\ stamps = << >> /\ Len(stamps) = 0 /\ rows = << >> /\ Len(rows) = 0 /\ extra = 0
  BY DEF PaceInit
<1>4. ClockOK
  BY <1>1, <1>2, <1>3 DEF ClockOK
<1>5. RowsOK
  BY <1>1, <1>3 DEF RowsOK
<1> QED BY <1>4, <1>5 DEF HistoryOK

\* Append puts its value at the end and leaves the others where they are.
LEMMA Appended ==
  ASSUME NEW S, NEW s \in Seq(S), NEW e \in S
  PROVE  /\ Append(s, e) \in Seq(S)
         /\ Len(Append(s, e)) = Len(s) + 1
         /\ \A i \in 1..Len(s) : Append(s, e)[i] = s[i]
         /\ Append(s, e)[Len(s) + 1] = e
OBVIOUS

LEMMA TickHistory == HistoryOK /\ Tick => HistoryOK'
<1> SUFFICES ASSUME HistoryOK, Tick PROVE HistoryOK'
  OBVIOUS
<1>1. now < due /\ now' = now + Unit /\ UNCHANGED <<due, stamps, rows, extra>>
  BY DEF Tick
<1>2. now \in Times /\ due \in Times /\ Unit \in Nat \ {0} /\ Lead * Unit \in Int
  BY PaceAssumption DEF HistoryOK, ClockOK
<1>3. now + Unit \in Times /\ now \in Nat /\ due \in Nat
  <2>1. now + 1 * Unit \in Times /\ now \in Nat /\ due + 1 * Unit \in Times /\ due \in Nat
    BY <1>2, TimesAdd
  <2>2. 1 * Unit = Unit
    BY <1>2
  <2> QED BY <2>1, <2>2
<1>4. now + Unit <= due
  BY <1>1, <1>2, TimesApart
<1>5. ASSUME NEW k \in 1..Len(stamps) PROVE Lead * Unit <= stamps[k] /\ stamps[k] <= now'
  <2>1. stamps[k] \in Nat /\ Lead * Unit <= stamps[k] /\ stamps[k] <= now
    BY DEF HistoryOK, ClockOK
  <2> QED BY <1>1, <1>2, <1>3, <2>1
<1>6. Lead * Unit <= now'
  BY <1>1, <1>2, <1>3 DEF HistoryOK, ClockOK
<1>7. ClockOK'
  BY <1>1, <1>2, <1>3, <1>4, <1>5, <1>6 DEF HistoryOK, ClockOK
<1>8. ASSUME NEW i \in 1..Len(rows), rows[i].step # None
      PROVE  /\ rows[i].step + 1 \in 1..Len(stamps)
             /\ stamps[rows[i].step + 1] <= rows[i].ts /\ rows[i].ts <= now'
  <2>1. /\ rows[i].step + 1 \in 1..Len(stamps)
        /\ stamps[rows[i].step + 1] <= rows[i].ts /\ rows[i].ts <= now
    BY <1>8 DEF HistoryOK, RowsOK
  <2>2. rows[i].ts \in Nat
    <3>1. rows \in Seq(Row)
      BY DEF HistoryOK, RowsOK
    <3>2. rows[i] \in Row
      BY <3>1
    <3> QED BY <3>2 DEF Row
  <2> QED BY <1>1, <1>2, <1>3, <2>1, <2>2
<1>9. RowsOK'
  BY <1>1, <1>8 DEF HistoryOK, RowsOK
<1> QED BY <1>7, <1>9 DEF HistoryOK

\* The records as a step sees them: the step's own comes last.
LEMMA RecordHistory ==
  ASSUME HistoryOK, NEW ticks \in Durations, NEW logs \in BOOLEAN, RecordStep(ticks, logs)
  PROVE  HistoryOK'
<1> DEFINE n == Len(stamps)
<1>1. /\ now = due /\ n <= MaxSteps /\ now' = now /\ extra' = extra
      /\ stamps' = Append(stamps, now)
      /\ rows' = IF logs THEN Append(rows, [step |-> n, ts |-> now]) ELSE rows
      /\ due' = IF n = MaxSteps THEN now ELSE now + ticks * Unit
  BY DEF RecordStep
<1>2. /\ Unit \in Nat \ {0} /\ Lead \in Nat /\ MaxSteps \in Nat \ {0}
      /\ ticks \in Nat \ {0} /\ MaxExtra \in Nat
  BY PaceAssumption
<1>3. /\ now \in Times /\ Lead * Unit <= now /\ stamps \in Seq(Nat) /\ n \in Nat
      /\ \A k \in 1..n : stamps[k] \in Nat /\ Lead * Unit <= stamps[k] /\ stamps[k] <= now
      /\ \A k \in 1..n - 1 : stamps[k] < stamps[k + 1]
      /\ n \in 1..MaxSteps => stamps[n] < due
  BY DEF HistoryOK, ClockOK
<1>4. now \in Nat /\ now + ticks * Unit \in Times /\ Lead * Unit \in Int
  BY <1>2, <1>3, TimesAdd
<1>5. ticks * Unit \in Nat /\ ticks * Unit > 0
  <2>1. \A a, b \in Nat \ {0} : a * b \in Nat /\ a * b > 0
    OBVIOUS
  <2> QED BY <1>2, <2>1
<1>6. /\ stamps' \in Seq(Nat) /\ Len(stamps') = n + 1
      /\ \A k \in 1..n : stamps'[k] = stamps[k]
      /\ stamps'[n + 1] = now
  BY <1>1, <1>3, <1>4, Appended
<1> HIDE DEF n
<1>7. \A k \in 1..Len(stamps') : Lead * Unit <= stamps'[k] /\ stamps'[k] <= now
  <2> SUFFICES ASSUME NEW k \in 1..n + 1
               PROVE  Lead * Unit <= stamps'[k] /\ stamps'[k] <= now
    BY <1>6
  <2>1. CASE k = n + 1
    BY <1>3, <1>4, <1>6, <2>1
  <2>2. CASE k # n + 1
    <3>1. k \in 1..n
      BY <1>3, <2>2
    <3> QED BY <1>3, <1>6, <3>1
  <2> QED BY <2>1, <2>2
<1>8. \A k \in 1..Len(stamps') - 1 : stamps'[k] < stamps'[k + 1]
  <2> SUFFICES ASSUME NEW k \in 1..n PROVE stamps'[k] < stamps'[k + 1]
    BY <1>3, <1>6
  <2>1. CASE k = n
    <3>1. n \in 1..MaxSteps /\ n \in 1..n
      BY <1>1, <1>2, <1>3, <2>1
    <3>2. stamps[n] < now
      BY <1>1, <1>3, <3>1
    <3> QED BY <1>6, <2>1, <3>1, <3>2
  <2>2. CASE k # n
    <3>1. k \in 1..n - 1 /\ k + 1 \in 1..n
      BY <1>3, <2>2
    <3> QED BY <1>3, <1>6, <3>1
  <2> QED BY <2>1, <2>2
<1>9. due' \in Times /\ now' <= due'
  BY <1>1, <1>3, <1>4, <1>5
<1>10. Len(stamps') \in 1..MaxSteps => stamps'[Len(stamps')] < due'
  <2> SUFFICES ASSUME n + 1 <= MaxSteps PROVE now < due'
    BY <1>3, <1>6
  <2>1. n # MaxSteps
    BY <1>2, <1>3
  <2> QED BY <1>1, <1>4, <1>5, <2>1
<1>11. ClockOK'
  <2>1. Len(stamps') <= MaxSteps + 1
    BY <1>1, <1>2, <1>3, <1>6
  <2> QED BY <1>1, <1>3, <1>6, <1>7, <1>8, <1>9, <1>10, <2>1 DEF ClockOK
<1>12. /\ rows \in Seq(Row) /\ Len(rows) \in Nat /\ extra \in Nat /\ extra <= MaxExtra
       /\ Len(rows) <= n + extra
       /\ \A i \in 1..Len(rows) : rows[i].step # None =>
             /\ rows[i].step + 1 \in 1..n
             /\ stamps[rows[i].step + 1] <= rows[i].ts /\ rows[i].ts <= now
  BY DEF HistoryOK, RowsOK, n
<1>13. ASSUME NEW i \in 1..Len(rows), rows[i].step # None
       PROVE  /\ rows[i].step + 1 \in 1..n + 1
              /\ stamps'[rows[i].step + 1] <= rows[i].ts /\ rows[i].ts <= now
  <2>1. rows[i].step + 1 \in 1..n
    BY <1>12, <1>13
  <2>2. rows[i].step + 1 \in 1..n + 1 /\ stamps'[rows[i].step + 1] = stamps[rows[i].step + 1]
    BY <1>3, <1>6, <2>1
  <2> QED BY <1>12, <1>13, <2>2
<1>14. RowsOK'
  <2>1. CASE ~logs
    <3>1. rows' = rows
      BY <1>1, <2>1
    <3>2. Len(rows') <= Len(stamps') + extra'
      BY <1>1, <1>3, <1>6, <1>12, <3>1
    <3>3. \A i \in 1..Len(rows') : rows'[i].step # None =>
            /\ rows'[i].step + 1 \in 1..Len(stamps')
            /\ stamps'[rows'[i].step + 1] <= rows'[i].ts /\ rows'[i].ts <= now'
      BY <1>1, <1>6, <1>13, <3>1
    <3> QED BY <1>1, <1>12, <3>1, <3>2, <3>3 DEF RowsOK
  <2>2. CASE logs
    <3> DEFINE e == [step |-> n, ts |-> now]
               m == Len(rows)
    <3>1. e \in Row /\ e.step = n /\ e.ts = now /\ n # None
      BY <1>1, <1>2, <1>3, <1>4 DEF Row, None
    <3> HIDE DEF e
    <3>2. /\ rows' \in Seq(Row) /\ Len(rows') = m + 1 /\ m \in Nat
          /\ \A i \in 1..m : rows'[i] = rows[i]
          /\ rows'[m + 1] = e
      <4>1. rows' = Append(rows, e)
        BY <1>1, <2>2 DEF e
      <4> QED BY <1>12, <3>1, <4>1, Appended
    <3> HIDE DEF m
    <3>3. Len(rows') <= Len(stamps') + extra'
      BY <1>1, <1>3, <1>6, <1>12, <3>2 DEF m
    <3>4. ASSUME NEW i \in 1..Len(rows'), rows'[i].step # None
          PROVE  /\ rows'[i].step + 1 \in 1..Len(stamps')
                 /\ stamps'[rows'[i].step + 1] <= rows'[i].ts /\ rows'[i].ts <= now'
      <4>1. CASE i = m + 1
        <5>1. rows'[i].step = n /\ rows'[i].ts = now /\ n + 1 \in 1..Len(stamps')
          BY <1>3, <1>6, <3>1, <3>2, <4>1
        <5> QED BY <1>1, <1>4, <1>6, <5>1
      <4>2. CASE i # m + 1
        <5>1. i \in 1..m
          BY <3>2, <4>2
        <5>2. rows'[i] = rows[i] /\ i \in 1..Len(rows)
          BY <3>2, <5>1 DEF m
        <5> QED BY <1>1, <1>6, <1>13, <3>4, <5>2
      <4> QED BY <4>1, <4>2
    <3> QED BY <1>1, <1>12, <3>2, <3>3, <3>4 DEF RowsOK
  <2> QED BY <2>1, <2>2
<1> QED BY <1>11, <1>14 DEF HistoryOK

\* A row about a recorded step, or about no step, changes nothing of what the others tell.
LEMMA OtherRow ==
  ASSUME HistoryOK, NEW e \in Row,
         e.step # None => e.step + 1 \in 1..Len(stamps),
         e.ts = now,
         extra < MaxExtra, extra' = extra + 1, rows' = Append(rows, e),
         UNCHANGED <<now, due, stamps>>
  PROVE  HistoryOK'
<1> DEFINE m == Len(rows)
<1>1. /\ rows \in Seq(Row) /\ m \in Nat /\ extra \in Nat /\ MaxExtra \in Nat
      /\ m <= Len(stamps) + extra /\ Len(stamps) \in Nat /\ now \in Nat
      /\ \A i \in 1..m : rows[i].step # None =>
             /\ rows[i].step + 1 \in 1..Len(stamps)
             /\ stamps[rows[i].step + 1] <= rows[i].ts /\ rows[i].ts <= now
  <2>1. MaxExtra \in Nat /\ Len(stamps) \in Nat /\ now \in Nat
    BY PaceAssumption, TimesAdd DEF HistoryOK, ClockOK
  <2>2. rows \in Seq(Row) /\ m \in Nat
    BY DEF HistoryOK, RowsOK
  <2> QED BY <2>1, <2>2, Zenon DEF HistoryOK, RowsOK
<1>2. /\ rows' \in Seq(Row) /\ Len(rows') = m + 1
      /\ \A i \in 1..m : rows'[i] = rows[i]
      /\ rows'[m + 1] = e
  BY <1>1, Appended
<1> HIDE DEF m
<1>3. ClockOK'
  BY DEF HistoryOK, ClockOK
<1>4. ASSUME NEW i \in 1..Len(rows'), rows'[i].step # None
      PROVE  /\ rows'[i].step + 1 \in 1..Len(stamps)
             /\ stamps[rows'[i].step + 1] <= rows'[i].ts /\ rows'[i].ts <= now
  <2>1. CASE i = m + 1
    <3>1. rows'[i].step + 1 \in 1..Len(stamps) /\ rows'[i].ts = now
      BY <1>2, <1>4, <2>1
    <3>2. stamps[rows'[i].step + 1] <= now
      BY <3>1 DEF HistoryOK, ClockOK
    <3> QED BY <1>1, <3>1, <3>2
  <2>2. CASE i # m + 1
    <3>1. i \in 1..m
      BY <1>1, <1>2, <2>2
    <3> QED BY <1>1, <1>2, <1>4, <3>1
  <2> QED BY <2>1, <2>2
<1>5. extra' \in Nat /\ extra' <= MaxExtra /\ Len(rows') <= Len(stamps) + extra'
  BY <1>1, <1>2
<1>6. RowsOK'
  BY <1>2, <1>4, <1>5 DEF RowsOK
<1> QED BY <1>3, <1>6 DEF HistoryOK

\* What only reads the history leaves it as it is.
Reads == UNCHANGED <<now, due, stamps, rows, extra>>

LEMMA ReadHistory == HistoryOK /\ Reads => HistoryOK'
BY DEF HistoryOK, ClockOK, RowsOK, Reads

\* Every other step of the program only reads.
LEMMA Steps ==
  ASSUME [PaceNext]_vars
  PROVE  \/ Tick
         \/ \E ticks \in Durations, logs \in BOOLEAN : RecordStep(ticks, logs)
         \/ \E step \in 0..Len(stamps) - 1 : LateRow(step)
         \/ PlainRow
         \/ Reads
BY DEF PaceNext, vars, Printed, ReadSummary, ReadStep, ReadHours, ReadRate, Reads

LEMMA StepHistory == HistoryOK /\ [PaceNext]_vars => HistoryOK'
<1> SUFFICES ASSUME HistoryOK, [PaceNext]_vars PROVE HistoryOK'
  OBVIOUS
<1>0. now \in Nat /\ Len(stamps) \in Nat
  BY TimesAdd DEF HistoryOK, ClockOK
<1>1. CASE Tick
  BY <1>1, TickHistory
<1>2. ASSUME NEW ticks \in Durations, NEW logs \in BOOLEAN, RecordStep(ticks, logs)
      PROVE  HistoryOK'
  BY <1>2, RecordHistory
<1>3. ASSUME NEW step \in 0..Len(stamps) - 1, LateRow(step) PROVE HistoryOK'
  <2> DEFINE e == [step |-> step, ts |-> now]
  <2>1. e \in Row /\ e.step + 1 \in 1..Len(stamps) /\ e.ts = now
    BY <1>0, PaceAssumption DEF Row, HistoryOK, ClockOK
  <2>2. /\ extra < MaxExtra /\ extra' = extra + 1 /\ rows' = Append(rows, e)
        /\ UNCHANGED <<now, due, stamps>>
    BY <1>3 DEF LateRow
  <2> HIDE DEF e
  <2> QED BY <2>1, <2>2, OtherRow
<1>4. CASE PlainRow
  <2> DEFINE e == [step |-> None, ts |-> now]
  <2>1. e \in Row /\ e.step = None /\ e.ts = now
    BY <1>0 DEF Row
  <2>2. /\ extra < MaxExtra /\ extra' = extra + 1 /\ rows' = Append(rows, e)
        /\ UNCHANGED <<now, due, stamps>>
    BY <1>4 DEF PlainRow
  <2> HIDE DEF e
  <2> QED BY <2>1, <2>2, OtherRow
<1> QED BY <1>1, <1>2, <1>3, <1>4, Steps, ReadHistory

------------------------------------------------------------------------------
(* What the rows tell *)

\* A logged step has been recorded; its stamp is no earlier, and if it has a row from
\* then, it is the time of the record.
LEMMA LoggedAre ==
  ASSUME HistoryOK
  PROVE  /\ LoggedSteps \in SUBSET (0..Len(stamps) - 1)
         /\ \A s \in LoggedSteps : StampOf(s) \in 0..now
         /\ OnTime => \A s \in LoggedSteps : StampOf(s) = stamps[s + 1]
<1>1. /\ rows \in Seq(Row) /\ Len(stamps) \in Nat /\ now \in Nat
      /\ \A i \in 1..Len(rows) : rows[i].step # None =>
             /\ rows[i].step + 1 \in 1..Len(stamps)
             /\ stamps[rows[i].step + 1] <= rows[i].ts /\ rows[i].ts <= now
  BY TimesAdd DEF HistoryOK, RowsOK, ClockOK
<1>2. ASSUME NEW i \in 1..Len(rows)
      PROVE  rows[i].ts \in Nat /\ rows[i].step \in Int
  <2>1. rows[i] \in Row
    BY <1>1
  <2> QED BY <2>1, PaceAssumption DEF Row, None
<1>3. /\ Stepped = {rows[i] : i \in {j \in 1..Len(rows) : rows[j].step # None}}
      /\ ToSet(rows) = {rows[i] : i \in 1..Len(rows)}
  BY <1>1 DEF Stepped, ToSet
<1>4. ASSUME NEW s \in LoggedSteps
      PROVE  /\ s \in 0..Len(stamps) - 1 /\ StampOf(s) \in 0..now
             /\ OnTime => StampOf(s) = stamps[s + 1]
  <2> DEFINE S == {row.ts : row \in {r \in Stepped : r.step = s}}
  <2>1. PICK i \in 1..Len(rows) : rows[i].step = s /\ s # None
    BY <1>3 DEF LoggedSteps
  <2>2. s \in Int /\ s + 1 \in 1..Len(stamps)
    BY <1>1, <1>2, <2>1
  <2>3. s \in 0..Len(stamps) - 1
    BY <1>1, <2>2
  <2>4. \A y \in S : y \in Nat /\ y <= now /\ stamps[s + 1] <= y
    BY <1>1, <1>2, <1>3, <2>1
  <2>5. rows[i] \in Stepped /\ rows[i].ts \in S
    BY <1>3, <2>1
  <2>6. ASSUME OnTime PROVE stamps[s + 1] \in S
    <3> DEFINE e == [step |-> s, ts |-> stamps[s + 1]]
    <3>1. e \in ToSet(rows) /\ e.step = s /\ e.ts = stamps[s + 1]
      BY <2>6 DEF OnTime
    <3> HIDE DEF e
    <3>2. e \in Stepped
      BY <2>1, <3>1 DEF Stepped
    <3> QED BY <3>1, <3>2
  <2> HIDE DEF S
  <2>7. S \in SUBSET Nat /\ S \in SUBSET Int /\ S # {}
    BY <2>4, <2>5
  <2>8. PICK m \in S : \A y \in S : m <= y
    BY <2>7, LeastElement
  <2>9. Min(S) = m /\ m \in 0..now
    BY <1>1, <2>4, <2>7, <2>8, MinOf
  <2>10. OnTime => Min(S) = stamps[s + 1]
    BY <2>4, <2>6, <2>7, MinOf
  <2> QED BY <2>3, <2>9, <2>10 DEF StampOf, S
<1> QED BY <1>4

\* A step without a row from its record does not get one later.
LEMMA NeverOnTimeLater ==
  ASSUME HistoryOK, [PaceNext]_vars, OnTime'
  PROVE  OnTime
<1>1. /\ rows \in Seq(Row) /\ stamps \in Seq(Nat) /\ Len(stamps) \in Nat /\ now \in Nat
      /\ LoggedSteps \in SUBSET (0..Len(stamps) - 1)
  <2>1. /\ rows \in Seq(Row) /\ stamps \in Seq(Nat) /\ Len(stamps) \in Nat
        /\ now \in Times /\ 0 \in Nat
    BY DEF HistoryOK, RowsOK, ClockOK
  <2>2. now \in Nat
    BY <2>1, TimesAdd
  <2> QED BY <2>1, <2>2, LoggedAre
<1>2. ASSUME NEW s \in LoggedSteps
      PROVE  /\ s \in 0..Len(stamps) - 1 /\ s # None
             /\ \E ts \in Nat : /\ [step |-> s, ts |-> ts] \in ToSet(rows)
                               /\ stamps[s + 1] <= ts /\ ts <= now
  <2>1. PICK r \in Stepped : r.step = s
    BY DEF LoggedSteps
  <2>2. PICK i \in 1..Len(rows) : r = rows[i] /\ r.step # None
    BY <2>1 DEF Stepped, ToSet
  <2>3. r \in Row /\ stamps[s + 1] <= r.ts /\ r.ts <= now
    BY <1>1, <2>1, <2>2 DEF HistoryOK, RowsOK
  <2>4. r = [step |-> s, ts |-> r.ts] /\ r.ts \in Nat
    BY <2>1, <2>3 DEF Row
  <2>5. r \in ToSet(rows)
    BY <2>1 DEF Stepped
  <2> QED BY <1>1, <2>1, <2>2, <2>3, <2>4, <2>5 DEF None
<1>3. ASSUME rows' = rows, stamps' = stamps PROVE OnTime
  <2>1. Stepped' = Stepped /\ LoggedSteps' = LoggedSteps
    BY <1>3 DEF Stepped, LoggedSteps
  <2> QED BY <1>3, <2>1 DEF OnTime
<1>4. ASSUME NEW e \in Row, rows' = Append(rows, e),
             \A s \in LoggedSteps : stamps'[s + 1] = stamps[s + 1],
             \A s \in LoggedSteps : e.step = s => e.ts = now
      PROVE  OnTime
  <2>1. ToSet(rows') = ToSet(rows) \cup {e}
    <3>1. /\ Len(rows') = Len(rows) + 1 /\ rows'[Len(rows) + 1] = e
          /\ \A i \in 1..Len(rows) : rows'[i] = rows[i]
      BY <1>1, <1>4, Appended
    <3>2. rows' \in Seq(Row) /\ Len(rows) \in Nat
      BY <1>1, <1>4, Appended
    <3>3. \A i : i \in 1..Len(rows') <=> i \in 1..Len(rows) \/ i = Len(rows) + 1
      BY <3>1, <3>2
    <3>4. DOMAIN rows = 1..Len(rows) /\ DOMAIN rows' = 1..Len(rows')
      BY <1>1, <3>2
    <3> QED BY <3>1, <3>3, <3>4, Zenon DEF ToSet
  <2> SUFFICES ASSUME NEW s \in LoggedSteps
               PROVE  [step |-> s, ts |-> stamps[s + 1]] \in ToSet(rows)
    BY DEF OnTime
  <2>2. s \in LoggedSteps'
    BY <2>1 DEF LoggedSteps, Stepped
  <2>3. [step |-> s, ts |-> stamps[s + 1]] \in ToSet(rows) \cup {e}
    <3>1. [step |-> s, ts |-> stamps'[s + 1]] \in ToSet(rows')
      BY <2>2 DEF OnTime
    <3> QED BY <1>4, <2>1, <3>1
  <2>4. CASE [step |-> s, ts |-> stamps[s + 1]] = e
    <3>1. e.step = s /\ e.ts = stamps[s + 1]
      BY <2>4
    <3>2. stamps[s + 1] = now
      BY <1>4, <3>1
    <3>3. PICK ts \in Nat : /\ [step |-> s, ts |-> ts] \in ToSet(rows)
                            /\ stamps[s + 1] <= ts /\ ts <= now
      BY <1>2
    <3>4. ts = stamps[s + 1]
      BY <1>1, <3>2, <3>3
    <3> QED BY <3>3, <3>4
  <2> QED BY <2>3, <2>4
<1>5. ASSUME NEW ticks \in Durations, NEW logs \in BOOLEAN, RecordStep(ticks, logs)
      PROVE  OnTime
  <2>1. /\ stamps' = Append(stamps, now)
        /\ rows' = IF logs THEN Append(rows, [step |-> Len(stamps), ts |-> now]) ELSE rows
        /\ Len(stamps) <= MaxSteps
    BY <1>5 DEF RecordStep
  <2>2. \A s \in LoggedSteps : stamps'[s + 1] = stamps[s + 1] /\ s # Len(stamps)
    <3> SUFFICES ASSUME NEW s \in LoggedSteps
                 PROVE  stamps'[s + 1] = stamps[s + 1] /\ s # Len(stamps)
      OBVIOUS
    <3>1. s + 1 \in 1..Len(stamps) /\ s # Len(stamps)
      BY <1>1
    <3> QED BY <1>1, <2>1, <3>1, Appended
  <2>3. CASE logs
    <3> DEFINE e == [step |-> Len(stamps), ts |-> now]
    <3>1. e \in Row /\ rows' = Append(rows, e)
      BY <1>1, <2>1, <2>3, PaceAssumption DEF Row
    <3>2. \A s \in LoggedSteps : e.step = s => e.ts = now
      OBVIOUS
    <3> HIDE DEF e
    <3> QED BY <1>4, <2>2, <3>1, <3>2
  <2>4. CASE ~logs
    <3>1. rows' = rows
      BY <2>1, <2>4
    <3>2. LoggedSteps' = LoggedSteps
      BY <3>1 DEF LoggedSteps, Stepped
    <3> QED BY <2>2, <3>1, <3>2 DEF OnTime
  <2> QED BY <2>3, <2>4
<1>6. ASSUME NEW step \in 0..Len(stamps) - 1, LateRow(step) PROVE OnTime
  <2> DEFINE e == [step |-> step, ts |-> now]
  <2>1. e \in Row /\ rows' = Append(rows, e) /\ stamps' = stamps /\ e.ts = now
    BY <1>1, <1>6, PaceAssumption DEF LateRow, Row, HistoryOK, ClockOK
  <2> HIDE DEF e
  <2> QED BY <1>4, <2>1
<1>7. CASE PlainRow
  <2> DEFINE e == [step |-> None, ts |-> now]
  <2>1. e \in Row /\ rows' = Append(rows, e) /\ stamps' = stamps /\ e.ts = now
    BY <1>1, <1>7 DEF PlainRow, Row
  <2> HIDE DEF e
  <2> QED BY <1>4, <2>1
<1>8. CASE Tick \/ Reads
  BY <1>3, <1>8 DEF Tick, Reads
<1> QED BY <1>5, <1>6, <1>7, <1>8, Steps

\* From s the history goes on with t, none of the steps between having a row.
Interval(s, t) ==
    /\ s \in LoggedSteps /\ t \in LoggedSteps /\ s < t
    /\ \A u \in LoggedSteps : u > s => t <= u

\* Each delta is the mean of an interval in which time passed.
LEMMA DeltasAre ==
  ASSUME HistoryOK
  PROVE  /\ DOMAIN Deltas \subseteq LoggedSteps
         /\ \A s \in DOMAIN Deltas :
               \E t : /\ Interval(s, t) /\ StampOf(t) > StampOf(s)
                      /\ Deltas[s] = (StampOf(t) - StampOf(s)) \div (t - s)
<1> DEFINE steps == LoggedSteps
           stamp == [s \in steps |-> StampOf(s)]
           next == [s \in {t \in steps : \E u \in steps : u > t} |->
                      Min({t \in steps : t > s})]
           measured == {t \in DOMAIN next : stamp[next[t]] > stamp[t]}
<1>1. /\ steps \in SUBSET (0..Len(stamps) - 1)
      /\ \A s \in steps : stamp[s] = StampOf(s)
  BY LoggedAre
<1>2. Deltas = [s \in measured |-> (stamp[next[s]] - stamp[s]) \div (next[s] - s)]
  BY DEF Deltas
<1> HIDE DEF stamp
<1>3. ASSUME NEW s \in DOMAIN next PROVE Interval(s, next[s])
  <2> DEFINE L == {t \in steps : t > s}
  <2>1. s \in steps /\ next[s] = Min(L) /\ L # {}
    OBVIOUS
  <2>2. steps \in SUBSET Nat
    BY <1>1
  <2>3. L \in SUBSET Nat /\ L \in SUBSET Int
    <3>1. L \in SUBSET steps
      OBVIOUS
    <3>2. \A S \in SUBSET Nat : \A R \in SUBSET S : R \in SUBSET Nat /\ R \in SUBSET Int
      OBVIOUS
    <3> HIDE DEF L, steps
    <3> QED BY <2>2, <3>1, <3>2
  <2>4. PICK m \in L : \A k \in L : m <= k
    <3> HIDE DEF L
    <3> QED BY <2>1, <2>3, LeastElement
  <2>5. Min(L) = m
    <3> HIDE DEF L
    <3> QED BY <2>3, <2>4, MinOf
  <2> HIDE DEF next
  <2>6. s < m
    BY <2>2, <2>4
  <2> QED BY <2>1, <2>4, <2>5, <2>6 DEF Interval
<1>4. DOMAIN next \subseteq steps
  OBVIOUS
<1> HIDE DEF next
<1>5. ASSUME NEW s \in measured
      PROVE  /\ Interval(s, next[s]) /\ StampOf(next[s]) > StampOf(s)
             /\ Deltas[s] = (StampOf(next[s]) - StampOf(s)) \div (next[s] - s)
  <2>1. Interval(s, next[s]) /\ stamp[next[s]] > stamp[s]
    BY <1>3
  <2>2. stamp[s] = StampOf(s) /\ stamp[next[s]] = StampOf(next[s])
    BY <1>1, <2>1 DEF Interval
  <2> HIDE DEF measured
  <2>3. Deltas[s] = (stamp[next[s]] - stamp[s]) \div (next[s] - s)
    BY <1>2
  <2> QED BY <2>1, <2>2, <2>3
<1>6. DOMAIN Deltas = measured
  <2> HIDE DEF measured
  <2> QED BY <1>2
<1>7. measured \subseteq steps
  BY <1>4
<1> HIDE DEF measured
<1> QED BY <1>5, <1>6, <1>7

\* The time between two records lies between the shortest and the longest step of those
\* between them, times their number.
LEMMA SpanBounds ==
  ASSUME NEW f \in Seq(Nat), NEW lo \in Int, NEW hi \in Int,
         NEW s \in Nat, NEW t \in Nat, s <= t, t < Len(f),
         \A k \in s + 1..t : lo <= f[k + 1] - f[k] /\ f[k + 1] - f[k] <= hi
  PROVE  lo * (t - s) <= f[t + 1] - f[s + 1] /\ f[t + 1] - f[s + 1] <= hi * (t - s)
<1> DEFINE T == {m \in Nat : s + m <= t => /\ lo * m <= f[s + m + 1] - f[s + 1]
                                           /\ f[s + m + 1] - f[s + 1] <= hi * m}
<1>1. 0 \in T
  <2>1. s + 0 + 1 = s + 1 /\ f[s + 1] \in Nat /\ lo * 0 = 0 /\ hi * 0 = 0
    OBVIOUS
  <2> QED BY <2>1
<1>2. ASSUME NEW m \in Nat, m \in T PROVE m + 1 \in T
  <2> SUFFICES ASSUME s + (m + 1) <= t
               PROVE  /\ lo * (m + 1) <= f[s + (m + 1) + 1] - f[s + 1]
                      /\ f[s + (m + 1) + 1] - f[s + 1] <= hi * (m + 1)
    OBVIOUS
  <2> DEFINE k == s + m + 1
             x == f[k]
             y == f[k + 1]
             z == f[s + 1]
  <2>1. /\ k \in s + 1..t /\ s + (m + 1) + 1 = k + 1 /\ s + m <= t
        /\ k \in 1..Len(f) /\ k + 1 \in 1..Len(f) /\ s + 1 \in 1..Len(f)
    OBVIOUS
  <2>2. x \in Nat /\ y \in Nat /\ z \in Nat
    <3>1. \A i \in 1..Len(f) : f[i] \in Nat
      OBVIOUS
    <3> HIDE DEF k
    <3> QED BY <2>1, <3>1
  <2>3. lo <= y - x /\ y - x <= hi
    BY <2>1
  <2>4. lo * m <= x - z /\ x - z <= hi * m
    BY <1>2, <2>1
  <2>5. /\ lo * (m + 1) = lo * m + lo /\ hi * (m + 1) = hi * m + hi
        /\ lo * m \in Int /\ hi * m \in Int
    OBVIOUS
  <2>6. lo * (m + 1) <= y - z /\ y - z <= hi * (m + 1)
    <3> HIDE DEF x, y, z
    <3> QED BY <2>2, <2>3, <2>4, <2>5
  <2> QED BY <2>1, <2>6
<1>3. t - s \in Nat /\ s + (t - s) <= t /\ s + (t - s) + 1 = t + 1
  OBVIOUS
<1> HIDE DEF T
<1>4. t - s \in T
  BY <1>1, <1>2, <1>3, Induction
<1> QED BY <1>3, <1>4 DEF T

LEMMA Monotone ==
  ASSUME NEW d \in Nat, NEW x \in Int, NEW y \in Int, x <= y
  PROVE  d * x \in Int /\ d * y \in Int /\ x * d \in Int /\ y * d \in Int
         /\ d * x <= d * y /\ x * d <= y * d
<1>1. PICK c \in Nat : y = x + c
  <2>1. y - x \in Nat /\ y = x + (y - x)
    OBVIOUS
  <2> QED BY <2>1
<1>2. d * c \in Nat
  OBVIOUS
<1>3. d * y = d * x + d * c /\ d * x \in Int
  BY <1>1
<1>4. x * d = d * x /\ y * d = d * y
  OBVIOUS
<1> QED BY <1>2, <1>3, <1>4

\* A quotient lies between the bounds of what is divided.
LEMMA DivBounds ==
  ASSUME NEW x \in Int, NEW y \in Nat \ {0}, NEW lo \in Int, NEW hi \in Int,
         lo * y <= x, x <= hi * y
  PROVE  x \div y \in Int /\ lo <= x \div y /\ x \div y <= hi
<1> DEFINE q == x \div y
<1>1. q \in Int /\ q * y <= x /\ x < q * y + y
  OBVIOUS
<1> HIDE DEF q
<1>2. \A a \in Int : a >= 0 => a * y >= 0
  OBVIOUS
<1>3. lo <= q
  <2> SUFFICES ASSUME lo - q - 1 >= 0 PROVE FALSE
    BY <1>1
  <2>1. (lo - q - 1) * y >= 0
    BY <1>1, <1>2
  <2>2. (lo - q - 1) * y = lo * y - q * y - y
    BY <1>1
  <2>3. lo * y \in Int /\ q * y \in Int
    BY <1>1
  <2> QED BY <1>1, <2>1, <2>2, <2>3
<1>4. q <= hi
  <2> SUFFICES ASSUME q - hi - 1 >= 0 PROVE FALSE
    BY <1>1
  <2>1. (q - hi - 1) * y >= 0
    BY <1>1, <1>2
  <2>2. (q - hi - 1) * y = q * y - hi * y - y
    BY <1>1
  <2>3. hi * y \in Int /\ q * y \in Int
    BY <1>1
  <2> QED BY <1>1, <2>1, <2>2, <2>3
<1> QED BY <1>1, <1>3, <1>4 DEF q

------------------------------------------------------------------------------
(* The median *)

\* The k-th value of a finite function is one of its values, with less than k values
\* below it and k or more up to it.
LEMMA RankedIs ==
  ASSUME NEW f, IsFiniteSet(DOMAIN f), NEW b \in Nat, \A s \in DOMAIN f : f[s] \in 0..b,
         NEW k \in 1..Cardinality(DOMAIN f)
  PROVE  /\ \E s \in DOMAIN f : Ranked(f, k) = f[s]
         /\ Cardinality({s \in DOMAIN f : f[s] < Ranked(f, k)}) < k
         /\ Cardinality({s \in DOMAIN f : f[s] <= Ranked(f, k)}) >= k
<1> DEFINE D == DOMAIN f
           below(v) == {s \in D : f[s] < v}
           upTo(v) == {s \in D : f[s] <= v}
           T == {v \in Nat : Cardinality(upTo(v)) >= k}
<1>1. \A v : /\ below(v) \in SUBSET D /\ upTo(v) \in SUBSET D
             /\ IsFiniteSet(below(v)) /\ IsFiniteSet(upTo(v))
             /\ Cardinality(below(v)) \in Nat /\ Cardinality(upTo(v)) \in Nat
  BY FS_Subset, FS_CardinalityType
<1>2. Cardinality(D) \in Nat /\ k \in Nat \ {0} /\ k <= Cardinality(D)
  BY FS_CardinalityType
<1>3. b \in T
  <2>1. upTo(b) = D
    OBVIOUS
  <2> QED BY <1>2, <2>1
<1>4. PICK v \in T : \A u \in T : v <= u
  <2>1. T \in SUBSET Nat /\ T # {}
    BY <1>3
  <2> HIDE DEF T
  <2> QED BY <2>1, LeastElement
<1>5. v \in Nat /\ Cardinality(upTo(v)) >= k
  BY <1>4
<1>6. Cardinality(below(v)) < k
  <2>1. CASE v = 0
    <3>1. below(v) = {}
      BY <2>1
    <3> QED BY <1>2, <3>1, FS_EmptySet
  <2>2. CASE v # 0
    <3>1. v - 1 \in Nat /\ v - 1 \notin T
      BY <1>4, <1>5, <2>2
    <3>2. below(v) = upTo(v - 1)
      BY <1>5
    <3>3. ~(Cardinality(upTo(v - 1)) >= k)
      BY <3>1
    <3> HIDE DEF below, upTo
    <3> QED BY <1>1, <1>2, <3>2, <3>3
  <2> QED BY <2>1, <2>2
<1>7. v \in {f[s] : s \in D}
  <2> SUFFICES ASSUME v \notin {f[s] : s \in D} PROVE FALSE
    OBVIOUS
  <2>1. below(v) = upTo(v)
    BY <1>5
  <2> HIDE DEF below, upTo
  <2> QED BY <1>1, <1>2, <1>5, <1>6, <2>1
<1> DEFINE R(w) == Cardinality(below(w)) < k /\ Cardinality(upTo(w)) >= k
<1>8. R(v)
  BY <1>5, <1>6
<1>9. Ranked(f, k) = CHOOSE w \in {f[s] : s \in D} : R(w)
  BY DEF Ranked
<1>10. Ranked(f, k) \in {f[s] : s \in D} /\ R(Ranked(f, k))
  <2> HIDE DEF R
  <2> QED BY <1>7, <1>8, <1>9
<1> QED BY <1>10

\* When all values but at most one are d, so is every one that is not first or last.
LEMMA RankedOutlier ==
  ASSUME NEW f, IsFiniteSet(DOMAIN f), NEW b \in Nat, \A s \in DOMAIN f : f[s] \in 0..b,
         NEW d \in Int,
         \A s, t \in DOMAIN f : f[s] # d /\ f[t] # d => s = t,
         NEW k \in 2..Cardinality(DOMAIN f) - 1
  PROVE  Ranked(f, k) = d
<1> DEFINE D == DOMAIN f
           v == Ranked(f, k)
           O == {s \in D : f[s] # d}
           below == {s \in D : f[s] < v}
           upTo == {s \in D : f[s] <= v}
<1>1. Cardinality(D) \in Nat /\ k \in Nat /\ k >= 2 /\ k <= Cardinality(D) - 1
  BY FS_CardinalityType
<1>2. /\ \E s \in D : v = f[s]
      /\ Cardinality(below) < k /\ Cardinality(upTo) >= k
  <2>1. k \in 1..Cardinality(D)
    BY <1>1
  <2> QED BY <2>1, RankedIs
<1>3. v \in Int /\ \A s \in D : f[s] \in Int
  BY <1>2
<1>4. /\ IsFiniteSet(below) /\ IsFiniteSet(upTo) /\ IsFiniteSet(O)
      /\ Cardinality(below) \in Nat /\ Cardinality(upTo) \in Nat /\ Cardinality(O) \in Nat
  <2>1. below \in SUBSET D /\ upTo \in SUBSET D /\ O \in SUBSET D
    OBVIOUS
  <2> HIDE DEF below, upTo, O
  <2> QED BY <2>1, FS_Subset, FS_CardinalityType
<1>5. Cardinality(O) <= 1
  <2>1. CASE O = {}
    BY <2>1, FS_EmptySet
  <2>2. CASE O # {}
    <3>1. PICK s \in O : TRUE
      BY <2>2
    <3>2. O = {s}
      BY <3>1
    <3>3. Cardinality(O) = 1
      <4> HIDE DEF O
      <4> QED BY <3>2, FS_Singleton
    <3> QED BY <3>3
  <2> QED BY <2>1, <2>2
<1>6. ~(v < d)
  <2> SUFFICES ASSUME v < d PROVE FALSE
    OBVIOUS
  <2>1. upTo \in SUBSET O
    BY <1>3
  <2>2. Cardinality(upTo) <= Cardinality(O)
    <3> HIDE DEF upTo, O
    <3> QED BY <1>4, <2>1, FS_Subset
  <2> HIDE DEF upTo, O
  <2> QED BY <1>1, <1>2, <1>4, <1>5, <2>2
<1>7. ~(v > d)
  <2> SUFFICES ASSUME v > d PROVE FALSE
    OBVIOUS
  <2>1. D \ O \in SUBSET below
    BY <1>3
  <2>2. Cardinality(D \ O) <= Cardinality(below)
    <3> HIDE DEF below, O, D
    <3> QED BY <1>4, <2>1, FS_Subset
  <2>3. D \cap O = O
    OBVIOUS
  <2>4. Cardinality(D \ O) = Cardinality(D) - Cardinality(O)
    <3> HIDE DEF O
    <3> QED BY <2>3, FS_Difference
  <2> HIDE DEF below, O, D
  <2> QED BY <1>1, <1>2, <1>4, <1>5, <2>2, <2>4
<1> QED BY <1>3, <1>6, <1>7

------------------------------------------------------------------------------
(* The rate is the pace *)

LEMMA TookTyped ==
  ASSUME HistoryOK
  PROVE  /\ now \in Nat /\ Len(stamps) \in Nat /\ stamps \in Seq(Nat)
         /\ DOMAIN Took = 1..Len(stamps) - 1
         /\ \A k \in 1..Len(stamps) - 1 :
               Took[k] = stamps[k + 1] - stamps[k] /\ Took[k] \in 1..now
         /\ ToSet(Took) = {Took[k] : k \in 1..Len(stamps) - 1}
<1>1. /\ now \in Nat /\ stamps \in Seq(Nat) /\ Len(stamps) \in Nat
      /\ \A k \in 1..Len(stamps) : stamps[k] \in Nat /\ stamps[k] <= now
      /\ \A k \in 1..Len(stamps) - 1 : stamps[k] < stamps[k + 1]
  <2>1. now \in Times /\ stamps \in Seq(Nat)
    BY DEF HistoryOK, ClockOK
  <2>2. 0 \in Nat
    OBVIOUS
  <2>3. now \in Nat
    BY <2>1, <2>2, TimesAdd
  <2>4. \A k \in 1..Len(stamps) : stamps[k] \in Nat
    BY <2>1
  <2> QED BY <2>1, <2>3, <2>4 DEF HistoryOK, ClockOK
<1>2. ASSUME NEW k \in 1..Len(stamps) - 1 PROVE stamps[k + 1] - stamps[k] \in 1..now
  <2>1. k \in 1..Len(stamps) /\ k + 1 \in 1..Len(stamps)
    BY <1>1
  <2>2. /\ stamps[k] \in Nat /\ stamps[k + 1] \in Nat /\ stamps[k + 1] <= now
        /\ stamps[k] < stamps[k + 1]
    BY <1>1, <2>1
  <2>3. \A a, b, c \in Nat : a < b /\ b <= c => b - a \in 1..c
    OBVIOUS
  <2>4. now \in Nat
    BY <1>1
  <2> QED BY <2>2, <2>3, <2>4
<1>3. /\ DOMAIN Took = 1..Len(stamps) - 1
      /\ \A k \in 1..Len(stamps) - 1 : Took[k] = stamps[k + 1] - stamps[k]
  BY DEF Took
<1>4. ToSet(Took) = {Took[k] : k \in 1..Len(stamps) - 1}
  BY <1>3, Zenon DEF ToSet
<1> QED BY <1>1, <1>2, <1>3, <1>4

\* A delta lies between any two bounds of the steps it is the mean of.
LEMMA IntervalBounds ==
  ASSUME HistoryOK, NEW s, NEW t, Interval(s, t), NEW lo \in Int, NEW hi \in Int,
         \A k \in s + 1..t : lo <= Took[k] /\ Took[k] <= hi
  PROVE  LET d == (stamps[t + 1] - stamps[s + 1]) \div (t - s)
         IN d \in Int /\ lo <= d /\ d <= hi
<1>1. /\ s \in Nat /\ t \in Nat /\ s < t /\ s < Len(stamps) /\ t < Len(stamps)
      /\ stamps \in Seq(Nat) /\ Len(stamps) \in Nat
  BY LoggedAre, TookTyped DEF Interval
<1>2. ASSUME NEW k \in s + 1..t
      PROVE  lo <= stamps[k + 1] - stamps[k] /\ stamps[k + 1] - stamps[k] <= hi
  <2>1. k \in 1..Len(stamps) - 1
    BY <1>1
  <2> QED BY <2>1, TookTyped
<1> DEFINE x == stamps[t + 1] - stamps[s + 1]
           y == t - s
<1>3. lo * y <= x /\ x <= hi * y
  <2>1. s <= t
    BY <1>1
  <2> QED BY <1>1, <1>2, <2>1, SpanBounds
<1>4. x \in Int /\ y \in Nat \ {0}
  <2>1. t + 1 \in 1..Len(stamps) /\ s + 1 \in 1..Len(stamps)
    BY <1>1
  <2>2. stamps[t + 1] \in Nat /\ stamps[s + 1] \in Nat
    BY <1>1, <2>1
  <2> QED BY <1>1, <2>2
<1>5. x \div y \in Int /\ lo <= x \div y /\ x \div y <= hi
  <2> HIDE DEF x, y
  <2> QED BY <1>3, <1>4, DivBounds
<1> QED BY <1>5

LEMMA DeltasTyped ==
  ASSUME HistoryOK
  PROVE  /\ IsFiniteSet(DOMAIN Deltas) /\ Cardinality(DOMAIN Deltas) \in Nat
         /\ now \in Nat /\ \A s \in DOMAIN Deltas : Deltas[s] \in 0..now
         /\ Cardinality(DOMAIN Deltas) # 0 => Len(stamps) > 1
<1>1. now \in Nat /\ Len(stamps) \in Nat /\ \A k \in 1..Len(stamps) - 1 : Took[k] \in 1..now
  BY TookTyped
<1>2. DOMAIN Deltas \in SUBSET (0..Len(stamps) - 1)
  BY DeltasAre, LoggedAre
<1>3. IsFiniteSet(0..Len(stamps) - 1)
  <2>1. 0 \in Int /\ Len(stamps) - 1 \in Int
    BY <1>1
  <2> QED BY <2>1, FS_Interval
<1>4. IsFiniteSet(DOMAIN Deltas) /\ Cardinality(DOMAIN Deltas) \in Nat
  BY <1>2, <1>3, FS_Subset, FS_CardinalityType
<1>5. ASSUME NEW s \in DOMAIN Deltas
      PROVE  Deltas[s] \in Int /\ 0 <= Deltas[s] /\ Deltas[s] <= now
  <2>1. PICK t : /\ Interval(s, t) /\ StampOf(t) > StampOf(s)
                 /\ Deltas[s] = (StampOf(t) - StampOf(s)) \div (t - s)
    BY DeltasAre
  <2> DEFINE x == StampOf(t) - StampOf(s)
             y == t - s
  <2>2. x \in 0..now /\ y \in Nat \ {0}
    <3>1. StampOf(s) \in 0..now /\ StampOf(t) \in 0..now /\ s \in Nat /\ t \in Nat /\ s < t
      BY <1>1, <2>1, LoggedAre DEF Interval
    <3>2. \A a, b \in 0..now : b > a => b - a \in 0..now
      BY <1>1
    <3>3. x \in 0..now
      BY <2>1, <3>1, <3>2
    <3>4. y \in Nat \ {0}
      BY <3>1
    <3> QED BY <3>3, <3>4
  <2>3. Deltas[s] = x \div y
    BY <2>1
  <2> HIDE DEF x, y
  <2>4. 0 * y <= x /\ x <= now * y
    <3> DEFINE z == now * y
    <3>1. now <= z /\ z \in Int
      <4>1. 1 <= y /\ 1 \in Int /\ y \in Int
        BY <2>2
      <4>2. now * 1 <= now * y /\ now * y \in Int
        BY <1>1, <4>1, Monotone
      <4>3. now * 1 = now
        BY <1>1
      <4> QED BY <4>2, <4>3
    <3>2. 0 * y = 0
      BY <2>2
    <3> HIDE DEF z
    <3>3. x <= z /\ 0 <= x
      BY <1>1, <2>2, <3>1
    <3> QED BY <3>2, <3>3 DEF z
  <2>5. x \in Int /\ 0 \in Int /\ now \in Int
    BY <1>1, <2>2
  <2> QED BY <2>2, <2>3, <2>4, <2>5, DivBounds
<1>6. ASSUME Cardinality(DOMAIN Deltas) # 0 PROVE Len(stamps) > 1
  <2>1. DOMAIN Deltas # {}
    BY <1>6, FS_EmptySet
  <2>2. PICK s \in DOMAIN Deltas : TRUE
    BY <2>1
  <2>3. PICK t : Interval(s, t)
    BY <2>2, DeltasAre
  <2> QED BY <1>1, <2>3, LoggedAre DEF Interval
<1>7. \A s \in DOMAIN Deltas : Deltas[s] \in 0..now
  BY <1>1, <1>5
<1> QED BY <1>1, <1>4, <1>6, <1>7

\* With a row from its record for each logged step, a delta is the mean of steps.
LEMMA DeltasOnTime ==
  ASSUME HistoryOK, OnTime, NEW s \in DOMAIN Deltas
  PROVE  \E t : /\ Interval(s, t)
                /\ Deltas[s] = (stamps[t + 1] - stamps[s + 1]) \div (t - s)
<1>1. PICK t : Interval(s, t) /\ Deltas[s] = (StampOf(t) - StampOf(s)) \div (t - s)
  BY DeltasAre
<1>2. StampOf(s) = stamps[s + 1] /\ StampOf(t) = stamps[t + 1]
  BY <1>1, LoggedAre DEF Interval
<1> QED BY <1>1, <1>2

LEMMA DeltasBound ==
  ASSUME HistoryOK, OnTime, NEW lo \in Int, NEW hi \in Int,
         \A k \in 1..Len(stamps) - 1 : lo <= Took[k] /\ Took[k] <= hi
  PROVE  \A s \in DOMAIN Deltas : Deltas[s] \in Int /\ lo <= Deltas[s] /\ Deltas[s] <= hi
<1> SUFFICES ASSUME NEW s \in DOMAIN Deltas
             PROVE  Deltas[s] \in Int /\ lo <= Deltas[s] /\ Deltas[s] <= hi
  OBVIOUS
<1>1. PICK t : Interval(s, t) /\ Deltas[s] = (stamps[t + 1] - stamps[s + 1]) \div (t - s)
  BY DeltasOnTime
<1>2. s \in Nat /\ t \in Nat /\ t < Len(stamps) /\ Len(stamps) \in Nat
  BY <1>1, LoggedAre, TookTyped DEF Interval
<1>3. \A k \in s + 1..t : lo <= Took[k] /\ Took[k] <= hi
  <2>1. \A k \in s + 1..t : k \in 1..Len(stamps) - 1
    BY <1>2
  <2> QED BY <2>1
<1> QED BY <1>1, <1>3, IntervalBounds

\* The median is one of the deltas or lies between two of them.
LEMMA RateIs ==
  ASSUME HistoryOK
  PROVE  LET n == Cardinality(DOMAIN Deltas)
         IN IF n = 0 THEN StepRate = None
            ELSE \E i, j \in 1..n :
                    /\ StepRate = Ranked(Deltas, i) \/
                       StepRate = (Ranked(Deltas, i) + Ranked(Deltas, j)) \div 2
                    /\ n >= 3 => i \in 2..n - 1 /\ j \in 2..n - 1
<1> DEFINE n == Cardinality(DOMAIN Deltas)
           mid == n \div 2 + 1
<1>1. n \in Nat
  BY DeltasTyped
<1>2. StepRate = IF n = 0 THEN None
                 ELSE IF n % 2 = 1 THEN Ranked(Deltas, mid)
                 ELSE (Ranked(Deltas, mid - 1) + Ranked(Deltas, mid)) \div 2
  BY DEF StepRate
<1> HIDE DEF n
<1>3. CASE n = 0
  BY <1>2, <1>3 DEF n
<1>4. CASE n # 0 /\ n % 2 = 1
  <2>1. mid \in 1..n /\ (n >= 3 => mid \in 2..n - 1)
    BY <1>1, <1>4
  <2>2. StepRate = Ranked(Deltas, mid)
    BY <1>2, <1>4
  <2> HIDE DEF mid
  <2> QED BY <1>4, <2>1, <2>2 DEF n
<1>5. CASE n # 0 /\ n % 2 # 1
  <2>1. /\ mid - 1 \in 1..n /\ mid \in 1..n
        /\ n >= 3 => mid - 1 \in 2..n - 1 /\ mid \in 2..n - 1
    BY <1>1, <1>5
  <2>2. StepRate = (Ranked(Deltas, mid - 1) + Ranked(Deltas, mid)) \div 2
    BY <1>2, <1>5
  <2> DEFINE low == mid - 1
  <2> HIDE DEF mid
  <2>3. low \in 1..n /\ (n >= 3 => low \in 2..n - 1)
    BY <2>1
  <2>4. StepRate = (Ranked(Deltas, low) + Ranked(Deltas, mid)) \div 2
    BY <2>2
  <2> HIDE DEF low
  <2> QED BY <1>5, <2>1, <2>3, <2>4 DEF n
<1> QED BY <1>3, <1>4, <1>5

LEMMA RateTyped == HistoryOK => StepRate \in Int
<1> SUFFICES ASSUME HistoryOK PROVE StepRate \in Int
  OBVIOUS
<1> DEFINE n == Cardinality(DOMAIN Deltas)
<1>1. CASE n = 0
  <2>1. StepRate = None
    BY <1>1, RateIs
  <2> QED BY <2>1 DEF None
<1>2. CASE n # 0
  <2>1. PICK i, j \in 1..n : StepRate = Ranked(Deltas, i) \/
                             StepRate = (Ranked(Deltas, i) + Ranked(Deltas, j)) \div 2
    BY <1>2, RateIs
  <2>2. ASSUME NEW m \in 1..n PROVE Ranked(Deltas, m) \in Int
    <3>1. \E s \in DOMAIN Deltas : Ranked(Deltas, m) = Deltas[s]
      BY DeltasTyped, RankedIs
    <3> QED BY <3>1, DeltasTyped
  <2> DEFINE a == Ranked(Deltas, i)
             b == Ranked(Deltas, j)
  <2>3. a \in Int /\ b \in Int /\ (StepRate = a \/ StepRate = (a + b) \div 2)
    BY <2>1, <2>2
  <2> HIDE DEF a, b
  <2> QED BY <2>3
<1> QED BY <1>1, <1>2

\* The rate lies between any two bounds of the steps.
LEMMA RateBounds ==
  ASSUME HistoryOK, OnTime, NEW lo \in Int, NEW hi \in Int,
         \A k \in 1..Len(stamps) - 1 : lo <= Took[k] /\ Took[k] <= hi
  PROVE  StepRate # None => Len(stamps) > 1 /\ lo <= StepRate /\ StepRate <= hi
<1> DEFINE n == Cardinality(DOMAIN Deltas)
<1>1. CASE n = 0
  BY <1>1, RateIs
<1>2. CASE n # 0
  <2>1. PICK i, j \in 1..n : StepRate = Ranked(Deltas, i) \/
                             StepRate = (Ranked(Deltas, i) + Ranked(Deltas, j)) \div 2
    BY <1>2, RateIs
  <2>2. ASSUME NEW m \in 1..n
        PROVE  Ranked(Deltas, m) \in Int /\ lo <= Ranked(Deltas, m) /\ Ranked(Deltas, m) <= hi
    <3>1. \E s \in DOMAIN Deltas : Ranked(Deltas, m) = Deltas[s]
      BY DeltasTyped, RankedIs
    <3> QED BY <3>1, DeltasBound
  <2> DEFINE a == Ranked(Deltas, i)
             b == Ranked(Deltas, j)
  <2>3. a \in Int /\ b \in Int /\ lo <= a /\ a <= hi /\ lo <= b /\ b <= hi
    BY <2>2
  <2>4. (a + b) \div 2 \in Int /\ lo <= (a + b) \div 2 /\ (a + b) \div 2 <= hi
    <3> HIDE DEF a, b
    <3> QED BY <2>3
  <2>5. StepRate \in Int /\ lo <= StepRate /\ StepRate <= hi
    <3>1. StepRate = a \/ StepRate = (a + b) \div 2
      BY <2>1
    <3> HIDE DEF a, b
    <3> QED BY <2>3, <2>4, <3>1
  <2> QED BY <1>2, <2>5, DeltasTyped
<1> QED BY <1>1, <1>2

\* Two intervals that both hold a step unlike the others hold two such steps.
LEMMA OneSlowDelta ==
  ASSUME HistoryOK, OnTime, NEW d \in Int, Cardinality(Slow(d)) <= 1,
         NEW s \in DOMAIN Deltas, NEW t \in DOMAIN Deltas, Deltas[s] # d, Deltas[t] # d
  PROVE  s = t
<1>1. ASSUME NEW u \in DOMAIN Deltas, Deltas[u] # d
      PROVE  \E v : Interval(u, v) /\ \E k \in u + 1..v : k \in Slow(d)
  <2>1. PICK v : Interval(u, v) /\ Deltas[u] = (stamps[v + 1] - stamps[u + 1]) \div (v - u)
    BY DeltasOnTime
  <2>2. u \in Nat /\ v \in Nat /\ v < Len(stamps) /\ Len(stamps) \in Nat
    BY <2>1, LoggedAre, TookTyped DEF Interval
  <2>3. \A k \in u + 1..v : k \in 1..Len(stamps) - 1
    BY <2>2
  <2>4. \A k \in u + 1..v : k \in DOMAIN Took /\ Took[k] \in Int
    BY <2>3, TookTyped
  <2>5. ~(\A k \in u + 1..v : Took[k] = d)
    <3> SUFFICES ASSUME \A k \in u + 1..v : Took[k] = d PROVE FALSE
      OBVIOUS
    <3>1. \A k \in u + 1..v : d <= Took[k] /\ Took[k] <= d
      OBVIOUS
    <3>2. Deltas[u] \in Int /\ d <= Deltas[u] /\ Deltas[u] <= d
      BY <2>1, <3>1, IntervalBounds
    <3> QED BY <1>1, <3>2
  <2> QED BY <2>1, <2>4, <2>5 DEF Slow
<1>2. PICK v, k : Interval(s, v) /\ k \in s + 1..v /\ k \in Slow(d)
  BY <1>1
<1>3. PICK w, m : Interval(t, w) /\ m \in t + 1..w /\ m \in Slow(d)
  BY <1>1
<1>4. k = m
  <2>1. Slow(d) \in SUBSET (1..Len(stamps) - 1) /\ Len(stamps) - 1 \in Int
    BY TookTyped DEF Slow
  <2>2. IsFiniteSet(Slow(d))
    <3>1. IsFiniteSet(1..Len(stamps) - 1)
      BY <2>1, FS_Interval
    <3> QED BY <2>1, <3>1, FS_Subset
  <2>3. SUFFICES ASSUME k # m PROVE FALSE
    OBVIOUS
  <2>4. IsFiniteSet({m}) /\ Cardinality({m}) = 1
    BY FS_Singleton
  <2>5. Cardinality({m} \cup {k}) = 1 + 1
    BY <2>3, <2>4, FS_AddElement
  <2>6. {m} \cup {k} \in SUBSET Slow(d)
    BY <1>2, <1>3
  <2>7. Cardinality({m} \cup {k}) <= Cardinality(Slow(d)) /\ Cardinality(Slow(d)) \in Nat
    BY <2>2, <2>6, FS_Subset, FS_CardinalityType
  <2> QED BY <2>5, <2>7
<1>5. /\ s \in LoggedSteps /\ t \in LoggedSteps
      /\ s \in Nat /\ t \in Nat /\ v \in Nat /\ w \in Nat /\ k \in Int
  BY <1>2, <1>3, LoggedAre, TookTyped DEF Interval
<1>6. ~(s < t)
  BY <1>2, <1>3, <1>4, <1>5 DEF Interval
<1>7. ~(t < s)
  BY <1>2, <1>3, <1>4, <1>5 DEF Interval
<1> QED BY <1>5, <1>6, <1>7

LEMMA PaceSeen == HistoryOK => RateIsThePace
<1> SUFFICES ASSUME HistoryOK, OnTime, StepRate # None
             PROVE  /\ Min(ToSet(Took)) <= StepRate /\ StepRate <= Max(ToSet(Took))
                    /\ Cardinality(DOMAIN Deltas) >= 3 =>
                          \A d \in ToSet(Took) : Cardinality(Slow(d)) <= 1 => StepRate = d
  BY DEF RateIsThePace
<1> DEFINE took == ToSet(Took)
           n == Cardinality(DOMAIN Deltas)
<1>1. /\ now \in Nat /\ Len(stamps) \in Nat
      /\ took = {Took[k] : k \in 1..Len(stamps) - 1}
      /\ took \in SUBSET (0..now) /\ took \in SUBSET Nat /\ took \in SUBSET Int
  <2>1. \A k \in 1..Len(stamps) - 1 : Took[k] \in 1..now
    BY TookTyped
  <2>2. \A x \in took : x \in 0..now /\ x \in Nat /\ x \in Int
    BY <2>1, TookTyped
  <2> HIDE DEF took
  <2> QED BY <2>2, TookTyped DEF took
<1> HIDE DEF took
<1>2. Len(stamps) > 1
  <2>1. \A k \in 1..Len(stamps) - 1 : 0 <= Took[k] /\ Took[k] <= now
    BY TookTyped
  <2> QED BY <1>1, <2>1, RateBounds
<1>3. took # {}
  <2>1. 1 \in 1..Len(stamps) - 1
    BY <1>1, <1>2
  <2> QED BY <1>1, <2>1
<1>4. PICK lo \in took : \A x \in took : lo <= x
  BY <1>1, <1>3, LeastElement
<1>5. PICK hi \in took : \A x \in took : x <= hi
  BY <1>1, <1>3, GreatestElement
<1>6. Min(took) = lo /\ Max(took) = hi
  <2>1. Min(took) = lo
    BY <1>1, <1>4, MinOf
  <2>2. \A x \in took : hi >= x
    BY <1>1, <1>5
  <2> QED BY <1>1, <2>1, <2>2, MaxOf
<1>7. lo <= StepRate /\ StepRate <= hi
  <2>1. \A k \in 1..Len(stamps) - 1 : lo <= Took[k] /\ Took[k] <= hi
    BY <1>1, <1>4, <1>5
  <2>2. lo \in Int /\ hi \in Int
    BY <1>1
  <2> QED BY <2>1, <2>2, RateBounds
<1>8. ASSUME n >= 3, NEW d \in took, Cardinality(Slow(d)) <= 1 PROVE StepRate = d
  <2>1. n \in Nat /\ n # 0
    BY <1>8, DeltasTyped
  <2>2. PICK i, j \in 1..n :
          /\ StepRate = Ranked(Deltas, i) \/
             StepRate = (Ranked(Deltas, i) + Ranked(Deltas, j)) \div 2
          /\ i \in 2..n - 1 /\ j \in 2..n - 1
    BY <1>8, <2>1, RateIs
  <2>3. d \in Int
    BY <1>1
  <2>4. \A s, t \in DOMAIN Deltas : Deltas[s] # d /\ Deltas[t] # d => s = t
    BY <1>8, <2>3, OneSlowDelta
  <2>5. \A k \in 2..n - 1 : Ranked(Deltas, k) = d
    BY <2>3, <2>4, DeltasTyped, RankedOutlier
  <2>6. (d + d) \div 2 = d
    BY <2>3
  <2> QED BY <2>2, <2>5, <2>6
<1> QED BY <1>6, <1>7, <1>8 DEF took

\* The measured rate is a pace the run had, however many steps it has, however long they
\* take, whichever have rows and whatever is logged late: no row about a step is earlier
\* than the step's record, so the earliest of each is the record if the trainer logged one
\* for every step that has any, and the median of three
\* or more deltas is not moved by the one interval that holds the one odd step.
THEOREM RateAlwaysThePace == PaceSpec => []RateIsThePace
BY InitHistory, StepHistory, PaceSeen, PTL DEF PaceSpec

------------------------------------------------------------------------------
(* The digest *)

Stages == {"none", "step", "hours", "rate", "done", "unavailable"}

Digests == [stage : Stages, client : BOOLEAN, counter : BOOLEAN, runtime : Int, raw : Int,
            step : Int, hours : Int, source : {"none", "wandb", "pod", "monitor"}, rate : Int,
            projected : Int]

\* d is no longer than any step so far.
Within(d) == \A k \in 1..Len(stamps) - 1 : d <= Took[k]

\* The steps after the first took d each, and the first no less.
Even(d) == Within(d) /\ \A k \in 2..Len(stamps) - 1 : Took[k] = d

\* The pod's hours hold the steps that a digest knows of and, with as many more as were
\* recorded since it read them, the run so far.
HoursHold(g) ==
    g.source = "pod" /\ ~g.counter /\ g.step > 0 =>
       /\ g.hours \in Nat
       /\ \A d \in Nat : Even(d) =>
             /\ d * g.step <= g.hours
             /\ stamps[Len(stamps)] <= g.hours + (Len(stamps) - 1 - g.step) * d

\* A forecast by the pod's clock and a logged step leaves the steps to come, from the last
\* one recorded, the time that each has taken.
Foretold(g) ==
    g.projected # None /\ g.source = "pod" /\ ~g.counter /\ OnTime =>
       \A d \in Nat : Even(d) =>
          g.projected >= stamps[Len(stamps)] + (MaxSteps - (Len(stamps) - 1)) * d

\* A step that is not W&B's counter has been recorded.
Right(g) ==
    /\ g \in Digests
    /\ g.stage \in {"none", "step", "hours"} => g.source = "none"
    /\ g.projected # None => g.stage = "done" /\ g.step > 0
    /\ ~g.counter => g.step <= Len(stamps) - 1
    /\ HoursHold(g)
    /\ Foretold(g)

DigestOK == Right(digest)

PaceInd == HistoryOK /\ DigestOK

LEMMA NoDigestTyped ==
  /\ NoDigest \in Digests
  /\ NoDigest.stage = "none" /\ NoDigest.source = "none" /\ NoDigest.projected = None
  /\ NoDigest.step = None /\ NoDigest.counter = FALSE
BY DEF NoDigest, Digests, Stages, None

LEMMA ForgottenOK == HistoryOK /\ digest = NoDigest => DigestOK
<1> SUFFICES ASSUME HistoryOK, digest = NoDigest PROVE DigestOK
  OBVIOUS
<1>1. Len(stamps) \in Nat /\ None = -1
  BY TookTyped DEF None
<1> QED BY <1>1, NoDigestTyped DEF DigestOK, Right, HoursHold, Foretold

LEMMA InitPace == PaceInit => PaceInd
<1> SUFFICES ASSUME PaceInit PROVE PaceInd
  OBVIOUS
<1>1. digest = NoDigest
  BY DEF PaceInit
<1> QED BY <1>1, InitHistory, ForgottenOK DEF PaceInd

\* The step the client reads has been recorded, unless no row carries one.
LEMMA LatestStepIs ==
  ASSUME HistoryOK
  PROVE  /\ LatestStep \in Int
         /\ LatestStep <= Len(stamps) - 1 \/ (LoggedSteps = {} /\ rows # << >>)
<1>1. /\ LoggedSteps \in SUBSET (0..Len(stamps) - 1) /\ Len(stamps) \in Nat
      /\ rows \in Seq(Row)
  BY LoggedAre, TookTyped DEF HistoryOK, RowsOK
<1>2. CASE LoggedSteps # {}
  <2>1. Len(stamps) - 1 \in Nat
    <3>1. PICK k \in LoggedSteps : TRUE
      BY <1>2
    <3>2. k \in 0..Len(stamps) - 1
      BY <1>1
    <3> QED BY <1>1, <3>2
  <2>2. PICK m \in LoggedSteps : \A k \in LoggedSteps : k <= m
    BY <1>1, <1>2, <2>1, GreatestElement
  <2>3. LoggedSteps \in SUBSET Int /\ \A k \in LoggedSteps : m >= k
    BY <1>1, <2>2
  <2>4. Max(LoggedSteps) = m
    BY <2>3, MaxOf
  <2>5. LatestStep = m
    BY <1>2, <2>4 DEF LatestStep
  <2> QED BY <1>1, <2>2, <2>5
<1>3. CASE LoggedSteps = {} /\ rows # << >>
  <2>1. LatestStep = Len(rows) - 1 /\ Len(rows) \in Nat
    BY <1>1, <1>3 DEF LatestStep
  <2> QED BY <1>3, <2>1
<1>4. CASE LoggedSteps = {} /\ rows = << >>
  BY <1>1, <1>4 DEF LatestStep, None
<1> QED BY <1>2, <1>3, <1>4

\* The time so far holds as many of the shortest steps as were recorded after the first.
LEMMA TimeHolds ==
  ASSUME HistoryOK, NEW d \in Nat, Within(d), Len(stamps) > 0
  PROVE  /\ stamps[1] \in Nat /\ stamps[Len(stamps)] \in Nat
         /\ Lead * Unit <= stamps[1] /\ stamps[Len(stamps)] <= now
         /\ d * (Len(stamps) - 1) <= stamps[Len(stamps)] - stamps[1]
<1> DEFINE n == Len(stamps)
<1>1. /\ n \in Nat /\ n > 0 /\ stamps \in Seq(Nat) /\ now \in Nat
      /\ 1 \in 1..n /\ n \in 1..n /\ n - 1 \in Nat /\ n - 1 < n /\ n - 1 + 1 = n
  BY TookTyped
<1>2. /\ stamps[1] \in Nat /\ stamps[n] \in Nat
      /\ Lead * Unit <= stamps[1] /\ stamps[n] <= now
  <2>1. \A k \in 1..n : stamps[k] \in Nat
    BY <1>1
  <2> QED BY <1>1, <2>1 DEF HistoryOK, ClockOK
<1>3. ASSUME NEW k \in 0 + 1..n - 1
      PROVE  d <= stamps[k + 1] - stamps[k] /\ stamps[k + 1] - stamps[k] <= now
  <2>1. k \in 1..Len(stamps) - 1
    BY <1>1
  <2>2. Took[k] = stamps[k + 1] - stamps[k] /\ Took[k] \in 1..now
    BY <2>1, TookTyped
  <2>3. d <= Took[k]
    BY <2>1 DEF Within
  <2> QED BY <2>2, <2>3
<1>4. d * (n - 1 - 0) <= stamps[n - 1 + 1] - stamps[0 + 1]
  <2>1. 0 \in Nat /\ 0 <= n - 1 /\ d \in Int /\ now \in Int
    BY <1>1
  <2> HIDE DEF n
  <2>2. n - 1 < Len(stamps)
    BY <1>1 DEF n
  <2> QED BY <1>1, <1>3, <2>1, <2>2, SpanBounds
<1>5. n - 1 - 0 = n - 1 /\ 0 + 1 = 1
  BY <1>1
<1> QED BY <1>1, <1>2, <1>4, <1>5

\* The forecast's rate, measured or shared out, is at least the shortest step.
LEMMA RateForetells ==
  ASSUME HistoryOK, NEW s \in Nat \ {0}, NEW h \in Nat, NEW d \in Nat, Within(d), d * s <= h
  PROVE  /\ OnTime /\ StepRate # None => d <= StepRate
         /\ d <= h \div s
<1>1. /\ now \in Nat /\ \A k \in 1..Len(stamps) - 1 : d <= Took[k] /\ Took[k] <= now
  BY TookTyped DEF Within
<1>2. OnTime /\ StepRate # None => d <= StepRate
  <2>1. d \in Int /\ now \in Int
    BY <1>1
  <2> QED BY <1>1, <2>1, RateBounds
<1>3. d <= h \div s
  <2>1. h <= h * s
    <3>1. 1 <= s /\ 1 \in Int /\ s \in Int
      OBVIOUS
    <3>2. h * 1 <= h * s /\ h * 1 = h
      BY <3>1, Monotone
    <3> QED BY <3>2
  <2>2. h \in Int /\ d \in Int
    OBVIOUS
  <2> QED BY <2>1, <2>2, DivBounds
<1> QED BY <1>2, <1>3

\* A digest that stays is as right as it was when a step is recorded or time goes by.
LEMMA DigestStays ==
  ASSUME HistoryOK, DigestOK, digest' = digest, OnTime' => OnTime,
         \/ stamps' = stamps
         \/ \E t \in Nat : stamps' = Append(stamps, t)
  PROVE  DigestOK'
<1> DEFINE n == Len(stamps)
<1>1. /\ stamps \in Seq(Nat) /\ n \in Nat /\ MaxSteps \in Nat
      /\ \A k \in 1..n - 1 : Took[k] = stamps[k + 1] - stamps[k]
  BY TookTyped, PaceAssumption
<1>2. /\ Len(stamps') \in Nat /\ Len(stamps') \in {n, n + 1}
      /\ \A k \in 1..n : stamps'[k] = stamps[k] /\ stamps[k] \in Nat
      /\ \A k \in 1..Len(stamps') : stamps'[k] \in Nat
      /\ Len(stamps') = n => stamps' = stamps
  <2>1. CASE stamps' = stamps
    BY <1>1, <2>1
  <2>2. CASE \E t \in Nat : stamps' = Append(stamps, t)
    <3>1. PICK t \in Nat : stamps' = Append(stamps, t)
      BY <2>2
    <3>2. /\ Len(stamps') = n + 1 /\ \A k \in 1..n : stamps'[k] = stamps[k]
          /\ stamps' \in Seq(Nat)
      BY <1>1, <3>1, Appended
    <3> QED BY <1>1, <3>2
  <2> QED BY <2>1, <2>2
<1>3. \A k \in 1..Len(stamps') - 1 : Took'[k] = stamps'[k + 1] - stamps'[k]
  BY <1>2 DEF Took
<1> HIDE DEF n
<1>4. ASSUME NEW d \in Nat, Even(d)' PROVE Even(d)
  <2>1. ASSUME NEW k \in 1..n - 1 PROVE d <= Took[k] /\ (k \in 2..n - 1 => Took[k] = d)
    <3>1. /\ k \in 1..Len(stamps') - 1 /\ k \in 1..n /\ k + 1 \in 1..n
          /\ k \in 2..n - 1 => k \in 2..Len(stamps') - 1
      BY <1>1, <1>2
    <3>2. Took'[k] = Took[k]
      BY <1>1, <1>2, <1>3, <3>1
    <3>3. d <= Took'[k] /\ (k \in 2..n - 1 => Took'[k] = d)
      BY <1>4, <3>1 DEF Even, Within
    <3> QED BY <3>2, <3>3
  <2>2. \A k \in 2..n - 1 : k \in 1..n - 1
    BY <1>1
  <2> QED BY <2>1, <2>2 DEF Even, Within, n
<1>5. ASSUME NEW d \in Nat, Even(d)', n >= 2
      PROVE  /\ stamps[n] \in Nat /\ stamps'[Len(stamps')] \in Nat
             /\ Len(stamps') = n + 1 => stamps'[n + 1] = stamps[n] + d
  <2>1. n \in 1..n /\ Len(stamps') \in 1..Len(stamps')
    BY <1>1, <1>2, <1>5
  <2>2. ASSUME Len(stamps') = n + 1 PROVE stamps'[n + 1] = stamps[n] + d
    <3>1. n \in 2..Len(stamps') - 1 /\ n \in 1..Len(stamps') - 1 /\ n + 1 \in 1..Len(stamps')
      BY <1>1, <1>5, <2>2
    <3>2. Took'[n] = d
      BY <1>5, <3>1 DEF Even
    <3>3. Took'[n] = stamps'[n + 1] - stamps[n]
      BY <1>2, <1>3, <2>1, <3>1
    <3>4. stamps'[n + 1] \in Nat /\ stamps[n] \in Nat
      BY <1>2, <2>1, <3>1
    <3> QED BY <3>2, <3>3, <3>4
  <2> QED BY <1>2, <2>1, <2>2
<1>6. /\ digest \in Digests /\ digest.step \in Int /\ digest.hours \in Int
      /\ digest.projected \in Int
      /\ digest.stage \in {"none", "step", "hours"} => digest.source = "none"
      /\ digest.projected # None => digest.stage = "done" /\ digest.step > 0
      /\ ~digest.counter => digest.step <= n - 1
  BY DEF DigestOK, Right, Digests, n
<1>7. ~digest.counter => digest.step <= Len(stamps') - 1
  BY <1>1, <1>2, <1>6
<1>8. \A x \in Int, d \in Nat : (x + 1) * d = x * d + d /\ x * d \in Int
  OBVIOUS
<1>9. HoursHold(digest)'
  <2> SUFFICES ASSUME digest.source = "pod", ~digest.counter, digest.step > 0
               PROVE  /\ digest.hours \in Nat
                      /\ \A d \in Nat : Even(d)' =>
                            /\ d * digest.step <= digest.hours
                            /\ stamps'[Len(stamps')]
                                 <= digest.hours + (Len(stamps') - 1 - digest.step) * d
    BY DEF HoursHold
  <2>1. /\ digest.hours \in Nat
        /\ \A d \in Nat : Even(d) =>
              /\ d * digest.step <= digest.hours
              /\ stamps[n] <= digest.hours + (n - 1 - digest.step) * d
    BY DEF DigestOK, Right, HoursHold, n
  <2>2. n >= 2
    BY <1>1, <1>6
  <2> SUFFICES ASSUME NEW d \in Nat, Even(d)'
               PROVE  /\ d * digest.step <= digest.hours
                      /\ stamps'[Len(stamps')]
                           <= digest.hours + (Len(stamps') - 1 - digest.step) * d
    BY <2>1
  <2>3. /\ d * digest.step <= digest.hours
        /\ stamps[n] <= digest.hours + (n - 1 - digest.step) * d
    BY <1>4, <2>1
  <2>4. CASE Len(stamps') = n
    BY <1>2, <2>3, <2>4
  <2>5. CASE Len(stamps') = n + 1
    <3> DEFINE x == n - 1 - digest.step
               y == x * d
    <3>1. x \in Int /\ Len(stamps') - 1 - digest.step = x + 1
      BY <1>1, <1>6, <2>5
    <3>2. (x + 1) * d = y + d /\ y \in Int
      BY <1>8, <3>1
    <3>3. stamps[n] <= digest.hours + y
      BY <2>3
    <3>4. stamps'[n + 1] = stamps[n] + d /\ stamps[n] \in Nat
      BY <1>5, <2>2, <2>5
    <3>5. (Len(stamps') - 1 - digest.step) * d = y + d
      BY <3>1, <3>2
    <3> HIDE DEF x, y
    <3>6. stamps[n] + d <= digest.hours + (y + d)
      BY <1>6, <3>2, <3>3, <3>4
    <3> QED BY <2>3, <2>5, <3>4, <3>5, <3>6
  <2> QED BY <1>2, <2>4, <2>5
<1>10. Foretold(digest)'
  <2> SUFFICES ASSUME digest.projected # None, digest.source = "pod", ~digest.counter,
                      OnTime', NEW d \in Nat, Even(d)'
               PROVE  digest.projected
                        >= stamps'[Len(stamps')] + (MaxSteps - (Len(stamps') - 1)) * d
    BY DEF Foretold
  <2>1. digest.projected >= stamps[n] + (MaxSteps - (n - 1)) * d
    BY <1>4 DEF DigestOK, Right, Foretold, n
  <2>2. n >= 2
    BY <1>1, <1>6
  <2>3. CASE Len(stamps') = n
    BY <1>2, <2>1, <2>3
  <2>4. CASE Len(stamps') = n + 1
    <3> DEFINE x == MaxSteps - n
               y == x * d
    <3>1. x \in Int /\ MaxSteps - (Len(stamps') - 1) = x /\ MaxSteps - (n - 1) = x + 1
      BY <1>1, <2>4
    <3>2. (x + 1) * d = y + d /\ y \in Int
      BY <1>8, <3>1
    <3>3. digest.projected >= stamps[n] + (y + d)
      BY <2>1, <3>1, <3>2
    <3>4. stamps'[n + 1] = stamps[n] + d /\ stamps[n] \in Nat
      BY <1>5, <2>2, <2>4
    <3>5. (MaxSteps - (Len(stamps') - 1)) * d = y
      BY <3>1
    <3> HIDE DEF x, y
    <3>6. digest.projected >= (stamps[n] + d) + y
      BY <1>6, <3>2, <3>3, <3>4
    <3> QED BY <2>4, <3>4, <3>5, <3>6
  <2> QED BY <1>2, <2>3, <2>4
<1> QED BY <1>6, <1>7, <1>9, <1>10 DEF DigestOK, Right

\* A read leaves the history alone, so that the digest it makes need only be right now.
LEMMA ReadOK ==
  ASSUME Reads, Right(digest')
  PROVE  DigestOK'
<1>1. now' = now /\ stamps' = stamps /\ rows' = rows
  BY DEF Reads
<1>2. Took' = Took /\ (OnTime' <=> OnTime)
  <2>1. Stepped' = Stepped /\ LoggedSteps' = LoggedSteps
    BY <1>1 DEF Stepped, LoggedSteps
  <2> QED BY <1>1, <2>1 DEF Took, OnTime
<1>3. ASSUME NEW d \in Nat PROVE Even(d)' <=> Even(d)
  BY <1>1, <1>2 DEF Even, Within
<1>4. HoursHold(digest)'
  BY <1>1, <1>3 DEF Right, HoursHold
<1>5. Foretold(digest)'
  BY <1>1, <1>2, <1>3 DEF Right, Foretold
<1> QED BY <1>1, <1>4, <1>5 DEF DigestOK, Right

LEMMA SummaryDigest ==
  ASSUME HistoryOK, NEW client \in BOOLEAN, NEW ok \in BOOLEAN, NEW shared \in BOOLEAN,
         ReadSummary(client, ok, shared)
  PROVE  DigestOK'
<1> DEFINE runtime == IF ok /\ rows # << >> THEN Last(rows).ts - Lead * Unit ELSE None
           raw == IF ok /\ ~shared /\ rows # << >> THEN Len(rows) - 1 ELSE None
           stage == IF ok THEN "step" ELSE "unavailable"
<1>1. /\ Reads
      /\ digest' = [NoDigest EXCEPT !.stage = stage, !.client = client, !.runtime = runtime,
                                    !.raw = raw]
  BY DEF ReadSummary, Reads
<1>2. runtime \in Int
  <2>1. CASE ok /\ rows # << >>
    <3>1. rows \in Seq(Row) /\ Len(rows) \in 1..Len(rows)
      BY <2>1 DEF HistoryOK, RowsOK
    <3>2. Last(rows) \in Row
      BY <3>1 DEF Last
    <3>3. Last(rows).ts \in Nat
      BY <3>2 DEF Row
    <3>4. Lead * Unit \in Int
      BY PaceAssumption
    <3>5. runtime = Last(rows).ts - Lead * Unit
      BY <2>1
    <3> QED BY <3>3, <3>4, <3>5
  <2>2. CASE ~(ok /\ rows # << >>)
    BY <2>2 DEF None
  <2> QED BY <2>1, <2>2
<1>3. stage \in Stages /\ raw \in Int
  <2>1. Len(rows) \in Nat
    BY DEF HistoryOK, RowsOK
  <2> QED BY <2>1 DEF Stages, None
<1> HIDE DEF runtime, raw, stage
<1>4. /\ digest' \in Digests
      /\ digest'.source = "none" /\ digest'.projected = None /\ digest'.step = None
  BY <1>1, <1>2, <1>3, NoDigestTyped DEF Digests
<1>5. None <= Len(stamps) - 1
  BY TookTyped DEF None
<1>6. Right(digest')
  BY <1>4, <1>5 DEF Right, HoursHold, Foretold
<1> QED BY <1>1, <1>6, ReadOK

LEMMA StepDigest ==
  ASSUME HistoryOK, DigestOK, NEW ok \in BOOLEAN, ReadStep(ok)
  PROVE  DigestOK'
<1> DEFINE step == IF ok THEN LatestStep ELSE digest.raw
           counter == IF ok THEN LoggedSteps = {} /\ rows # << >> ELSE digest.raw # None
<1>1. /\ Reads /\ digest.stage = "step" /\ digest \in Digests
      /\ digest' = [digest EXCEPT !.stage = "hours", !.step = step, !.counter = counter]
      /\ digest.projected = None /\ digest.source = "none"
  BY DEF ReadStep, Reads, DigestOK, Right
<1>2. step \in Int /\ counter \in BOOLEAN /\ (~counter => step <= Len(stamps) - 1)
  <2>1. None \in Int /\ None <= Len(stamps) - 1
    BY TookTyped DEF None
  <2>2. digest.raw \in Int
    BY <1>1 DEF Digests
  <2> QED BY <2>1, <2>2, LatestStepIs
<1> HIDE DEF step, counter
<1>3. /\ digest' \in Digests /\ digest'.step = step /\ digest'.counter = counter
      /\ digest'.projected = None /\ digest'.source = "none"
  BY <1>1, <1>2 DEF Digests, Stages
<1>4. Right(digest')
  BY <1>2, <1>3 DEF Right, HoursHold, Foretold
<1> QED BY <1>1, <1>4, ReadOK

LEMMA HoursDigest ==
  ASSUME HistoryOK, DigestOK, NEW ok \in BOOLEAN, ReadHours(ok)
  PROVE  DigestOK'
<1> DEFINE source == IF ~digest.client THEN "wandb" ELSE IF ok THEN "pod" ELSE "monitor"
           hours == CASE digest.client -> BilledHours(ok)
                      [] ~digest.client /\ digest.runtime # None ->
                           digest.runtime + Lead * Unit
                      [] OTHER -> None
<1>1. /\ Reads /\ digest.stage = "hours" /\ digest \in Digests
      /\ digest' = [digest EXCEPT !.stage = "rate", !.source = source, !.hours = hours]
      /\ digest.projected = None
      /\ ~digest.counter => digest.step <= Len(stamps) - 1
  BY DEF ReadHours, Reads, DigestOK, Right
<1>2. now \in Int /\ digest.runtime \in Int /\ Lead * Unit \in Int /\ None \in Int
  BY <1>1, TookTyped, PaceAssumption DEF Digests, None
<1>3. BilledHours(ok) \in Int /\ (ok => BilledHours(ok) = now)
  BY <1>2 DEF BilledHours
<1>4. digest.runtime + Lead * Unit \in Int
  BY <1>2
<1>5. hours \in Int /\ (digest.client => hours = BilledHours(ok))
  <2>1. hours = BilledHours(ok) \/ hours = digest.runtime + Lead * Unit \/ hours = None
    BY Zenon
  <2>2. digest.client => hours = BilledHours(ok)
    BY Zenon
  <2> HIDE DEF hours
  <2> QED BY <1>2, <1>3, <1>4, <2>1, <2>2
<1>6. source \in {"none", "wandb", "pod", "monitor"} /\ (source = "pod" => digest.client /\ ok)
  OBVIOUS
<1> HIDE DEF source, hours
<1>7. /\ digest' \in Digests /\ digest'.stage = "rate" /\ digest'.step = digest.step
      /\ digest'.counter = digest.counter /\ digest'.projected = None
      /\ digest'.source = source /\ digest'.hours = hours
  BY <1>1, <1>5, <1>6 DEF Digests, Stages
<1>8. HoursHold(digest')
  <2> SUFFICES ASSUME source = "pod", ~digest.counter, digest.step > 0
               PROVE  /\ now \in Nat
                      /\ \A d \in Nat : Even(d) =>
                            /\ d * digest.step <= now
                            /\ stamps[Len(stamps)] <= now + (Len(stamps) - 1 - digest.step) * d
    BY <1>3, <1>5, <1>6, <1>7 DEF HoursHold
  <2>1. now \in Nat /\ Len(stamps) \in Nat
    BY TookTyped
  <2>2. /\ digest.step \in Int /\ digest.step <= Len(stamps) - 1
        /\ Len(stamps) - 1 \in Int /\ Len(stamps) > 0
    BY <1>1, <2>1 DEF Digests
  <2> SUFFICES ASSUME NEW d \in Nat, Even(d)
               PROVE  /\ d * digest.step <= now
                      /\ stamps[Len(stamps)] <= now + (Len(stamps) - 1 - digest.step) * d
    BY <2>1
  <2> DEFINE last == stamps[Len(stamps)]
             a == d * digest.step
             b == d * (Len(stamps) - 1)
             c == (Len(stamps) - 1 - digest.step) * d
  <2>3. stamps[1] \in Nat /\ last \in Nat /\ last <= now /\ b <= last - stamps[1]
    BY <2>2, TimeHolds DEF Even
  <2>4. a <= b /\ a \in Int /\ b \in Int
    BY <2>2, Monotone
  <2>5. c \in Nat
    <3>1. \A x, y \in Nat : x * y \in Nat
      OBVIOUS
    <3>2. Len(stamps) - 1 - digest.step \in Nat
      BY <2>2
    <3> QED BY <3>1, <3>2
  <2> HIDE DEF last, a, b, c
  <2>6. a <= now /\ last <= now + c
    BY <2>1, <2>3, <2>4, <2>5
  <2> QED BY <2>6 DEF last, a, c
<1>9. Right(digest')
  BY <1>1, <1>7, <1>8 DEF Right, Foretold
<1> QED BY <1>1, <1>9, ReadOK

LEMMA RateDigest ==
  ASSUME HistoryOK, DigestOK, NEW ok \in BOOLEAN, ReadRate(ok)
  PROVE  DigestOK'
<1> DEFINE measured == IF ok THEN StepRate ELSE None
           rate == IF measured # None THEN measured ELSE digest.hours \div digest.step
           projected == digest.hours + Max({MaxSteps - digest.step, 0}) * rate
<1>1. /\ Reads /\ digest.stage = "rate" /\ digest \in Digests
      /\ digest' = IF digest.hours # None /\ digest.step > 0
                     THEN [digest EXCEPT !.stage = "done", !.rate = rate,
                                         !.projected = projected]
                     ELSE [digest EXCEPT !.stage = "done"]
      /\ digest.projected = None
      /\ ~digest.counter => digest.step <= Len(stamps) - 1
      /\ HoursHold(digest)
  BY DEF ReadRate, Reads, DigestOK, Right
<1>2. digest.step \in Int /\ digest.hours \in Int /\ MaxSteps \in Nat /\ Len(stamps) \in Nat
  BY <1>1, TookTyped, PaceAssumption DEF Digests
<1>3. CASE ~(digest.hours # None /\ digest.step > 0)
  <2>1. digest' = [digest EXCEPT !.stage = "done"]
    BY <1>1, <1>3
  <2>2. /\ digest' \in Digests /\ digest'.stage = "done" /\ digest'.step = digest.step
        /\ digest'.counter = digest.counter /\ digest'.projected = None
        /\ digest'.source = digest.source /\ digest'.hours = digest.hours
    BY <1>1, <2>1 DEF Digests, Stages
  <2>3. Right(digest')
    BY <1>1, <2>2 DEF Right, HoursHold, Foretold
  <2> QED BY <1>1, <2>3, ReadOK
<1>4. CASE digest.hours # None /\ digest.step > 0
  <2> DEFINE left == Max({MaxSteps - digest.step, 0})
  <2>1. left \in Nat /\ (digest.step <= MaxSteps => left = MaxSteps - digest.step)
    <3>1. CASE digest.step <= MaxSteps
      <4>1. {MaxSteps - digest.step, 0} \in SUBSET Int
            /\ \A y \in {MaxSteps - digest.step, 0} : MaxSteps - digest.step >= y
        BY <1>2, <3>1
      <4>2. left = MaxSteps - digest.step
        BY <4>1, MaxOf
      <4> QED BY <1>2, <3>1, <4>2
    <3>2. CASE ~(digest.step <= MaxSteps)
      <4>1. {MaxSteps - digest.step, 0} \in SUBSET Int
            /\ \A y \in {MaxSteps - digest.step, 0} : 0 >= y
        BY <1>2, <3>2
      <4>2. left = 0
        BY <4>1, MaxOf
      <4> QED BY <3>2, <4>2
    <3> QED BY <3>1, <3>2
  <2>2. rate \in Int
    <3>1. StepRate \in Int
      BY RateTyped
    <3>2. digest.hours \div digest.step \in Int
      BY <1>2, <1>4
    <3> QED BY <3>1, <3>2
  <2>3. projected = digest.hours + left * rate /\ projected \in Int
    <3> HIDE DEF left, rate
    <3>1. left * rate \in Int
      BY <2>1, <2>2
    <3>2. digest.hours + left * rate \in Int
      BY <1>2, <3>1
    <3> QED BY <3>2 DEF left
  <2>4. ASSUME digest.source = "pod", ~digest.counter, OnTime, NEW d \in Nat, Even(d)
        PROVE  projected >= stamps[Len(stamps)] + (MaxSteps - (Len(stamps) - 1)) * d
    <3>1. /\ digest.hours \in Nat /\ d * digest.step <= digest.hours
          /\ stamps[Len(stamps)] <= digest.hours + (Len(stamps) - 1 - digest.step) * d
      BY <1>1, <1>4, <2>4 DEF HoursHold
    <3>2. digest.step <= Len(stamps) - 1 /\ digest.step \in Nat \ {0}
      BY <1>1, <1>2, <1>4, <2>4
    <3>3. digest.step <= MaxSteps
      <4>1. Len(stamps) <= MaxSteps + 1
        BY DEF HistoryOK, ClockOK
      <4> QED BY <1>2, <3>2, <4>1
    <3>4. (StepRate # None => d <= StepRate) /\ d <= digest.hours \div digest.step
      BY <2>4, <3>1, <3>2, RateForetells DEF Even
    <3>5. d <= rate
      BY <3>4
    <3> DEFINE last == stamps[Len(stamps)]
               x == Len(stamps) - 1 - digest.step
               y == MaxSteps - (Len(stamps) - 1)
    <3>6. x \in Int /\ y \in Int /\ left = x + y
      BY <1>2, <2>1, <3>3
    <3>7. last \in Nat /\ last <= digest.hours + x * d
      <4>1. stamps \in Seq(Nat) /\ Len(stamps) \in 1..Len(stamps)
        BY <1>2, <3>2, TookTyped
      <4> QED BY <3>1, <4>1
    <3> HIDE DEF rate, left, projected, last, x, y
    <3>8. left * d <= left * rate /\ left * d \in Int /\ left * rate \in Int
      BY <2>1, <2>2, <3>5, Monotone
    <3>9. left * d = x * d + y * d /\ x * d \in Int /\ y * d \in Int
      BY <3>6
    <3> DEFINE p == left * d
               q == left * rate
               u == x * d
               v == y * d
    <3>10. /\ projected = digest.hours + q /\ p <= q /\ p = u + v /\ last <= digest.hours + u
           /\ p \in Int /\ q \in Int /\ u \in Int /\ v \in Int
      BY <2>3, <3>7, <3>8, <3>9
    <3>11. projected >= last + v
      <4> HIDE DEF p, q, u, v
      <4> QED BY <1>2, <3>7, <3>10
    <3> QED BY <3>11 DEF last, y
  <2>5. digest' = [digest EXCEPT !.stage = "done", !.rate = rate, !.projected = projected]
    BY <1>1, <1>4
  <2> HIDE DEF rate, projected
  <2>6. /\ digest' \in Digests /\ digest'.stage = "done" /\ digest'.step = digest.step
        /\ digest'.counter = digest.counter /\ digest'.projected = projected
        /\ digest'.source = digest.source /\ digest'.hours = digest.hours
    BY <1>1, <2>2, <2>3, <2>5 DEF Digests, Stages
  <2>7. HoursHold(digest')
    BY <1>1, <2>6 DEF HoursHold
  <2>8. Foretold(digest')
    BY <2>4, <2>6 DEF Foretold
  <2>9. Right(digest')
    BY <1>1, <1>4, <2>6, <2>7, <2>8 DEF Right
  <2> QED BY <1>1, <2>9, ReadOK
<1> QED BY <1>3, <1>4

LEMMA StepPace == PaceInd /\ [PaceNext]_vars => PaceInd'
<1> SUFFICES ASSUME HistoryOK, DigestOK, [PaceNext]_vars PROVE DigestOK'
  BY StepHistory DEF PaceInd
<1>1. HistoryOK' /\ now \in Nat /\ (OnTime' => OnTime)
  BY StepHistory, TookTyped, NeverOnTimeLater
<1>2. CASE Tick
  BY <1>1, <1>2, DigestStays DEF Tick
<1>3. ASSUME NEW ticks \in Durations, NEW logs \in BOOLEAN, RecordStep(ticks, logs)
      PROVE  DigestOK'
  BY <1>1, <1>3, DigestStays DEF RecordStep
<1>4. ASSUME NEW step \in 0..Len(stamps) - 1, LateRow(step) PROVE DigestOK'
  BY <1>1, <1>4, DigestStays DEF LateRow
<1>5. CASE PlainRow
  BY <1>1, <1>5, DigestStays DEF PlainRow
<1>6. CASE UNCHANGED vars
  BY <1>1, <1>6, DigestStays DEF vars
<1>7. CASE Printed
  <2>1. (HistoryOK /\ digest = NoDigest => DigestOK)'
    BY ForgottenOK, PTL
  <2>2. digest' = NoDigest'
    BY <1>7 DEF Printed, NoDigest
  <2> QED BY <1>1, <2>1, <2>2
<1>8. ASSUME NEW client \in BOOLEAN, NEW ok \in BOOLEAN, NEW shared \in BOOLEAN,
             ReadSummary(client, ok, shared)
      PROVE  DigestOK'
  BY <1>8, SummaryDigest
<1>9. ASSUME NEW ok \in BOOLEAN, ReadStep(ok) \/ ReadHours(ok) \/ ReadRate(ok)
      PROVE  DigestOK'
  BY <1>9, StepDigest, HoursDigest, RateDigest
<1> QED BY <1>2, <1>3, <1>4, <1>5, <1>6, <1>7, <1>8, <1>9 DEF PaceNext

\* Every state of the invariant is well typed.
LEMMA PaceIndTyped == PaceInd => PaceTypeOK
<1> SUFFICES ASSUME HistoryOK, DigestOK PROVE PaceTypeOK
  BY DEF PaceInd
<1>1. /\ now \in Nat /\ due \in Nat /\ now <= due
      /\ Len(stamps) <= MaxSteps + 1
      /\ \A k \in 1..Len(stamps) : stamps[k] \in 0..now
  <2>1. now \in Times /\ due \in Times /\ now <= due /\ stamps \in Seq(Nat) /\ 0 \in Nat
    BY DEF HistoryOK, ClockOK
  <2>2. now \in Nat /\ due \in Nat
    BY <2>1, TimesAdd
  <2>3. \A k \in 1..Len(stamps) : stamps[k] \in Nat /\ stamps[k] <= now
    BY <2>1 DEF HistoryOK, ClockOK
  <2> QED BY <2>1, <2>2, <2>3 DEF HistoryOK, ClockOK
<1>2. ToSet(stamps) \subseteq 0..now
  BY <1>1 DEF ToSet
<1>3. /\ rows \in Seq(Row) /\ Len(rows) <= Len(stamps) + extra /\ extra <= MaxExtra
  BY DEF HistoryOK, RowsOK
<1>4. ToSet(rows) \subseteq Row
  BY <1>3 DEF ToSet
<1>5. /\ digest.stage \in {"none", "step", "hours", "rate", "done", "unavailable"}
      /\ digest.projected # None => digest.stage = "done" /\ digest.step > 0
  BY DEF DigestOK, Right, Digests, Stages
<1> QED BY <1>1, <1>2, <1>3, <1>4, <1>5 DEF PaceTypeOK

\* The clock of a run stops with it, its rows are about recorded steps only, and only a
\* digest with a completed step forecasts.
THEOREM PaceTyped == PaceSpec => []PaceTypeOK
BY InitPace, StepPace, PaceIndTyped, PTL DEF PaceSpec

\* Shared among the steps so far, a time no shorter than as many of the last step leaves
\* the steps to come at least that much each.
LEMMA SharedOut ==
  ASSUME NEW d \in Nat, NEW s \in Nat \ {0}, NEW m \in Nat, s <= m,
         NEW x \in Int, d * s <= x
  PROVE  x + (m - s) * d <= (x * m) \div s
<1> DEFINE c == m - s
           y == x + c * d
<1>1. c \in Nat /\ m = s + c
  OBVIOUS
<1> HIDE DEF c
<1>2. c * (d * s) <= c * x /\ c * (d * s) \in Int /\ c * x \in Int
  <2>1. d * s \in Int
    OBVIOUS
  <2> QED BY <1>1, <2>1, Monotone
<1>3. x * m = x * s + c * x
  BY <1>1
<1>4. y * s = x * s + c * (d * s)
  BY <1>1
<1>5. y \in Int /\ x * s \in Int /\ x * m \in Int /\ y * s \in Int
  BY <1>1
<1> HIDE DEF y
<1>6. y * s <= x * m
  <2> DEFINE p == x * s
             q == c * (d * s)
             r == c * x
  <2>1. x * m = p + r /\ y * s = p + q /\ q <= r /\ p \in Int /\ q \in Int /\ r \in Int
    BY <1>2, <1>3, <1>4, <1>5
  <2>2. p + q <= p + r
    <3> HIDE DEF p, q, r
    <3> QED BY <2>1
  <2> QED BY <2>1, <2>2
<1>7. x * m \in Int /\ y <= (x * m) \div s
  <2> DEFINE z == x * m
  <2>1. z \in Int /\ y * s <= z
    BY <1>5, <1>6
  <2> HIDE DEF z
  <2>2. z \div s \in Int /\ z < (z \div s) * s + s /\ z >= (z \div s) * s
    BY <2>1
  <2> DEFINE h == z \div s
  <2>3. h \in Int /\ z < h * s + s /\ h * s \in Int
    BY <2>2
  <2> HIDE DEF h
  <2>4. y <= h
    <3> SUFFICES ASSUME h + 1 <= y PROVE FALSE
      BY <1>5, <2>3
    <3>1. (h + 1) * s <= y * s
      BY <1>5, <2>3, Monotone
    <3>2. (h + 1) * s = h * s + s
      BY <2>3
    <3> QED BY <1>5, <2>1, <2>3, <3>1, <3>2
  <2> QED BY <2>1, <2>4 DEF h, z
<1> QED BY <1>7 DEF y, c

LEMMA ForecastSeen == PaceInd => ForecastIsNotOptimistic
<1> SUFFICES ASSUME HistoryOK, DigestOK, Uniform PROVE ForecastIsNotOptimistic
  BY DEF PaceInd, ForecastIsNotOptimistic
<1> DEFINE n == Len(stamps)
           d == Last(Took)
           last == stamps[n]
           lead == Lead * Unit
<1>1. /\ n \in Nat /\ n > 2 /\ now \in Nat /\ n <= MaxSteps + 1 /\ MaxSteps \in Nat
      /\ lead \in Int /\ stamps \in Seq(Nat)
  BY TookTyped, PaceAssumption DEF HistoryOK, ClockOK, Uniform
<1>2. Took = [k \in 1..n - 1 |-> stamps[k + 1] - stamps[k]] /\ Len(Took) = n - 1
  BY <1>1 DEF Took
<1>3. d \in Nat /\ Even(d) /\ d = Took[n - 1]
  <2>1. d = Took[n - 1]
    BY <1>2 DEF Last
  <2>2. \A k \in 1..n - 1 : Took[k] \in Nat
    BY TookTyped
  <2>3. n - 1 \in 1..n - 1 /\ n - 1 \in 2..n - 1 /\ 2 \in 1..n - 1
    BY <1>1
  <2>4. d = Took[2] /\ d \in Nat
    BY <1>2, <2>1, <2>2, <2>3 DEF Uniform
  <2>5. ASSUME NEW k \in 1..n - 1 PROVE d <= Took[k]
    <3>1. CASE k = 1
      BY <2>2, <2>3, <2>4, <3>1 DEF Uniform
    <3>2. CASE k # 1
      <4>1. k \in 2..n - 1
        BY <1>1, <3>2
      <4>2. Took[k] = Took[2]
        BY <1>2, <4>1 DEF Uniform
      <4> QED BY <2>4, <4>2
    <3> QED BY <3>1, <3>2
  <2>6. \A k \in 2..n - 1 : Took[k] = d
    BY <1>2, <2>4 DEF Uniform
  <2> QED BY <2>1, <2>4, <2>5, <2>6 DEF Even, Within
<1>4. /\ stamps[1] \in Nat /\ last \in Nat /\ lead <= stamps[1] /\ last <= now
      /\ d * (n - 1) <= last - stamps[1]
  <2>1. n > 0
    BY <1>1
  <2> QED BY <1>3, <2>1, TimeHolds DEF Even
<1>5. Ends = last + (MaxSteps - (n - 1)) * d /\ Step = n - 1
  BY DEF Ends, Step, Last
<1> HIDE DEF d, last, lead
<1> DEFINE s == n - 1
           rest == (MaxSteps - s) * d
<1>6. s \in Nat \ {0} /\ s <= MaxSteps /\ d * s \in Int /\ rest \in Int
  <2>1. s \in Nat \ {0} /\ s <= MaxSteps /\ MaxSteps - s \in Int
    <3>1. n \in Nat /\ n > 2 /\ n <= MaxSteps + 1 /\ MaxSteps \in Nat
      BY <1>1
    <3> HIDE DEF n
    <3> QED BY <3>1
  <2>2. \A x \in Int : d * x \in Int /\ x * d \in Int
    BY <1>3
  <2> HIDE DEF s
  <2> QED BY <2>1, <2>2
<1>7. d * s <= last - stamps[1]
  BY <1>4
<1>8. Step = s /\ Ends = last + rest
  BY <1>5
<1> HIDE DEF n, s, rest
<1>9. ASSUME digest.projected # None, digest.source = "pod", ~digest.counter, OnTime
      PROVE  digest.projected >= Ends
  <2>1. digest.projected >= stamps[Len(stamps)] + (MaxSteps - (Len(stamps) - 1)) * d
    BY <1>3, <1>9 DEF DigestOK, Right, Foretold
  <2> QED BY <1>8, <2>1 DEF last, rest, s, n
<1>10. ASSUME NEW told \in BOOLEAN, Total(told) >= MaxSteps
       PROVE  ProjectedCompletion(told) >= Ends - lead
  <2> DEFINE x == now - lead
             m == Total(told)
             more == (m - s) * d
  <2>1. x \in Int /\ d * s <= x
    BY <1>1, <1>4, <1>6, <1>7
  <2>2. m \in Nat /\ m >= MaxSteps
    BY <1>10, PaceAssumption DEF Total
  <2>3. ProjectedCompletion(told) = (x * m) \div s
    BY <1>8 DEF ProjectedCompletion, lead
  <2> HIDE DEF x, m
  <2>4. s <= m /\ m - s \in Int /\ MaxSteps - s \in Int /\ MaxSteps - s <= m - s
    BY <1>1, <1>6, <2>2
  <2>5. x + more <= (x * m) \div s
    BY <1>3, <1>6, <2>1, <2>2, <2>4, SharedOut
  <2>6. rest <= more /\ more \in Int
    BY <1>3, <2>4, Monotone DEF rest
  <2>7. (x * m) \div s \in Int
    BY <1>6, <2>1, <2>2
  <2> DEFINE q == (x * m) \div s
  <2>8. q \in Int /\ x + more <= q /\ ProjectedCompletion(told) = q
    BY <2>3, <2>5, <2>7
  <2> HIDE DEF q, more
  <2>9. Ends - lead <= x + rest
    BY <1>1, <1>4, <1>6, <1>8 DEF x
  <2>10. Ends - lead \in Int /\ x + rest \in Int
    BY <1>1, <1>4, <1>6, <1>8, <2>1
  <2> QED BY <1>6, <2>1, <2>6, <2>8, <2>9, <2>10
<1>11. ProjectedCost >= Ends
  <2>1. now \in Int /\ d * s <= now
    BY <1>1, <1>4, <1>6, <1>7
  <2>2. now + rest <= (now * MaxSteps) \div s
    BY <1>1, <1>3, <1>6, <2>1, SharedOut DEF rest
  <2>3. ProjectedCost = (now * MaxSteps) \div s
    BY <1>8 DEF ProjectedCost
  <2> DEFINE q == (now * MaxSteps) \div s
  <2>4. q \in Int /\ now + rest <= q
    BY <1>1, <1>6, <2>2
  <2> HIDE DEF q
  <2>5. q >= Ends
    BY <1>1, <1>4, <1>6, <1>8, <2>4
  <2> QED BY <2>3, <2>5 DEF q
<1> QED BY <1>9, <1>10, <1>11 DEF ForecastIsNotOptimistic, lead

\* No forecast of a run that keeps its pace is below its true end, however long the run,
\* its lead and its steps are, and however the digest's reads fall among the records.
THEOREM ForecastNeverOptimistic == PaceSpec => []ForecastIsNotOptimistic
BY InitPace, StepPace, ForecastSeen, PTL DEF PaceSpec

==============================================================================
