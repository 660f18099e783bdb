-------------------------------- MODULE Pace ---------------------------------
(***************************************************************************)
(* How fast a run is and what it will cost, as rlmwatch tells it: the two   *)
(* readings of clients/wandb.py that decide it (latest_step, step_rate_s),  *)
(* the digest built from them one read after another (digest.build_digest)  *)
(* and the watchdog's projections.  Meanwhile the trainer logs a row per    *)
(* step, some steps without one, a second writer logs late rows about steps *)
(* already recorded, and anyone logs rows that carry no step.               *)
(*                                                                          *)
(* Time is counted in units of 1/Unit of a tick so that every quotient the  *)
(* code forms is a whole number; money is linear in the hours and is left   *)
(* out.  The history is no longer than the samples that are asked of it.    *)
(***************************************************************************)
EXTENDS Integers, Sequences, FiniteSets, SequencesExt, FiniteSetsExt

CONSTANTS
    Unit,           \* the parts of a tick
    MaxSteps,       \* the planned number of steps, ctx.local["max_steps"]
    PlateauWindow,  \* health.plateau_window, a number of steps
    Lead,           \* ticks the pod was billed for before wandb.init
    Durations,      \* the ticks a step may take
    MaxExtra        \* bound: rows other than the trainer's

None == -1

ASSUME PaceAssumption ==
    /\ MaxSteps \in Nat \ {0} /\ PlateauWindow \in Nat \ {0}
    /\ Unit \in Nat \ {0} /\ \A n \in 1..2 * MaxSteps : Unit % n = 0
    /\ Lead \in Nat
    /\ Durations \subseteq Nat \ {0}
    /\ MaxExtra \in Nat

Row == [step : {None} \cup 0..MaxSteps, ts : Nat]

VARIABLES
    now,      \* time since the pod was created
    due,      \* when the step under way is recorded
    stamps,   \* when each step was recorded, from step 0 on
    rows,     \* the run's history: the step a row carries, if any, and its time
    extra,    \* bound: rows logged beside the trainer's
    digest    \* the digest being built, or built; `counter` and `source` are history:
              \* whether its step is W&B's counter, and whose clock its hours are

vars == <<now, due, stamps, rows, extra, digest>>

NoDigest == [stage |-> "none", client |-> FALSE, counter |-> FALSE,
             runtime |-> None, raw |-> None, step |-> None, hours |-> None, source |-> "none",
             rate |-> None, projected |-> None]

PaceInit ==
    /\ now = Lead * Unit
    /\ due = now
    /\ stamps = << >>
    /\ rows = << >>
    /\ extra = 0
    /\ digest = NoDigest

------------------------------------------------------------------------------
(* The run *)

Tick ==
    /\ now < due
    /\ now' = now + Unit
    /\ UNCHANGED <<due, stamps, rows, extra, digest>>

\* The trainer records a step, with or without a row of it, and begins the next.
RecordStep(ticks, logs) ==
    /\ now = due
    /\ Len(stamps) <= MaxSteps
    /\ stamps' = Append(stamps, now)
    /\ rows' = IF logs THEN Append(rows, [step |-> Len(stamps), ts |-> now]) ELSE rows
    /\ due' = IF Len(stamps) = MaxSteps THEN now ELSE now + ticks * Unit
    /\ UNCHANGED <<now, extra, digest>>

\* The orchestrator logs a row about a step already recorded, which need have no other.
LateRow(step) ==
    /\ extra < MaxExtra
    /\ extra' = extra + 1
    /\ rows' = Append(rows, [step |-> step, ts |-> now])
    /\ UNCHANGED <<now, due, stamps, digest>>

\* Either writer logs a row without a step: a table, a payload, a gauge.
PlainRow ==
    /\ extra < MaxExtra
    /\ extra' = extra + 1
    /\ rows' = Append(rows, [step |-> None, ts |-> now])
    /\ UNCHANGED <<now, due, stamps, digest>>

------------------------------------------------------------------------------
(* clients/wandb.py *)

Stepped == {row \in ToSet(rows) : row.step # None}

LoggedSteps == {row.step : row \in Stepped}

\* Mutant: wandb's counter of log calls is taken for the training step.
LatestStep_Counter == IF rows = << >> THEN None ELSE Len(rows) - 1

\* The training step if any row carries one, wandb's row counter otherwise.
LatestStep ==
    IF LoggedSteps # {} THEN Max(LoggedSteps)
    ELSE IF rows # << >> THEN Len(rows) - 1 ELSE None

\* Mutant: the last row about a step tells when it was recorded.
StampOf_LastRow(s) == Max({row.ts : row \in {r \in Stepped : r.step = s}})

\* One time per step, the earliest.
StampOf(s) == Min({row.ts : row \in {r \in Stepped : r.step = s}})

\* By the step it starts from, each interval between consecutive logged steps in which
\* time passed: the time per step.
Deltas ==
    LET steps == LoggedSteps
        stamp == [s \in steps |-> StampOf(s)]
        next == [s \in {t \in steps : \E u \in steps : u > t} |->
                   Min({t \in steps : t > s})]
    IN [s \in {t \in DOMAIN next : stamp[next[t]] > stamp[t]} |->
          (stamp[next[s]] - stamp[s]) \div (next[s] - s)]

\* The k-th value of a function in ascending order.
Ranked(f, k) ==
    CHOOSE v \in {f[s] : s \in DOMAIN f} :
       /\ Cardinality({s \in DOMAIN f : f[s] < v}) < k
       /\ Cardinality({s \in DOMAIN f : f[s] <= v}) >= k

\* Their median.
StepRate ==
    LET deltas == Deltas
        n == Cardinality(DOMAIN deltas)
        mid == n \div 2 + 1
    IN IF n = 0 THEN None
       ELSE IF n % 2 = 1 THEN Ranked(deltas, mid)
       ELSE (Ranked(deltas, mid - 1) + Ranked(deltas, mid)) \div 2

------------------------------------------------------------------------------
(* digest.build_digest: four reads, each of which may fail *)

\* The summary.  `_runtime` runs from wandb.init to the last row; `_step` counts the log
\* calls, and W&B's shared mode leaves it unset.
ReadSummary(client, ok, shared) ==
    /\ digest.stage = "none"
    /\ digest' = [NoDigest EXCEPT
                    !.stage = IF ok THEN "step" ELSE "unavailable",
                    !.client = client,
                    !.runtime = IF ok /\ rows # << >> THEN Last(rows).ts - Lead * Unit ELSE None,
                    !.raw = IF ok /\ ~shared /\ rows # << >> THEN Len(rows) - 1 ELSE None]
    /\ UNCHANGED <<now, due, stamps, rows, extra>>

\* The step, or else the summary's.
ReadStep(ok) ==
    /\ digest.stage = "step"
    /\ digest' = [digest EXCEPT
                    !.stage = "hours",
                    !.step = IF ok THEN LatestStep ELSE digest.raw,
                    !.counter = IF ok THEN LoggedSteps = {} /\ rows # << >>
                                ELSE digest.raw # None]
    /\ UNCHANGED <<now, due, stamps, rows, extra>>

\* cost.elapsed_billed_hours: the pod's uptime, or what the monitor has seen of it,
\* and a digest's monitor has only just begun.
BilledHours(ok) == IF ok THEN now ELSE 0

\* The hours billed, from W&B only when there is no RunPod client at all.
ReadHours(ok) ==
    /\ digest.stage = "hours"
    /\ digest' = [digest EXCEPT
                    !.stage = "rate",
                    !.source = IF ~digest.client THEN "wandb" ELSE IF ok THEN "pod" ELSE "monitor",
                    !.hours = CASE digest.client -> BilledHours(ok)
                                [] ~digest.client /\ digest.runtime # None ->
                                     digest.runtime + Lead * Unit
                                [] OTHER -> None]
    /\ UNCHANGED <<now, due, stamps, rows, extra>>

\* The rate measured between steps, or else the hours shared among the steps; then
\* the forecast, which only a completed step allows.
ReadRate(ok) ==
    LET measured == IF ok THEN StepRate ELSE None
        rate == IF measured # None THEN measured ELSE digest.hours \div digest.step
    IN /\ digest.stage = "rate"
       /\ digest' = IF digest.hours # None /\ digest.step > 0
                      THEN [digest EXCEPT
                              !.stage = "done",
                              !.rate = rate,
                              !.projected = digest.hours
                                              + Max({MaxSteps - digest.step, 0}) * rate]
                      ELSE [digest EXCEPT !.stage = "done"]
       /\ UNCHANGED <<now, due, stamps, rows, extra>>

\* It is printed, and nothing of it stays behind.
Printed ==
    /\ digest.stage \in {"done", "unavailable"}
    /\ digest' = NoDigest
    /\ UNCHANGED <<now, due, stamps, rows, extra>>

PaceNext ==
    \/ Tick
    \/ Printed
    \/ \E ticks \in Durations, logs \in BOOLEAN : RecordStep(ticks, logs)
    \/ \E step \in 0..Len(stamps) - 1 : LateRow(step)
    \/ PlainRow
    \/ \E client, ok, shared \in BOOLEAN : ReadSummary(client, ok, shared)
    \/ \E ok \in BOOLEAN : ReadStep(ok) \/ ReadHours(ok) \/ ReadRate(ok)

PaceSpec == PaceInit /\ [][PaceNext]_vars

------------------------------------------------------------------------------
(* The watchdog's projections, from the step the training loop reports *)

Step == Len(stamps) - 1

\* The planned steps, if the training loop told of them.
Total(told) == IF told THEN MaxSteps ELSE PlateauWindow

\* probes/health.py: hours since the watchdog began, shared among the steps.
ProjectedCompletion(told) == ((now - Lead * Unit) * Total(told)) \div Step

\* probes/cost.py: the hours billed per part of the progress, times the whole.
ProjectedCost == (now * MaxSteps) \div Step

------------------------------------------------------------------------------
(* Properties *)

\* The clock stops with the run, rows are well formed, and a digest that is not being
\* built is of the kind its last read left.
PaceTypeOK ==
    /\ now \in Nat /\ due \in Nat /\ now <= due
    /\ Len(stamps) <= MaxSteps + 1 /\ ToSet(stamps) \subseteq 0..now
    /\ ToSet(rows) \subseteq Row
    /\ Len(rows) <= Len(stamps) + extra /\ extra <= MaxExtra
    /\ digest.stage \in {"none", "step", "hours", "rate", "done", "unavailable"}
    /\ digest.projected # None => digest.stage = "done" /\ digest.step > 0

\* What each step took, from one record to the next.
Took == [k \in 1..Len(stamps) - 1 |-> stamps[k + 1] - stamps[k]]

Slow(d) == {k \in DOMAIN Took : Took[k] # d}

\* Each step that has a row has one from the time of its record.
OnTime ==
    \A s \in LoggedSteps : [step |-> s, ts |-> stamps[s + 1]] \in ToSet(rows)

\* step_rate_s is a pace the run had: it lies between its shortest and its longest
\* step however many rows a late writer adds to those of the trainer and whichever
\* steps have none; and when all steps but one took the same time and three intervals
\* were measured, that one step, the first with its warm-up or a later one, does not
\* show in it.
RateIsThePace ==
    LET rate == StepRate
        took == ToSet(Took)
    IN OnTime /\ rate # None =>
         /\ Min(took) <= rate /\ rate <= Max(took)
         /\ Cardinality(DOMAIN Deltas) >= 3 =>
              \A d \in took : Cardinality(Slow(d)) <= 1 => rate = d

\* The run so far is a first step with its warm-up and then equal steps.
Uniform ==
    /\ Len(stamps) > 2
    /\ \A k \in 2..Len(Took) : Took[k] = Took[2]
    /\ Took[1] >= Took[2]

\* When such a run goes on at its pace, this is when it ends.
Ends == Last(stamps) + (MaxSteps - Step) * Last(Took)

\* No forecast is wrong in the direction that gets a run approved on a false budget.
\* For a run that keeps its pace, the projection of a digest that could read the pod's
\* uptime and rows with a training step, each step's first from its record, is at least
\* the true end, though steps may be recorded while it is built and late rows may
\* follow them; and the watchdog's two projections are at least the true end at every
\* poll, that of the completion if it counts on no fewer steps than are planned.
ForecastIsNotOptimistic ==
    Uniform =>
        /\ /\ digest.projected # None
           /\ digest.source = "pod" /\ ~digest.counter /\ OnTime
           => digest.projected >= Ends
        /\ \A told \in BOOLEAN :
              Total(told) >= MaxSteps => ProjectedCompletion(told) >= Ends - Lead * Unit
        /\ ProjectedCost >= Ends
==============================================================================
