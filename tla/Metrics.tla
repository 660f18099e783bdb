------------------------------- MODULE Metrics -------------------------------
(***************************************************************************)
(* The metric probes (rlmwatch/probes/rlm.py, probes/health.py) over what   *)
(* WandbClient.metric_window returns: a training logs one value after       *)
(* another, some of them not finite, and at any moment every probe can be   *)
(* asked for its verdict.  A verdict is a function of the state, since the  *)
(* probes are pure; what can be wrong is what a bounded window of finite    *)
(* values says of the training that logged them.                            *)
(*                                                                          *)
(* Values are integers in a unit of their metric, and an inequality with a  *)
(* fraction in it is multiplied out.  A run here logs fewer rows than the   *)
(* samples metric_window asks W&B for, so its history is complete.          *)
(***************************************************************************)
EXTENDS Integers, Sequences, FiniteSets, SequencesExt, FiniteSetsExt

CONSTANTS
    Trainings,  \* which values each metric of a training may take, and how often it is logged
    Long,       \* the window of a trend, 20 samples in the code
    Short,      \* the window of a level and the least history of a signature, 10
    Few,        \* the window of an average and of held-out evals, 5
    FewEvals,   \* the evals without which there is no eval slope, 3
    Health,     \* config.Health: the thresholds
    Baselines,  \* what the gate's warm-up measured; 0 where it measured nothing
    MaxSeqLen,  \* ctx.local["max_seq_len"], 0 when not reported
    NaN         \* a value that is not finite

Finite(v) == v # NaN

ASSUME MetricsAssumption ==
    /\ {Long, Short, Few, FewEvals} \subseteq Nat \ {0}
    /\ Few > 1  \* one sample has no slope
    /\ {Health.reward_std_patience, Health.eval_patience, Health.plateau_window}
          \subseteq Nat \ {0}
    /\ {Health.reward_std_min, Health.kl_max, Health.entropy_min} \subseteq Int
    /\ \A t \in Trainings : \A k \in DOMAIN t.logs :
          /\ t.rows[k] \in Nat
          /\ t.logs[k] \subseteq Int \cup {NaN}

VARIABLES
    training,   \* the training that runs
    logged,     \* per metric the values logged so far, oldest first
    wandbUp,    \* W&B answers the client
    flat,       \* history: how many finite reward stds in a row were below the floor
    sinceBest   \* history: how many evals in a row were below the best before them

vars == <<training, logged, wandbUp, flat, sinceBest>>

MetricsInit ==
    /\ training \in Trainings
    /\ logged = [k \in DOMAIN training.logs |-> << >>]
    /\ wandbUp = TRUE
    /\ flat = 0
    /\ sinceBest = 0

------------------------------------------------------------------------------
(* What the client returns *)

LastOf(s, n) == SubSeq(s, Max({1, Len(s) - n + 1}), Len(s))

\* The values of a metric, none when the training does not log it.
Series(k) == IF k \in DOMAIN logged THEN logged[k] ELSE << >>

RawWindow(k, n) == LastOf(Series(k), n)

\* What is finite of a sequence, in order.
FiniteOf(s) ==
    LET upTo[i \in 0..Len(s)] ==
          IF i = 0 THEN << >>
          ELSE IF Finite(s[i]) THEN Append(upTo[i - 1], s[i]) ELSE upTo[i - 1]
    IN upTo[Len(s)]

\* The latest finite values: what is not finite is dropped before the window is cut.
Seen(k, n) == LastOf(FiniteOf(Series(k)), n)

SumOf(s) ==
    LET upTo[i \in 0..Len(s)] == IF i = 0 THEN 0 ELSE upTo[i - 1] + s[i]
    IN upTo[Len(s)]

\* Mutant: the samples are weighed from the first, not around their middle.
Trend_Uncentred(s) == SumOf([i \in 1..Len(s) |-> i * s[i]])

\* The least-squares slope over Len(s) samples, times n(n^2 - 1)/6.
Trend(s) == SumOf([i \in 1..Len(s) |-> (2 * i - Len(s) - 1) * s[i]])

Scale(s) == Len(s) * (Len(s) * Len(s) - 1)

\* A probe's check: unreadable or not enough history, then its two thresholds.
Judge(known, fails, warns) ==
    CASE ~wandbUp \/ ~known -> "unknown"
      [] wandbUp /\ known /\ fails -> "fail"
      [] wandbUp /\ known /\ ~fails /\ warns -> "warn"
      [] OTHER -> "ok"

\* The arms of the probes that look at the latest value only.
JudgeLatest(k, n, fails(_), warns(_)) ==
    LET v == Seen(k, n) IN Judge(v # << >>, fails(Last(v)), warns(Last(v)))

Never(v) == FALSE

Outside(lo, hi, v) == v < lo \/ v > hi

------------------------------------------------------------------------------
(* rlm.py, regime rl *)

\* Mutant: any collapsed step of a full window is enough.
RewardStd_AnyCollapsed ==
    LET v == Seen("reward/std", Health.reward_std_patience) IN
    Judge(v # << >>,
          /\ Len(v) >= Health.reward_std_patience
          /\ \E i \in 1..Len(v) : v[i] < Health.reward_std_min,
          Last(v) < Health.reward_std_min)

RewardStd ==
    LET v == Seen("reward/std", Health.reward_std_patience) IN
    Judge(v # << >>,
          /\ Len(v) >= Health.reward_std_patience
          /\ \A i \in 1..Len(v) : v[i] < Health.reward_std_min,
          Last(v) < Health.reward_std_min)

\* Mutant: the slope is not carried ten samples ahead.
KlRef_LevelOnly == JudgeLatest("kl/ref", Long, LAMBDA x : x > Health.kl_max, Never)

\* Past the limit, or within ten samples of it at the present slope.
KlRef ==
    LET v == Seen("kl/ref", Long) IN
    Judge(v # << >>,
          Last(v) > Health.kl_max,
          /\ Trend(v) > 0
          /\ Len(v) >= Few
          /\ Last(v) * Scale(v) + 10 * 6 * Trend(v) > Health.kl_max * Scale(v))

\* Below the floor, or falling with no rise among the last samples.
Entropy ==
    LET v == Seen("policy/entropy", Long)
        w == LastOf(v, Short)
    IN Judge(v # << >>,
             Last(v) < Health.entropy_min,
             /\ Len(v) >= Short
             /\ Trend(v) < 0
             /\ \A i \in 1..Len(w) - 1 : w[i + 1] <= w[i])

CompletionLength ==
    JudgeLatest("completion/length", Long, Never,
                LAMBDA x : Outside(Health.completion_len[1], Health.completion_len[2], x))

FormatSuccess ==
    JudgeLatest("format/success_rate", Short, LAMBDA x : x < Health.format_success_min, Never)

ClipFraction == JudgeLatest("clip_fraction", Long, Never, LAMBDA x : x > Health.clip_max)

\* Against the gate's warm-up rollout: past the multiplier, or past 0.6 of it.
RolloutDuration ==
    LET v == Seen("rollout/duration_s", Short)
        limit == Health.rollout_duration_multiplier * Baselines.rollout
    IN Judge(Baselines.rollout # 0 /\ v # << >>, Last(v) > limit, 10 * Last(v) > 6 * limit)

\* The memory W&B's agent last reported of each device; two arms of one status.
VramHeadroom ==
    LET used == {Last(Series(k)) : k \in {j \in {"system/gpu.0.memoryAllocated",
                                                 "system/gpu.1.memoryAllocated"} :
                                              Series(j) # << >>}}
    IN Judge(used # {}, FALSE, 100 - Max(used) < 15)

\* The error rate in percent; no value of it, beside a latency, counts as none.
RewardModel ==
    LET errors == Seen("reward_model/error_rate", Short)
        rate == IF errors = << >> THEN 0 ELSE Last(errors)
    IN Judge(errors # << >> \/ Seen("reward_model/p99_latency_s", Short) # << >>,
             rate > 5, rate > 1)

\* Mutant: too few evals count as flat ones.
RewardHacking_NoEvals ==
    LET reward == Seen("reward/mean", Long)
        kl == Seen("kl/ref", Long)
        evals == Seen("eval/score", Few)
    IN Judge(Len(reward) >= Short /\ Len(kl) >= Short, FALSE,
             /\ Trend(reward) > 0 /\ Trend(kl) > 0
             /\ Len(evals) >= FewEvals => Trend(evals) <= 0)

\* Reward and drift rise while the held-out evals do not.
RewardHacking ==
    LET reward == Seen("reward/mean", Long)
        kl == Seen("kl/ref", Long)
        evals == Seen("eval/score", Few)
    IN Judge(Len(reward) >= Short /\ Len(kl) >= Short, FALSE,
             /\ Trend(reward) > 0 /\ Trend(kl) > 0
             /\ Len(evals) >= FewEvals
             /\ Trend(evals) <= 0)

\* Reward rises while the REPL is used less, and no more to the point.
ReplDegeneracy ==
    LET turns == Seen("repl/mean_turns", Long)
        nontrivial == Seen("repl/nontrivial_fraction", Long)
        reward == Seen("reward/mean", Long)
    IN Judge(Len(turns) >= Short /\ Len(reward) >= Short,
             /\ Trend(reward) > 0 /\ Trend(turns) < 0
             /\ Len(nontrivial) >= Short => Trend(nontrivial) <= 0,
             FALSE)

------------------------------------------------------------------------------
(* rlm.py, regime sft *)

\* A standard deviation of nothing, over a full window.
LossPlateau ==
    LET v == Seen("train/loss", Health.plateau_window) IN
    Judge(Len(v) >= Health.plateau_window, FALSE, \A i \in 1..Len(v) : v[i] = v[1])

ReasoningTokenAccuracy ==
    LET accuracy == Seen("train/reasoning_token_accuracy", Long)
        loss == Seen("train/loss", Long)
    IN Judge(Len(accuracy) >= Short /\ Len(loss) >= Short, FALSE,
             Trend(loss) < 0 /\ Trend(accuracy) = 0)

SequenceLength ==
    LET v == Seen("train/seq_len_p95", Long) IN
    Judge(MaxSeqLen # 0 /\ v # << >>, FALSE,
          100 * Last(v) >= Health.seq_len_p95_warn_pct * MaxSeqLen)

PackingEfficiency == JudgeLatest("train/packing_efficiency", Long, Never, LAMBDA x : x < 60)

\* Mutant: an eval as good as the best counts as worse.
HeldOutEval_Ties ==
    LET p == Health.eval_patience
        v == Seen("eval/score", p + 1)
    IN Judge(Len(v) >= p + 1, FALSE,
             \A i \in 2..Len(v) : v[i] <= Max(ToSet(v)))

\* The last evals, as many as the patience, are all below the window's best.
HeldOutEval ==
    LET p == Health.eval_patience
        v == Seen("eval/score", p + 1)
    IN Judge(Len(v) >= p + 1, FALSE,
             \A i \in 2..Len(v) : v[i] < Max(ToSet(v)))

------------------------------------------------------------------------------
(* health.py *)

\* Mutant: the loss probe reads the window the trend probes read.
LossFinite_FiniteWindow ==
    LET v == Seen("train/loss", Short) IN
    Judge(v # << >>, \E i \in 1..Len(v) : ~Finite(v[i]), FALSE)

\* The raw window: one loss in it that is not finite fails.
LossFinite ==
    LET v == RawWindow("train/loss", Short) IN
    Judge(v # << >>, \E i \in 1..Len(v) : ~Finite(v[i]), FALSE)

GradNorm ==
    JudgeLatest("train/grad_norm", Long, Never,
                LAMBDA x : Outside(Health.grad_norm_min, Health.grad_norm_max, x))

\* The mean of the last few samples against the gate's warm-up throughput.
Throughput ==
    LET v == LastOf(Seen("train/throughput", Long), Few)
        base == Baselines.throughput
    IN Judge(base # 0 /\ v # << >>, FALSE,
             100 * (base * Len(v) - SumOf(v))
                 > Health.throughput_degradation_pct * base * Len(v))

HealthProbes == {LossFinite, GradNorm, Throughput}

RlProbes == {RewardStd, KlRef, Entropy, FormatSuccess, RolloutDuration, CompletionLength,
             ClipFraction, VramHeadroom, RewardModel, RewardHacking, ReplDegeneracy}

SftProbes == {LossPlateau, ReasoningTokenAccuracy, SequenceLength, PackingEfficiency,
              HeldOutEval}

------------------------------------------------------------------------------
(* The training *)

\* A loss that was not finite once has poisoned the weights.
Poisoned == \E i \in 1..Len(Series("train/loss")) : Series("train/loss")[i] = NaN

\* The evals that count, and whether a new one is below the best of them.
BelowBest(v) ==
    LET evals == FiniteOf(Series("eval/score"))
    IN evals # << >> /\ v < Max(ToSet(evals))

\* The training logs a value; a poisoned loss does not become finite again.
LogMetric(k, v) ==
    /\ Len(logged[k]) < training.rows[k]
    /\ k = "train/loss" /\ Poisoned => v = NaN
    /\ logged' = [logged EXCEPT ![k] = Append(@, v)]
    /\ flat' = IF k = "reward/std" /\ Finite(v)
                 THEN IF v < Health.reward_std_min THEN flat + 1 ELSE 0
                 ELSE flat
    /\ sinceBest' = IF k = "eval/score" /\ Finite(v)
                      THEN IF BelowBest(v) THEN sinceBest + 1 ELSE 0
                      ELSE sinceBest
    /\ UNCHANGED <<training, wandbUp>>

\* W&B stops answering, or answers again.
Blink ==
    /\ wandbUp' = ~wandbUp
    /\ UNCHANGED <<training, logged, flat, sinceBest>>

MetricsNext ==
    \/ \E k \in DOMAIN training.logs : \E v \in training.logs[k] : LogMetric(k, v)
    \/ Blink

MetricsSpec == MetricsInit /\ [][MetricsNext]_vars

------------------------------------------------------------------------------
(* Properties *)

\* Every value logged is one the training may log, no log outgrows its bound, and
\* every probe of the watchdog's sets has one of the four answers.
MetricsTypeOK ==
    /\ training \in Trainings
    /\ wandbUp \in BOOLEAN
    /\ flat \in Nat /\ sinceBest \in Nat
    /\ DOMAIN logged = DOMAIN training.logs
    /\ \A k \in DOMAIN logged :
          /\ Len(logged[k]) <= training.rows[k]
          /\ ToSet(logged[k]) \subseteq training.logs[k]
    /\ HealthProbes \cup RlProbes \cup SftProbes \subseteq {"ok", "warn", "fail", "unknown"}

\* The highest-value probe fails exactly when the steps counted one by one say so:
\* the last reward_std_patience steps whose reward std could be read were all
\* below the floor.  Steps that logged NaN in between neither count nor excuse.
NoopIsCaught ==
    wandbUp => (RewardStd = "fail" <=> flat >= Health.reward_std_patience)

\* From the first loss that is not finite on, the loss probe fails at every poll,
\* and before it at none: a re-poll always finds what the first reading found.
PoisonedRunIsFailed ==
    wandbUp => (Poisoned <=> LossFinite = "fail")

\* An overfitting run is warned about at the eval with which the patience ends, and
\* a run is warned about only when no eval in the patience was as good as the best
\* ever, though the probe has forgotten all evals but the last patience + 1.
OverfittingIsWarned ==
    wandbUp =>
        /\ sinceBest = Health.eval_patience => HeldOutEval = "warn"
        /\ HeldOutEval = "warn" => sinceBest >= Health.eval_patience

Rises(s) == \E i \in 1..Len(s) - 1 : s[i] < s[i + 1]

Falls(s) == \E i \in 1..Len(s) - 1 : s[i] > s[i + 1]

Climbs(s) == Len(s) > 1 /\ \A i \in 1..Len(s) - 1 : s[i] < s[i + 1]

\* A run that shows the pattern of a signature at every sample of the windows is
\* caught: reward and KL climb over evals that never rise (reward hacking); reward
\* climbs while the REPL's turns fall and its use does not rise (degeneracy, the
\* pre-registered kill criterion); entropy only ever falls (collapse).
SteadySignatureIsCaught ==
    LET reward == Seen("reward/mean", Long)
        kl == Seen("kl/ref", Long)
        evals == Seen("eval/score", Few)
        turns == Seen("repl/mean_turns", Long)
        entropy == Seen("policy/entropy", Long)
    IN wandbUp =>
       /\ /\ Len(reward) >= Short /\ Climbs(reward)
          /\ Len(kl) >= Short /\ Climbs(kl)
          /\ Len(evals) >= FewEvals /\ ~Rises(evals)
          => RewardHacking = "warn"
       /\ /\ Len(reward) >= Short /\ Climbs(reward)
          /\ Len(turns) >= Short /\ Falls(turns) /\ ~Rises(turns)
          /\ ~Rises(Seen("repl/nontrivial_fraction", Long))
          => ReplDegeneracy = "fail"
       /\ Len(entropy) >= Short /\ Falls(entropy) /\ ~Rises(entropy)
          => Entropy \in {"warn", "fail"}

\* No signature is seen without its parts: a run whose reward never rose, or whose
\* held-out evals all improved or are too few to tell, is not accused of hacking; one
\* whose turns never fell, or whose use of the REPL only climbed, is not degenerate; one
\* whose entropy never fell is not collapsing.
NoSignatureWithoutCause ==
    LET reward == Seen("reward/mean", Long)
        evals == Seen("eval/score", Few)
        nontrivial == Seen("repl/nontrivial_fraction", Long)
    IN /\ RewardHacking = "warn" =>
             /\ Rises(reward) /\ Rises(Seen("kl/ref", Long))
             /\ Len(evals) >= FewEvals /\ ~Climbs(evals)
       /\ ReplDegeneracy = "fail" =>
             /\ Rises(reward) /\ Falls(Seen("repl/mean_turns", Long))
             /\ ~(Len(nontrivial) >= Short /\ Climbs(nontrivial))
       /\ Entropy = "warn" => Falls(Seen("policy/entropy", Long))

Climb(s, i) == s[i + 1] - s[i]

\* A KL that climbs at every step, no step more than ten times another, is warned
\* about before it fails: "a KL climbing steeply toward the limit is already lost, it
\* just has not arrived yet".
ClimbIsWarnedFirst ==
    [][LET before == Seen("kl/ref", Long)
           all == FiniteOf(Series("kl/ref"))'
       IN /\ wandbUp /\ Len(before) >= Few
          /\ Climbs(all)
          /\ \A i, j \in 1..Len(all) - 1 : Climb(all, i) <= 10 * Climb(all, j)
          /\ KlRef # "fail" /\ KlRef' = "fail"
          => KlRef = "warn"]_vars

==============================================================================
