# rlmwatch in TLA+

A verification development for `rlmwatch`, the library that watches a GPU pod
on which an RL fine-tuning run trains and takes the pod down when the money it
costs buys nothing.  The question it is about: *the monitor holds a kill
switch. Does it use it when it must, and only when it may?*

Paths below are relative to the repository's root.

## 1. The system

| Part | State it keeps | Operations | Talks to |
|---|---|---|---|
| **Escalation ladder** `rlmwatch/actions.py` | `unknown_since` per probe, `halt_requested`, `terminated`, `history` | `handle`, `handle_batch`, `shutdown`, signal handler | notifier, diagnostics, trainer, W&B module, RunPod client |
| **Sentinel** `rlmwatch/sentinel.py` | `pod_created_at`, `last_contact`, `startup_ok_seen` | `tick`, `run`, startup deadline, dead-man's switch | a ladder of its own, RunPod client, W&B client |
| **Watchdog** `rlmwatch/watchdog.py` | `ctx.local` (step, heartbeat, phase) under a lock, a daemon thread | `phase`, `heartbeat`, `step`, `tick`, `stop`, `__exit__` | a ladder shared with the main thread |
| **Probes** `rlmwatch/probes/*` | none (they read a `Context`) | `check` | clients, `ctx.local` |
| **RunPod client** `rlmwatch/clients/runpod.py` | none | `status`, `stop`, `terminate`, retries on 5xx | RunPod |
| **W&B client** `rlmwatch/clients/wandb.py` | run cache with a TTL | `state`, `summary`, `last_progress_age`, `invalidate`, ... | W&B |
| **Startup gate** `rlmwatch/probes/startup.py` | a list of verdicts | `gate`, `gate_and_enforce` | ladder |
| **Integration** `rlmwatch/integration.py` | none | `attach` | gate, ladder, watchdog |
| **Training side** `experiments/v0_smoke/train_hooks.py` | `requested`, `saved` | request, wait, the loop's safe point | ladder, watchdog |
| **Notifier, diagnostics, digest, CLI, config** | heartbeat state; otherwise none | best-effort I/O, reports, parsing | all of the above |
| **v0 experiment** `experiments/v0_smoke/*` | none | provision, finish (upload, verify, terminate), analysis | RunPod, HF |

How they interact.  There are two processes.  Inside the pod the training
script enters `attach`: the gate runs, then a watchdog thread hands its
verdicts to a ladder, one at a time, while the main thread trains and in the
end calls `shutdown` on that same ladder, as a signal handler may at any time.
Outside the pod the sentinel runs one thread, with its own ladder, and sees the
run only through RunPod and W&B, each of which may stop answering.  The two
processes share the pod, the W&B run, and nothing else.  Around them are the
commands a person starts: `provision.py` rents the pod before there is anything
to watch, `preflight` runs the gate on its own, `digest` asks whether the run is
on its budget, and `finish.py` empties the pod and deletes it.

What is hard here:

* *interleaving*: two threads in one ladder without a lock; the training loop
  looking at `requested`, `saved` and `halted` while the ladder sets them;
* *time between reading and acting*: a verdict is acted on `confirm_delay_s`
  after it was read; the W&B cache may answer a re-poll; the run may start,
  recover or end in between;
* *partial failure*: each call of the kill path may raise, be lost, or succeed
  and lose its reply; a deleted pod answers 404, which reads as an error;
* *unreliable observation*: an upstream that is down must not look like a run
  that is dead, and a restarted monitor has forgotten what it saw;
* *a request whose fate is unknown*: a kill that timed out may have been carried
  out, may never have arrived, or may be carried out after the client gave up;
  a pod may exist whose id nobody was told;
* *windows and medians*: a probe sees a bounded window of finite values and has
  to say of it what is true of the training that logged them; two writers share
  one history;
* *liveness*: a dead process in a live container must be found whatever
  outages came before, and the monitor must neither crash nor stop early nor
  run on for ever.

What makes each part correct:

* ladder: the three rules of the docstring of `actions.py` (two readings before
  anything past L1; blindness is reported and never more; checkpoint, alert,
  flush, kill in that order), `terminated` only when true, an unsaved halt
  escalates;
* sentinel: it kills no run it sees training, it enforces the caps and finds
  the dead run, it reports its own blindness, it stops only when the pod is
  gone and does stop then;
* watchdog: no exit leaves a billing pod, the halt protocol saves a checkpoint,
  a hang is found, the process ends;
* clients: a retry never reports a kill that did not happen, a re-poll is fresh,
  a live pod is never read as free;
* gate: what trains can be saved, seen and killed; no way out of the process is
  unguarded; nothing sound is refused; it comes to a decision;
* probes: a signature is caught when it is there for the whole window and never
  without a cause, and a warning comes before its failure;
* pace: a rate is a pace the run had, a forecast is not optimistic;
* provision and finish: no pod deleted before its adapter is elsewhere, and no
  script that waits for ever.

## 2. The modules

| Module | Models | Used by |
|---|---|---|
| `Ladder` | `actions.py` | `Sentinel`, `Watchdog`, `MCLadder`, `LadderProofs` |
| `KillSwitch` | what the ladder promises about the pod, abstractly | refined by `Ladder` |
| `Sentinel` | `sentinel.py`, the readings of its probes and clients, the pod and run it watches | `MCSentinel`, `SentinelProofs` |
| `Watchdog` | `watchdog.py`, the training loop of `train_hooks.py`, the signal handler | `MCWatchdog`, `WatchdogProofs` |
| `Gate` | `probes/startup.py`, `attach` of `integration.py`, `preflight` of `cli.py`, the signal handler, restarts; extends `Ladder` | `MCGate`, `GateProofs` |
| `RunPodClient` | `clients/runpod.py`: the retry loop and the clocks of `status`; refines `KillSwitch` | `Experiment`, `RunPodClientProofs` |
| `Experiment` | `provision.py`, `finish.py`, the volume and the Hub; extends `RunPodClient` | `MCExperiment`, `ExperimentProofs` |
| `Metrics` | the metric probes of `rlm.py` and `health.py` over the windows of `clients/wandb.py` | `MCMetrics`, `MetricsProofs` |
| `Pace` | `latest_step`, `step_rate_s`, the projections of `health.py` and `cost.py`, `digest.py` | `MCPace`, `PaceProofs` |
| `LadderProofs`, `SentinelProofs`, `WatchdogProofs`, `GateProofs`, `RunPodClientProofs`, `ExperimentProofs`, `MetricsProofs`, `PaceProofs` | theorems | |
| `MC...` | small instances | the runs |

`Ladder` is composed with each of its three callers (`Sentinel`, `Watchdog`,
`Gate` extend it and drive its steps), and `RunPodClient` with the script that
uses it.  `KillSwitch` is the abstract specification of both the ladder and the
client.  `Metrics` and `Pace` stand alone: the probes keep no state, so what can
be wrong in them is a function of the history they read.

### Ladder

One action per point at which another thread, the trainer, RunPod or the clock
can be seen: `Begin` (the entry of `handle` and `handle_batch`: `_decide` for
every verdict, no sleep in it), `Recheck` (one re-poll after the sleep),
`Unwind` (an exception out of `handle`), `Notify`, `Snapshot`, `RequestHalt`,
`RequestCheckpoint`, `SawCheckpoint`, `GaveUpOnCheckpoint` (`_execute` level by
level), `Alert`, `Flush`, `KillPod` (`_terminate`), `Record` (the append to
`history` and the next verdict, or the return) and `Shutdown` (the exit guard
up to its kill path).  `pc[t]` says where in a call thread `t` is; `mode`,
`work`, `cur`, `action`, `steps` are the locals of the call.

* A verdict is its probe and its status.  `Item` adds what `_decide` made of
  it and, as history, what a property needs: what the probe really said, what
  the re-poll said, how long the wait before it was, how long the probe had
  been unreadable.
* `confirmations` and `confirmed` are the field `second`; the effective level
  is computed from it, as the code does after the wait.
* `Poll` is what a re-poll may come back with: a status, `"raise"`, or
  `"none"` for a recheck that returns `None`.  `handle` and `handle_batch`
  differ on the last one, as the code does.
* A record's `steps` is the set of steps done; every call out of the process
  that swallows its errors has one outcome, since nothing reads the other.
* A kill may succeed, fail, or succeed and lose its reply (`terminated' \in
  {TRUE, terminated}`); a deleted pod can only fail.
* Time is kept as *ages* (`blindFor`, `waited`, `sinceReadable`) that stop at
  the threshold they are compared with.  The caps are exact, not an
  approximation: no comparison in the code tells larger values apart.
* The signal handler of `install_signal_handlers` is in `Watchdog`: it runs on
  the main thread, in the middle of whatever that thread does.

`history`, `consecutive_fails` and `highest_level` are written and never read
by the code, and are left out, as is the text of every message.  Verdicts of
one sweep come from different probes (`LadderAssumption`), as in both callers.

### KillSwitch

The abstract specification: per thread the *evidence* it could justify a kill
with (none, suspected, confirmed, ordered), the pod, and whether the ladder
believes it down.  The pod leaves `running` only by a thread with confirmed or
ordered evidence (or by itself), evidence is confirmed only after it was
suspected, and belief is only set by a kill that took.  `Ladder` maps
`terminated` to `believed` and computes the evidence from `pc`, `mode` and the
verdicts of the call (`EvidenceOf`).

### Sentinel

`Sentinel` extends `Ladder` with one thread.  `tick` is a sequence of steps:
`Contact`, the startup deadline (`DeadlineMet`, or `DeadlineMissed` with
`DeadlineRecheck`, `Crash`, `DeadlineShutdown`), `Check` once per probe,
`HandleSweep`, `SweepRecheck`, then `HeardSomething`, `StillWaiting` or the
dead-man's switch (`DeadMansSwitch`, `DeadManShutdown`), and `EndTick` or
`StopAfterShutdown` for what `run` decides.  The steps of the ladder's calls
are those of `Ladder` (`Escalate`, `Kill`).  `Restart` is a crash, or the end
of a cron invocation, followed by a new process with nothing but its arguments.

What a probe reads is a *set* of statuses computed from the W&B record the
client has (`View`, with its cache) and from the pod: exactly the arms of the
probe's `check`, with the numbers behind them abstracted to the fact that
decides (`run.stale` for an age above the threshold, `capPassed` for a spend or
an elapsed time at its cap).  `cost.spend` and `cost.wall_clock` read the pod's
uptime and, when RunPod does not answer, the monitor's own clock, which started
later: then any answer may come.  The probes of a sentinel's list that judge
how a run trains are *not* the model's to clear: idle GPUs may fail a run that
trains (`GpuUtilReading`), and a metric probe that can read W&B may say anything
(`Reading`).  What they say is settled by `Metrics`; here they are there to be
handled beside the others.

The world around the sentinel is part of the module and marked external in the map: the
training process (`starting`, `training`, `hung`, `dead`, `done`), W&B's record of the
run, the upstreams that answer, and the pod.  The training process may hang, die with
its container left running, complete, or train on without logging for longer than the
threshold (`"quiet"`, a long rollout); W&B marks a dead run crashed when it likes, or
never.  Two things about the world are assumed.  W&B calls a run crashed only when its
process is dead (a pod cut off from W&B while both are reachable from the sentinel is
not in the model), and finished only when its training script ends: `preflight` joins
the run and finishes it (`cli.py:78`), so that until the trainer starts W&B may say
"finished" of a run that has not begun, which is not modelled.  `Faults` selects what
may go wrong, so that each run can be about one question.

Time passes between any two steps, except from `_contact` to the deadline
check, which is a few instructions within the cache's TTL.  A cached run is
dropped by every passing of time, so it is shared by reads of one instant only;
`invalidate` is the `fresh` of `SweepRecheck`.  The deadline's re-poll does not
invalidate: it comes `confirm_delay_s` later, which the model takes to be longer
than the TTL (120 s against 5 s by default).

### Watchdog

`Watchdog` extends `Ladder` with two threads.  `mpc` is where the main thread
is: in the training step (`train`), before the look at `requested` (`save`),
before the look at `halted` (`look`), in `__exit__` (`exit`, `join`, `guard`,
`leaving`), in a signal handler (`handler` before its shutdown, `handling` in
it), hung, or gone.  `wpc` and `next` are the same for the watchdog thread.

* `Heartbeat` and `Step` are the trainer's calls; a heartbeat before the first
  step is left out, since a step counter without a step reads `unknown`
  whatever its stamp is.  `stepAge` is the true age of the last report,
  `seenAge` the one the probe computes, which only `tick` and the trainer
  bring up to date.  `phase` selects the stall threshold, here a constant.
* `StartTick` asks the generation backend, `Check` is `probe.check` with the
  entry of `handle`, `Repoll` the second `check`, which reads the same
  `ctx.local`; `Escalate` is the ladder's own step.
* `Save` is the safe point: one step, because a save that takes long is a
  `Save` that comes late.
* `Stop` and `Join` are `stop()`.  The join may end at any time: the thread is
  done, or five seconds are over.
* `Signal` interrupts the main thread anywhere, an earlier handler included.
  The interrupted ladder call is dropped (`Return`): the handler ends in
  `SystemExit`, which no `except Exception` of the ladder stops.  `inBody`
  remembers whether it unwinds through the `with` statement.  A main thread
  hung in foreign code does not run it.
* The daemon thread ends with the main thread, and both with the pod.

### Gate

A `World` is one record of facts about the pod: what `nvidia-smi`, torch, `du`,
the volume, RunPod, W&B, the sinks and the trainer's hooks would answer.  A hook may
be missing, hang, raise, or return something wrong; the last fails the model load, the
first batch and the generation backend, whose answers are looked at, and passes the
others (`Called` and `Asked`).  Each of
the fifteen probes is an operator on it (`GpuInventory`, ..., `GenBackend`),
`Inspected` puts them in the order of `GATE_PROBES`, and `Inspect` takes the next
one: it is an action of its own because a signal may land between two probes,
and because a hook may hang (`place = "hung"`).  `HandleFailure` is `on_failure`
with its `handle` of one verdict and no recheck, `Enforce` the `shutdown` that
`gate_and_enforce` adds, `Report` and `Attach` what the two callers do with a
gate that passed (`_log_startup_ok` swallows, `log_result` raises).  `Leave` is
the exit of the `with` statement, whose threads are in `Watchdog`.  `Signal`
interrupts the main thread of `attach` anywhere but in a hook that hangs,
handlers included; `Killed` is SIGKILL or a signal nobody handles.  `Restart`
starts the script again on a pod that still exists, with the same volume and
possibly another world.  `dry_run` and `skip_gate` remove the failsafes on
purpose and are left out; NCCL's self-test is over the pod's own GPUs.

### RunPodClient

A call is `Issue`, then one action per fate of a request: `Denied` (401, 403),
`Accepted` (2xx, with or without a body that parses), `Rejected` (404 or another
4xx), `Again` (5xx or a transport error, *whatever became of the request*: never
arrived, carried out, or accepted and pending), `Backoff`.  A pending kill is
carried out when RunPod likes (`CarriedOutLate`), also in the middle of a later
call.  `Uptime` is `status`'s choice among three clocks, each of which may be
absent, zero or running.  The log stream is read by diagnostics only and left
out.  The abstract `KillSwitch` has one thread, whose evidence is the order.

### Experiment

`script` is the line `provision.py` or `finish.py` is at; one of them runs at a
time.  Every network call has the outcome that it raises, and `CreatePod` also
has the one in which the pod is made and the reply is lost: `forgotten` counts
the pods that bill and that no id is known of.  `dirs` is the volume: adapter
directories in the order of their mtime, each the set of files written so far,
so that a save may be in progress, or broken off for good, when `FindAdapter`
looks.  `hub` maps each file of `adapter/` to the directory it came from, since
`verify_upload` accepts any file that is there, an earlier experiment's too.
`PodTakesProcesses` ends `finish.py` with the pod it runs on, possibly in the
middle of its own kill.

### Metrics

The state is the history of one training: any sequence over the values in
`Trainings`, some of them not finite, in any interleaving of its metrics, with
W&B answering or not.  Each probe is an operator that answers a status in every
state (`RewardStd`, ..., `HeldOutEval`, `LossFinite`, ...), as it would at a poll
in that state.  `Trend` is the least-squares slope times a positive factor, and
an inequality with a fraction is multiplied out, so the arithmetic is exact.
`FiniteOf` and `SumOf` are recursive functions over a sequence, the loops of
`metric_window` and `trend`.  `flat` and `sinceBest` count, step by step, what two
probes have to reconstruct from a window.  `metric_window` is taken to return the latest rows
that carry the key, and the histories are shorter than the samples it asks for.
`MetricsAssumption` requires the patiences and `plateau_window` to be positive
and the thresholds to be numbers, which `config.py` does not validate, and more
than one sample where a slope is taken (`Few`, 5 in the code).

### Pace

Time is a number of ticks and a tick is `Unit`, a number all the divisions that
occur divide, so that medians and ratios are exact.  `RecordStep` is the trainer,
with or without a row for the step; `LateRow` and `PlainRow` are the second
writer: a row about any step recorded so far, which may be the only one that step
has, and a row without a step.  `StepRate` is `step_rate_s`: one stamp per step,
the earliest (`StampOf`), an interval for each logged step that has a later one
(`Deltas`, a function from the step it starts at), and their median: `Ranked` is
the k-th smallest by counting what is below it, so nothing is sorted.  A digest is
four reads, each of which may fail, with rows landing and time passing between them
(`ReadSummary`, `ReadStep`, `ReadHours`, `ReadRate`); a history that cannot be read
leaves it with the summary's `_step`, if there is one (`raw`).  `counter` and
`source` record whether its step is W&B's counter and whose clock its hours are.
The watchdog's projections are operators of the same state; `Total` is the planned
number of steps or, if the training loop did not tell it, `plateau_window`
(`health.py:144`).  The histories are shorter than the samples that are asked of W&B
(200 in `latest_step`, 500 in `step_rate_s`), so that nothing is sampled away.

## 3. The runs

| Run | Question | Properties |
|---|---|---|
| `ladder` | do the rules hold for two threads in one ladder? | `ConfirmedEscalation`, `BlindnessStopsAtNotify`, `OutcomesAreTheirOwn`, `ConfirmedIsCarriedOut`, `OrderOnTheWayDown`, `UnsavedHaltKills`, `TerminatedIsTrue`, `ImplementsKillSwitch` |
| `sentinel` | is the kill switch safe under outages, faults and restarts at once? | `SeenRunIsNotKilled`, `SwitchHasWaited`, `NoUntriedGivingUp` |
| `sentinel_dead` | is a pod on which nothing trains taken down? | `DeadRunStopsBilling` |
| `sentinel_cap` | is the cap enforced without W&B, and is blindness reported? | `CapIsEnforced`, `BlindnessIsReported` |
| `sentinel_partition` | can a W&B outage kill a healthy run? (violation) | `PartitionNeverKillsHealthyRun` |
| `sentinel_stops` | does it stop with the pod still running? (violation) | `StopsOnlyWhenPodGone` |
| `watchdog` | does every way out of the process try the kill, is a hang found, and does the process end? | `NoOrphanedExit`, `ReportingTrainerIsLeftAlone`, `WedgedTrainerIsKilled`, `ExitCompletes` |
| `watchdog_halted` | does a loop that breaks on `halted` leave a checkpoint? (violation) | `HaltedLoopIsSaved` |
| `gate` | does what trains deserve to, is every way out guarded, does the gate decide? | `GateTypeOK`, `TrainsWhatItCanSaveSeeAndKill`, `HungGateCanBeKilled`, `NoWayOutUnguarded`, `RefusesOnlyForCause`, `GateDecides` |
| `experiment` | is a kill that returned done, is nothing lost with the pod, do the scripts end? | `ExperimentTypeOK`, `OkMeansDone`, `UptimeIsWhatBills`, `KillsOnlyWhatIsUploaded`, `ScriptsEnd` |
| `metrics` | is what a bounded window says true of the training? | `NoopIsCaught`, `PoisonedRunIsFailed`, `OverfittingIsWarned`, `SteadySignatureIsCaught`, `NoSignatureWithoutCause`, `ClimbIsWarnedFirst` |
| `pace` | is a rate a pace the run had, and no forecast too low? | `RateIsThePace`, `ForecastIsNotOptimistic` |

**Bounds.**  `ladder`: a watchdog thread that is handed verdicts and a main thread that
shuts down; two probes, one of level 3 and one of level 4, so that a halt and a kill are
in one sweep; sweeps of one and of two verdicts; all thresholds one tick, which
separates "before" from "at" for `>=`; `"ok"` stands for every re-poll status that does
not confirm.  `on_terminal` is `stop`, and the pod may also be deleted from outside or
by a `shutdown(action="terminate")`, so both actions occur.  `sentinel`:
`observer_agreement` and `progress_age`, the probe that needs both upstreams and the one
that needs one; deadline 1 and dead-man 2, the smallest values for which the first
passes before the second and which respect what `Failsafe.validate` requires; every
fault but the cap, which is `sentinel_cap`'s.  `sentinel_cap` uses `run_state` (level
2), `gpu_util` and `wall_clock`; `sentinel_dead`, whose liveness graph is the largest,
`progress_age` alone: the fewer probes can kill, the harder the property.  `watchdog`:
the step counter, the probe that kills on what the process itself reports, and two
signals, so that the second may land in the handler of the first; a stall of more than
zero ticks.  `watchdog_halted` needs no signal; it watches the generation backend, so
that the halt may come from it.  `CheckpointTimeout` and `UnknownTolerance` are one tick
throughout.

`gate`: a sound pod with two GPUs and every pod that differs from it in one fact (each
value of each fact), or in one fact and in one of the three that decide what happens
afterwards (the key, `du`, a hook); regime `rl`, in which all hooks are asked; a quota
between the free space and the limit, so that each of the three may decide; two starts
and one signal per start, so that a signal may meet the gate, its enforcement, the
training or the exit, and a restart may find the pod changed.  `experiment`: two
attempts per call, which is one retry and one giving up; two saves, so that a complete
adapter may be followed by a broken one; three runs of the scripts (provision, finish,
and one more of either); one forgotten pod; three reports, in which each clock is
missing, zero or running. The theorems of section 4 lift the bounds of every run for the
safety properties.  `metrics`: windows of 4, 3 and 3 samples for 20, 10 and 5, and
patiences of 2 and 3, which keep the order between them and let every history be longer
than the windows it is seen through (up to 7 values); three or more levels per metric
around its threshold.  `pace`: four steps, the first at the start, of one or two ticks
after a lead of one, and one row by a second writer: medians of one to three deltas,
even and odd, with and without a gap, and a late row that is a step's only one; a
`plateau_window` of 4, above the 3 steps that are planned after the first.

No state constraint is used; every counter is capped in its
own action, at a value the code does not look beyond.

**Deadlock** is not checked in `gate` and `experiment`, where the process really
ends and the bounds on starts and runs are reached; elsewhere it is, and shows
little, since time can always pass.  That nothing waits for ever is what the
liveness properties are for.

**Fairness** (`LiveSpec`): weak fairness of the sentinel's own steps (a thread
of a running process that waits for nothing but sleeps, and calls with a timeout)
and of time; and of `GrowStale`, which is time again: a run that logs nothing
is older than the stall threshold some day.  No fairness is assumed of the
trainer, of W&B's crash detection or of the upstreams; the properties have the
upstreams' return as their premise (`<>[]`), and a sentinel that crashed or gave
up is excepted in them (`GaveUp`), because those are the subject of the
violation runs.  `Restart` is not in the liveness instances: a process that is
restarted for ever promises nothing.

`LiveWatchdog` assumes weak fairness of the watchdog thread, of the exit path
of the main thread and of time: threads the interpreter schedules, with sleeps
and timeouts.  It takes for granted that the calls out of the process return;
`wandb.finish` has no timeout in this code, and one that never returns would
keep both threads from the kill (listed as a hazard).  Nothing is assumed of
the training step.

`GateSpec` assumes weak fairness of the main thread where it runs its own code
(`GateStep`) and none of the training, of signals or of restarts; `GateDecides`
excludes worlds with a hook that hangs, which is the trainer's code, and
`HungGateCanBeKilled` says what is known of the pod then.  `ExperimentSpec`
assumes weak fairness of the script that runs (`ScriptStep`): its calls have
timeouts and its poll loop sleeps.  Late kills, the pod and the trainer are not
fair.

**What the properties say.**  `ConfirmedEscalation`: past L1 only for a probe
that failed twice, `confirm_delay_s` apart, in this call.
`OutcomesAreTheirOwn`: one wait serves a whole sweep, and past it the verdicts that
have an outcome are those that would escalate, all of them or none; an outcome filed
under another index breaks this before it confirms the wrong probe.
`ConfirmedIsCarriedOut` is the converse of the first rule: a failure that was
confirmed gets all of its level, snapshot, halt and kill, also when the trainer saves
in the middle of it or the other thread kills first.
`SeenRunIsNotKilled`: a run that trained from the re-poll to the kill is killed
by none of the six probes that ask whether it is there, moves and is within its caps
(`Observing`); what remains is the dead-man's switch, by design, the startup
deadline when W&B did not answer the re-poll, and the probes that judge how it
trains, for which this is their business: a run whose GPUs idle may be killed though it
logs.  `SwitchHasWaited`: the dead-man's switch kills through the service that has been
silent, and only after `dead_mans_timeout_s` in which no sentinel, this one or the ones
it replaced, heard of anything; the exception is a sentinel that restarted, took
the pod's age for the silence and has heard of nothing since (below).
`NoUntriedGivingUp`: a sentinel
that stopped while the pod runs had at least tried the kill.
`NoOrphanedExit`: the same of the process in the pod, wherever signals land; it
is *tried* in both because the kill itself may fail, which only the other
observer can repair.  `ReportingTrainerIsLeftAlone`: a report between the two
readings of the step counter saves the run.  `WedgedTrainerIsKilled` is about
a trainer that has made a step: before that the step counter is unreadable, and
a hang is the sentinel's startup deadline's business.

`TrainsWhatItCanSaveSeeAndKill`: whatever combination of facts the gate met, a run that
trains has a volume that keeps what is written, room for a checkpoint (unless `du` is
silent and only `statvfs` could be asked), a W&B run that can be read from outside, and
a key that was not refused.  `RefusesOnlyForCause` is the converse: `unknown` never
fails a gate.  `NoWayOutUnguarded`: a start that failed its gate, left the `with`
statement or was signalled has made the kill call, wherever the signal landed.
`KillsOnlyWhatIsUploaded`: when `finish.py` asks for the kill, the Hub holds, from the
directory it found, every file that directory had when it was found (a file that appears
later may be lost: the trainer has ended by then in the documented use, and nothing
checks it).  `NoopIsCaught`, `PoisonedRunIsFailed`, `OverfittingIsWarned` are
equivalences or near ones between a windowed verdict and a fact of the whole history, so
they fail for a window too short, too long, cut before it is filtered, or compared the
wrong way at a tie.  `NoSignatureWithoutCause` asks of each signature that its parts
moved at some sample, and that a part that speaks against it, evals or a use of the REPL
that climb at every sample, is heard when it has its samples.  `ClimbIsWarnedFirst`: a
drift that climbs steadily is warned about before it fails.  `RateIsThePace` and the
digests of `ForecastIsNotOptimistic` speak of histories in which each step that has a
row has one from its record (`OnTime`): a step whose only row is late is stamped late,
and the intervals beside it are as wrong as the row.  `ForecastIsNotOptimistic` holds
for digests that could read the pod's uptime and found a row with a training step; what
happens to the others is below.  The liveness properties are stated in the modules with
what they rest on.

**What the violations show.**

1. *A partition kills a healthy run* (`sentinel_partition`).
   `check_startup_deadline` takes an unreadable summary for an empty one
   (`sentinel.py:117`, whose comment says "unreadable is not proof of failure").
   A sentinel that has not yet seen the run start, because W&B was down or
   because it was restarted, shuts down a run that trains once the deadline has
   passed, and the re-poll is no second opinion: it is blind for the same reason.
2. *It stops with the pod running* (`sentinel_stops`).  `result.terminated` is
   set after `shutdown` whatever became of the kill (`sentinel.py:221`, `265`),
   and `run` stops on it.  The dead-man's switch fires when RunPod is silent, so
   its kill fails more often than not, and nobody is left to repeat it.
3. *A halted loop leaves unsaved* (`watchdog_halted`).  The loop looks at
   `requested`, then at `halted`; the ladder sets `halted`, then `requested`.  A
   halt between the two looks makes the loop break without a checkpoint.
   Swapping one of the two is not enough: the loop has to look at `requested`
   again once it has seen `halted`, and the ladder has to request before it halts.

**Other disagreements met while modelling.**  The models reproduce what the code
does in each of these; the properties are stated so as to be true of it, and no
run is kept for them.

* The startup deadline's re-poll answers `None` when the run has started in the
  meantime, and `_confirm` reads `second.status` outside its `try`
  (`actions.py:336`): the exception ends `run` (`Crash`).
* A deleted pod is a 404, an exception, and `_finished` answers `False` to it for
  ever (`sentinel.py:292-307`): a sentinel whose pod was deleted after the run
  completed polls on.
* A sentinel that restarts with `--pod-created-at` starts its silence at the pod's age
  (`sentinel.py:84-99`).  If both upstreams are silent at its first contact, the
  dead-man's switch fires in its first tick, though the comment there
  (`sentinel.py:258-262`) says that the switch "has already been waiting
  `dead_mans_timeout_s`" (`guessed`).
* `check_auth` counts a listing whose body is not a list as no pods
  (`provision.py:118`), so the script goes on to rent a pod on top of "a previous run
  [that] was left running", which its docstring says it catches.
* The sentinel's `Context` has no phase and no baselines (`sentinel.py:92`), so
  the phase-aware threshold of `ProgressAgeProbe` is one flat number outside the
  pod, and a long rollout that logs nothing is killed.
* `tick` asks the generation backend once; the re-poll reads the stored answer
  (`watchdog.py:155`), so one failed health check confirms itself.
* `gate_and_enforce` says that at the gate there are no checkpoints to lose
  (`startup.py:776-781`), but a restart on the same volume has some, and
  `on_failure: terminate` does not look at
  `failsafe.checkpoint_dir_is_network_volume`.  Its comment also promises the
  ladder's L0 to L2, but a verdict without a recheck is unconfirmed and stops at
  L1, so the snapshot is never taken.
* `attach` publishes between the gate and the `with` statement: a `wandb.log`
  that raises leaves the pod running with nobody watching it from inside
  (`integration.py:165`; `ending = "publishRaised"`).
* `find_adapter` accepts a directory with only a config in it (`finish.py:37`),
  and `verify_upload` any file under `adapter/`: a save that died in the middle
  is uploaded, verified, and the weights of the one before are deleted with the
  pod.
* `finish.measure` divides the span by the number of rows (`finish.py:69`): two
  writers halve the seconds per step, the mistake `step_rate_s` was written to
  avoid.
* A digest whose RunPod client cannot be read takes the hours since it began
  itself (`digest.py:399`), nearly nothing, instead of W&B's `_runtime` that its
  docstring (`digest.py:333-338`) names as the fallback.
* When no row carries `step`, `latest_step` answers with `_step`, wandb's count of
  log calls (`wandb.py:191`), and the digest takes it for the training step.  Its
  docstring calls that reading "wrong in the optimistic direction", and it still
  is: a run of three equal steps that has recorded step 2 and logged four rows
  without a step is read as being at step 3, and projected to end at once.  This was
  met while `ForecastIsNotOptimistic` was being proved for every number of rows; the
  run `pace` has one row beside the trainer's, and the counter needs more
  (`MaxExtra` = 4, `MaxSteps` = 3).  The property now excludes those digests by
  `counter`.

## 4. The theorems

`LadderProofs` proves for `LadderSpec`, for **every** set of probes and
threads, every set of sweeps, every assignment of levels and all delays:

* `TypeCorrect`: the type invariant;
* `Confirmed`, `BlindnessIsNoEvidence`, `OutcomesAreFiled`, `ConfirmedIsExecuted`,
  `Ordered`, `UnsavedIsKilled`, `TerminatedHolds`: the safety invariants of the run
  `ladder`;
* `Implements`: `LadderSpec => KS!Spec`, the refinement of `KillSwitch`.

The invariants and the refinement rest on `LadderAssumption` alone: overrides are levels, sweeps are
non-empty and name a probe once, pollers are threads, and the three delays are
positive, which `Failsafe.validate` enforces.

**The inductive invariant** `IInv` is the type invariant and, per thread:

* `WorkOK`: every decided verdict has the target its status gives it; its status
  is the probe's own, or `warn` made of an `unknown` older than the tolerance;
  a confirming re-poll came after the delay.  Without it rule 1 is not
  inductive: an execution only looks at the target and at `second`.
* `BlindnessOK`: `unknown_since` is never older than the last readable poll.
  This is what carries the property from one sweep to the next.
* `CallOK`: which places of a call go with which mode, that a call without a
  record in progress has no steps, and that `cur` is a verdict of the call.
* `ClimbOK`: a place past L1, or a step past L1 done, is covered by the
  effective level of the verdict at hand.
* `DescentOK`: at each place of the way down the step before it is done.
* `OrderOK`: the order itself.

Each has one lemma per action.  The refinement adds, per action, that the
evidence of the moving thread may follow from what it was (`MoveFollows`), that
no other thread's evidence moves (`OthersStay`, `SameEvidence`), and that a
kill has evidence (`KillSimulated`).  `IInv` itself was checked with TLC on
`MCLadder` before it was proved.

`RunPodClientProofs` proves of the client on its own, for every number of
attempts and every set of reports:

* `ClientInvariance`: the inductive invariant `ClientInv`;
* `ClientImplements`: `ClientSpec => KS!Spec`, the refinement of `KillSwitch`.

It has one lemma per step of a call (`IssueKeeps`, `AcceptedKeeps`, ...), with
`RaiseKeeps` shared by every way in which a call raises, and two about the
helpers: `EffectOfOp` (a kill that is carried out takes the pod down and nothing
starts it) and `UptimeOfReport` (a case analysis of the clocks).  `ClientInv`
adds to the two safety properties that a kill RunPod still holds was ordered
(`KillsAreOrdered`, without which a late kill has no evidence), that a call in
progress has no outcome (`CallInProgress`), and that belief is true.

`ExperimentProofs` proves of the two scripts around that client, for every number of
runs, saves, polls, forgotten pods and attempts: `ExperimentTypeCorrect`,
`KillsThatReturnAreDone`, `UptimeBills`, `OnlyUploadedIsKilled`, that is, every safety
property of the run `experiment`. The invariant is `ClientInv`, the type invariant, and
three parts: `NotCalling` (outside of its kill a script has no call in progress, so that
the client's lemmas apply), `AdapterKept` (the directory that was found only grows) and
`HubHolds`. Each part has one lemma, split by the steps that can disturb it; the
client's steps inside the experiment are covered by citing the client's lemmas.  They
rest on `ClientAssumption` and `ExperimentAssumption`: at least one attempt and one
poll, reports that are reports, and bounds that are numbers.

The three callers of the ladder have a module each.  In all of them the argument
is the same: a step of the caller is a step of the ladder or leaves it alone, so
the type lemmas of `LadderProofs` (`BeginType`, `RecheckType`, `OtherType`,
`WorldType`) carry over, and the rest is about what the caller's own place says
of the call it is in.  `Thread`, `Sweep` and the delays stay arbitrary.

`WatchdogProofs` proves, for every stall threshold, list of probes and number of
signals, `WatchdogTypeCorrect`, `EveryExitTried` (`NoOrphanedExit`) and
`ReportsAreHeard` (`ReportingTrainerIsLeftAlone`).  Its invariant adds `MainOK`
(a main thread in a shutdown is on the way to its kill or has tried it; without
it a signal that lands in the exit guard is a counterexample to induction),
`OneVerdict` (the watchdog's call is about the one probe it is at) and
`ReportSeen` (a report makes the age zero, so the re-poll reads `ok`, and an
unconfirmed verdict never leaves L1).  `DogLeavesMain` and `MainLeavesDog` are
the non-interference of the two threads that share the ladder without a lock.

`SentinelProofs` proves, for every list and order of probes, every delay, and
any number of outages and restarts, `SentinelTypeCorrect`,
`GivesUpOnlyAfterTrying` (`NoUntriedGivingUp`), `SwitchWaits` (`SwitchHasWaited`) and
`HealthyRunIsSpared` (`SeenRunIsNotKilled`).  Its invariant adds `TrainingShows` (a run that trains
has logged, is `running` for W&B, and its pod runs), `CallOfTick` (how far a call
is covered by the verdict at hand), `ShutdownKills`, `SilenceOK` (what a sentinel takes for the
silence is no more than the silence, unless it was guessed or a contact of this tick is
yet to be written down), and `Judged`: while the run is healthy no
verdict of an observing probe has a second failure, and the deadline's only
if W&B did not answer.  The last part needs that the cache is empty at the
deadline's re-poll, since time has passed since the first reading, and that
the deadline's own level is below L3.  `HealthyReadsWell` is the case analysis of
the six observing probes: read afresh, none of them fails a healthy run.  Of the
others nothing is claimed.  They rest on
`LadderAssumption` and `SentinelAssumption`, which says of the levels that `build`
overrides those of its probes only (`sentinel.py:333-335`).

`GateProofs` proves of the gate, for every pod, any number of signals and any
number of starts, every safety property of the run `gate`: `GateTypeCorrect`,
`TrainsWhatItCan`, `HungCanBeKilled`, `NoWayOutIsUnguarded`, `RefusedForCause`.
The invariant adds `VerdictsOfWorld` (the verdicts so far are those of this world,
and only the last may be a failure), `PlaceOK` (what each place of the main
thread knows of them) and `ComesToKill`, the same argument as `MainOK`.  They rest
on `LadderAssumption` and `GateAssumption`.

`MetricsProofs` proves of the metric probes, for every training, length of the
windows, patience and threshold, and logs of any length, `MetricsTyped` and every
property of the run `metrics`: `PoisonAlwaysFails`, `NoopAlwaysCaught`,
`OverfittingAlwaysWarned`, `SignaturesCaught`, `NoSignatureInvented` and
`ClimbAlwaysWarned`, the last an action property.  Three kinds of argument:

* What a window remembers is tied to the whole history by an invariant per
  probe: `PoisonStays` (what is not finite is followed by nothing finite),
  `FlatIsTheTail` (`flat` is the length of the collapsed tail, and the step before
  it was not collapsed) and `BestIsKnown` (`sinceBest` counts back to an eval that
  is the best of all, which is why patience + 1 evals are enough).
* The slopes: `TrendByClimbs` is a summation by parts that writes the
  least-squares numerator as a sum of the climbs between neighbours with positive
  weights.  `RisingTrend`, `FallingTrend` and `ClimbingTrend` follow, which are what
  the signatures rest on.
* The forecast of the KL probe: `TrendOfClimbs` bounds the slope from below by the
  least climb, and `ClimbForeseen` concludes that ten samples ahead lies beyond any
  next sample that climbs at most ten times as much.  `Few > 1` is needed here.

`PaceProofs` proves of the pace, for every planned number of steps, any durations
and any number of rows by other writers, `PaceTyped`, and `RateAlwaysThePace` and
`ForecastNeverOptimistic`: every property of the run `pace`.  `HistoryOK` says what
the two writers make of the history: a row about a step is no earlier than the
record of the step and no later than the present.  With `OnTime` the earliest stamp
is then the record (`LoggedAre`), and a history in which some step has only late rows
stays one (`NeverOnTimeLater`), so that a digest on time was on time at each of its
reads.  An interval then spans whole steps and its time per
step lies between the shortest and the longest of them (`SpanBounds`, `DivBounds`,
`DeltasBound`); at most one interval contains the slow step (`OneSlowDelta`), and
no median of three or more values is the only one that differs (`RankedOutlier`).
`Unit` enters only here: the quotients are exact because it is a multiple of every
divisor.  `DigestOK` relates reads of different moments: the step may be behind but
never ahead, the hours hold the steps it knows of and, with as many more as were recorded
since, the run so far (`HoursHold`), and `Foretold` keeps the forecast above the
time of the steps left, each as short as the shortest so far, for a run that was
even when the digest was done and may be even still (`Even`).  `SharedOut` is the other
arm, the hours shared among the steps, and the watchdog's projections.

Both rest on induction over the natural numbers.  The theorem about every predicate
cannot be instantiated here, so it is used as a fact about sets: a set of naturals
has a least element, since `<` is well-founded on `Nat`, and the set of lengths for
which a statement fails has none.  That a recursively defined function exists and
is unique is proved the same way for each of the two (`FiniteUpToExists`,
`FiniteUpToUnique`, `FiniteOfIs`, `SumOfIs`).  They assume `MetricsAssumption` and
`PaceAssumption`; the invariants' parts were checked with TLC before they were proved.

The type invariants are lemmas of the other theorems as well as theorems; those of
`Gate` and `Experiment` also say something of the code (no verdict after a failure,
no attempt past the last) and are checked by their runs.

Every invariant and action property of a passing run is a theorem.  Model-checked
only: liveness under fairness (`DeadRunStopsBilling`, `CapIsEnforced`,
`BlindnessIsReported`, `WedgedTrainerIsKilled`, `ExitCompletes`, `GateDecides`,
`ScriptsEnd`), which is out of the prover's reach and stays with TLC for good; and
the three properties that a violation run refutes.

## 5. What is not modelled, and the plan

Left to do:

1. **Sentinel in cron mode**: one tick per process, `CreatedAtGiven` false
   (clocks that start at zero in every invocation).  The liveness runs have
   `CreatedAtGiven` false and no restart; with a restart after each tick neither
   deadline can pass, which is listed as a hazard.

2. **Exit guard**: an abstract specification that promises no end of the process
   without a shutdown would be a common abstraction of `Watchdog` and `Gate`.

Left out:

* **Diagnostics**: it collects and writes a bundle of files, every collector
  swallows its errors, and its only outcomes are those of the ladder's snapshot.
* **Notifier**: which sinks accept a message is a fact of the gate's world, and
  that none of them breaks the ladder is in `Ladder`; formats and the heartbeat
  URL are not modelled.
* **Digest**: trend labels, smoothing and noise bands describe one window each
  and decide nothing; the reads, fallbacks and the forecast are in `Pace`.
* **Configuration**: loading, interpolation and coercion are parsing.  The
  relations `validate` enforces are the modules' assumptions.
* **Command line**: `kill` and `snapshot` are single calls; argument parsing.
* **Storage cost and cap percentages** of `cost.py`, the phases behind the stall
  threshold, `confirm` of the W&B client (it has no caller), the log stream of
  the RunPod client.
* **Analysis scripts** of the experiment (`checks.py`, `verify_ablation.py`,
  `interventions.py`): read-only reports.
* The dry run: a ladder without a RunPod client, which is `HasPod = FALSE`.
* `wandb.finish` has no timeout of its own (`actions.py:425`), and the code gives
  nothing from which its return could be concluded; no property covers it.

## 6. Running it

    tlc -config MCLadder.cfg MCLadder
    tlc -config MCSentinel.cfg MCSentinel        # and the other MCSentinel*.cfg
    tlc -config MCWatchdog.cfg MCWatchdog        # and MCWatchdogHalted.cfg
    tlc -config MCGate.cfg MCGate
    tlc -config MCExperiment.cfg MCExperiment
    tlc -config MCMetrics.cfg MCMetrics
    tlc -config MCPace.cfg MCPace
    tlapm LadderProofs.tla
    tlapm SentinelProofs.tla
    tlapm WatchdogProofs.tla
    tlapm GateProofs.tla
    tlapm RunPodClientProofs.tla
    tlapm ExperimentProofs.tla
    tlapm MetricsProofs.tla
    tlapm PaceProofs.tla

Definitions named after another with a suffix (`Level_Undowngraded`) whose comment starts with
"mutant" are not part of any specification: each is a plausible mistake in the
definition below it, kept to show that a property notices it.
