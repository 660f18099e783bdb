------------------------------ MODULE Sentinel ------------------------------
(***************************************************************************)
(* The external sentinel of rlmwatch/sentinel.py: one thread, outside the  *)
(* pod, that sees the run through two services that may each stop          *)
(* answering, and that drives a ladder of its own.  Its world is the pod,  *)
(* the training process in it, and what W&B has recorded of the run.       *)
(*                                                                         *)
(* One tick is: contact, startup deadline, one reading per probe,          *)
(* handle_batch, dead-man's switch, and then run()'s decision to stop.     *)
(* Time may pass between any two steps.                                    *)
(***************************************************************************)
EXTENDS Ladder

CONSTANTS
  SweepOrder,     \* the sentinel's probes, in the order it asks them
  Deadline,       \* startup.deadline_s, in ticks
  DeadMan,        \* failsafe.dead_mans_timeout_s, in ticks
  CreatedAtGiven, \* --pod-created-at was passed: ages are the pod's own
  Faults          \* what may go wrong around it in this instance

Me  == "sentinel"
Own == {"sentinel.startup_deadline", "sentinel.dead_mans_switch"}   \* verdicts tick makes up

ASSUME SentinelAssumption ==
  /\ Thread = {Me} /\ Poller = {Me}
  /\ SweepOrder \in Seq(Probe) /\ SweepOrder # <<>>
  /\ Status \cup {"none"} \subseteq Poll
  /\ Own \subseteq Probe
  /\ Own \cap DOMAIN ProbeOverride = {}   \* build overrides its probes' levels only
  /\ Deadline \in Nat \ {0}
  /\ DeadMan \in Nat \ {0}
  /\ ConfirmDelay < DeadMan      \* Failsafe.validate refuses anything else
  /\ CreatedAtGiven \in BOOLEAN
  /\ Faults \subseteq {"wandb", "runpod", "hang", "die", "complete", "quiet", "cap",
                     "podLost", "restart"}

VARIABLES
  up,          \* the upstreams that answer at the moment
  train,       \* what the training process is really doing
  run,         \* W&B's record of the run
  capPassed,   \* the budget or wall-clock cap is behind us
  spc,         \* where the sentinel is in its loop
  podAge,      \* now() - pod_created_at
  silence,     \* now() - last_contact
  okSeen,      \* Sentinel.startup_ok_seen
  contacted,   \* tick's local: _contact() returned True
  cache,       \* the W&B client's cached run; it is older than its TTL after a Tick
  verdicts,    \* tick's local: result.verdicts
  steady,      \* history: healthy at every moment since the tick's re-poll began
  answered,    \* history: W&B answered that re-poll
  tried,       \* history: this process has called stop or terminate
  unheard,     \* history: age of the last contact of any sentinel with anything
  guessed      \* history: no contact since a restart took the pod's age for the silence

worldVars == <<up, train, run, capPassed>>
ownVars   == <<podAge, silence, okSeen, contacted, cache, verdicts>>
heardVars == <<unheard, guessed>>
historyVars == <<steady, answered, tried, heardVars>>
sentinelVars == <<worldVars, spc, ownVars, historyVars>>
vars == <<ladderVars, sentinelVars>>

NoRun  == [state |-> "none", logged |-> FALSE, stale |-> FALSE]
RunRecord == [state  : {"none", "running", "crashed", "finished"},
              logged : BOOLEAN,    \* the summary has startup_ok, _step or _timestamp
              stale  : BOOLEAN]    \* _timestamp is older than the stall threshold

AgeCap == Longer(Deadline + 1, DeadMan)

SentinelTypeOK ==
  /\ up \subseteq {"wandb", "runpod"}
  /\ train \in {"starting", "training", "hung", "dead", "done"}
  /\ run \in RunRecord
  /\ capPassed \in BOOLEAN
  /\ spc \in {"contact", "deadline", "deadlineCall", "deadlineShut", "sweep", "batch",
              "deadmanCall", "deadmanShut", "tickEnd", "asleep", "stopped", "crashed"}
  /\ podAge \in 0 .. AgeCap
  /\ silence \in 0 .. DeadMan
  /\ okSeen \in BOOLEAN
  /\ contacted \in BOOLEAN
  /\ cache \in RunRecord
  /\ verdicts \in Seq(Verdict) /\ Len(verdicts) <= Len(SweepOrder)
  /\ steady \in BOOLEAN
  /\ answered \in BOOLEAN
  /\ tried \in BOOLEAN
  /\ unheard \in 0 .. DeadMan
  /\ guessed \in BOOLEAN

(* Trains, logs, and is within its caps. *)
Healthy == train = "training" /\ ~ run.stale /\ ~ capPassed

SentinelInit ==
  /\ LadderInit
  /\ up = {"wandb", "runpod"}
  /\ train = "starting"
  /\ run = NoRun
  /\ capPassed = FALSE
  /\ spc = "contact"
  /\ podAge = 0
  /\ silence = 0
  /\ okSeen = FALSE
  /\ contacted = FALSE
  /\ cache = NoRun
  /\ verdicts = <<>>
  /\ steady = FALSE
  /\ answered = FALSE
  /\ tried = FALSE
  /\ unheard = 0
  /\ guessed = FALSE

-----------------------------------------------------------------------------
(* What a read sees.                                                       *)

(* _run: the cached run, or a fetch; a run that does not exist raises just *)
(* as an outage does.                                                      *)
View == IF cache # NoRun THEN cache
        ELSE IF "wandb" \in up THEN run ELSE NoRun
Unreadable(v) == v = NoRun

(* status: a deleted pod is a 404, and raises. *)
PodReadable == "runpod" \in up /\ pod # "terminated"

PodStatusReading ==
  IF ~ PodReadable THEN {"unknown"} ELSE IF pod = "running" THEN {"ok"} ELSE {"fail"}

RunStateReading(v) ==
  CASE Unreadable(v)                        -> {"unknown"}
    [] ~ Unreadable(v) /\ v.state = "crashed"  -> {"fail"}
    [] ~ Unreadable(v) /\ v.state = "finished" -> {"warn"}
    [] OTHER                                -> {"ok"}

ObserverAgreementReading(v) ==
  CASE ~ PodReadable \/ Unreadable(v)                 -> {"unknown"}
    [] PodReadable /\ pod = "running" /\ v.state \in {"crashed", "finished"} -> {"fail"}
    [] PodReadable /\ pod # "running" /\ v.state = "running" -> {"warn"}
    [] OTHER                                          -> {"ok"}

(* The sentinel's Context has no phase: the threshold is the flat default, *)
(* which a long rollout outlasts ("quiet") as well as a hang does.         *)
ProgressAgeReading(v) ==
  IF Unreadable(v) \/ ~ v.logged THEN {"unknown"}
  ELSE IF v.stale THEN {"fail"} ELSE {"ok", "warn"}

(* Idle GPUs of a run that W&B calls running fail, whatever the run does. *)
GpuUtilReading(v) ==
  CASE Unreadable(v)                          -> {"unknown"}
    [] ~ Unreadable(v) /\ v.state # "running" -> {"unknown", "ok"}
    [] OTHER                                  -> {"unknown", "ok", "fail"}

(* The pod's own uptime, which is zero once it is stopped, or else the     *)
(* monitor's clock, which started later.                                   *)
CapReading ==
  CASE PodReadable /\ pod = "running" /\ capPassed -> {"fail"}
    [] ~ PodReadable /\ capPassed                  -> {"ok", "warn", "fail"}
    [] OTHER                                       -> {"ok", "warn"}

(* The other probes judge the metrics a run has logged, which may say      *)
(* anything of it; all of them turn WandbUnavailable into unknown.         *)
Reading(p, v) ==
  CASE p = "liveness.pod_status"         -> PodStatusReading
    [] p = "liveness.run_state"          -> RunStateReading(v)
    [] p = "liveness.observer_agreement" -> ObserverAgreementReading(v)
    [] p = "liveness.progress_age"       -> ProgressAgeReading(v)
    [] p = "liveness.gpu_util"           -> GpuUtilReading(v)
    [] p \in {"cost.spend", "cost.wall_clock"} -> CapReading
    [] OTHER                             -> IF Unreadable(v) THEN {"unknown"} ELSE Status

(* The bookkeeping of a re-poll that got v from W&B. *)
Repolled(v) ==
  LET first == \A i \in 1 .. Len(work[Me]) : work[Me][i].second = "unpolled"
  IN  /\ cache' = v
      /\ steady' = (Healthy /\ (steady \/ first))
      /\ answered' = (~ Unreadable(v) /\ (answered \/ first))

-----------------------------------------------------------------------------
(* tick                                                                    *)

Contact ==
  /\ spc = "contact"
  /\ spc' = "deadline"
  /\ contacted' = (PodReadable \/ ~ Unreadable(View))
  /\ cache' = View       \* a read leaves what it fetched in the cache
  /\ steady' = FALSE
  /\ answered' = FALSE
  /\ unheard' = IF contacted' THEN 0 ELSE unheard
  /\ guessed' = (guessed /\ ~ contacted')
  /\ UNCHANGED <<ladderVars, worldVars, podAge, silence, okSeen, verdicts, tried>>

Started_RunExists(v) == okSeen \/ ~ Unreadable(v)   \* mutant: a run that exists has started

(* check_startup_deadline: a summary that cannot be read counts as empty. *)
Started(v) == okSeen \/ v.logged
Overdue(v) == ~ Started(v) /\ podAge > Deadline

DeadlineMet ==
  /\ spc = "deadline"
  /\ ~ Overdue(View)
  /\ okSeen' = Started(View)
  /\ spc' = "sweep"
  /\ cache' = IF okSeen THEN cache ELSE View
  /\ UNCHANGED <<ladderVars, worldVars, podAge, silence, contacted, verdicts, historyVars>>

DeadlineMissed ==
  /\ spc = "deadline"
  /\ Overdue(View)
  /\ Begin(Me, "handle", <<[probe |-> "sentinel.startup_deadline", status |-> "fail"]>>, TRUE)
  /\ spc' = "deadlineCall"
  /\ cache' = View
  /\ UNCHANGED <<worldVars, podAge, silence, okSeen, contacted, verdicts, historyVars>>

(* The re-poll is check_startup_deadline itself: it answers fail or None. *)
DeadlineRecheck ==
  /\ spc = "deadlineCall"
  /\ Recheck(Me, IF Overdue(View) THEN "fail" ELSE "none")
  /\ okSeen' = Started(View)
  /\ Repolled(View)
  /\ UNCHANGED <<worldVars, spc, podAge, silence, contacted, verdicts, tried,
                 heardVars>>

(* handle lets what the re-poll's None did out of tick() and of run(). *)
Crash ==
  /\ spc = "deadlineCall"
  /\ Unwind(Me)
  /\ spc' = "crashed"
  /\ UNCHANGED <<worldVars, ownVars, historyVars>>

DeadlineShutdown ==
  /\ spc = "deadlineCall"
  /\ Shutdown(Me, OnTerminal)
  /\ spc' = "deadlineShut"
  /\ UNCHANGED <<worldVars, ownVars, historyVars>>

(* The sweep: the next probe answers. *)
Check ==
  /\ spc = "sweep"
  /\ Len(verdicts) < Len(SweepOrder)
  /\ LET p == SweepOrder[Len(verdicts) + 1]
     IN  \E s \in Reading(p, View) :
           verdicts' = Append(verdicts, [probe |-> p, status |-> s])
  /\ cache' = View
  /\ UNCHANGED <<ladderVars, worldVars, spc, podAge, silence, okSeen, contacted,
                 historyVars>>

HandleSweep_NoRecheck ==   \* mutant: the sweep is handled without a recheck
  /\ spc = "sweep"
  /\ Len(verdicts) = Len(SweepOrder)
  /\ Begin(Me, "batch", verdicts, FALSE)
  /\ verdicts' = <<>>
  /\ spc' = "batch"
  /\ UNCHANGED <<worldVars, podAge, silence, okSeen, contacted, cache, historyVars>>

HandleSweep ==
  /\ spc = "sweep"
  /\ Len(verdicts) = Len(SweepOrder)
  /\ Begin(Me, "batch", verdicts, TRUE)
  /\ verdicts' = <<>>
  /\ spc' = "batch"
  /\ UNCHANGED <<worldVars, podAge, silence, okSeen, contacted, cache, historyVars>>

(* recheck drops the cached run and asks the probe again. *)
SweepRecheck ==
  /\ spc = "batch"
  /\ LET fresh == IF "wandb" \in up THEN run ELSE NoRun
     IN  /\ \E i \in Pending(Me) :
              /\ \A j \in Pending(Me) : i <= j
              /\ \E r \in Reading(work[Me][i].probe, fresh) : Recheck(Me, r)
         /\ Repolled(fresh)
  /\ UNCHANGED <<worldVars, spc, podAge, silence, okSeen, contacted, verdicts, tried,
                 heardVars>>

Returned(place) == spc = place /\ pc[Me] = "idle"

HeardSomething_ClockKept ==   \* mutant: a contact does not set last_contact
  /\ Returned("batch")
  /\ contacted
  /\ spc' = "tickEnd"
  /\ UNCHANGED <<ladderVars, worldVars, ownVars, historyVars>>

HeardSomething ==
  /\ Returned("batch")
  /\ contacted
  /\ silence' = 0
  /\ spc' = "tickEnd"
  /\ UNCHANGED <<ladderVars, worldVars, podAge, okSeen, contacted, cache, verdicts,
                 historyVars>>

StillWaiting ==
  /\ Returned("batch")
  /\ ~ contacted
  /\ silence < DeadMan
  /\ spc' = "tickEnd"
  /\ UNCHANGED <<ladderVars, worldVars, ownVars, historyVars>>

DeadMansSwitch ==
  /\ Returned("batch")
  /\ ~ contacted
  /\ silence >= DeadMan
  /\ Begin(Me, "handle", <<[probe |-> "sentinel.dead_mans_switch", status |-> "fail"]>>, FALSE)
  /\ spc' = "deadmanCall"
  /\ UNCHANGED <<worldVars, ownVars, historyVars>>

DeadManShutdown ==
  /\ spc = "deadmanCall"
  /\ Shutdown(Me, OnTerminal)
  /\ spc' = "deadmanShut"
  /\ UNCHANGED <<worldVars, ownVars, historyVars>>

-----------------------------------------------------------------------------
(* run                                                                     *)

(* result.terminated is set by the two shutdowns, whatever became of them. *)
StopAfterShutdown ==
  /\ \/ Returned("deadlineShut")
     \/ Returned("deadmanShut")
  /\ spc' = "stopped"
  /\ UNCHANGED <<ladderVars, worldVars, ownVars, historyVars>>

Finished_AnyRunEnd ==   \* mutant: a finished run is a reason to stop watching
  ~ Unreadable(View) /\ View.state \in {"crashed", "finished"}

(* _finished *)
Finished ==
  /\ ~ Unreadable(View) /\ View.state \in {"crashed", "finished"}
  /\ PodReadable /\ pod # "running"

EndTick ==
  /\ spc = "tickEnd"
  /\ spc' = IF terminated \/ Finished THEN "stopped" ELSE "asleep"
  /\ cache' = IF terminated THEN cache ELSE View
  /\ UNCHANGED <<ladderVars, worldVars, podAge, silence, okSeen, contacted, verdicts,
                 historyVars>>

(* The training process dies with its pod. *)
Survivor(p) == IF p = "running" \/ train = "done" THEN train ELSE "dead"

(* The kill reaches RunPod if RunPod answers; if it does not, the request  *)
(* or its reply may be lost.                                               *)
Kill ==
  /\ KillPod(Me)
  /\ "runpod" \in up /\ HasPod /\ pod # "terminated" =>
       pod' = Off(action[Me]) /\ terminated'
  /\ "runpod" \notin up => terminated' = terminated
  /\ tried' = TRUE
  /\ train' = Survivor(pod')
  /\ steady' = (steady /\ train' = "training")
  /\ UNCHANGED <<up, run, capPassed, spc, ownVars, answered, heardVars>>

(* The steps of the ladder's calls that nothing above adds to. *)
Escalate ==
  /\ \/ Notify(Me)
     \/ Snapshot(Me)
     \/ RequestHalt(Me)
     \/ RequestCheckpoint(Me)
     \/ Alert(Me)
     \/ Flush(Me)
     \/ Record(Me)
  /\ UNCHANGED sentinelVars

SentinelStep ==
  \/ Contact \/ DeadlineMet \/ DeadlineMissed \/ DeadlineRecheck \/ Crash
  \/ DeadlineShutdown \/ Check \/ HandleSweep \/ SweepRecheck \/ HeardSomething
  \/ StillWaiting \/ DeadMansSwitch \/ DeadManShutdown \/ StopAfterShutdown
  \/ EndTick \/ Kill \/ Escalate

(* The process dies, or exits as cron's do after every tick, and the next  *)
(* one knows nothing but its arguments.                                    *)
Restart ==
  /\ "restart" \in Faults
  /\ spc' = "contact"
  /\ podAge' = IF CreatedAtGiven THEN podAge ELSE 0
  /\ silence' = AtMost(podAge', DeadMan)
  /\ okSeen' = FALSE
  /\ contacted' = FALSE
  /\ cache' = NoRun
  /\ verdicts' = <<>>
  /\ steady' = FALSE
  /\ answered' = FALSE
  /\ tried' = FALSE
  /\ guessed' = CreatedAtGiven
  /\ UNCHANGED unheard
  /\ Return(Me)
  /\ blindFor' = [p \in Probe |-> NotBlind]
  /\ sinceReadable' = [p \in Probe |-> 0]
  /\ haltRequested' = FALSE
  /\ terminated' = FALSE
  /\ UNCHANGED <<worldVars, requested, saved, pod>>

-----------------------------------------------------------------------------
(* The world                                                               *)

Trains(next, record) ==
  /\ train' = next
  /\ run' = record
  /\ steady' = (steady /\ next = "training" /\ ~ record.stale /\ ~ capPassed)
  /\ UNCHANGED <<ladderVars, up, capPassed, spc, ownVars, answered, tried, heardVars>>

InitRun    == /\ train = "starting" /\ pod = "running" /\ run = NoRun
              /\ Trains("starting", [NoRun EXCEPT !.state = "running"])
LogStep    == /\ train \in {"starting", "hung"} \/ (train = "training" /\ run.stale)
              /\ pod = "running" /\ run.state = "running"
              /\ Trains("training", [state |-> "running", logged |-> TRUE, stale |-> FALSE])
Hang       == /\ "hang" \in Faults /\ train = "training"
              /\ Trains("hung", run)
Die        == /\ "die" \in Faults /\ train \in {"starting", "training", "hung"}
              /\ Trains("dead", run)
Complete   == /\ "complete" \in Faults /\ train = "training"
              /\ Trains("done", [run EXCEPT !.state = "finished"])
GrowStale  == /\ train \in {"hung", "dead", "done"} \/ (train = "training" /\ "quiet" \in Faults)
              /\ run.logged /\ ~ run.stale
              /\ Trains(train, [run EXCEPT !.stale = TRUE])
NoticeDeath == /\ train = "dead" /\ run.state = "running"
               /\ Trains(train, [run EXCEPT !.state = "crashed"])

PassCap ==
  /\ "cap" \in Faults /\ ~ capPassed
  /\ capPassed' = TRUE
  /\ steady' = FALSE
  /\ UNCHANGED <<ladderVars, up, train, run, spc, ownVars, answered, tried, heardVars>>

ChangeReach ==
  /\ up' \in SUBSET {"wandb", "runpod"}
  /\ {"wandb", "runpod"} \ up' \subseteq Faults
  /\ UNCHANGED <<ladderVars, train, run, capPassed, spc, ownVars, historyVars>>

LosePod ==
  /\ "podLost" \in Faults
  /\ PodLost
  /\ train' = Survivor(pod')
  /\ steady' = FALSE
  /\ UNCHANGED <<up, run, capPassed, spc, ownVars, answered, tried, heardVars>>

(* Time passes, but not between _contact and the deadline check, which     *)
(* follow each other well within the cache's TTL.  It ends run()'s sleep.  *)
Pass ==
  /\ spc # "deadline"
  /\ Tick
  /\ spc' = IF spc = "asleep" THEN "contact" ELSE spc
  /\ podAge' = AtMost(podAge + 1, AgeCap)
  /\ silence' = AtMost(silence + 1, DeadMan)
  /\ unheard' = AtMost(unheard + 1, DeadMan)
  /\ cache' = NoRun
  /\ UNCHANGED <<worldVars, okSeen, contacted, verdicts, steady, answered, tried, guessed>>

World ==
  \/ InitRun \/ LogStep \/ Hang \/ Die \/ Complete \/ GrowStale \/ NoticeDeath
  \/ PassCap \/ ChangeReach \/ LosePod

SentinelNext == SentinelStep \/ Restart \/ World \/ Pass

SentinelSpec == SentinelInit /\ [][SentinelNext]_vars

(* The process gets to run, time passes, and a trainer that logs nothing   *)
(* is measured against the stall threshold.  Nothing is assumed of the     *)
(* trainer, of W&B's crash detection, or of what answers when.             *)
LiveSpec ==
  SentinelSpec /\ WF_vars(SentinelStep) /\ WF_vars(Pass) /\ WF_vars(GrowStale)

-----------------------------------------------------------------------------
(* What the sentinel promises.                                             *)

(* The probes that ask whether the run is there, moves and is within its   *)
(* caps.  The others judge how it trains, from its metrics and its GPUs.   *)
Observing ==
  {"liveness.pod_status", "liveness.run_state", "liveness.observer_agreement",
   "liveness.progress_age", "cost.spend", "cost.wall_clock"}

(* A run that trains and logs from the re-poll of a tick to its kill was   *)
(* not killed for what an observing probe said of it; if the startup       *)
(* deadline killed it, W&B did not answer the re-poll; the rest is the     *)
(* dead man's, or a probe's that judged how it trains.                     *)
SeenRunIsNotKilled ==
  pc[Me] = "kill" /\ steady =>
    \/ (spc = "deadlineShut" /\ ~ answered)
    \/ spc = "deadmanShut"
    \/ spc = "batch" /\ Item_(Me).probe \notin Observing

(* The dead-man's switch kills through a service that has answered nobody, *)
(* this process or the ones before it, for dead_mans_timeout_s; only a     *)
(* sentinel that restarted and has heard of nothing since takes the pod's  *)
(* age for that time.                                                      *)
SwitchHasWaited ==
  spc \in {"deadmanCall", "deadmanShut"} => unheard >= DeadMan \/ guessed

(* _finished: a sentinel that stopped left no pod running, unless it tried *)
(* to kill it.                                                             *)
NoUntriedGivingUp == spc = "stopped" /\ pod = "running" => tried

GaveUp == spc = "crashed" \/ (spc = "stopped" /\ tried)

(* The library's reason to exist: a pod on which nothing trains any more   *)
(* is taken down, once both upstreams answer and keep answering.           *)
DeadRunStopsBilling ==
  <>[](up = {"wandb", "runpod"} /\ train # "training")
    => <>(pod # "running" \/ GaveUp)

(* The caps are enforced from outside, and without W&B.                    *)
CapIsEnforced ==
  <>[]("runpod" \in up /\ capPassed) => <>(pod # "running" \/ GaveUp)

(* A monitor that stays blind says so.                                     *)
BlindnessIsReported ==
  <>[]("wandb" \notin up)
    => <>(\/ GaveUp
          \/ /\ mode[Me] = "batch" /\ pc[Me] = "record"
             /\ Item_(Me).reading = "unknown"
             /\ "notify" \in steps[Me])

(* sentinel.py's comment on the deadline: unreadable is not proof of       *)
(* failure.  A run that trains is not shut down for want of W&B.           *)
PartitionNeverKillsHealthyRun ==
  pc[Me] = "kill" /\ spc = "deadlineShut" => ~ steady

(* "Poll until the run ends, the pod is terminated": the sentinel does not *)
(* stop while the pod bills.                                               *)
StopsOnlyWhenPodGone == spc = "stopped" => pod # "running"
=============================================================================
