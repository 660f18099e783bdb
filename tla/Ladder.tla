------------------------------- MODULE Ladder -------------------------------
(***************************************************************************)
(* The escalation ladder of rlmwatch/actions.py: the only part of the      *)
(* library that acts.  It is called by the threads of one process (the     *)
(* sentinel has one; inside the pod the watchdog thread and the main       *)
(* thread share a ladder), it sleeps between the two readings it wants of  *)
(* a failing probe, and it then runs the levels up to the target in order. *)
(*                                                                         *)
(* Every sleep, every call out of the process and every write that another *)
(* thread can see is a step of its own.  Time is kept as ages that stop    *)
(* growing at the threshold they are compared with, which is all the code  *)
(* ever does with its clock.                                               *)
(***************************************************************************)
EXTENDS Integers, Sequences, FiniteSets

CONSTANTS
  Probe,              \* names of the probes whose verdicts arrive
  ProbeOverride,      \* the constructor's probe_levels argument
  Sweep,              \* the lists of verdicts callers hand in
  Poll,               \* what a second poll comes back with: a status, "raise"
                      \* for an exception, "none" for a recheck returning None
  Thread,             \* threads of the process that holds the ladder
  Poller,             \* those of them that hand it verdicts
  HasTrainer,         \* a TrainerHooks object was passed
  HasPod,             \* a RunPod client and a pod_id are configured
  OnTerminal,         \* failsafe.on_terminal, "stop" or "terminate"
  ConfirmDelay,       \* failsafe.confirm_delay_s, in ticks
  UnknownTolerance,   \* failsafe.unknown_tolerance_s, in ticks
  CheckpointTimeout   \* failsafe.checkpoint_timeout_s, in ticks

Status == {"ok", "warn", "fail", "unknown"}
Verdict == [probe : Probe, status : Status]
Action == {"stop", "terminate"}

(* Level, as the IntEnum orders them. *)
LOG       == 0
NOTIFY    == 1
SNAPSHOT  == 2
HALT      == 3
TERMINATE == 4
Level     == LOG .. TERMINATE

ASSUME LadderAssumption ==
  /\ DOMAIN ProbeOverride \subseteq Probe
  /\ \A p \in DOMAIN ProbeOverride : ProbeOverride[p] \in Level
  /\ Sweep \subseteq {vs \in Seq(Verdict) : /\ vs # <<>>
                                           /\ \A i, j \in 1 .. Len(vs) :
                                                vs[i].probe = vs[j].probe => i = j}
  /\ Poll \subseteq Status \cup {"raise", "none"}
  /\ Poller \subseteq Thread
  /\ HasTrainer \in BOOLEAN
  /\ HasPod \in BOOLEAN
  /\ OnTerminal \in Action
  /\ ConfirmDelay \in Nat \ {0}
  /\ UnknownTolerance \in Nat \ {0}
  /\ CheckpointTimeout \in Nat \ {0}

VARIABLES
  blindFor,       \* [Probe -> age of _ProbeState.unknown_since, NotBlind if None]
  haltRequested,  \* EscalationLadder.halt_requested
  terminated,     \* EscalationLadder.terminated
  pc,             \* [Thread -> where in a ladder call the thread is]
  mode,           \* [Thread -> the entry point: handle, batch or shutdown]
  work,           \* [Thread -> the decided verdicts of the call, in order]
  cur,            \* [Thread -> index in work of the verdict being finished]
  waited,         \* [Thread -> age of the sleep or wait the thread is in]
  action,         \* [Thread -> stop or terminate, for this call]
  steps,          \* [Thread -> ActionRecord.steps of the record in progress]
  requested,      \* CheckpointHooks.requested
  saved,          \* CheckpointHooks.saved
  pod,            \* what RunPod says of the pod
  sinceReadable   \* history: [Probe -> age of its last reading but unknown]

callVars   == <<pc, mode, work, cur, waited, action, steps>>
ladderVars == <<blindFor, haltRequested, terminated, callVars, requested, saved,
                pod, sinceReadable>>

NotBlind == -1

AtMost(n, bound) == IF n < bound THEN n ELSE bound
Longer(m, n)     == IF m < n THEN n ELSE m
WaitCap          == Longer(ConfirmDelay, CheckpointTimeout)

Steps == {"log", "notify", "snapshot", "halt", "checkpoint", "unsaved",
          "alert", "flush", "kill"}

Item == [probe   : Probe,
         reading : Status,                  \* what the probe said
         status  : Status,                  \* what _decide made of it
         target  : Level,
         second  : Poll \cup {"unpolled"},  \* what the re-poll said
         gap     : 0 .. WaitCap,            \* history: wait before the re-poll
         quiet   : 0 .. UnknownTolerance]   \* history: sinceReadable at the time

Place == {"idle", "confirm", "act", "snapshot", "halt", "checkpoint", "wait",
          "alert", "flush", "kill", "record", "raised"}
Mode  == {"handle", "batch", "shutdown"}

TypeOK ==
  /\ blindFor \in [Probe -> NotBlind .. UnknownTolerance]
  /\ haltRequested \in BOOLEAN
  /\ terminated \in BOOLEAN
  /\ pc \in [Thread -> Place]
  /\ mode \in [Thread -> Mode]
  /\ work \in [Thread -> Seq(Item)]
  /\ cur \in [Thread -> Nat]
  /\ waited \in [Thread -> 0 .. WaitCap]
  /\ action \in [Thread -> Action]
  /\ steps \in [Thread -> SUBSET Steps]
  /\ requested \in BOOLEAN
  /\ saved \in BOOLEAN
  /\ pod \in {"running", "stopped", "terminated"}
  /\ sinceReadable \in [Probe -> 0 .. UnknownTolerance]

LadderInit ==
  /\ blindFor = [p \in Probe |-> NotBlind]
  /\ haltRequested = FALSE
  /\ terminated = FALSE
  /\ pc = [t \in Thread |-> "idle"]
  /\ mode = [t \in Thread |-> "handle"]
  /\ work = [t \in Thread |-> <<>>]
  /\ cur = [t \in Thread |-> 1]
  /\ waited = [t \in Thread |-> 0]
  /\ action = [t \in Thread |-> OnTerminal]
  /\ steps = [t \in Thread |-> {}]
  /\ requested = FALSE
  /\ saved = FALSE
  /\ pod = "running"
  /\ sinceReadable = [p \in Probe |-> 0]

-----------------------------------------------------------------------------
(* Policy: DEFAULT_PROBE_LEVELS, probe_levels, target_level, resolve_status *)

TerminateProbes ==
  {"cost.spend", "cost.wall_clock", "liveness.observer_agreement",
   "liveness.progress_age", "liveness.step_counter", "liveness.gpu_util"}
HaltProbes ==
  {"rlm.reward_std", "rlm.kl_ref", "rlm.entropy", "rlm.format_success",
   "rlm.rollout_duration", "rlm.generation_backend", "rlm.reward_model",
   "rlm.repl_degeneracy", "health.loss_finite"}
NotifyProbes == {"liveness.pod_status"}

(* A probe in none of the three, run_state or startup_deadline, stops at L2. *)
FailLevel(p) ==
  IF p \in DOMAIN ProbeOverride THEN ProbeOverride[p]
  ELSE CASE p \in TerminateProbes -> TERMINATE
         [] p \in HaltProbes      -> HALT
         [] p \in NotifyProbes    -> NOTIFY
         [] OTHER                 -> SNAPSHOT

TargetLevel(p, s) ==
  CASE s = "fail" -> FailLevel(p)
    [] s = "warn" -> NOTIFY
    [] OTHER      -> LOG

ResolveStatus(p, s) ==
  IF s = "unknown" /\ blindFor[p] # NotBlind /\ blindFor[p] >= UnknownTolerance
  THEN "warn" ELSE s

Decide(v) ==
  LET status == ResolveStatus(v.probe, v.status)
  IN  [probe   |-> v.probe,
       reading |-> v.status,
       status  |-> status,
       target  |-> TargetLevel(v.probe, status),
       second  |-> "unpolled",
       gap     |-> 0,
       quiet   |-> sinceReadable[v.probe]]

(* A verdict stops at L1 unless its re-poll failed as well. *)
Unconfirmed(item) == item.target > NOTIFY /\ item.second # "fail"

EffectiveLevel(item) == IF Unconfirmed(item) THEN NOTIFY ELSE item.target

Pending(t) == {i \in 1 .. Len(work[t]) : /\ work[t][i].target > NOTIFY
                                         /\ work[t][i].second = "unpolled"}

-----------------------------------------------------------------------------
(* handle and handle_batch: decide every verdict, then sleep at most once. *)

(* The call returns: its locals are gone. *)
Return(t) ==
  /\ pc' = [pc EXCEPT ![t] = "idle"]
  /\ mode' = [mode EXCEPT ![t] = "handle"]
  /\ work' = [work EXCEPT ![t] = <<>>]
  /\ cur' = [cur EXCEPT ![t] = 1]
  /\ waited' = [waited EXCEPT ![t] = 0]
  /\ action' = [action EXCEPT ![t] = OnTerminal]
  /\ steps' = [steps EXCEPT ![t] = {}]

Reads(vs, p) == \E i \in 1 .. Len(vs) : vs[i].probe = p

Readable(vs, p) == \E i \in 1 .. Len(vs) : vs[i].probe = p /\ vs[i].status # "unknown"

BlindAfter_NeverCleared(vs, p) ==   \* mutant: a readable poll leaves unknown_since set
  IF Reads(vs, p) /\ ~ Readable(vs, p) THEN Longer(blindFor[p], 0) ELSE blindFor[p]

BlindAfter_NeverSet(vs, p) ==   \* mutant: an unknown does not set unknown_since
  IF Readable(vs, p) THEN NotBlind ELSE blindFor[p]

(* unknown_since is set by the first unknown and cleared by anything else. *)
BlindAfter(vs, p) ==
  CASE Readable(vs, p) -> NotBlind
    [] Reads(vs, p) /\ ~ Readable(vs, p) -> Longer(blindFor[p], 0)
    [] OTHER -> blindFor[p]

Begin(t, m, vs, hasRecheck) ==
  /\ pc[t] = "idle"
  /\ m = "handle" => Len(vs) = 1
  /\ work' = [work EXCEPT ![t] = [i \in 1 .. Len(vs) |-> Decide(vs[i])]]
  /\ blindFor' = [p \in Probe |-> BlindAfter(vs, p)]
  /\ sinceReadable' = [p \in Probe |-> IF Readable(vs, p) THEN 0 ELSE sinceReadable[p]]
  /\ \/ /\ hasRecheck
        /\ \E i \in 1 .. Len(vs) : work'[t][i].target > NOTIFY
        /\ pc' = [pc EXCEPT ![t] = "confirm"]
     \/ /\ \/ ~ hasRecheck
           \/ \A i \in 1 .. Len(vs) : work'[t][i].target <= NOTIFY
        /\ pc' = [pc EXCEPT ![t] = "act"]
  /\ mode' = [mode EXCEPT ![t] = m]
  /\ UNCHANGED <<haltRequested, terminated, cur, waited, action, steps,
                 requested, saved, pod>>

Recheck_NoSleep(t, r) ==   \* mutant: the re-poll does not wait for confirm_delay_s
  /\ pc[t] = "confirm"
  /\ \E i \in Pending(t) :
       /\ \A j \in Pending(t) : i <= j
       /\ work' = [work EXCEPT ![t][i].second = r, ![t][i].gap = waited[t]]
       /\ pc' = [pc EXCEPT ![t] = IF Pending(t) = {i} THEN "act" ELSE "confirm"]
  /\ UNCHANGED <<blindFor, haltRequested, terminated, mode, cur, waited, action,
                 steps, requested, saved, pod, sinceReadable>>

Recheck_FiledByRank(t, r) ==   \* mutant: the k-th outcome is filed under the k-th verdict
  /\ pc[t] = "confirm"
  /\ waited[t] >= ConfirmDelay
  /\ \E i \in Pending(t) :
       /\ \A j \in Pending(t) : i <= j
       /\ LET k == Cardinality({j \in 1 .. i : work[t][j].target > NOTIFY})
          IN  work' = [work EXCEPT ![t][k].second = r, ![t][k].gap = waited[t]]
       /\ pc' = [pc EXCEPT ![t] = IF Pending(t) = {i} THEN "act" ELSE "confirm"]
  /\ UNCHANGED <<blindFor, haltRequested, terminated, mode, cur, waited, action,
                 steps, requested, saved, pod, sinceReadable>>

(* The sleep is over: poll the next verdict that wants a second reading.   *)
(* A poll that raises is no confirmation; None has no .status, which       *)
(* handle_batch catches and handle does not.                               *)
Recheck(t, r) ==
  /\ pc[t] = "confirm"
  /\ waited[t] >= ConfirmDelay
  /\ \/ /\ r = "none"
        /\ mode[t] = "handle"
        /\ pc' = [pc EXCEPT ![t] = "raised"]
        /\ UNCHANGED work
     \/ /\ r # "none" \/ mode[t] = "batch"
        /\ \E i \in Pending(t) :
             /\ \A j \in Pending(t) : i <= j
             /\ work' = [work EXCEPT ![t][i].second = r, ![t][i].gap = waited[t]]
             /\ pc' = [pc EXCEPT ![t] = IF Pending(t) = {i} THEN "act" ELSE "confirm"]
  /\ UNCHANGED <<blindFor, haltRequested, terminated, mode, cur, waited, action,
                 steps, requested, saved, pod, sinceReadable>>

(* The exception leaves the call; what it does to the thread is the        *)
(* caller's business.                                                      *)
Unwind(t) ==
  /\ pc[t] = "raised"
  /\ Return(t)
  /\ UNCHANGED <<blindFor, haltRequested, terminated, requested, saved, pod,
                 sinceReadable>>

-----------------------------------------------------------------------------
(* _finish and _execute: one step per level and per call out.              *)

Item_(t) == work[t][cur[t]]

Level_Undowngraded(t) ==   \* mutant: what is executed is the target, confirmed or not
  IF mode[t] = "shutdown" THEN TERMINATE ELSE Item_(t).target

Level_(t) == IF mode[t] = "shutdown" THEN TERMINATE ELSE EffectiveLevel(Item_(t))

(* Record one more executed step and move on. *)
Do(t, step, next) ==
  /\ steps' = [steps EXCEPT ![t] = @ \cup {step}]
  /\ pc' = [pc EXCEPT ![t] = next]

Notify(t) ==
  /\ pc[t] = "act"
  /\ steps' = [steps EXCEPT ![t] = IF Level_(t) >= NOTIFY THEN {"log", "notify"} ELSE {"log"}]
  /\ pc' = [pc EXCEPT ![t] = IF Level_(t) >= SNAPSHOT THEN "snapshot" ELSE "record"]
  /\ UNCHANGED <<blindFor, haltRequested, terminated, mode, work, cur, waited,
                 action, requested, saved, pod, sinceReadable>>

Snapshot(t) ==
  /\ pc[t] = "snapshot"
  /\ Do(t, "snapshot", IF Level_(t) >= HALT THEN "halt" ELSE "record")
  /\ UNCHANGED <<blindFor, haltRequested, terminated, mode, work, cur, waited,
                 action, requested, saved, pod, sinceReadable>>

(* halt_requested is published before the checkpoint is asked for. *)
RequestHalt(t) ==
  /\ pc[t] = "halt"
  /\ haltRequested' = TRUE
  /\ Do(t, "halt", "checkpoint")
  /\ UNCHANGED <<blindFor, terminated, mode, work, cur, waited, action,
                 requested, saved, pod, sinceReadable>>

(* No trainer, or a trainer that raises, is a checkpoint not saved. *)
RequestCheckpoint(t) ==
  /\ pc[t] = "checkpoint"
  /\ \/ /\ Do(t, "unsaved", "alert")
        /\ UNCHANGED <<waited, requested>>
     \/ /\ HasTrainer
        /\ requested' = TRUE
        /\ waited' = [waited EXCEPT ![t] = 0]
        /\ pc' = [pc EXCEPT ![t] = "wait"]
        /\ UNCHANGED steps
  /\ UNCHANGED <<blindFor, haltRequested, terminated, mode, work, cur, action,
                 saved, pod, sinceReadable>>

SawCheckpoint_SparesPod(t) ==   \* mutant: a checkpoint that was saved ends the escalation
  /\ pc[t] = "wait"
  /\ saved
  /\ Do(t, "checkpoint", "record")
  /\ UNCHANGED <<blindFor, haltRequested, terminated, mode, work, cur, waited,
                 action, requested, saved, pod, sinceReadable>>

(* wait_for_checkpoint polls the saved flag until its deadline. *)
SawCheckpoint(t) ==
  /\ pc[t] = "wait"
  /\ saved
  /\ Do(t, "checkpoint", IF Level_(t) >= TERMINATE THEN "alert" ELSE "record")
  /\ UNCHANGED <<blindFor, haltRequested, terminated, mode, work, cur, waited,
                 action, requested, saved, pod, sinceReadable>>

GaveUpOnCheckpoint_StayAtHalt(t) ==   \* mutant: a halt without a checkpoint stays at L3
  /\ pc[t] = "wait"
  /\ waited[t] >= CheckpointTimeout
  /\ Do(t, "unsaved", IF Level_(t) >= TERMINATE THEN "alert" ELSE "record")
  /\ UNCHANGED <<blindFor, haltRequested, terminated, mode, work, cur, waited,
                 action, requested, saved, pod, sinceReadable>>

GaveUpOnCheckpoint(t) ==
  /\ pc[t] = "wait"
  /\ waited[t] >= CheckpointTimeout
  /\ Do(t, "unsaved", "alert")
  /\ UNCHANGED <<blindFor, haltRequested, terminated, mode, work, cur, waited,
                 action, requested, saved, pod, sinceReadable>>

-----------------------------------------------------------------------------
(* _terminate and shutdown: alert, flush, then kill.                       *)

(* wandb.alert and wandb.finish: whatever they raise is swallowed. *)
Alert(t) ==
  /\ pc[t] = "alert"
  /\ Do(t, "alert", "flush")
  /\ UNCHANGED <<blindFor, haltRequested, terminated, mode, work, cur, waited,
                 action, requested, saved, pod, sinceReadable>>

Flush(t) ==
  /\ pc[t] = "flush"
  /\ Do(t, "flush", "kill")
  /\ UNCHANGED <<blindFor, haltRequested, terminated, mode, work, cur, waited,
                 action, requested, saved, pod, sinceReadable>>

Off(a) == IF a = "stop" THEN "stopped" ELSE "terminated"

(* The stop or terminate call.  A pod that was deleted answers 404, which  *)
(* raises; a reply lost on the way raises after the pod went down.         *)
KillPod_TrustReply(t) ==   \* mutant: terminated is set although the call raised
  /\ pc[t] = "kill"
  /\ \/ UNCHANGED pod
     \/ HasPod /\ pod # "terminated" /\ pod' = Off(action[t])
  /\ terminated' = (terminated \/ HasPod)
  /\ Do(t, "kill", "record")
  /\ UNCHANGED <<blindFor, haltRequested, mode, work, cur, waited, action,
                 requested, saved, sinceReadable>>

KillPod(t) ==
  /\ pc[t] = "kill"
  /\ \/ /\ HasPod
        /\ pod # "terminated"
        /\ pod' = Off(action[t])
        /\ terminated' \in {TRUE, terminated}
     \/ UNCHANGED <<pod, terminated>>
  /\ Do(t, "kill", "record")
  /\ UNCHANGED <<blindFor, haltRequested, mode, work, cur, waited, action,
                 requested, saved, sinceReadable>>

(* history.append(record); the call returns after its last verdict. *)
Record(t) ==
  /\ pc[t] = "record"
  /\ \/ /\ mode[t] # "shutdown"
        /\ cur[t] < Len(work[t])
        /\ cur' = [cur EXCEPT ![t] = @ + 1]
        /\ pc' = [pc EXCEPT ![t] = "act"]
        /\ steps' = [steps EXCEPT ![t] = {}]
        /\ UNCHANGED <<mode, work, waited, action>>
     \/ /\ mode[t] = "shutdown" \/ cur[t] >= Len(work[t])
        /\ Return(t)
  /\ UNCHANGED <<blindFor, haltRequested, terminated, requested, saved, pod,
                 sinceReadable>>

Shutdown_KillFirst(t, a) ==   \* mutant: the exit guard kills before it flushes
  /\ pc[t] = "idle"
  /\ mode' = [mode EXCEPT ![t] = "shutdown"]
  /\ action' = [action EXCEPT ![t] = a]
  /\ steps' = [steps EXCEPT ![t] = {"log", "notify"}]
  /\ pc' = [pc EXCEPT ![t] = "kill"]
  /\ UNCHANGED <<blindFor, haltRequested, terminated, work, cur, waited,
                 requested, saved, pod, sinceReadable>>

(* The mandatory exit guard: ask for a checkpoint, do not wait for it. *)
Shutdown(t, a) ==
  /\ pc[t] = "idle"
  /\ mode' = [mode EXCEPT ![t] = "shutdown"]
  /\ action' = [action EXCEPT ![t] = a]
  /\ steps' = [steps EXCEPT ![t] = {"log", "notify"}]
  /\ requested' \in {requested, requested \/ HasTrainer}
  /\ pc' = [pc EXCEPT ![t] = "alert"]
  /\ UNCHANGED <<blindFor, haltRequested, terminated, work, cur, waited,
                 saved, pod, sinceReadable>>

-----------------------------------------------------------------------------
(* Around the ladder: the trainer, RunPod and the clock.                   *)

(* The training loop's safe point, as CheckpointHooks wants it used. *)
TrainerSaves ==
  /\ requested
  /\ ~ saved
  /\ saved' = TRUE
  /\ UNCHANGED <<blindFor, haltRequested, terminated, callVars, requested, pod,
                 sinceReadable>>

(* The pod goes down without the ladder: host failure, an operator. *)
PodLost ==
  /\ pod = "running"
  /\ pod' \in {"stopped", "terminated"}
  /\ UNCHANGED <<blindFor, haltRequested, terminated, callVars, requested, saved,
                 sinceReadable>>

Tick ==
  /\ blindFor' = [p \in Probe |-> IF blindFor[p] = NotBlind THEN NotBlind
                                  ELSE AtMost(blindFor[p] + 1, UnknownTolerance)]
  /\ sinceReadable' = [p \in Probe |-> AtMost(sinceReadable[p] + 1, UnknownTolerance)]
  /\ waited' = [t \in Thread |-> IF pc[t] \in {"confirm", "wait"}
                                 THEN AtMost(waited[t] + 1, WaitCap) ELSE waited[t]]
  /\ UNCHANGED <<haltRequested, terminated, pc, mode, work, cur, action, steps,
                 requested, saved, pod>>

(* What a thread inside a call does next, but for the answer to a re-poll. *)
Advance(t) ==
  \/ Unwind(t)
  \/ Notify(t)
  \/ Snapshot(t)
  \/ RequestHalt(t)
  \/ RequestCheckpoint(t)
  \/ SawCheckpoint(t)
  \/ GaveUpOnCheckpoint(t)
  \/ Alert(t)
  \/ Flush(t)
  \/ KillPod(t)
  \/ Record(t)

LadderNext ==
  \/ \E t \in Thread :
       \/ /\ t \in Poller
          /\ \E m \in {"handle", "batch"}, vs \in Sweep, hasRecheck \in BOOLEAN :
               Begin(t, m, vs, hasRecheck)
       \/ \E r \in Poll : Recheck(t, r)
       \/ \E a \in Action : Shutdown(t, a)
       \/ Advance(t)
  \/ TrainerSaves
  \/ PodLost
  \/ Tick

LadderSpec == LadderInit /\ [][LadderNext]_ladderVars

-----------------------------------------------------------------------------
(* What the ladder promises.                                               *)

Verdicts(t) == mode[t] # "shutdown" /\ pc[t] # "idle"
Beyond      == {"snapshot", "halt", "checkpoint", "wait", "alert", "flush", "kill"}

(* Rule 1 of actions.py: whatever a verdict makes the ladder do past L1,   *)
(* its probe said fail, and said fail again confirm_delay_s later, in the  *)
(* same call.                                                              *)
ConfirmedEscalation ==
  \A t \in Thread :
    Verdicts(t) /\ (pc[t] \in Beyond \/ steps[t] \ {"log", "notify"} # {})
      => /\ Item_(t).reading = "fail"
         /\ Item_(t).second = "fail"
         /\ Item_(t).gap >= ConfirmDelay

(* handle_batch sleeps once for a whole sweep and keeps each outcome under *)
(* the index of its own verdict.  Past the sleep a call has either polled  *)
(* again every verdict that would escalate or, without a recheck, none;    *)
(* and at no time has it an outcome for one that would not.                *)
OutcomesAreTheirOwn ==
  \A t \in Thread :
    LET wanted == {i \in 1 .. Len(work[t]) : work[t][i].target > NOTIFY}
        polled == {i \in 1 .. Len(work[t]) : work[t][i].second # "unpolled"}
    IN  /\ polled \subseteq wanted
        /\ pc[t] \notin {"confirm", "raised"} => polled \in {{}, wanted}

(* Rule 1 the other way round: a failure that was confirmed gets all of    *)
(* its level, whichever verdict of its sweep it is, and whether or not the *)
(* trainer saves, or the other thread kills, while it is executed.         *)
ConfirmedIsCarriedOut ==
  \A t \in Thread :
    Verdicts(t) /\ pc[t] = "record" /\ Item_(t).second = "fail" =>
      LET reached == Item_(t).target
      IN  /\ reached >= SNAPSHOT  => "snapshot" \in steps[t]
          /\ reached >= HALT      => "halt" \in steps[t]
          /\ reached >= TERMINATE => "kill" \in steps[t]

(* Rule 2: an unreadable probe is logged, or after unknown_tolerance_s     *)
(* without one readable poll reported, and nothing else is done about it.  *)
BlindnessStopsAtNotify ==
  \A t \in Thread :
    Verdicts(t) /\ steps[t] # {} /\ Item_(t).reading = "unknown"
      => /\ steps[t] \subseteq {"log", "notify"}
         /\ "notify" \in steps[t] => Item_(t).quiet >= UnknownTolerance

(* Rule 3: checkpoint, then alert, then flush, and only then kill; and the *)
(* levels below the one reached were all run first.                        *)
OrderOnTheWayDown ==
  \A t \in Thread :
    LET done == steps[t]
    IN  /\ "kill" \in done => "flush" \in done
        /\ "flush" \in done => "alert" \in done
        /\ "alert" \in done => mode[t] = "shutdown" \/ done \cap {"checkpoint", "unsaved"} # {}
        /\ done \cap {"checkpoint", "unsaved"} # {} => "halt" \in done
        /\ "halt" \in done => "snapshot" \in done
        /\ "snapshot" \in done => "notify" \in done

(* TrainerHooks: a trainer too wedged to checkpoint is escalated past L3,  *)
(* so no record closes on a halt that saved nothing and killed nothing.    *)
UnsavedHaltKills ==
  \A t \in Thread : pc[t] = "record" /\ "unsaved" \in steps[t] => "kill" \in steps[t]

(* The sentinel stops watching once terminated is set: it must never be    *)
(* set while the pod still bills.                                          *)
TerminatedIsTrue == terminated => pod # "running"

-----------------------------------------------------------------------------
(* The ladder implements KillSwitch.                                       *)

(* A call is about a suspicion from the moment it holds a verdict that     *)
(* would go past L1, and about a confirmed one while it executes it.       *)
EvidenceOf(t) ==
  CASE pc[t] = "idle" -> "none"
    [] pc[t] # "idle" /\ mode[t] = "shutdown" -> "ordered"
    [] Verdicts(t) -> IF pc[t] \in Beyond \cup {"record"} /\ EffectiveLevel(Item_(t)) > NOTIFY
                      THEN "confirmed"
                      ELSE IF \E i \in cur[t] .. Len(work[t]) : work[t][i].target > NOTIFY
                           THEN "suspected" ELSE "none"

KS == INSTANCE KillSwitch WITH
        believed <- terminated,
        evidence <- [t \in Thread |-> EvidenceOf(t)]

(* The pod leaves RUNNING by the ladder's hand only on a confirmed failure *)
(* or an ordered shutdown, and terminated is set only by a kill that took. *)
ImplementsKillSwitch == KS!Spec
=============================================================================
