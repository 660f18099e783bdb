-------------------------------- MODULE Gate --------------------------------
(***************************************************************************)
(* The startup gate of rlmwatch/probes/startup.py and its two callers: the *)
(* attach() of integration.py, which goes on to supervise the training     *)
(* loop, and the preflight command of cli.py, which only reports.  The     *)
(* fifteen probes are readings of one record of facts about the pod; the   *)
(* gate takes them in order, stops at the first failure, and enforces it   *)
(* through the ladder of the same process.  A pod that still runs after    *)
(* the process ended is entered again.                                     *)
(***************************************************************************)
EXTENDS Ladder

CONSTANTS
  Worlds,      \* the pods the gate may find itself on
  Later,       \* those of them that a restart may find
  Entry,       \* of "attach", "preflight" and "preflight --no-enforce"
  ExpectGpus,  \* expect.gpu_count
  MinDisk,     \* expect.min_disk_gb, in units of a checkpoint
  Quota,       \* expect.volume_quota_gb in the same units, 0 if not set
  Regime,      \* run.regime
  OnFailure,   \* startup.on_failure
  MaxStarts,   \* bound on the times the script is started
  MaxSignals   \* bound on the SIGTERMs and SIGINTs of one start

Main      == "main"
Preflight == "preflight"
NoEnforce == "preflight --no-enforce"

Missing == -1   \* a checkpoint directory that is not there
NoTorch == -1   \* torch does not import

Hooks == {"load_model", "first_batch", "resume", "train_step", "rollout_cycle",
          "gen_backend_health"}

(* used is the true usage; the code only learns it when du answers. *)
World ==
  [gpus    : Nat,
   type    : {"expected", "other"},
   vram    : {"free", "resident"},
   torch   : {NoTorch} \cup Nat,
   defect  : {"none", "unreported", "correctable", "retired", "uncorrectable", "xid"},
   nccl    : BOOLEAN,
   statvfs : {Missing} \cup Nat,
   used    : Nat,
   du      : BOOLEAN,
   volume  : {"good", "refuses", "lies"},
   key     : {"absent", "write", "readOnly", "noAnswer"},
   console : BOOLEAN,
   webhook : {"off", "takes", "rejects", "raises"},
   run     : {"unset", "unreadable", "readable"},
   canary  : {"unwired", "back", "lost", "raises"},
   local   : {"none", "logs", "raises"},
   hook    : [Hooks -> {"unwired", "raises", "wrong", "right", "hangs"}]]

ASSUME GateAssumption ==
  /\ Thread = {Main} /\ Poller = {Main}
  /\ Worlds \subseteq World /\ Later \subseteq Worlds
  /\ Entry \subseteq {"attach", Preflight, NoEnforce}
  /\ ExpectGpus \in Nat \ {0}
  /\ MinDisk \in Nat /\ Quota \in Nat
  /\ Regime \in {"sft", "rl"}
  /\ OnFailure \in Action
  /\ MaxStarts \in Nat \ {0} /\ MaxSignals \in Nat

VARIABLES
  entry,      \* how the script was started
  world,      \* the pod it finds
  place,      \* where the main thread is
  verdicts,   \* the statuses the gate has so far, in the order of GateProbes
  signals,    \* how many signals this start has had
  starts,     \* how many starts there were
  startupOk,  \* what of startup_ok and the baselines stands in W&B
  onDisk,     \* a checkpoint of this run is on the pod's volume
  killTried,  \* history: this start has made its kill call
  ending      \* history: how the last start ended

gateVars == <<entry, world, place, verdicts, signals, starts, startupOk, onDisk,
              killTried, ending>>
vars     == <<ladderVars, gateVars>>

GateProbes ==
  <<"startup.gpu_inventory", "startup.torch_cuda", "startup.gpu_health",
    "startup.runpod_write_scope", "startup.disk_space", "startup.checkpoint_roundtrip",
    "startup.nccl", "startup.notify_sink", "startup.wandb_visibility",
    "startup.model_load", "startup.first_batch", "startup.resume",
    "startup.train_step", "startup.rollout_cycle", "startup.gen_backend">>

Baselines == {"baseline/step", "baseline/throughput", "baseline/rollout"}

Ending == {"none", "refused", "gateFailed", "reported", "publishRaised", "left",
           "signalled", "killed", "podGone"}

GateTypeOK ==
  /\ entry \in Entry
  /\ world \in World
  /\ place \in {"start", "gate", "hung", "handling", "enforcing", "train", "leaving",
                "handler", "exiting", "over"}
  /\ verdicts \in Seq(Status) /\ Len(verdicts) <= Len(GateProbes)
  /\ \A i \in 1 .. Len(verdicts) - 1 : verdicts[i] # "fail"
  /\ signals \in 0 .. MaxSignals
  /\ starts \in 1 .. MaxStarts
  /\ startupOk \subseteq {"startup_ok"} \cup Baselines
  /\ onDisk \in BOOLEAN
  /\ killTried \in BOOLEAN
  /\ ending \in Ending

GateInit ==
  /\ LadderInit
  /\ entry \in Entry
  /\ world \in Worlds
  /\ place = "start"
  /\ verdicts = <<>>
  /\ signals = 0
  /\ starts = 1
  /\ startupOk = {}
  /\ onDisk = FALSE
  /\ killTried = FALSE
  /\ ending = "none"

-----------------------------------------------------------------------------
(* The probes, as readings of a world.                                     *)

OkUnless(bad) == IF bad THEN "fail" ELSE "ok"

GpuInventory(w) ==
  OkUnless(w.gpus = 0 \/ w.gpus # ExpectGpus \/ w.type = "other" \/ w.vram = "resident")

TorchCuda(w) ==
  IF w.torch = NoTorch THEN "unknown" ELSE OkUnless(w.torch = 0 \/ w.torch # w.gpus)

(* A counter that reads [N/A] and a dmesg that may not be read count as 0. *)
GpuHealth(w) ==
  CASE w.defect \in {"xid", "uncorrectable", "retired"} -> "fail"
    [] w.defect = "correctable"                         -> "warn"
    [] OTHER                                            -> "ok"

Nccl_InProcess(w) ==   \* mutant: the all-reduce runs without its timeout
  IF ExpectGpus >= 2 /\ ~ w.nccl THEN "hang" ELSE "ok"

Nccl(w) == OkUnless(ExpectGpus >= 2 /\ ~ w.nccl)

(* free_disk_gb: with a quota what is left of it, if du tells how much is. *)
FreeDisk(w) ==
  IF Quota = 0 \/ w.statvfs = Missing \/ ~ w.du THEN w.statvfs
  ELSE AtMost(w.statvfs, Longer(0, Quota - w.used))

DiskSpace_Statvfs(w) ==   \* mutant: the quota is ignored
  OkUnless(w.statvfs = Missing \/ w.statvfs < MinDisk)

DiskSpace(w) == OkUnless(FreeDisk(w) = Missing \/ FreeDisk(w) < MinDisk)

(* Write, read back and compare. *)
CheckpointRoundTrip(w) == OkUnless(w.volume # "good")

(* run.pod_id is not set, the PATCH is refused, or nobody answers it. *)
RunPodWriteScope(w) ==
  CASE ~ HasPod \/ w.key = "readOnly" -> "fail"
    [] HasPod /\ w.key = "noAnswer"   -> "unknown"
    [] OTHER                          -> "ok"

(* Notifier.selftest: how many of the sinks accepted the startup message. *)
Delivered(w) ==
  Cardinality({s \in {"console", "webhook"} : IF s = "console" THEN w.console
                                                               ELSE w.webhook = "takes"})

NotifySink(w) == OkUnless(Delivered(w) = 0)

HookOf(w, h) == IF entry = "attach" THEN w.hook[h] ELSE "unwired"

Canary(w) == IF entry = "attach" THEN w.canary ELSE "unwired"

WandbVisibility(w) == OkUnless(w.run # "readable" \/ Canary(w) \in {"lost", "raises"})

(* A hook that raises fails its probe; one that never returns hangs the gate. *)
Called(h, w) ==
  CASE HookOf(w, h) = "unwired" -> "unknown"
    [] HookOf(w, h) = "hangs"   -> "hang"
    [] OTHER                    -> OkUnless(HookOf(w, h) = "raises")

(* A hook whose answer is looked at too. *)
Asked(h, w) == IF HookOf(w, h) = "wrong" THEN "fail" ELSE Called(h, w)

(* A warm-up step whose loss is NaN passes, and so does any resumed step. *)
ModelLoad(w)    == Asked("load_model", w)
Data(w)         == Asked("first_batch", w)
Resume(w)       == Called("resume", w)
TrainStep(w)    == Called("train_step", w)
RolloutCycle(w) == IF Regime = "rl" THEN Called("rollout_cycle", w) ELSE "ok"
GenBackend(w)   == Asked("gen_backend_health", w)

Inspected_WarmUpFirst(w) ==   \* mutant: the hooks run before the self-tests
  <<GpuInventory(w), TorchCuda(w), GpuHealth(w), ModelLoad(w), Data(w), Resume(w),
    TrainStep(w), RolloutCycle(w), GenBackend(w), RunPodWriteScope(w), DiskSpace(w),
    CheckpointRoundTrip(w), Nccl(w), NotifySink(w), WandbVisibility(w)>>

(* GATE_PROBES: cheap and decisive first, the hooks after the self-tests. *)
Inspected(w) ==
  <<GpuInventory(w), TorchCuda(w), GpuHealth(w), RunPodWriteScope(w), DiskSpace(w),
    CheckpointRoundTrip(w), Nccl(w), NotifySink(w), WandbVisibility(w), ModelLoad(w),
    Data(w), Resume(w), TrainStep(w), RolloutCycle(w), GenBackend(w)>>

-----------------------------------------------------------------------------
(* gate() and gate_and_enforce().                                          *)

Failed_NotOk ==   \* mutant: a probe that could not tell fails the gate
  verdicts # <<>> /\ verdicts[Len(verdicts)] \in {"fail", "unknown"}

Failed  == verdicts # <<>> /\ verdicts[Len(verdicts)] = "fail"
Through == Len(verdicts) = Len(GateProbes) /\ ~ Failed

GoTo(where) ==
  /\ place' = where
  /\ UNCHANGED <<entry, world, verdicts, signals, starts, startupOk, onDisk, killTried,
                 ending>>

End(how) ==
  /\ place' = "over"
  /\ ending' = how
  /\ UNCHANGED <<entry, world, verdicts, signals, starts, startupOk, onDisk, killTried>>

(* Both entries refuse to start without RUNPOD_API_KEY. *)
Start ==
  /\ place = "start"
  /\ IF world.key = "absent" THEN End("refused") ELSE GoTo("gate")
  /\ UNCHANGED ladderVars

Inspect_NoShortCircuit ==   \* mutant: the gate goes on after a failure
  /\ place = "gate"
  /\ Len(verdicts) < Len(GateProbes)
  /\ LET status == Inspected(world)[Len(verdicts) + 1]
     IN  IF status = "hang" THEN GoTo("hung")
         ELSE /\ verdicts' = Append(verdicts, status)
              /\ UNCHANGED <<entry, world, place, signals, starts, startupOk, onDisk,
                             killTried, ending>>
  /\ UNCHANGED ladderVars

Inspect ==
  /\ place = "gate"
  /\ ~ Failed /\ ~ Through
  /\ LET status == Inspected(world)[Len(verdicts) + 1]
     IN  IF status = "hang" THEN GoTo("hung")
         ELSE /\ verdicts' = Append(verdicts, status)
              /\ UNCHANGED <<entry, world, place, signals, starts, startupOk, onDisk,
                             killTried, ending>>
  /\ UNCHANGED ladderVars

(* on_failure hands the verdict to the ladder, without a re-poll. *)
HandleFailure ==
  /\ place = "gate"
  /\ Failed /\ entry # NoEnforce
  /\ Begin(Main, "handle",
           <<[probe |-> GateProbes[Len(verdicts)], status |-> "fail"]>>, FALSE)
  /\ GoTo("handling")

Enforce_HandleOnly ==   \* mutant: a failed gate is handled and nothing more
  /\ place = "handling" /\ pc[Main] = "idle"
  /\ GoTo("enforcing")
  /\ UNCHANGED ladderVars

Enforce ==
  /\ place = "handling" /\ pc[Main] = "idle"
  /\ Shutdown(Main, OnFailure)
  /\ GoTo("enforcing")

(* attach raises StartupGateFailed, preflight exits with EXIT_FAIL. *)
Enforced ==
  /\ place = "enforcing" /\ pc[Main] = "idle"
  /\ End("gateFailed")
  /\ UNCHANGED ladderVars

Measured ==
  {k \in Baselines : IF k = "baseline/rollout" THEN Regime = "rl" /\ verdicts[14] = "ok"
                                              ELSE verdicts[13] = "ok"}

Payload == {"startup_ok"} \cup Measured

(* _log_startup_ok of the command line swallows what it cannot publish;    *)
(* the log_result of attach logs into the run of the process, if it has    *)
(* one, and lets wandb.log raise.                                          *)
Report ==
  /\ place = "gate"
  /\ entry # "attach"
  /\ Through \/ (Failed /\ entry = NoEnforce)
  /\ startupOk' \in IF entry = Preflight THEN {startupOk, Payload} ELSE {startupOk}
  /\ place' = "over"
  /\ ending' = "reported"
  /\ UNCHANGED <<ladderVars, entry, world, verdicts, signals, starts, onDisk, killTried>>

Attach ==
  /\ place = "gate"
  /\ Through /\ entry = "attach"
  /\ IF world.local = "raises" THEN End("publishRaised")
     ELSE /\ place' = "train"
          /\ startupOk' = IF world.local = "logs" THEN Payload ELSE startupOk
          /\ UNCHANGED <<entry, world, verdicts, signals, starts, onDisk, killTried, ending>>
  /\ UNCHANGED ladderVars

-----------------------------------------------------------------------------
(* The with statement (its threads are Watchdog's), and signals.           *)

SaveCheckpoint ==
  /\ place = "train"
  /\ onDisk' = TRUE
  /\ UNCHANGED <<ladderVars, entry, world, place, verdicts, signals, starts, startupOk,
                 killTried, ending>>

Leave ==
  /\ place = "train"
  /\ Shutdown(Main, OnTerminal)
  /\ GoTo("leaving")

Left ==
  /\ place = "leaving" /\ pc[Main] = "idle"
  /\ End("left")
  /\ UNCHANGED ladderVars

(* attach installs the handlers before it runs the gate; preflight has     *)
(* none.  A hook that hangs in foreign code lets no handler run.           *)
Signal ==
  /\ entry = "attach"
  /\ place \in {"gate", "handling", "enforcing", "train", "leaving", "handler",
               "exiting"}
  /\ signals < MaxSignals
  /\ signals' = signals + 1
  /\ place' = "handler"
  /\ Return(Main)
  /\ UNCHANGED <<blindFor, haltRequested, terminated, requested, saved, pod, sinceReadable,
                 entry, world, verdicts, starts, startupOk, onDisk, killTried, ending>>

Handler ==
  /\ place = "handler"
  /\ Shutdown(Main, OnTerminal)
  /\ GoTo("exiting")

(* SystemExit, which neither the gate nor a probe catches. *)
Exited ==
  /\ place = "exiting" /\ pc[Main] = "idle"
  /\ End("signalled")
  /\ UNCHANGED ladderVars

(* The ladder's steps in a call of the gate or of an exit guard.  A key    *)
(* that cannot write, or a service that does not answer, kills nothing.    *)
InLadder ==
  /\ place \in {"handling", "enforcing", "leaving", "exiting"}
  /\ \/ /\ Notify(Main) \/ Alert(Main) \/ Flush(Main) \/ Record(Main)
        /\ UNCHANGED killTried
     \/ /\ KillPod(Main)
        /\ world.key = "readOnly" => pod' = pod
        /\ killTried' = TRUE
  /\ UNCHANGED <<entry, world, place, verdicts, signals, starts, startupOk, onDisk, ending>>

-----------------------------------------------------------------------------
(* Around the process.                                                     *)

(* SIGKILL, the OOM killer, or a signal without a handler. *)
Killed ==
  /\ place # "over"
  /\ Return(Main)
  /\ End("killed")
  /\ UNCHANGED <<blindFor, haltRequested, terminated, requested, saved, pod, sinceReadable>>

PodTakesProcess ==
  /\ pod # "running"
  /\ place # "over"
  /\ Return(Main)
  /\ End("podGone")
  /\ UNCHANGED <<blindFor, haltRequested, terminated, requested, saved, pod, sinceReadable>>

(* The container restarts on a pod that still runs, or somebody starts a   *)
(* stopped pod or the script again: a new process on the same volume.      *)
Restart ==
  /\ place = "over"
  /\ pod # "terminated"
  /\ starts < MaxStarts
  /\ starts' = starts + 1
  /\ pod' = "running"
  /\ terminated' = FALSE
  /\ requested' = FALSE
  /\ world' \in Later
  /\ place' = "start"
  /\ verdicts' = <<>>
  /\ signals' = 0
  /\ killTried' = FALSE
  /\ ending' = "none"
  /\ UNCHANGED <<blindFor, haltRequested, callVars, saved, sinceReadable, entry, startupOk,
                 onDisk>>

Lost == PodLost /\ UNCHANGED gateVars

GateStep ==
  \/ Start \/ Inspect \/ HandleFailure \/ Enforce \/ Enforced \/ Report \/ Attach
  \/ Left \/ Handler \/ Exited \/ InLadder

GateNext ==
  GateStep \/ SaveCheckpoint \/ Leave \/ Signal \/ Killed \/ PodTakesProcess
  \/ Restart \/ Lost

(* The main thread runs; nothing else is owed. *)
GateSpec == GateInit /\ [][GateNext]_vars /\ WF_vars(GateStep)

-----------------------------------------------------------------------------
(* What the gate promises.                                                 *)

(* What the volume would truly take: the quota binds whether du says so or not. *)
Room(w) == IF Quota = 0 THEN w.statvfs ELSE AtMost(w.statvfs, Longer(0, Quota - w.used))

(* The run that trains can save what it trains, be seen from outside and be *)
(* killed from outside, as far as the gate was told: du may be silent on a *)
(* slow mount (then statvfs decides), and RunPod may not answer the PATCH. *)
TrainsWhatItCanSaveSeeAndKill ==
  place = "train" =>
    /\ world.volume = "good"
    /\ Room(world) >= MinDisk \/ ~ world.du
    /\ world.run = "readable" /\ world.canary \in {"unwired", "back"}
    /\ HasPod /\ world.key \in {"write", "noAnswer"}

(* A hook of the trainer may hang, and the gate with it.  That pod is      *)
(* visible in W&B and its key was not refused, so the sentinel's deadline  *)
(* can end it; nothing but a hook makes the gate hang.                     *)
HungGateCanBeKilled ==
  place = "hung" =>
    /\ \E h \in Hooks : world.hook[h] = "hangs"
    /\ world.run = "readable" /\ world.key # "readOnly" /\ Delivered(world) > 0

(* gate_and_enforce: "never leave a failed pod running"; attach: "guarantee *)
(* shutdown".  A start that failed its gate, left the with statement or    *)
(* was signalled has made the kill call.                                   *)
NoWayOutUnguarded ==
  ending \in {"gateFailed", "left", "signalled"} => killTried

(* The gate says what it found, whatever the order of the rest: it refuses *)
(* no pod every probe of which would have passed or could not tell.        *)
RefusesOnlyForCause ==
  place \in {"handling", "enforcing"} \/ ending = "gateFailed" =>
    \E i \in 1 .. Len(GateProbes) : Inspected(world)[i] = "fail"

(* "the gate must not become the indefinite block it exists to prevent":   *)
(* with no hook that hangs, a start comes to the training loop or ends.    *)
GateDecides ==
  (place = "start" /\ \A h \in Hooks : world.hook[h] # "hangs") ~> (place \in {"train", "over"})
=============================================================================
