------------------------------ MODULE Watchdog ------------------------------
(***************************************************************************)
(* The process inside the pod: the training loop and its exit guard on the *)
(* main thread, the supervisor of rlmwatch/watchdog.py on another, and the *)
(* ladder they share without a lock.  A signal runs its handler on the     *)
(* main thread, whatever that thread is doing.  When the main thread is    *)
(* gone the daemon thread is too, in the middle of whatever it did.        *)
(***************************************************************************)
EXTENDS Ladder

CONSTANTS
  WatchOrder,   \* the watchdog's probes, in order
  HasBackend,   \* gen_backend_health was passed
  Stall,        \* ctx.stall_threshold_s(), in ticks
  MaxSignals    \* bound on the SIGTERMs and SIGINTs that arrive

Main == "main"
Dog  == "watchdog"

ASSUME WatchdogAssumption ==
  /\ Thread = {Main, Dog} /\ Poller = {Dog}
  /\ WatchOrder \in Seq(Probe) /\ WatchOrder # <<>>
  /\ {"fail", "ok", "warn", "unknown"} \subseteq Poll
  /\ HasBackend \in BOOLEAN
  /\ Stall \in Nat
  /\ MaxSignals \in Nat

VARIABLES
  mpc,         \* where the main thread is in the training script
  inBody,      \* the signal being handled came inside the with statement
  signals,     \* how many have come
  wpc,         \* where the watchdog thread is in its loop
  next,        \* tick's local: index of the probe it is at
  stopSet,     \* Watchdog._stop
  stepAge,     \* time since local["step_updated_at"], NoStep before step()
  seenAge,     \* local["now"] - local["step_updated_at"]
  backendUp,   \* what the generation backend's health endpoint would answer
  lastHealth,  \* local["gen_backend_healthy"]
  reported,    \* history: the trainer reported while a confirmation slept
  exitTried    \* history: the main thread has made a kill call

mainVars    == <<mpc, inBody, signals, exitTried>>
dogVars     == <<wpc, next, lastHealth>>
reportVars  == <<stepAge, seenAge, reported>>
watchVars   == <<mainVars, dogVars, reportVars, stopSet, backendUp>>
vars        == <<ladderVars, watchVars>>

NoStep  == -1
Body    == {"train", "save", "look"}
Exiting == {"exit", "join", "guard", "leaving"}

WatchdogTypeOK ==
  /\ mpc \in Body \cup Exiting \cup {"hung", "handler", "handling", "gone"}
  /\ inBody \in BOOLEAN
  /\ signals \in 0 .. MaxSignals
  /\ wpc \in {"waiting", "sweep", "done"}
  /\ next \in 1 .. Len(WatchOrder) + 1
  /\ stopSet \in BOOLEAN
  /\ stepAge \in NoStep .. Stall + 1
  /\ seenAge \in NoStep .. Stall + 1
  /\ backendUp \in BOOLEAN
  /\ lastHealth \in {"healthy", "down", "unreported"}
  /\ reported \in BOOLEAN
  /\ exitTried \in BOOLEAN

WatchdogInit ==
  /\ LadderInit
  /\ mpc = "train"
  /\ inBody = FALSE
  /\ signals = 0
  /\ wpc = "waiting"
  /\ next = 1
  /\ stopSet = FALSE
  /\ stepAge = NoStep
  /\ seenAge = NoStep
  /\ backendUp = TRUE
  /\ lastHealth = "unreported"
  /\ reported = FALSE
  /\ exitTried = FALSE

-----------------------------------------------------------------------------
(* The training loop.                                                      *)

(* step and heartbeat stamp step_updated_at and now under the lock. *)
Report ==
  /\ stepAge' = 0
  /\ seenAge' = 0
  /\ reported' = (reported \/ pc[Dog] = "confirm")

(* A heartbeat before the first step is stamped, but no step is known. *)
Heartbeat ==
  /\ mpc = "train"
  /\ stepAge # NoStep
  /\ Report
  /\ UNCHANGED <<ladderVars, mainVars, dogVars, stopSet, backendUp>>

Step ==
  /\ mpc = "train"
  /\ mpc' = "save"
  /\ Report
  /\ UNCHANGED <<ladderVars, inBody, signals, exitTried, dogVars, stopSet, backendUp>>

GoTo(place) ==
  /\ mpc' = place
  /\ UNCHANGED <<ladderVars, inBody, signals, exitTried, dogVars, reportVars,
                 stopSet, backendUp>>

(* The safe point: the request is looked at, then the flag. *)
Save ==
  /\ mpc = "save"
  /\ mpc' = "look"
  /\ saved' = (saved \/ requested)
  /\ UNCHANGED <<blindFor, haltRequested, terminated, callVars, requested, pod, sinceReadable,
                 inBody, signals, exitTried, dogVars, reportVars, stopSet, backendUp>>

Continue == mpc = "look" /\ ~ haltRequested /\ GoTo("train")
Break    == mpc = "look" /\ haltRequested /\ GoTo("exit")
LastStep == mpc = "look" /\ ~ haltRequested /\ GoTo("exit")
Raise    == mpc \in {"train", "save"} /\ GoTo("exit")
Wedge    == mpc = "train" /\ GoTo("hung")

-----------------------------------------------------------------------------
(* __exit__ and the signal handler.                                        *)

Stop ==
  /\ mpc = "exit"
  /\ stopSet' = TRUE
  /\ mpc' = "join"
  /\ UNCHANGED <<ladderVars, inBody, signals, exitTried, dogVars, reportVars, backendUp>>

(* The thread is done, or the join's timeout is over. *)
Join == mpc = "join" /\ GoTo("guard")

Guard ==
  /\ mpc = "guard"
  /\ Shutdown(Main, OnTerminal)
  /\ mpc' = "leaving"
  /\ UNCHANGED <<inBody, signals, exitTried, dogVars, reportVars, stopSet, backendUp>>

Leave == mpc = "leaving" /\ pc[Main] = "idle" /\ GoTo("gone")

(* A main thread that hangs in foreign code never runs the handler.  The   *)
(* call the signal interrupts is not resumed: SystemExit is no Exception.  *)
Signal ==
  /\ mpc \notin {"hung", "gone"}
  /\ signals < MaxSignals
  /\ signals' = signals + 1
  /\ mpc' = "handler"
  /\ inBody' = (mpc \in Body \/ (mpc \in {"handler", "handling"} /\ inBody))
  /\ Return(Main)
  /\ UNCHANGED <<blindFor, haltRequested, terminated, requested, saved, pod, sinceReadable,
                 exitTried, dogVars, reportVars, stopSet, backendUp>>

Handler_NoShutdown ==   \* mutant: the handler leaves the shutdown to __exit__
  /\ mpc = "handler"
  /\ mpc' = "handling"
  /\ UNCHANGED <<ladderVars, inBody, signals, exitTried, dogVars, reportVars, stopSet,
                 backendUp>>

Handler ==
  /\ mpc = "handler"
  /\ Shutdown(Main, OnTerminal)
  /\ mpc' = "handling"
  /\ UNCHANGED <<inBody, signals, exitTried, dogVars, reportVars, stopSet, backendUp>>

Unwound_Resumes ==   \* mutant: the handler returns instead of raising SystemExit
  /\ mpc = "handling"
  /\ pc[Main] = "idle"
  /\ mpc' = IF inBody THEN "train" ELSE "exit"
  /\ inBody' = FALSE
  /\ UNCHANGED <<ladderVars, signals, exitTried, dogVars, reportVars, stopSet, backendUp>>

(* SystemExit: through the with statement, or out of __exit__. *)
Unwound ==
  /\ mpc = "handling"
  /\ pc[Main] = "idle"
  /\ mpc' = IF inBody THEN "exit" ELSE "gone"
  /\ inBody' = FALSE
  /\ UNCHANGED <<ladderVars, signals, exitTried, dogVars, reportVars, stopSet, backendUp>>

(* The exit guard's way through the ladder. *)
ExitGuard ==
  /\ mpc \in {"leaving", "handling"}
  /\ \/ /\ Alert(Main) \/ Flush(Main) \/ Record(Main)
        /\ UNCHANGED exitTried
     \/ /\ KillPod(Main)
        /\ exitTried' = TRUE
  /\ UNCHANGED <<mpc, inBody, signals, dogVars, reportVars, stopSet, backendUp>>

-----------------------------------------------------------------------------
(* The watchdog thread.                                                    *)

Alive == mpc # "gone"

StartTick_OldClock ==   \* mutant: a tick does not set local["now"]
  /\ Alive
  /\ wpc = "waiting"
  /\ ~ stopSet
  /\ wpc' = "sweep"
  /\ lastHealth' \in IF HasBackend THEN {IF backendUp THEN "healthy" ELSE "down", "unreported"}
                     ELSE {"unreported"}
  /\ UNCHANGED <<ladderVars, mainVars, next, reportVars, stopSet, backendUp>>

(* tick asks the backend once, under the lock; a check that raises reports *)
(* nothing.                                                                *)
StartTick ==
  /\ Alive
  /\ wpc = "waiting"
  /\ ~ stopSet
  /\ wpc' = "sweep"
  /\ seenAge' = stepAge
  /\ lastHealth' \in IF HasBackend THEN {IF backendUp THEN "healthy" ELSE "down", "unreported"}
                     ELSE {"unreported"}
  /\ UNCHANGED <<ladderVars, mainVars, next, stepAge, reported, stopSet, backendUp>>

EndLoop ==
  /\ Alive
  /\ wpc = "waiting"
  /\ stopSet
  /\ wpc' = "done"
  /\ UNCHANGED <<ladderVars, mainVars, next, lastHealth, reportVars, stopSet,
                 backendUp>>

StepCounterReading ==
  CASE seenAge = NoStep                         -> "unknown"
    [] seenAge # NoStep /\ seenAge > Stall      -> "fail"
    [] OTHER                                    -> "ok"

BackendReading ==
  CASE lastHealth = "unreported" -> "unknown"
    [] lastHealth = "down"       -> "fail"
    [] OTHER                     -> "ok"

Reading(p) ==
  CASE p = "liveness.step_counter"  -> {StepCounterReading}
    [] p = "rlm.generation_backend" -> {BackendReading}
    [] OTHER                        -> Status    \* what W&B has of a metric

(* probe.check, and the ladder's handle with the same probe as re-poll. *)
Check ==
  /\ Alive
  /\ wpc = "sweep" /\ pc[Dog] = "idle"
  /\ next <= Len(WatchOrder)
  /\ \E s \in Reading(WatchOrder[next]) :
       Begin(Dog, "handle", <<[probe |-> WatchOrder[next], status |-> s]>>, TRUE)
  /\ next' = next + 1
  /\ reported' = FALSE
  /\ UNCHANGED <<mainVars, wpc, lastHealth, stepAge, seenAge, stopSet,
                 backendUp>>

Repoll_FirstVerdict ==   \* mutant: the re-poll hands back the first verdict
  /\ Alive
  /\ wpc = "sweep"
  /\ Recheck(Dog, "fail")
  /\ UNCHANGED <<mainVars, wpc, next, lastHealth, reportVars, stopSet, backendUp>>

Repoll ==
  /\ Alive
  /\ wpc = "sweep" /\ next > 1
  /\ \E r \in Reading(WatchOrder[next - 1]) : Recheck(Dog, r)
  /\ UNCHANGED <<mainVars, wpc, next, lastHealth, reportVars, stopSet, backendUp>>

Escalate ==
  /\ Alive
  /\ Advance(Dog)
  /\ UNCHANGED watchVars

EndTick ==
  /\ Alive
  /\ wpc = "sweep" /\ pc[Dog] = "idle"
  /\ next = Len(WatchOrder) + 1
  /\ wpc' = "waiting"
  /\ next' = 1
  /\ reported' = FALSE
  /\ UNCHANGED <<ladderVars, mainVars, lastHealth, stepAge, seenAge, stopSet, backendUp>>

-----------------------------------------------------------------------------
(* Around the process.                                                     *)

(* A pod that is stopped or deleted takes its processes along. *)
PodTakesProcess ==
  /\ pod # "running"
  /\ Alive
  /\ GoTo("gone")

(* The backend goes down and comes back as time passes. *)
Pass ==
  /\ Tick
  /\ backendUp' \in IF HasBackend THEN BOOLEAN ELSE {TRUE}
  /\ stepAge' = IF stepAge = NoStep THEN NoStep ELSE AtMost(stepAge + 1, Stall + 1)
  /\ UNCHANGED <<mainVars, dogVars, seenAge, reported, stopSet>>

DogStep ==
  StartTick \/ EndLoop \/ Check \/ Repoll \/ Escalate \/ EndTick

ExitStep == Stop \/ Join \/ Guard \/ Leave \/ Handler \/ Unwound \/ ExitGuard

TrainStep ==
  \/ Heartbeat \/ Step \/ Save \/ Continue \/ Break \/ LastStep
  \/ Raise \/ Wedge

WatchdogNext ==
  DogStep \/ ExitStep \/ TrainStep \/ Signal \/ PodTakesProcess \/ Pass

WatchdogSpec == WatchdogInit /\ [][WatchdogNext]_vars

(* Both threads get to run while there is something for them to do, and    *)
(* time passes.  Nothing is assumed of the training step, which may hang.  *)
LiveWatchdog ==
  WatchdogSpec /\ WF_vars(DogStep) /\ WF_vars(ExitStep) /\ WF_vars(Pass)

-----------------------------------------------------------------------------
(* What the in-pod process promises.                                       *)

(* Watchdog.__exit__: no exit path leaves a billing pod, at least not      *)
(* untried, wherever a signal lands.                                       *)
NoOrphanedExit == mpc = "gone" => exitTried \/ pod # "running"

(* A trainer that reports between the two readings of its step counter is  *)
(* left alone.                                                             *)
ReportingTrainerIsLeftAlone ==
  pc[Dog] \in Beyond /\ Item_(Dog).probe = "liveness.step_counter" => ~ reported

(* A trainer that hangs after a step is killed, and as often as it takes.  *)
WedgedTrainerIsKilled ==
  (mpc = "hung" /\ stepAge # NoStep) ~> ("kill" \in steps[Dog] \/ pod # "running")

(* The end of the loop and a signal both end the process: "the watchdog    *)
(* must never be the reason a process refuses to exit".                    *)
ExitCompletes == (mpc \in {"exit", "handler"}) ~> (mpc = "gone")

(* Watchdog.halted: breaking out of the loop on it "gets a checkpoint      *)
(* written at a safe point".                                               *)
HaltedLoopIsSaved == [][mpc = "look" /\ haltRequested /\ mpc' = "exit" => saved]_vars
=============================================================================
