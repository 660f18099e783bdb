--------------------------- MODULE SentinelProofs ---------------------------
(***************************************************************************)
(* What the sentinel promises, for every set of probes, every order of     *)
(* them, all delays, and whatever goes wrong around it, restarts included. *)
(***************************************************************************)
EXTENDS Sentinel, LadderProofs

InCall     == {"deadlineCall", "batch", "deadmanCall", "deadlineShut", "deadmanShut"}
DeepBeyond == {"halt", "checkpoint", "wait", "alert", "flush", "kill"}

(* Training leaves a trace: W&B has the run, and the pod runs. *)
TrainingShows ==
  train = "training" => run.state = "running" /\ run.logged /\ pod = "running"

(* The ladder's call of a tick: about which verdicts, and how far. *)
CallOfTick ==
  /\ pc[Me] # "idle" => spc \in InCall
  /\ pc[Me] = "idle" => cur[Me] = 1 /\ waited[Me] = 0
  /\ pc[Me] # "idle" /\ spc \in {"deadlineCall", "batch", "deadmanCall"} =>
       /\ mode[Me] # "shutdown" /\ (spc = "deadlineCall" => mode[Me] = "handle")
       /\ cur[Me] \in 1 .. Len(work[Me])
       /\ pc[Me] = "confirm" => cur[Me] = 1
       /\ pc[Me] \in Beyond => EffectiveLevel(Item_(Me)) > NOTIFY
       /\ pc[Me] \in DeepBeyond => Item_(Me).target >= HALT

(* Both shutdowns come to their kill, and nothing else ends the watch of a *)
(* pod that still runs.                                                    *)
ShutdownKills ==
  /\ spc \in {"deadlineShut", "deadmanShut"} =>
       \/ pc[Me] \in {"alert", "flush", "kill"} /\ mode[Me] = "shutdown"
       \/ pc[Me] = "record" /\ mode[Me] = "shutdown" /\ tried
       \/ pc[Me] = "idle" /\ tried
  /\ NoUntriedGivingUp

(* What the sentinel takes for the silence is not more than it is, but for *)
(* a guess, and while a contact of the tick is not yet written down.       *)
SilenceOK ==
  /\ ~ guessed /\ (~ contacted \/ spc \in {"contact", "tickEnd", "asleep"}) => silence <= unheard
  /\ SwitchHasWaited

(* What the verdicts at hand mean for a run that was healthy all along. *)
Judged ==
  /\ spc \in {"deadline", "sweep"} => ~ steady
  /\ spc = "batch" /\ steady =>
       \A i \in 1 .. Len(work[Me]) :
         work[Me][i].probe \in Observing => work[Me][i].second # "fail"
  /\ spc = "deadmanCall" =>
       pc[Me] # "confirm" /\ \A i \in 1 .. Len(work[Me]) : work[Me][i].second # "fail"
  /\ spc = "deadlineCall" => \A i \in 1 .. Len(work[Me]) : work[Me][i].target < HALT
  /\ spc = "deadlineCall" /\ pc[Me] = "confirm" =>
       /\ ~ steady
       /\ Len(work[Me]) = 1
       /\ waited[Me] = 0 \/ cache = NoRun
  /\ spc \in {"deadlineCall", "deadlineShut"} /\ pc[Me] # "raised" /\ steady => ~ answered

SentinelInv ==
  /\ TypeOK
  /\ SentinelTypeOK
  /\ TerminatedIsTrue
  /\ TrainingShows
  /\ CallOfTick
  /\ ShutdownKills
  /\ SilenceOK
  /\ Judged

-----------------------------------------------------------------------------
(* The constants, the steps, and the start.                                *)

LEMMA OneThread == Me \in Thread /\ Thread = {Me}
BY SentinelAssumption DEF Me

LEMMA BoundsAreNumbers ==
  /\ AgeCap \in Nat /\ Deadline \in Nat /\ DeadMan \in Nat
  /\ Len(SweepOrder) \in Nat /\ SweepOrder \in Seq(Probe)
  /\ ConfirmDelay \in Nat \ {0}
BY SentinelAssumption, LadderAssumption DEF AgeCap, Longer

WorldAlone ==
  InitRun \/ LogStep \/ Hang \/ Die \/ Complete \/ GrowStale \/ NoticeDeath \/ PassCap
    \/ ChangeReach

OwnAlone ==
  Contact \/ DeadlineMet \/ Check \/ HeardSomething \/ StillWaiting \/ StopAfterShutdown \/ EndTick

LEMMA AloneLeavesLadder ==
  WorldAlone \/ OwnAlone \/ UNCHANGED vars => UNCHANGED ladderVars
BY DEF WorldAlone, OwnAlone, InitRun, LogStep, Hang, Die, Complete, GrowStale, NoticeDeath,
       PassCap, ChangeReach, Trains, Contact, DeadlineMet, Check, HeardSomething, StillWaiting,
       StopAfterShutdown, EndTick, vars

Begins   == DeadlineMissed \/ HandleSweep \/ DeadMansSwitch
Rechecks == DeadlineRecheck \/ SweepRecheck
Shuts    == DeadlineShutdown \/ DeadManShutdown

LEMMA EveryStep ==
  [SentinelNext]_vars =>
    \/ WorldAlone \/ OwnAlone \/ UNCHANGED vars
    \/ Begins \/ Rechecks \/ Shuts
    \/ Crash \/ Kill \/ Escalate \/ Restart \/ LosePod \/ Pass
BY DEF SentinelNext, SentinelStep, World, WorldAlone, OwnAlone, Begins, Rechecks, Shuts

LEMMA StartsWatching == SentinelInit => SentinelInv
<1> SUFFICES ASSUME SentinelInit PROVE SentinelInv
  OBVIOUS
<1>1. TypeOK /\ pc[Me] = "idle" /\ cur[Me] = 1 /\ waited[Me] = 0
  BY InitType, OneThread DEF SentinelInit, LadderInit
<1>2. SentinelTypeOK
  <2>1. podAge \in 0 .. AgeCap /\ silence \in 0 .. DeadMan /\ unheard \in 0 .. DeadMan
    BY BoundsAreNumbers DEF SentinelInit
  <2>2. verdicts \in Seq(Verdict) /\ Len(verdicts) <= Len(SweepOrder)
    BY BoundsAreNumbers DEF SentinelInit
  <2> QED
    BY <2>1, <2>2 DEF SentinelInit, SentinelTypeOK, RunRecord, NoRun
<1>3. TerminatedIsTrue /\ TrainingShows /\ CallOfTick /\ ShutdownKills /\ SilenceOK /\ Judged
  BY <1>1
     DEF SentinelInit, LadderInit, TerminatedIsTrue, TrainingShows, CallOfTick, ShutdownKills,
         NoUntriedGivingUp, SilenceOK, SwitchHasWaited, Judged
<1> QED
  BY <1>1, <1>2, <1>3 DEF SentinelInv

-----------------------------------------------------------------------------
(* The types.                                                              *)

LEMMA ReadingIsStatus == \A p, v : Reading(p, v) \subseteq Status
<1>1. \A v : /\ PodStatusReading \subseteq Status /\ RunStateReading(v) \subseteq Status
             /\ ObserverAgreementReading(v) \subseteq Status
  BY DEF PodStatusReading, RunStateReading, ObserverAgreementReading, Status
<1>2. \A v : /\ ProgressAgeReading(v) \subseteq Status /\ GpuUtilReading(v) \subseteq Status
             /\ CapReading \subseteq Status
  BY DEF ProgressAgeReading, GpuUtilReading, CapReading, Status
<1>3. {"unknown"} \subseteq Status
  BY DEF Status
<1> QED
  BY <1>1, <1>2, <1>3 DEF Reading

LEMMA ViewIsRecord ==
  ASSUME SentinelTypeOK
  PROVE  View \in RunRecord /\ run \in RunRecord /\ NoRun \in RunRecord
BY DEF View, SentinelTypeOK, RunRecord, NoRun

(* The sentinel hands the ladder verdicts, and calls it from idle. *)
LEMMA BeginsBegin ==
  ASSUME SentinelTypeOK, Begins
  PROVE  \E vs \in Seq(Verdict), m \in {"handle", "batch"}, hasRecheck \in BOOLEAN :
           /\ vs # <<>>
           /\ spc' = "deadlineCall" => m = "handle"
           /\ Begin(Me, m, vs, hasRecheck)
<1>1. CASE HandleSweep
  <2>1. verdicts \in Seq(Verdict) /\ Len(verdicts) = Len(SweepOrder)
    BY <1>1 DEF HandleSweep, SentinelTypeOK
  <2>2. Len(SweepOrder) # 0
    BY SentinelAssumption
  <2>3. verdicts # <<>>
    BY <2>1, <2>2
  <2> QED
    BY <1>1, <2>1, <2>3 DEF HandleSweep
<1>2. \A p \in Own : <<[probe |-> p, status |-> "fail"]>> \in Seq(Verdict)
  <2>1. \A p \in Own : p \in Probe
    BY SentinelAssumption
  <2>2. \A p \in Own : [probe |-> p, status |-> "fail"] \in Verdict
    BY <2>1 DEF Verdict, Status
  <2>3. \A v \in Verdict : <<v>> \in Seq(Verdict)
    OBVIOUS
  <2> QED
    BY <2>2, <2>3
<1>3. CASE DeadlineMissed
  BY <1>2, <1>3 DEF DeadlineMissed, Own
<1>4. CASE DeadMansSwitch
  BY <1>2, <1>4 DEF DeadMansSwitch, Own
<1> QED
  BY <1>1, <1>3, <1>4 DEF Begins

LEMMA RestartType ==
  ASSUME TypeOK, Restart
  PROVE  TypeOK'
<1>1. /\ pc' \in [Thread -> Place] /\ mode' \in [Thread -> Mode] /\ work' \in [Thread -> Seq(Item)]
      /\ cur' \in [Thread -> Nat] /\ waited' \in [Thread -> 0 .. WaitCap]
      /\ action' \in [Thread -> Action] /\ steps' \in [Thread -> SUBSET Steps]
  BY ReturnType, OneThread DEF Restart
<1>2. blindFor' \in [Probe -> NotBlind .. UnknownTolerance]
  BY LadderAssumption DEF Restart, NotBlind
<1>3. sinceReadable' \in [Probe -> 0 .. UnknownTolerance]
  BY LadderAssumption DEF Restart
<1> QED
  BY <1>1, <1>2, <1>3 DEF Restart, TypeOK

(* The record a re-poll of the sweep looks at. *)
Fresh == IF "wandb" \in up THEN run ELSE NoRun

LEMMA SweepRechecksOne ==
  ASSUME SweepRecheck
  PROVE  \E i \in Pending(Me) :
           /\ \A j \in Pending(Me) : i <= j
           /\ \E r \in Reading(work[Me][i].probe, Fresh) : r \in Poll /\ Recheck(Me, r)
           /\ Repolled(Fresh)
<1>1. PICK i \in Pending(Me) :
        /\ \A j \in Pending(Me) : i <= j
        /\ \E r \in Reading(work[Me][i].probe, Fresh) : Recheck(Me, r)
        /\ Repolled(Fresh)
  BY DEF SweepRecheck, Fresh
<1>2. Reading(work[Me][i].probe, Fresh) \subseteq Poll
  BY ReadingIsStatus, SentinelAssumption
<1> QED
  BY <1>1, <1>2

(* A recheck answers with a status, or with the deadline's None. *)
LEMMA RechecksRecheck ==
  ASSUME Rechecks
  PROVE  \E r \in Poll : Recheck(Me, r)
<1>1. CASE DeadlineRecheck
  <2>1. (IF Overdue(View) THEN "fail" ELSE "none") \in Poll
    BY SentinelAssumption DEF Status
  <2> QED
    BY <1>1, <2>1 DEF DeadlineRecheck
<1>2. CASE SweepRecheck
  BY <1>2, SweepRechecksOne
<1> QED
  BY <1>1, <1>2 DEF Rechecks

LEMMA LadderPart == ASSUME SentinelInv, [SentinelNext]_vars PROVE TypeOK'
<1>1. TypeOK /\ SentinelTypeOK /\ Me \in Thread
  BY OneThread DEF SentinelInv
<1>2. CASE WorldAlone \/ OwnAlone \/ UNCHANGED vars
  BY <1>1, <1>2, AloneLeavesLadder DEF ladderVars, callVars, TypeOK
<1>3. CASE Begins
  BY <1>1, <1>3, BeginsBegin, BeginType
<1>4. CASE Rechecks
  BY <1>1, <1>4, RechecksRecheck, RecheckType
<1>5. CASE Shuts
  BY <1>1, <1>5, OtherType, LadderAssumption DEF Shuts, DeadlineShutdown, DeadManShutdown
<1>6. CASE Crash \/ Kill \/ Escalate
  BY <1>1, <1>6, OtherType DEF Crash, Kill, Escalate, Advance
<1>7. CASE Restart
  BY <1>1, <1>7, RestartType
<1>8. CASE LosePod \/ Pass
  BY <1>1, <1>8, WorldType DEF LosePod, Pass
<1> QED
  BY <1>2, <1>3, <1>4, <1>5, <1>6, <1>7, <1>8, EveryStep

LEMMA TypePart == ASSUME SentinelInv, [SentinelNext]_vars PROVE SentinelTypeOK'
<1>1. /\ SentinelTypeOK /\ View \in RunRecord /\ NoRun \in RunRecord /\ Fresh \in RunRecord
      /\ AgeCap \in Nat /\ DeadMan \in Nat
  BY ViewIsRecord, BoundsAreNumbers DEF SentinelInv, Fresh
<1>2. CASE Contact \/ StopAfterShutdown \/ StillWaiting
  <2>1. CASE Contact
    <3>1. unheard' \in 0 .. DeadMan /\ guessed' \in BOOLEAN /\ contacted' \in BOOLEAN
      BY <1>1, <2>1 DEF SentinelTypeOK, Contact
    <3> QED
      BY <1>1, <2>1, <3>1 DEF SentinelTypeOK, Contact, worldVars
  <2>2. CASE StopAfterShutdown \/ StillWaiting
    <3>1. spc' \in {"stopped", "tickEnd"} /\ UNCHANGED <<worldVars, ownVars, historyVars>>
      BY <2>2 DEF StopAfterShutdown, StillWaiting
    <3> QED
      BY <1>1, <3>1 DEF SentinelTypeOK, worldVars, ownVars, historyVars, heardVars
  <2> QED
    BY <1>2, <2>1, <2>2
<1>3. CASE DeadlineMet
  <2>1. okSeen' \in BOOLEAN
    BY <1>1, <1>3 DEF DeadlineMet, Started, SentinelTypeOK, RunRecord
  <2> QED
    BY <1>1, <1>3, <2>1 DEF SentinelTypeOK, DeadlineMet, worldVars, historyVars, heardVars
<1>4. CASE Check
  <2>1. PICK s \in Status :
          verdicts' = Append(verdicts, [probe |-> SweepOrder[Len(verdicts) + 1], status |-> s])
    BY <1>4, ReadingIsStatus DEF Check
  <2>2. verdicts \in Seq(Verdict) /\ Len(verdicts) < Len(SweepOrder)
    BY <1>1, <1>4 DEF SentinelTypeOK, Check
  <2>3. SweepOrder[Len(verdicts) + 1] \in Probe
    BY <2>2, BoundsAreNumbers
  <2>4. [probe |-> SweepOrder[Len(verdicts) + 1], status |-> s] \in Verdict
    BY <2>3 DEF Verdict
  <2>5. verdicts' \in Seq(Verdict) /\ Len(verdicts') <= Len(SweepOrder)
    BY <2>1, <2>2, <2>4, BoundsAreNumbers
  <2> QED
    BY <1>1, <1>4, <2>5 DEF SentinelTypeOK, Check, worldVars, historyVars, heardVars
<1>5. CASE HeardSomething \/ EndTick
  <2>1. silence' \in 0 .. DeadMan
    BY <1>1, <1>5 DEF SentinelTypeOK, HeardSomething, EndTick
  <2>2. /\ spc' \in {"tickEnd", "stopped", "asleep"} /\ cache' \in {cache, View}
        /\ UNCHANGED <<worldVars, podAge, okSeen, contacted, verdicts, historyVars>>
    BY <1>5 DEF HeardSomething, EndTick
  <2> QED
    BY <1>1, <2>1, <2>2 DEF SentinelTypeOK, worldVars, historyVars, heardVars
<1>6. CASE Begins
  <2>1. verdicts' = verdicts \/ verdicts' = <<>>
    BY <1>6 DEF Begins, DeadlineMissed, HandleSweep, DeadMansSwitch, ownVars
  <2>2. verdicts' \in Seq(Verdict) /\ Len(verdicts') <= Len(SweepOrder)
    <3>1. <<>> \in Seq(Verdict) /\ Len(<<>>) <= Len(SweepOrder)
      BY BoundsAreNumbers
    <3> QED
      BY <1>1, <2>1, <3>1 DEF SentinelTypeOK
  <2>3. /\ spc' \in {"deadlineCall", "batch", "deadmanCall"} /\ cache' \in {cache, View}
        /\ UNCHANGED <<worldVars, podAge, silence, okSeen, contacted, historyVars>>
    BY <1>6 DEF Begins, DeadlineMissed, HandleSweep, DeadMansSwitch, ownVars
  <2> QED
    BY <1>1, <2>2, <2>3 DEF SentinelTypeOK, worldVars, historyVars, heardVars
<1>7. ASSUME NEW v \in RunRecord, Repolled(v)
      PROVE  cache' \in RunRecord /\ steady' \in BOOLEAN /\ answered' \in BOOLEAN
  BY <1>7 DEF Repolled
<1>8. CASE DeadlineRecheck
  <2>1. okSeen' \in BOOLEAN
    BY <1>1, <1>8 DEF DeadlineRecheck, Started, SentinelTypeOK, RunRecord
  <2>2. cache' \in RunRecord /\ steady' \in BOOLEAN /\ answered' \in BOOLEAN
    BY <1>1, <1>7, <1>8 DEF DeadlineRecheck
  <2> QED
    BY <1>1, <1>8, <2>1, <2>2 DEF SentinelTypeOK, DeadlineRecheck, worldVars, heardVars
<1>9. CASE SweepRecheck
  <2>1. cache' \in RunRecord /\ steady' \in BOOLEAN /\ answered' \in BOOLEAN
    BY <1>1, <1>7, <1>9, SweepRechecksOne
  <2> QED
    BY <1>1, <1>9, <2>1 DEF SentinelTypeOK, SweepRecheck, worldVars, heardVars
<1>10. CASE Shuts \/ Crash
  <2>1. UNCHANGED <<worldVars, ownVars, historyVars>>
    BY <1>10 DEF Shuts, Crash, DeadlineShutdown, DeadManShutdown
  <2>2. spc' \in {"deadlineShut", "deadmanShut", "crashed"}
    BY <1>10 DEF Shuts, Crash, DeadlineShutdown, DeadManShutdown
  <2> QED
    BY <1>1, <2>1, <2>2 DEF SentinelTypeOK, worldVars, ownVars, historyVars, heardVars
<1>11. CASE Kill
  <2>1. train' \in {"starting", "training", "hung", "dead", "done"} /\ steady' \in BOOLEAN
    BY <1>1, <1>11 DEF SentinelTypeOK, Kill, Survivor
  <2> QED
    BY <1>1, <1>11, <2>1 DEF SentinelTypeOK, Kill, ownVars, heardVars
<1>12. CASE Escalate \/ UNCHANGED vars
  <2>1. UNCHANGED sentinelVars
    BY <1>12 DEF Escalate, vars
  <2> QED
    BY <1>1, <2>1 DEF SentinelTypeOK, sentinelVars, worldVars, ownVars, historyVars, heardVars
<1>13. CASE Restart
  <2>1. podAge' \in 0 .. AgeCap
    BY <1>1, <1>13 DEF SentinelTypeOK, Restart
  <2>2. silence' \in 0 .. DeadMan
    <3>1. podAge' \in Nat
      BY <1>1, <2>1
    <3> QED
      BY <1>1, <1>13, <3>1 DEF Restart, AtMost
  <2>3. verdicts' \in Seq(Verdict) /\ Len(verdicts') <= Len(SweepOrder)
    BY <1>13, BoundsAreNumbers DEF Restart
  <2> QED
    BY <1>1, <1>13, <2>1, <2>2, <2>3, SentinelAssumption DEF SentinelTypeOK, Restart, worldVars
<1>14. ASSUME NEW next \in {"starting", "training", "hung", "dead", "done"},
              NEW record \in RunRecord, Trains(next, record)
       PROVE  SentinelTypeOK'
  <2>1. steady' \in BOOLEAN
    BY <1>14 DEF Trains
  <2> QED
    BY <1>1, <1>14, <2>1 DEF SentinelTypeOK, Trains, ownVars, heardVars
<1>15. CASE WorldAlone /\ ~ PassCap /\ ~ ChangeReach
  <2>1. /\ train \in {"starting", "training", "hung", "dead", "done"}
        /\ run \in RunRecord
        /\ \A st \in {"running", "crashed", "finished"} :
             [run EXCEPT !.state = st] \in RunRecord /\ [NoRun EXCEPT !.state = st] \in RunRecord
        /\ [run EXCEPT !.stale = TRUE] \in RunRecord
        /\ [state |-> "running", logged |-> TRUE, stale |-> FALSE] \in RunRecord
    BY <1>1 DEF SentinelTypeOK, RunRecord
  <2>2. \E next \in {"starting", "training", "hung", "dead", "done"}, record \in RunRecord :
           Trains(next, record)
    BY <1>15, <2>1
       DEF WorldAlone, InitRun, LogStep, Hang, Die, Complete, GrowStale, NoticeDeath
  <2> QED
    BY <1>14, <2>2
<1>16. CASE PassCap \/ ChangeReach
  <2>1. capPassed' \in BOOLEAN /\ steady' \in BOOLEAN /\ up' \subseteq {"wandb", "runpod"}
    BY <1>1, <1>16 DEF SentinelTypeOK, PassCap, ChangeReach, historyVars, heardVars
  <2> QED
    BY <1>1, <1>16, <2>1 DEF SentinelTypeOK, PassCap, ChangeReach, ownVars, historyVars, heardVars
<1>17. CASE LosePod
  <2>1. /\ train' \in {"starting", "training", "hung", "dead", "done"} /\ steady' \in BOOLEAN
        /\ UNCHANGED <<up, run, capPassed, spc, ownVars, answered, tried, heardVars>>
    BY <1>1, <1>17 DEF SentinelTypeOK, LosePod, Survivor
  <2> QED
    BY <1>1, <2>1 DEF SentinelTypeOK, ownVars, heardVars
<1>18. CASE Pass
  <2>1. podAge' \in 0 .. AgeCap /\ silence' \in 0 .. DeadMan /\ unheard' \in 0 .. DeadMan
    BY <1>1, <1>18 DEF SentinelTypeOK, Pass, AtMost
  <2> QED
    BY <1>1, <1>18, <2>1 DEF SentinelTypeOK, Pass, worldVars, historyVars, heardVars
<1> QED
  BY <1>2, <1>3, <1>4, <1>5, <1>6, <1>8, <1>9, <1>10, <1>11, <1>12, <1>13, <1>15, <1>16, <1>17,
     <1>18, EveryStep
     DEF OwnAlone, WorldAlone, Rechecks

-----------------------------------------------------------------------------
(* What the ladder's steps do to the call.                                 *)

(* A call begins with the verdicts it was handed, none of them polled a    *)
(* second time.                                                            *)
LEMMA CallBegins ==
  ASSUME TypeOK, NEW m \in {"handle", "batch"}, NEW vs \in Seq(Verdict), vs # <<>>,
         NEW hasRecheck \in BOOLEAN, Begin(Me, m, vs, hasRecheck)
  PROVE  /\ pc[Me] = "idle" /\ pc'[Me] \in {"confirm", "act"} /\ mode'[Me] = m
         /\ ~ hasRecheck => pc'[Me] = "act"
         /\ UNCHANGED <<cur, waited, pod, terminated>>
         /\ Len(work'[Me]) = Len(vs) /\ Len(vs) \in Nat \ {0}
         /\ \A i \in 1 .. Len(vs) : work'[Me][i] = Decide(vs[i])
<1>1. Me \in Thread
  BY OneThread
<1>2. work'[Me] = [i \in 1 .. Len(vs) |-> Decide(vs[i])]
  BY <1>1 DEF Begin, TypeOK
<1>3. Len(vs) \in Nat \ {0}
  OBVIOUS
<1>4. Len(work'[Me]) = Len(vs) /\ \A i \in 1 .. Len(vs) : work'[Me][i] = Decide(vs[i])
  BY <1>2, <1>3
<1> QED
  BY <1>1, <1>3, <1>4 DEF Begin, TypeOK

(* A re-poll writes the second reading of the first verdict that wants one. *)
LEMMA CallRechecks ==
  ASSUME TypeOK, NEW r \in Poll, Recheck(Me, r)
  PROVE  /\ pc[Me] = "confirm" /\ pc'[Me] \in {"confirm", "act", "raised"}
         /\ UNCHANGED <<mode, cur, waited, pod, terminated>>
         /\ waited[Me] >= ConfirmDelay
         /\ Len(work'[Me]) = Len(work[Me])
         /\ \/ pc'[Me] = "raised" /\ r = "none" /\ UNCHANGED work
            \/ r # "none" \/ mode[Me] = "batch"
         /\ \/ pc'[Me] = "raised" /\ UNCHANGED work
            \/ \E i \in Pending(Me) :
                 /\ \A j \in Pending(Me) : i <= j
                 /\ work'[Me][i].second = r
                 /\ pc'[Me] = IF Pending(Me) = {i} THEN "act" ELSE "confirm"
                 /\ \A j \in 1 .. Len(work[Me]) : /\ j # i => work'[Me][j] = work[Me][j]
                                                /\ work'[Me][j].target = work[Me][j].target
                                                /\ work'[Me][j].probe = work[Me][j].probe
<1>1. Me \in Thread /\ pc[Me] = "confirm"
  BY OneThread DEF Recheck
<1>2. UNCHANGED <<mode, cur, waited, pod, terminated>> /\ waited[Me] >= ConfirmDelay
  BY DEF Recheck
<1>3. CASE r = "none" /\ pc' = [pc EXCEPT ![Me] = "raised"] /\ UNCHANGED work
  BY <1>1, <1>2, <1>3 DEF TypeOK
<1>4. ASSUME NEW i \in Pending(Me),
             \A j \in Pending(Me) : i <= j,
             work' = [work EXCEPT ![Me][i].second = r, ![Me][i].gap = waited[Me]],
             pc' = [pc EXCEPT ![Me] = IF Pending(Me) = {i} THEN "act" ELSE "confirm"]
      PROVE  /\ pc'[Me] \in {"confirm", "act"}
             /\ pc'[Me] = IF Pending(Me) = {i} THEN "act" ELSE "confirm"
             /\ Len(work'[Me]) = Len(work[Me])
             /\ work'[Me][i].second = r
             /\ \A j \in 1 .. Len(work[Me]) : /\ j # i => work'[Me][j] = work[Me][j]
                                            /\ work'[Me][j].target = work[Me][j].target
                                            /\ work'[Me][j].probe = work[Me][j].probe
  <2>1. work[Me] \in Seq(Item) /\ i \in 1 .. Len(work[Me]) /\ work[Me][i] \in Item
    BY <1>1, <1>4 DEF TypeOK, Pending
  <2> DEFINE new == [work[Me][i] EXCEPT !.second = r, !.gap = waited[Me]]
  <2>2. work'[Me] = [work[Me] EXCEPT ![i] = new]
    BY <1>1, <1>4, <2>1 DEF TypeOK
  <2>3. new.second = r /\ new.target = work[Me][i].target /\ new.probe = work[Me][i].probe
    BY <2>1 DEF Item
  <2> HIDE DEF new
  <2>4. /\ Len(work'[Me]) = Len(work[Me])
        /\ \A j \in 1 .. Len(work[Me]) : work'[Me][j] = IF j = i THEN new ELSE work[Me][j]
    BY <2>1, <2>2
  <2>5. pc'[Me] = IF Pending(Me) = {i} THEN "act" ELSE "confirm"
    BY <1>1, <1>4 DEF TypeOK
  <2> QED
    BY <2>1, <2>3, <2>4, <2>5
<1> QED
  BY <1>1, <1>2, <1>3, <1>4 DEF Recheck

-----------------------------------------------------------------------------
(* The parts of the invariant, one by one.                                 *)

LEMMA BeliefPart == ASSUME SentinelInv, [SentinelNext]_vars PROVE TerminatedIsTrue'
<1>1. TypeOK /\ TerminatedIsTrue /\ Me \in Thread
  BY OneThread DEF SentinelInv
<1>2. CASE WorldAlone \/ OwnAlone \/ UNCHANGED vars
  BY <1>1, <1>2, AloneLeavesLadder DEF ladderVars, TerminatedIsTrue
<1>3. CASE Begins
  BY <1>1, <1>3
     DEF TerminatedIsTrue, Begins, DeadlineMissed, HandleSweep, DeadMansSwitch, Begin
<1>4. CASE Rechecks
  BY <1>1, <1>4, RechecksRecheck DEF TerminatedIsTrue, Recheck
<1>5. CASE Shuts \/ Crash
  BY <1>1, <1>5
     DEF TerminatedIsTrue, Shuts, DeadlineShutdown, DeadManShutdown, Shutdown, Crash, Unwind
<1>6. CASE Kill
  BY <1>1, <1>6 DEF TerminatedIsTrue, Kill, KillPod, Off, TypeOK
<1>7. CASE Escalate
  BY <1>1, <1>7
     DEF TerminatedIsTrue, Escalate, Notify, Snapshot, RequestHalt, RequestCheckpoint, Alert,
         Flush, Record
<1>8. CASE Restart \/ LosePod \/ Pass
  BY <1>1, <1>8 DEF TerminatedIsTrue, Restart, LosePod, PodLost, Pass, Tick, TypeOK
<1> QED
  BY <1>2, <1>3, <1>4, <1>5, <1>6, <1>7, <1>8, EveryStep

(* Nothing the sentinel does starts a pod, and only a kill or the world    *)
(* takes one down.                                                         *)
LEMMA PodMoves ==
  ASSUME [SentinelNext]_vars
  PROVE  \/ UNCHANGED pod
         \/ (Kill \/ LosePod) /\ pod' # "running"
<1>1. CASE WorldAlone \/ OwnAlone \/ UNCHANGED vars
  BY <1>1, AloneLeavesLadder DEF ladderVars
<1>2. CASE Begins
  BY <1>2 DEF Begins, DeadlineMissed, HandleSweep, DeadMansSwitch, Begin
<1>3. CASE Rechecks
  BY <1>3, RechecksRecheck DEF Recheck
<1>4. CASE Shuts \/ Crash
  BY <1>4 DEF Shuts, DeadlineShutdown, DeadManShutdown, Shutdown, Crash, Unwind
<1>5. CASE Kill
  BY <1>5 DEF Kill, KillPod, Off
<1>6. CASE Escalate
  BY <1>6
     DEF Escalate, Notify, Snapshot, RequestHalt, RequestCheckpoint, Alert, Flush, Record
<1>7. CASE Restart \/ LosePod \/ Pass
  BY <1>7 DEF Restart, LosePod, PodLost, Pass, Tick
<1> QED
  BY <1>1, <1>2, <1>3, <1>4, <1>5, <1>6, <1>7, EveryStep

LEMMA TrainingPart == ASSUME SentinelInv, [SentinelNext]_vars PROVE TrainingShows'
<1>1. SentinelTypeOK /\ TrainingShows
  BY DEF SentinelInv
<1>2. CASE WorldAlone
  <2>1. UNCHANGED pod
    BY <1>2, AloneLeavesLadder DEF ladderVars
  <2>2. run \in RunRecord
    BY <1>1 DEF SentinelTypeOK
  <2> QED
    BY <1>1, <1>2, <2>1, <2>2
       DEF TrainingShows, WorldAlone, InitRun, LogStep, Hang, Die, Complete, GrowStale,
           NoticeDeath, PassCap, ChangeReach, Trains, RunRecord
<1>3. CASE Kill \/ LosePod
  <2>1. UNCHANGED run /\ train' = Survivor(pod') /\ (UNCHANGED pod \/ pod' # "running")
    BY <1>3, PodMoves DEF Kill, LosePod
  <2> QED
    BY <1>1, <2>1 DEF TrainingShows, Survivor
<1>4. CASE ~ (WorldAlone \/ Kill \/ LosePod)
  <2>1. UNCHANGED <<train, run>>
    BY <1>4, EveryStep
       DEF OwnAlone, Begins, Rechecks, Shuts, Contact, DeadlineMet, Check, HeardSomething,
           StillWaiting, StopAfterShutdown, EndTick, DeadlineMissed, HandleSweep,
           DeadMansSwitch, DeadlineRecheck, SweepRecheck, DeadlineShutdown, DeadManShutdown,
           Crash, Escalate, Restart, Pass, vars, sentinelVars, worldVars
  <2>2. UNCHANGED pod
    BY <1>4, PodMoves
  <2> QED
    BY <1>1, <2>1, <2>2 DEF TrainingShows
<1> QED
  BY <1>2, <1>3, <1>4

(* Once a shutdown is begun, only its kill leads to the end of the watch.  *)
LEMMA ShutdownPart == ASSUME SentinelInv, [SentinelNext]_vars PROVE ShutdownKills'
<1>1. /\ TypeOK /\ SentinelTypeOK /\ ShutdownKills /\ TerminatedIsTrue /\ Me \in Thread
      /\ (pod # "running" => pod' # "running")
      /\ (pc[Me] # "idle" => spc \in InCall)
  BY OneThread, PodMoves DEF SentinelInv, CallOfTick
<1>2. CASE Shuts
  BY <1>1, <1>2
     DEF ShutdownKills, NoUntriedGivingUp, TypeOK, Shuts, DeadlineShutdown, DeadManShutdown,
         Shutdown, historyVars
<1>3. CASE Kill
  BY <1>1, <1>3 DEF ShutdownKills, NoUntriedGivingUp, TypeOK, Kill, KillPod, Do
<1>4. CASE Escalate
  <2>1. UNCHANGED <<spc, tried>>
    BY <1>4 DEF Escalate, sentinelVars, historyVars
  <2>2. CASE Alert(Me) \/ Flush(Me)
    BY <1>1, <2>1, <2>2 DEF ShutdownKills, NoUntriedGivingUp, TypeOK, Alert, Flush, Do
  <2>3. CASE Record(Me)
    BY <1>1, <2>1, <2>3 DEF ShutdownKills, NoUntriedGivingUp, TypeOK, Record, Return
  <2>4. CASE Notify(Me) \/ Snapshot(Me) \/ RequestHalt(Me) \/ RequestCheckpoint(Me)
    BY <1>1, <2>1, <2>4
       DEF ShutdownKills, NoUntriedGivingUp, Notify, Snapshot, RequestHalt, RequestCheckpoint
  <2> QED
    BY <1>4, <2>2, <2>3, <2>4 DEF Escalate
<1>5. CASE StopAfterShutdown
  BY <1>1, <1>5
     DEF ShutdownKills, NoUntriedGivingUp, StopAfterShutdown, Returned, historyVars
<1>6. CASE EndTick
  BY <1>1, <1>6
     DEF ShutdownKills, NoUntriedGivingUp, TerminatedIsTrue, EndTick, Finished, ladderVars,
         historyVars
<1>7. CASE Restart \/ Crash
  BY <1>1, <1>7 DEF ShutdownKills, NoUntriedGivingUp, Restart, Crash, historyVars
<1>8. CASE Begins \/ Rechecks
  BY <1>1, <1>8
     DEF ShutdownKills, NoUntriedGivingUp, Begins, Rechecks, DeadlineMissed, HandleSweep,
         DeadMansSwitch, DeadlineRecheck, SweepRecheck
<1>9. CASE Contact \/ DeadlineMet \/ Check \/ HeardSomething \/ StillWaiting
  BY <1>1, <1>9
     DEF ShutdownKills, NoUntriedGivingUp, Contact, DeadlineMet, Check, HeardSomething,
         StillWaiting
<1>10. CASE Pass
  <2>1. UNCHANGED <<pc, mode, tried>> /\ (spc' = spc \/ spc' = "contact")
    BY <1>10 DEF Pass, Tick, historyVars
  <2> QED
    BY <1>1, <2>1 DEF ShutdownKills, NoUntriedGivingUp
<1>11. CASE WorldAlone \/ LosePod \/ UNCHANGED vars
  <2>1. UNCHANGED <<pc, mode>>
    BY <1>11, AloneLeavesLadder DEF LosePod, PodLost, ladderVars, callVars
  <2>2. UNCHANGED <<spc, tried>>
    BY <1>11
       DEF WorldAlone, InitRun, LogStep, Hang, Die, Complete, GrowStale, NoticeDeath, PassCap,
           ChangeReach, Trains, LosePod, vars, sentinelVars, historyVars
  <2> QED
    BY <1>1, <2>1, <2>2 DEF ShutdownKills, NoUntriedGivingUp
<1> QED
  BY <1>2, <1>3, <1>4, <1>5, <1>6, <1>7, <1>8, <1>9, <1>10, <1>11, EveryStep DEF OwnAlone

LEMMA CallPart == ASSUME SentinelInv, [SentinelNext]_vars PROVE CallOfTick'
<1>1. TypeOK /\ SentinelTypeOK /\ CallOfTick /\ Me \in Thread
  BY OneThread DEF SentinelInv
<1>2. CASE WorldAlone \/ LosePod \/ UNCHANGED vars
  <2>1. UNCHANGED callVars
    BY <1>2, AloneLeavesLadder DEF LosePod, PodLost, ladderVars
  <2>2. UNCHANGED spc
    BY <1>2
       DEF WorldAlone, InitRun, LogStep, Hang, Die, Complete, GrowStale, NoticeDeath, PassCap,
           ChangeReach, Trains, LosePod, vars, sentinelVars
  <2> QED
    BY <1>1, <2>1, <2>2 DEF CallOfTick, callVars, Item_, EffectiveLevel, Unconfirmed
<1>3. CASE OwnAlone
  <2>1. UNCHANGED callVars
    BY <1>3, AloneLeavesLadder DEF ladderVars
  <2>2. pc[Me] = "idle"
    <3>1. CASE Contact \/ DeadlineMet \/ Check \/ EndTick
      BY <1>1, <3>1 DEF CallOfTick, InCall, Contact, DeadlineMet, Check, EndTick
    <3>2. CASE HeardSomething \/ StillWaiting \/ StopAfterShutdown
      BY <3>2 DEF HeardSomething, StillWaiting, StopAfterShutdown, Returned
    <3> QED
      BY <1>3, <3>1, <3>2 DEF OwnAlone
  <2> QED
    BY <1>1, <2>1, <2>2 DEF CallOfTick, callVars
<1>4. CASE Pass
  <2>1. UNCHANGED <<pc, mode, work, cur>> /\ (spc' = spc \/ spc = "asleep")
    BY <1>4 DEF Pass, Tick
  <2>2. pc[Me] = "idle" => waited'[Me] = waited[Me]
    BY <1>1, <1>4 DEF Pass, Tick
  <2> QED
    BY <1>1, <2>1, <2>2 DEF CallOfTick, InCall, Item_, EffectiveLevel, Unconfirmed
<1>5. CASE Begins
  <2>1. PICK vs \in Seq(Verdict), m \in {"handle", "batch"}, hasRecheck \in BOOLEAN :
          vs # <<>> /\ (spc' = "deadlineCall" => m = "handle") /\ Begin(Me, m, vs, hasRecheck)
    BY <1>1, <1>5, BeginsBegin
  <2>2. /\ pc[Me] = "idle" /\ pc'[Me] \in {"confirm", "act"} /\ mode'[Me] = m
        /\ UNCHANGED cur /\ Len(work'[Me]) \in Nat \ {0}
    BY <1>1, <2>1, CallBegins
  <2>3. spc' \in InCall
    BY <1>5 DEF Begins, DeadlineMissed, HandleSweep, DeadMansSwitch, InCall
  <2>4. cur'[Me] = 1 /\ 1 \in 1 .. Len(work'[Me])
    BY <1>1, <2>2 DEF CallOfTick
  <2> QED
    BY <2>1, <2>2, <2>3, <2>4 DEF CallOfTick, Beyond, DeepBeyond
<1>6. CASE Rechecks
  <2>1. PICK r \in Poll : Recheck(Me, r)
    BY <1>6, RechecksRecheck
  <2>2. /\ pc[Me] = "confirm" /\ pc'[Me] \in {"confirm", "act", "raised"}
        /\ UNCHANGED <<mode, cur>> /\ Len(work'[Me]) = Len(work[Me])
    BY <1>1, <2>1, CallRechecks
  <2>3. UNCHANGED spc
    BY <1>6 DEF Rechecks, DeadlineRecheck, SweepRecheck
  <2> QED
    BY <1>1, <2>2, <2>3 DEF CallOfTick, Beyond, DeepBeyond
<1>7. CASE Shuts
  <2>1. pc'[Me] = "alert" /\ spc' \in {"deadlineShut", "deadmanShut"}
    BY <1>1, <1>7 DEF Shuts, DeadlineShutdown, DeadManShutdown, Shutdown, TypeOK
  <2> QED
    BY <2>1 DEF CallOfTick, InCall
<1>8. CASE Return(Me)
  <2>1. pc'[Me] = "idle" /\ cur'[Me] = 1 /\ waited'[Me] = 0
    BY <1>1, <1>8 DEF Return, TypeOK
  <2> QED
    BY <2>1 DEF CallOfTick
<1>9. CASE Crash \/ Restart
  BY <1>8, <1>9 DEF Crash, Unwind, Restart
<1>10. CASE Kill
  <2>1. pc[Me] = "kill" /\ pc'[Me] = "record" /\ UNCHANGED <<mode, work, cur, spc>>
    BY <1>1, <1>10 DEF Kill, KillPod, Do, TypeOK
  <2> QED
    BY <1>1, <2>1 DEF CallOfTick, Beyond, DeepBeyond
<1>11. CASE Escalate /\ ~ Return(Me)
  <2>1. UNCHANGED spc
    BY <1>11 DEF Escalate, sentinelVars
  <2>2. CASE mode[Me] # "shutdown" /\ cur[Me] \in 1 .. Len(work[Me])
    <3>1. work[Me] \in Seq(Item) /\ Item_(Me) \in Item
      <4>1. work[Me] \in Seq(Item)
        BY <1>1 DEF TypeOK
      <4>2. \A S : \A q \in Seq(S) : \A i \in 1 .. Len(q) : q[i] \in S
        OBVIOUS
      <4> QED
        BY <2>2, <4>1, <4>2 DEF Item_
    <3>2. Item_(Me).target \in LOG .. TERMINATE /\ Level_(Me) = EffectiveLevel(Item_(Me))
      BY <2>2, <3>1 DEF Item, Level, Level_
    <3>3. Level_(Me) >= HALT => Item_(Me).target >= HALT
      BY <3>2 DEF EffectiveLevel, LOG, NOTIFY, HALT, TERMINATE
    <3>4. Level_(Me) >= SNAPSHOT => EffectiveLevel(Item_(Me)) > NOTIFY
      BY <3>2 DEF EffectiveLevel, LOG, NOTIFY, SNAPSHOT, TERMINATE
    <3>5. CASE Notify(Me)
      <4>1. /\ pc[Me] = "act" /\ UNCHANGED <<mode, work, cur>>
            /\ pc'[Me] = IF Level_(Me) >= SNAPSHOT THEN "snapshot" ELSE "record"
        BY <1>1, <3>5 DEF Notify, TypeOK
      <4> QED
        BY <1>1, <2>1, <3>4, <4>1
           DEF CallOfTick, Beyond, DeepBeyond, Item_, EffectiveLevel, Unconfirmed
    <3>6. CASE Snapshot(Me)
      <4>1. /\ pc[Me] = "snapshot" /\ UNCHANGED <<mode, work, cur>>
            /\ pc'[Me] = IF Level_(Me) >= HALT THEN "halt" ELSE "record"
        BY <1>1, <3>6 DEF Snapshot, Do, TypeOK
      <4> QED
        BY <1>1, <2>1, <3>3, <4>1
           DEF CallOfTick, Beyond, DeepBeyond, Item_, EffectiveLevel, Unconfirmed
    <3>7. CASE RequestHalt(Me) \/ RequestCheckpoint(Me) \/ Alert(Me) \/ Flush(Me)
      <4>1. /\ pc[Me] \in DeepBeyond /\ pc'[Me] \in DeepBeyond
            /\ UNCHANGED <<mode, work, cur>>
        BY <1>1, <3>7 DEF RequestHalt, RequestCheckpoint, Alert, Flush, Do, TypeOK, DeepBeyond
      <4> QED
        BY <1>1, <2>1, <4>1
           DEF CallOfTick, Beyond, DeepBeyond, Item_, EffectiveLevel, Unconfirmed
    <3>8. CASE Record(Me)
      <4>1. /\ pc[Me] = "record" /\ pc'[Me] = "act" /\ UNCHANGED <<mode, work>>
            /\ cur'[Me] = cur[Me] + 1 /\ cur[Me] < Len(work[Me])
        BY <1>1, <1>11, <3>8 DEF Record, TypeOK
      <4>2. cur'[Me] \in 1 .. Len(work[Me])
        BY <2>2, <4>1
      <4> QED
        BY <1>1, <2>1, <4>1, <4>2 DEF CallOfTick, Beyond, DeepBeyond
    <3> QED
      BY <1>11, <3>5, <3>6, <3>7, <3>8 DEF Escalate
  <2>3. CASE ~ (mode[Me] # "shutdown" /\ cur[Me] \in 1 .. Len(work[Me]))
    <3>1. pc[Me] # "idle" /\ pc'[Me] # "idle"
      BY <1>1, <1>11
         DEF Escalate, Notify, Snapshot, RequestHalt, RequestCheckpoint, Alert, Flush, Record,
             Do, TypeOK
    <3> QED
      BY <1>1, <2>1, <2>3, <3>1 DEF CallOfTick
  <2> QED
    BY <2>2, <2>3
<1> QED
  BY <1>2, <1>3, <1>4, <1>5, <1>6, <1>7, <1>8, <1>9, <1>10, <1>11, EveryStep

(* The two clocks of the silence, the sentinel's and the true one. *)
LEMMA SilencePart == ASSUME SentinelInv, [SentinelNext]_vars PROVE SilenceOK'
<1>1. /\ SentinelTypeOK /\ SilenceOK /\ DeadMan \in Nat
      /\ silence \in 0 .. DeadMan /\ unheard \in 0 .. DeadMan
  BY BoundsAreNumbers DEF SentinelInv, SentinelTypeOK
<1>2. ASSUME UNCHANGED <<contacted, silence, heardVars>>,
             spc' \in {"contact", "tickEnd", "asleep"} => spc \in {"contact", "tickEnd", "asleep"},
             spc' \in {"deadmanCall", "deadmanShut"} => spc \in {"deadmanCall", "deadmanShut"}
      PROVE  SilenceOK'
  BY <1>1, <1>2 DEF SilenceOK, SwitchHasWaited, heardVars
<1>3. CASE WorldAlone \/ LosePod \/ UNCHANGED vars
  <2>1. UNCHANGED <<contacted, silence, heardVars, spc>>
    BY <1>3
       DEF WorldAlone, InitRun, LogStep, Hang, Die, Complete, GrowStale, NoticeDeath, PassCap,
           ChangeReach, Trains, LosePod, vars, sentinelVars, ownVars, historyVars
  <2> QED
    BY <1>2, <2>1
<1>4. CASE Contact
  BY <1>1, <1>4 DEF Contact, SilenceOK, SwitchHasWaited
<1>5. CASE DeadlineMet \/ Check \/ StopAfterShutdown \/ EndTick
  <2>1. UNCHANGED <<contacted, silence, heardVars>>
    BY <1>5 DEF DeadlineMet, Check, StopAfterShutdown, EndTick, ownVars, historyVars
  <2>2. /\ spc' \notin {"deadmanCall", "deadmanShut"}
        /\ spc' \in {"contact", "tickEnd", "asleep"} => spc \in {"contact", "tickEnd", "asleep"}
    BY <1>5 DEF DeadlineMet, Check, StopAfterShutdown, EndTick
  <2> QED
    BY <1>2, <2>1, <2>2
<1>6. CASE HeardSomething
  <2>1. silence' = 0 /\ unheard' = unheard /\ spc' = "tickEnd"
    BY <1>6 DEF HeardSomething, historyVars, heardVars
  <2> QED
    BY <1>1, <2>1 DEF SilenceOK, SwitchHasWaited
<1>7. CASE StillWaiting
  BY <1>1, <1>7 DEF StillWaiting, SilenceOK, SwitchHasWaited, ownVars, historyVars, heardVars
<1>8. CASE DeadlineMissed \/ HandleSweep \/ Rechecks \/ DeadlineShutdown \/ Crash \/ Kill
           \/ Escalate
  <2>1. UNCHANGED <<contacted, silence, heardVars>>
    BY <1>8
       DEF DeadlineMissed, HandleSweep, Rechecks, DeadlineRecheck, SweepRecheck,
           DeadlineShutdown, Crash, Kill, Escalate, sentinelVars, ownVars, historyVars
  <2>2. \/ UNCHANGED spc
        \/ spc' \in {"deadlineCall", "batch", "deadlineShut", "crashed"}
    BY <1>8
       DEF DeadlineMissed, HandleSweep, Rechecks, DeadlineRecheck, SweepRecheck,
           DeadlineShutdown, Crash, Kill, Escalate, sentinelVars
  <2> QED
    BY <1>2, <2>1, <2>2
<1>9. CASE DeadMansSwitch
  <2>1. /\ ~ contacted /\ silence >= DeadMan /\ spc' = "deadmanCall"
        /\ UNCHANGED <<contacted, silence, unheard, guessed>>
    BY <1>9 DEF DeadMansSwitch, ownVars, historyVars, heardVars
  <2> QED
    BY <1>1, <2>1 DEF SilenceOK, SwitchHasWaited
<1>10. CASE DeadManShutdown
  <2>1. spc = "deadmanCall" /\ spc' = "deadmanShut" /\ UNCHANGED <<contacted, silence, heardVars>>
    BY <1>10 DEF DeadManShutdown, ownVars, historyVars
  <2> QED
    BY <1>2, <2>1
<1>11. CASE Restart
  <2>1. /\ spc' = "contact" /\ guessed' = CreatedAtGiven /\ unheard' = unheard
        /\ ~ CreatedAtGiven => podAge' = 0
        /\ silence' = AtMost(podAge', DeadMan)
    BY <1>11 DEF Restart
  <2>2. ~ guessed' => silence' = 0
    BY <1>1, <2>1 DEF AtMost
  <2> QED
    BY <1>1, <2>1, <2>2 DEF SilenceOK, SwitchHasWaited
<1>12. CASE Pass
  <2>1. /\ spc' = spc \/ (spc = "asleep" /\ spc' = "contact")
        /\ silence' = AtMost(silence + 1, DeadMan) /\ unheard' = AtMost(unheard + 1, DeadMan)
        /\ UNCHANGED <<contacted, guessed>>
    BY <1>12 DEF Pass
  <2>2. /\ silence <= unheard => silence' <= unheard'
        /\ unheard >= DeadMan => unheard' >= DeadMan
    BY <1>1, <2>1 DEF AtMost
  <2> QED
    BY <1>1, <2>1, <2>2 DEF SilenceOK, SwitchHasWaited
<1> QED
  BY <1>3, <1>4, <1>5, <1>6, <1>7, <1>8, <1>9, <1>10, <1>11, <1>12, EveryStep
     DEF OwnAlone, Begins, Shuts

-----------------------------------------------------------------------------
(* The verdicts about a healthy run.                                       *)

(* No observing probe fails a run that trains, logs and is within its      *)
(* caps, when it is read afresh.                                           *)
LEMMA HealthyReadsWell ==
  ASSUME TrainingShows, Healthy, NEW p \in Observing
  PROVE  "fail" \notin Reading(p, Fresh)
<1>1. /\ train = "training" /\ run.state = "running" /\ run.logged /\ pod = "running"
      /\ ~ run.stale /\ ~ capPassed
  BY DEF TrainingShows, Healthy
<1>2. Unreadable(Fresh) \/ Fresh = run
  BY DEF Unreadable, Fresh
<1>3. "fail" \notin PodStatusReading /\ "fail" \notin CapReading
  BY <1>1 DEF PodStatusReading, CapReading
<1>4. "fail" \notin RunStateReading(Fresh) /\ "fail" \notin ObserverAgreementReading(Fresh)
  <2>1. CASE Unreadable(Fresh)
    <3>1. RunStateReading(Fresh) = {"unknown"}
      BY <2>1 DEF RunStateReading
    <3>2. NoRun.state = "none"
      BY DEF NoRun
    <3>3. Fresh.state = "none"
      BY <2>1, <3>2 DEF Unreadable
    <3>4. "fail" \notin ObserverAgreementReading(Fresh)
      BY <1>1, <3>3 DEF ObserverAgreementReading
    <3> QED
      BY <3>1, <3>4
  <2>2. CASE ~ Unreadable(Fresh) /\ Fresh.state = "running"
    <3>1. RunStateReading(Fresh) = {"ok"}
      BY <2>2 DEF RunStateReading
    <3>2. "fail" \notin ObserverAgreementReading(Fresh)
      BY <1>1, <2>2 DEF ObserverAgreementReading
    <3> QED
      BY <3>1, <3>2
  <2> QED
    BY <1>1, <1>2, <2>1, <2>2
<1>5. "fail" \notin ProgressAgeReading(Fresh)
  BY <1>1, <1>2 DEF ProgressAgeReading
<1> QED
  BY <1>3, <1>4, <1>5 DEF Reading, Observing

(* A run that trains has logged, so W&B, if it answers, is no witness of a *)
(* start that was missed.                                                  *)
LEMMA HealthyHasStarted ==
  ASSUME SentinelTypeOK, TrainingShows, Healthy, cache = NoRun, ~ Unreadable(View)
  PROVE  ~ Overdue(View)
BY DEF TrainingShows, Healthy, View, Unreadable, Overdue, Started

(* The verdict of the deadline is not one that halts or kills. *)
LEMMA DeadlineIsNoHalt ==
  ASSUME TypeOK
  PROVE  Decide([probe |-> "sentinel.startup_deadline", status |-> "fail"]).target < HALT
<1>1. "sentinel.startup_deadline" \notin DOMAIN ProbeOverride
  BY SentinelAssumption DEF Own
<1>2. FailLevel("sentinel.startup_deadline") = SNAPSHOT
  BY <1>1 DEF FailLevel, TerminateProbes, HaltProbes, NotifyProbes
<1>3. ResolveStatus("sentinel.startup_deadline", "fail") = "fail"
  BY DEF ResolveStatus
<1> QED
  BY <1>2, <1>3 DEF Decide, TargetLevel, SNAPSHOT, HALT

LEMMA BeginsJudged ==
  ASSUME SentinelInv, Begins
  PROVE  Judged'
<1>1. TypeOK /\ CallOfTick /\ Judged /\ SentinelTypeOK
  BY DEF SentinelInv
<1>2. CASE DeadlineMissed
  <2> DEFINE v  == [probe |-> "sentinel.startup_deadline", status |-> "fail"]
             vs == <<v>>
  <2>1. v \in Verdict /\ vs \in Seq(Verdict) /\ vs # <<>> /\ Len(vs) = 1 /\ vs[1] = v
    <3>1. v \in Verdict
      BY SentinelAssumption DEF Verdict, Status, Own
    <3> QED
      BY <3>1
  <2>2. Begin(Me, "handle", vs, TRUE) /\ Decide(v).target < HALT
    BY <1>1, <1>2, DeadlineIsNoHalt DEF DeadlineMissed
  <2> HIDE DEF v, vs
  <2>3. /\ pc[Me] = "idle" /\ UNCHANGED waited /\ Len(work'[Me]) = 1
        /\ \A i \in 1 .. 1 : work'[Me][i] = Decide(v)
    <3>1. /\ pc[Me] = "idle" /\ UNCHANGED waited /\ Len(work'[Me]) = Len(vs)
          /\ \A i \in 1 .. Len(vs) : work'[Me][i] = Decide(vs[i])
      BY <1>1, <2>1, <2>2, CallBegins
    <3>2. \A i \in 1 .. 1 : i = 1
      OBVIOUS
    <3> QED
      BY <2>1, <3>1, <3>2
  <2>4. waited'[Me] = 0 /\ ~ steady' /\ spc' = "deadlineCall"
    BY <1>1, <1>2, <2>3 DEF CallOfTick, Judged, DeadlineMissed, historyVars
  <2> QED
    BY <2>2, <2>3, <2>4 DEF Judged
<1>3. CASE HandleSweep
  BY <1>1, <1>3 DEF Judged, HandleSweep, historyVars
<1>4. CASE DeadMansSwitch
  <2> DEFINE v  == [probe |-> "sentinel.dead_mans_switch", status |-> "fail"]
             vs == <<v>>
  <2>1. v \in Verdict /\ vs \in Seq(Verdict) /\ vs # <<>> /\ Len(vs) = 1 /\ vs[1] = v
    <3>1. v \in Verdict
      BY SentinelAssumption DEF Verdict, Status, Own
    <3> QED
      BY <3>1
  <2>2. Begin(Me, "handle", vs, FALSE) /\ Decide(v).second = "unpolled"
    BY <1>1, <1>4, <2>1, DecideType DEF DeadMansSwitch
  <2> HIDE DEF v, vs
  <2>3. /\ Len(work'[Me]) = 1 /\ pc'[Me] = "act"
        /\ \A i \in 1 .. 1 : work'[Me][i] = Decide(v)
    <3>1. /\ pc'[Me] = "act" /\ Len(work'[Me]) = Len(vs)
          /\ \A i \in 1 .. Len(vs) : work'[Me][i] = Decide(vs[i])
      BY <1>1, <2>1, <2>2, CallBegins
    <3>2. \A i \in 1 .. 1 : i = 1
      OBVIOUS
    <3> QED
      BY <2>1, <3>1, <3>2
  <2>4. spc' = "deadmanCall"
    BY <1>4 DEF DeadMansSwitch
  <2> QED
    BY <2>2, <2>3, <2>4 DEF Judged
<1> QED
  BY <1>2, <1>3, <1>4 DEF Begins

(* The re-poll of the deadline: what W&B answers about a healthy run is    *)
(* that it has started.                                                    *)
LEMMA DeadlineRecheckJudged ==
  ASSUME SentinelInv, DeadlineRecheck
  PROVE  Judged'
<1>1. TypeOK /\ CallOfTick /\ Judged /\ SentinelTypeOK /\ TrainingShows /\ spc = "deadlineCall"
      /\ spc' = "deadlineCall"
  BY DEF SentinelInv, DeadlineRecheck
<1> DEFINE r == IF Overdue(View) THEN "fail" ELSE "none"
<1>2. r \in Poll /\ Recheck(Me, r)
  BY SentinelAssumption DEF DeadlineRecheck, Status
<1>3. r = "none" => ~ Overdue(View)
  OBVIOUS
<1> HIDE DEF r
<1>4. /\ pc[Me] = "confirm" /\ waited[Me] >= ConfirmDelay
      /\ Len(work'[Me]) = Len(work[Me])
      /\ \/ pc'[Me] = "raised" /\ r = "none" /\ UNCHANGED work
         \/ r # "none" \/ mode[Me] = "batch"
      /\ \/ pc'[Me] = "raised" /\ UNCHANGED work
         \/ \E i \in Pending(Me) :
              /\ pc'[Me] = IF Pending(Me) = {i} THEN "act" ELSE "confirm"
              /\ \A j \in 1 .. Len(work[Me]) : work'[Me][j].target = work[Me][j].target
  BY <1>1, <1>2, CallRechecks
<1>5. Len(work[Me]) = 1 /\ (waited[Me] = 0 \/ cache = NoRun) /\ mode[Me] = "handle"
  BY <1>1, <1>4 DEF Judged, CallOfTick
<1>6. cache = NoRun
  BY <1>4, <1>5, BoundsAreNumbers
<1>7. \A i \in Pending(Me) : Pending(Me) = {i}
  BY <1>5 DEF Pending
<1>8. pc'[Me] \in {"act", "raised"}
  BY <1>4, <1>7
<1>9. \A i \in 1 .. Len(work'[Me]) : work'[Me][i].target < HALT
  BY <1>1, <1>4 DEF Judged
<1>10. ASSUME pc'[Me] # "raised", steady' PROVE ~ answered'
  <2>1. r # "none"
    BY <1>4, <1>5, <1>10
  <2>2. Overdue(View)
    BY <2>1 DEF r
  <2>3. Healthy
    BY <1>10 DEF DeadlineRecheck, Repolled
  <2>4. Unreadable(View)
    BY <1>1, <1>6, <2>2, <2>3, HealthyHasStarted
  <2> QED
    BY <2>4 DEF DeadlineRecheck, Repolled
<1> QED
  BY <1>1, <1>8, <1>9, <1>10 DEF Judged

(* The re-poll of the sweep: no second failure of an observing probe while *)
(* the run is healthy.                                                     *)
LEMMA SweepRecheckJudged ==
  ASSUME SentinelInv, SweepRecheck
  PROVE  Judged'
<1>1. TypeOK /\ Judged /\ TrainingShows /\ spc = "batch" /\ spc' = "batch"
  BY DEF SentinelInv, SweepRecheck
<1>2. PICK i \in Pending(Me) :
        /\ \A j \in Pending(Me) : i <= j
        /\ \E r \in Reading(work[Me][i].probe, Fresh) : r \in Poll /\ Recheck(Me, r)
        /\ Repolled(Fresh)
  BY SweepRechecksOne
<1>3. PICK r \in Reading(work[Me][i].probe, Fresh) : r \in Poll /\ Recheck(Me, r)
  BY <1>2
<1>4. r # "none"
  BY <1>3, ReadingIsStatus DEF Status
<1>5. SUFFICES ASSUME steady', NEW j \in 1 .. Len(work'[Me]), work'[Me][j].probe \in Observing
              PROVE  work'[Me][j].second # "fail"
  BY <1>1 DEF Judged
<1>6. /\ Healthy
      /\ \A k \in 1 .. Len(work[Me]) :
           work[Me][k].probe \in Observing => work[Me][k].second # "fail"
  BY <1>1, <1>2, <1>5 DEF Repolled, Judged
<1>7. r = "fail" => work[Me][i].probe \notin Observing
  BY <1>1, <1>3, <1>6, HealthyReadsWell
<1>8. /\ Len(work'[Me]) = Len(work[Me])
      /\ \/ UNCHANGED work
         \/ \E k \in Pending(Me) :
              /\ \A l \in Pending(Me) : k <= l
              /\ work'[Me][k].second = r
              /\ \A l \in 1 .. Len(work[Me]) : /\ l # k => work'[Me][l] = work[Me][l]
                                             /\ work'[Me][l].probe = work[Me][l].probe
  BY <1>1, <1>3, CallRechecks
<1>9. CASE UNCHANGED work
  BY <1>5, <1>6, <1>9
<1>10. CASE ~ UNCHANGED work
  <2>1. PICK k \in Pending(Me) :
          /\ \A l \in Pending(Me) : k <= l
          /\ work'[Me][k].second = r
          /\ \A l \in 1 .. Len(work[Me]) : /\ l # k => work'[Me][l] = work[Me][l]
                                         /\ work'[Me][l].probe = work[Me][l].probe
    BY <1>8, <1>10
  <2>2. k = i
    BY <1>2, <2>1 DEF Pending
  <2>3. j \in 1 .. Len(work[Me]) /\ work[Me][j].probe \in Observing
    BY <1>5, <1>8, <2>1
  <2> QED
    BY <1>6, <1>7, <2>1, <2>2, <2>3
<1> QED
  BY <1>9, <1>10

LEMMA JudgedPart == ASSUME SentinelInv, [SentinelNext]_vars PROVE Judged'
<1>1. TypeOK /\ CallOfTick /\ Judged /\ SentinelTypeOK /\ Me \in Thread
  BY OneThread DEF SentinelInv
<1>2. CASE Begins \/ Rechecks
  BY <1>2, BeginsJudged, DeadlineRecheckJudged, SweepRecheckJudged DEF Rechecks
<1>3. CASE WorldAlone \/ LosePod \/ UNCHANGED vars
  <2>1. UNCHANGED callVars
    BY <1>3, AloneLeavesLadder DEF LosePod, PodLost, ladderVars
  <2>2. UNCHANGED <<spc, answered, cache>>
    BY <1>3
       DEF WorldAlone, InitRun, LogStep, Hang, Die, Complete, GrowStale, NoticeDeath, PassCap,
           ChangeReach, Trains, LosePod, vars, sentinelVars, ownVars, historyVars
  <2>3. steady' => steady
    <3>1. CASE WorldAlone
      <4>1. \A n, record : Trains(n, record) => (steady' => steady)
        BY DEF Trains
      <4> QED
        BY <3>1, <4>1
           DEF WorldAlone, InitRun, LogStep, Hang, Die, Complete, GrowStale, NoticeDeath, PassCap,
               ChangeReach, historyVars
    <3> QED
      BY <1>3, <3>1 DEF LosePod, vars, sentinelVars, historyVars
  <2> QED
    BY <1>1, <2>1, <2>2, <2>3 DEF Judged, callVars
<1>4. CASE OwnAlone
  BY <1>1, <1>4
     DEF Judged, OwnAlone, Contact, DeadlineMet, Check, HeardSomething, StillWaiting,
         StopAfterShutdown, EndTick, historyVars
<1>5. CASE Shuts
  <2>1. CASE DeadlineShutdown
    <3>1. pc[Me] = "idle" /\ spc = "deadlineCall" /\ spc' = "deadlineShut"
          /\ UNCHANGED <<steady, answered>>
      BY <2>1 DEF DeadlineShutdown, Shutdown, historyVars
    <3> QED
      BY <1>1, <3>1 DEF Judged
  <2>2. CASE DeadManShutdown
    BY <2>2 DEF Judged, DeadManShutdown
  <2> QED
    BY <1>5, <2>1, <2>2 DEF Shuts
<1>6. CASE Crash \/ Restart
  BY <1>6 DEF Judged, Crash, Restart
<1>7. CASE Kill
  <2>1. /\ pc[Me] = "kill" /\ pc'[Me] = "record" /\ (steady' => steady)
        /\ UNCHANGED <<spc, answered, work>>
    BY <1>1, <1>7 DEF Kill, KillPod, Do, TypeOK
  <2> QED
    BY <1>1, <2>1 DEF Judged
<1>8. CASE Escalate
  <2>1. UNCHANGED <<spc, steady, answered>>
    BY <1>8 DEF Escalate, sentinelVars, historyVars
  <2>2. pc'[Me] # "confirm" /\ pc[Me] # "raised"
    BY <1>1, <1>8
       DEF Escalate, Notify, Snapshot, RequestHalt, RequestCheckpoint, Alert, Flush, Record,
           Return, Do, TypeOK
  <2>3. work'[Me] = work[Me] \/ work'[Me] = <<>>
    BY <1>1, <1>8
       DEF Escalate, Notify, Snapshot, RequestHalt, RequestCheckpoint, Alert, Flush, Record,
           Return, TypeOK
  <2> QED
    BY <1>1, <2>1, <2>2, <2>3 DEF Judged
<1>9. CASE Pass
  <2>1. UNCHANGED <<pc, work, steady, answered>> /\ cache' = NoRun
        /\ (spc' = spc \/ spc' = "contact")
    BY <1>9 DEF Pass, Tick, historyVars
  <2> QED
    BY <1>1, <2>1 DEF Judged
<1> QED
  BY <1>2, <1>3, <1>4, <1>5, <1>6, <1>7, <1>8, <1>9, EveryStep

-----------------------------------------------------------------------------
(* The inductive invariant of the sentinel and its world. *)
THEOREM SentinelInvariance == SentinelSpec => []SentinelInv
<1>1. SentinelInv /\ [SentinelNext]_vars => SentinelInv'
  BY LadderPart, TypePart, BeliefPart, TrainingPart, CallPart, ShutdownPart,
     SilencePart, JudgedPart
     DEF SentinelInv
<1> QED
  BY <1>1, StartsWatching, PTL DEF SentinelSpec

(* The state of the sentinel, its world and its ladder is well typed. *)
THEOREM SentinelTypeCorrect == SentinelSpec => [](SentinelTypeOK /\ TypeOK)
<1>1. SentinelInv => SentinelTypeOK /\ TypeOK
  BY DEF SentinelInv
<1> QED
  BY <1>1, SentinelInvariance, PTL

(* _finished and result.terminated: whatever fails around it and however   *)
(* often it restarts, a sentinel that stopped left no pod running that it  *)
(* had not tried to kill.                                                  *)
THEOREM GivesUpOnlyAfterTrying == SentinelSpec => []NoUntriedGivingUp
<1>1. SentinelInv => NoUntriedGivingUp
  BY DEF SentinelInv, ShutdownKills
<1> QED
  BY <1>1, SentinelInvariance, PTL

(* The dead-man's switch is pulled on a silence that has lasted, for this  *)
(* process and those before it, or on the guess of one that restarted.     *)
THEOREM SwitchWaits == SentinelSpec => []SwitchHasWaited
<1>1. SentinelInv => SwitchHasWaited
  BY DEF SentinelInv, SilenceOK
<1> QED
  BY <1>1, SentinelInvariance, PTL

(* A run that is healthy from the re-poll on is killed for no verdict of   *)
(* an observing probe, whatever else the sentinel was given to ask; the    *)
(* deadline kills it only if W&B did not answer the re-poll.               *)
THEOREM HealthyRunIsSpared == SentinelSpec => []SeenRunIsNotKilled
<1>1. SentinelInv => SeenRunIsNotKilled
  <2> SUFFICES ASSUME SentinelInv, pc[Me] = "kill", steady
               PROVE  \/ spc = "deadlineShut" /\ ~ answered
                      \/ spc = "deadmanShut"
                      \/ spc = "batch" /\ Item_(Me).probe \notin Observing
    BY DEF SeenRunIsNotKilled
  <2>1. TypeOK /\ CallOfTick /\ Judged /\ spc \in InCall /\ Me \in Thread
    BY OneThread DEF SentinelInv, CallOfTick
  <2>2. ASSUME spc \in {"deadlineCall", "batch", "deadmanCall"}
        PROVE  spc = "batch" /\ Item_(Me).probe \notin Observing
    <3>1. /\ cur[Me] \in 1 .. Len(work[Me])
          /\ EffectiveLevel(Item_(Me)) > NOTIFY /\ Item_(Me).target >= HALT
      BY <2>1, <2>2 DEF CallOfTick, Beyond, DeepBeyond
    <3>2. CASE spc = "deadlineCall"
      <4>1. work[Me] \in Seq(Item) /\ Item_(Me).target < HALT
        BY <2>1, <3>1, <3>2 DEF Judged, Item_, TypeOK
      <4>2. \A S : \A q \in Seq(S) : \A i \in 1 .. Len(q) : q[i] \in S
        OBVIOUS
      <4>3. Item_(Me) \in Item
        BY <3>1, <4>1, <4>2 DEF Item_
      <4>4. Item_(Me).target \in LOG .. TERMINATE
        BY <4>3 DEF Item, Level
      <4> QED
        BY <3>1, <4>1, <4>4 DEF LOG, HALT, TERMINATE
    <3>3. Item_(Me).second = "fail"
      BY <3>1 DEF EffectiveLevel, Unconfirmed, NOTIFY, HALT
    <3>4. CASE spc = "batch"
      BY <2>1, <3>1, <3>3, <3>4 DEF Judged, Item_
    <3>5. CASE spc = "deadmanCall"
      BY <2>1, <3>1, <3>3, <3>5 DEF Judged, Item_
    <3> QED
      BY <2>2, <3>2, <3>4, <3>5
  <2> QED
    BY <2>1, <2>2 DEF InCall, Judged
<1> QED
  BY <1>1, SentinelInvariance, PTL
=============================================================================
