----------------------------- MODULE GateProofs -----------------------------
(***************************************************************************)
(* What the startup gate promises, on every pod and for any number of      *)
(* signals and starts.  The invariant says what each place of the main     *)
(* thread knows: of the verdicts so far, of the world they are about, and  *)
(* of the way down it is on.                                               *)
(***************************************************************************)
EXTENDS Gate, FiniteSetTheorems, TLAPS

N == Len(GateProbes)

(* The call the ladder is in, as far as it matters here. *)
CallOfMain ==
  /\ pc \in [Thread -> Place]
  /\ mode \in [Thread -> Mode]

(* The verdicts are those of this world, and only the last may be a fail. *)
VerdictsOfWorld ==
  \A i \in 1 .. Len(verdicts) :
    /\ verdicts[i] = Inspected(world)[i]
    /\ i < Len(verdicts) => verdicts[i] # "fail"

(* What the place of the main thread says of them. *)
PlaceOK ==
  /\ place \notin {"start", "over"} => world.key # "absent"
  /\ place \in {"handling", "enforcing"} \/ ending = "gateFailed" => Failed
  /\ place = "train" => Through /\ entry = "attach"
  /\ place = "hung" => /\ ~ Failed /\ Len(verdicts) < N
                       /\ Inspected(world)[Len(verdicts) + 1] = "hang"
  /\ place # "over" => ending = "none"

(* A shutdown comes to its kill: it is on the way there, or has been there. *)
ComesToKill ==
  /\ place \in {"enforcing", "leaving", "exiting"} =>
       \/ pc[Main] \in {"alert", "flush", "kill"} /\ mode[Main] = "shutdown"
       \/ pc[Main] = "record" /\ mode[Main] = "shutdown" /\ killTried
       \/ pc[Main] = "idle" /\ killTried
  /\ ending \in {"gateFailed", "left", "signalled"} => killTried

GateInv ==
  /\ GateTypeOK
  /\ CallOfMain
  /\ VerdictsOfWorld
  /\ PlaceOK
  /\ ComesToKill

-----------------------------------------------------------------------------
(* The probes.                                                             *)

LEMMA MainIsThread == Main \in Thread /\ Thread = {Main}
BY GateAssumption

LEMMA FifteenProbes == N = 15 /\ Len(GateProbes) = 15
BY DEF N, GateProbes

LEMMA VerdictsTyped ==
  ASSUME GateTypeOK
  PROVE  /\ verdicts \in Seq(Status)
         /\ Len(verdicts) \in Nat /\ Len(verdicts) <= 15
<1>1. verdicts \in Seq(Status) /\ Len(verdicts) <= Len(GateProbes)
  BY DEF GateTypeOK
<1> QED
  BY <1>1, FifteenProbes

LEMMA OkUnlessStatus == \A b : OkUnless(b) \in {"ok", "fail"}
BY DEF OkUnless

LEMMA AskedAnswers ==
  ASSUME NEW w \in World, NEW h \in Hooks
  PROVE  \A s \in {Called(h, w), Asked(h, w)} :
           /\ s \in Status \cup {"hang"}
           /\ s = "hang" => w.hook[h] = "hangs"
<1>1. HookOf(w, h) \in {"unwired", "raises", "wrong", "right", "hangs"}
  BY DEF HookOf, World
<1>2. HookOf(w, h) = "hangs" => w.hook[h] = "hangs"
  BY DEF HookOf
<1> QED
  BY <1>1, <1>2, OkUnlessStatus DEF Asked, Called, Status

(* Every probe has one of the four answers, or hangs in one of the hooks,  *)
(* which come after the self-tests.                                        *)
LEMMA InspectedAnswers ==
  ASSUME NEW w \in World, NEW i \in 1 .. 15
  PROVE  /\ Inspected(w)[i] \in Status \cup {"hang"}
         /\ Inspected(w)[i] = "hang" => i > 9 /\ \E h \in Hooks : w.hook[h] = "hangs"
<1>1. \A h \in Hooks : \A s \in {Called(h, w), Asked(h, w)} :
        /\ s \in Status \cup {"hang"}
        /\ s = "hang" => w.hook[h] = "hangs"
  BY AskedAnswers
<1>2. {GpuInventory(w), TorchCuda(w), GpuHealth(w), RunPodWriteScope(w), DiskSpace(w),
       CheckpointRoundTrip(w), Nccl(w), NotifySink(w), WandbVisibility(w)} \subseteq Status
  BY OkUnlessStatus
     DEF GpuInventory, TorchCuda, GpuHealth, RunPodWriteScope, DiskSpace, CheckpointRoundTrip,
         Nccl, NotifySink, WandbVisibility, Status
<1>3. \A s \in {ModelLoad(w), Data(w), Resume(w), TrainStep(w), RolloutCycle(w), GenBackend(w)} :
        /\ s \in Status \cup {"hang"}
        /\ s = "hang" => \E h \in Hooks : w.hook[h] = "hangs"
  BY <1>1 DEF ModelLoad, Data, Resume, TrainStep, RolloutCycle, GenBackend, Hooks, Status
<1>4. i <= 9 => Inspected(w)[i] \in
        {GpuInventory(w), TorchCuda(w), GpuHealth(w), RunPodWriteScope(w), DiskSpace(w),
         CheckpointRoundTrip(w), Nccl(w), NotifySink(w), WandbVisibility(w)}
  BY DEF Inspected
<1>5. i > 9 => Inspected(w)[i] \in
        {ModelLoad(w), Data(w), Resume(w), TrainStep(w), RolloutCycle(w), GenBackend(w)}
  BY DEF Inspected
<1>6. "hang" \notin Status
  BY DEF Status
<1> QED
  BY <1>2, <1>3, <1>4, <1>5, <1>6

(* What a probe that did not fail has seen. *)
LEMMA NotFailed ==
  ASSUME NEW w \in World
  PROVE  /\ RunPodWriteScope(w) # "fail" => HasPod /\ w.key # "readOnly"
         /\ CheckpointRoundTrip(w) # "fail" => w.volume = "good"
         /\ NotifySink(w) # "fail" => Delivered(w) # 0
         /\ WandbVisibility(w) # "fail" => /\ w.run = "readable"
                                           /\ Canary(w) \notin {"lost", "raises"}
         /\ DiskSpace(w) # "fail" => FreeDisk(w) # Missing /\ ~ FreeDisk(w) < MinDisk
BY LadderAssumption
   DEF RunPodWriteScope, CheckpointRoundTrip, NotifySink, WandbVisibility, DiskSpace, OkUnless

(* A disk that passes has the room, if du could be asked. *)
LEMMA RoomForCheckpoint ==
  ASSUME NEW w \in World, FreeDisk(w) # Missing, ~ FreeDisk(w) < MinDisk
  PROVE  Room(w) >= MinDisk \/ ~ w.du
<1>1. /\ w.statvfs \in {Missing} \cup Nat /\ w.used \in Nat /\ w.du \in BOOLEAN
      /\ MinDisk \in Nat /\ Quota \in Nat
  BY GateAssumption DEF World
<1> QED
  BY <1>1 DEF FreeDisk, Room, Missing, AtMost, Longer

(* A reading depends on the world and on the entry, and on nothing else. *)
LEMMA ReadingsStay ==
  ASSUME UNCHANGED <<entry, world>>
  PROVE  Inspected(world)' = Inspected(world)
BY DEF Inspected, GpuInventory, TorchCuda, GpuHealth, RunPodWriteScope, DiskSpace,
       CheckpointRoundTrip, Nccl, NotifySink, WandbVisibility, ModelLoad, Data, Resume,
       TrainStep, RolloutCycle, GenBackend, Asked, Called, HookOf, Canary, FreeDisk, Delivered

-----------------------------------------------------------------------------
LEMMA GateInitInv == GateInit => GateInv
<1> SUFFICES ASSUME GateInit PROVE GateInv
  OBVIOUS
<1>1. GateTypeOK
  <2>1. verdicts = <<>> /\ <<>> \in Seq(Status) /\ Len(<<>>) = 0
    BY DEF GateInit
  <2>2. signals \in 0 .. MaxSignals /\ starts \in 1 .. MaxStarts /\ world \in World
    BY GateAssumption DEF GateInit
  <2>3. Len(verdicts) <= Len(GateProbes) /\ \A i \in 1 .. Len(verdicts) - 1 : verdicts[i] # "fail"
    BY <2>1, FifteenProbes
  <2> QED
    BY <2>1, <2>2, <2>3 DEF GateInit, GateTypeOK, Ending
<1>2. CallOfMain
  BY DEF GateInit, LadderInit, CallOfMain, Place, Mode
<1>3. VerdictsOfWorld /\ PlaceOK /\ ComesToKill
  BY DEF GateInit, VerdictsOfWorld, PlaceOK, ComesToKill, Failed
<1> QED
  BY <1>1, <1>2, <1>3 DEF GateInv

(* The ladder's calls keep the shape of pc and mode. *)
LEMMA CallPart == ASSUME GateInv, [GateNext]_vars PROVE CallOfMain'
<1>1. CallOfMain /\ Main \in Thread
  BY MainIsThread DEF GateInv
<1>2. CASE Return(Main)
  BY <1>1, <1>2 DEF CallOfMain, Return, Place, Mode
<1>3. CASE UNCHANGED <<pc, mode>>
  BY <1>1, <1>3 DEF CallOfMain
<1>4. ASSUME NEW a \in Action, Shutdown(Main, a) PROVE CallOfMain'
  BY <1>1, <1>4 DEF CallOfMain, Shutdown, Place, Mode
<1>5. CASE HandleFailure
  BY <1>1, <1>5 DEF CallOfMain, HandleFailure, Begin, Place, Mode
<1>6. CASE InLadder
  BY <1>1, <1>2, <1>6
     DEF CallOfMain, InLadder, Notify, Alert, Flush, Record, KillPod, Do, Place, Mode
<1>7. CASE Start \/ Inspect \/ Enforced \/ Report \/ Attach \/ Left \/ Exited \/ SaveCheckpoint
             \/ Restart \/ Lost \/ UNCHANGED vars
  BY <1>3, <1>7
     DEF Start, Inspect, Enforced, Report, Attach, Left, Exited, SaveCheckpoint, Restart, Lost,
         PodLost, ladderVars, callVars, vars
<1>8. CASE Enforce \/ Leave \/ Handler
  BY <1>4, <1>8, GateAssumption, LadderAssumption DEF Enforce, Leave, Handler
<1>9. CASE Signal \/ Killed \/ PodTakesProcess
  BY <1>2, <1>9 DEF Signal, Killed, PodTakesProcess
<1> QED
  BY <1>5, <1>6, <1>7, <1>8, <1>9 DEF GateNext, GateStep

-----------------------------------------------------------------------------
(* The steps of the gate that change its verdicts or its world.            *)

LEMMA InspectAdds ==
  ASSUME GateInv, Inspect, place' # "hung"
  PROVE  \E s \in Status :
           /\ s = Inspected(world)[Len(verdicts) + 1]
           /\ verdicts' = Append(verdicts, s) /\ Len(verdicts) < N /\ ~ Failed
           /\ UNCHANGED <<entry, world, place, signals, starts, startupOk, onDisk, killTried,
                          ending>>
<1>0. world \in World
  BY DEF GateInv, GateTypeOK
<1>1. Len(verdicts) \in Nat /\ Len(verdicts) <= 15
  BY VerdictsTyped DEF GateInv
<1>2. ~ Failed
  BY DEF Inspect
<1>3. Len(verdicts) < 15
  <2>1. Len(verdicts) # 15
    BY <1>2, FifteenProbes DEF Inspect, Through
  <2>2. \A n \in Nat : n <= 15 /\ n # 15 => n < 15
    OBVIOUS
  <2> QED
    BY <1>1, <2>1, <2>2
<1>4. Inspected(world)[Len(verdicts) + 1] \in Status \cup {"hang"}
  BY <1>0, <1>1, <1>3, InspectedAnswers
<1>5. Inspected(world)[Len(verdicts) + 1] # "hang"
  BY DEF Inspect, GoTo
<1> QED
  BY <1>2, <1>3, <1>4, <1>5, FifteenProbes DEF Inspect

LEMMA InspectHangs ==
  ASSUME GateInv, Inspect, place' = "hung"
  PROVE  /\ UNCHANGED <<entry, world, verdicts, signals, starts, startupOk, onDisk, killTried,
                        ending>>
         /\ ~ Failed /\ Len(verdicts) < N /\ Inspected(world)[Len(verdicts) + 1] = "hang"
<1>1. Len(verdicts) \in Nat /\ Len(verdicts) <= 15
  BY VerdictsTyped DEF GateInv
<1>2. place = "gate" /\ ~ Failed
  BY DEF Inspect
<1>3. Len(verdicts) < 15
  <2>1. Len(verdicts) # 15
    BY <1>2, FifteenProbes DEF Inspect, Through
  <2>2. \A n \in Nat : n <= 15 /\ n # 15 => n < 15
    OBVIOUS
  <2> QED
    BY <1>1, <2>1, <2>2
<1> QED
  BY <1>2, <1>3, FifteenProbes DEF Inspect, GoTo

(* Every other step but a restart leaves them alone. *)
LEMMA VerdictsStay ==
  ASSUME [GateNext]_vars, ~ Inspect, ~ Restart
  PROVE  UNCHANGED <<entry, world, verdicts, starts>>
BY DEF GateNext, GateStep, Start, HandleFailure, Enforce, Enforced, Report, Attach, Left,
       Handler, Exited, InLadder, SaveCheckpoint, Leave, Signal, Killed, PodTakesProcess, Lost,
       GoTo, End, gateVars, vars

LEMMA VerdictsPart ==
  ASSUME GateInv, [GateNext]_vars
  PROVE  VerdictsOfWorld' /\ verdicts' \in Seq(Status) /\ Len(verdicts') <= 15
<1>1. /\ VerdictsOfWorld /\ verdicts \in Seq(Status)
      /\ Len(verdicts) \in Nat /\ Len(verdicts) <= 15 /\ N = 15
  BY VerdictsTyped, FifteenProbes DEF GateInv
<1>2. CASE Inspect /\ place' # "hung"
  <2>1. PICK s \in Status :
           /\ s = Inspected(world)[Len(verdicts) + 1]
           /\ verdicts' = Append(verdicts, s) /\ Len(verdicts) < N /\ ~ Failed
           /\ UNCHANGED <<entry, world>>
    BY <1>2, InspectAdds
  <2>2. Len(verdicts') = Len(verdicts) + 1 /\ verdicts' \in Seq(Status)
    BY <1>1, <2>1
  <2>3. ASSUME NEW i \in 1 .. Len(verdicts')
        PROVE  verdicts'[i] = Inspected(world)[i] /\ (i < Len(verdicts') => verdicts'[i] # "fail")
    <3>1. CASE i = Len(verdicts) + 1
      BY <1>1, <2>1, <2>2, <3>1
    <3>2. CASE i \in 1 .. Len(verdicts)
      <4>1. verdicts'[i] = verdicts[i]
        BY <1>1, <2>1, <3>2
      <4>2. i = Len(verdicts) => verdicts[i] # "fail"
        BY <1>1, <2>1, <3>2 DEF Failed
      <4> QED
        BY <1>1, <3>2, <4>1, <4>2 DEF VerdictsOfWorld
    <3> QED
      BY <1>1, <2>2, <3>1, <3>2
  <2>4. Inspected(world)' = Inspected(world)
    BY <2>1, ReadingsStay
  <2>5. VerdictsOfWorld'
    BY <2>3, <2>4 DEF VerdictsOfWorld
  <2>6. Len(verdicts') <= 15
    <3>1. Len(verdicts) < 15
      BY <1>1, <2>1
    <3> QED
      BY <1>1, <2>2, <3>1
  <2> QED
    BY <2>2, <2>5, <2>6
<1>3. CASE UNCHANGED <<entry, world, verdicts>>
  <2>1. Inspected(world)' = Inspected(world)
    BY <1>3, ReadingsStay
  <2>2. VerdictsOfWorld'
    BY <1>1, <1>3, <2>1 DEF VerdictsOfWorld
  <2> QED
    BY <1>1, <1>3, <2>2
<1>4. CASE Restart
  <2>1. verdicts' = <<>> /\ <<>> \in Seq(Status) /\ Len(<<>>) = 0
    BY <1>4 DEF Restart
  <2>2. VerdictsOfWorld'
    BY <2>1 DEF VerdictsOfWorld
  <2> QED
    BY <2>1, <2>2
<1>5. CASE Inspect /\ place' = "hung"
  BY <1>3, <1>5, InspectHangs
<1>6. CASE ~ Inspect /\ ~ Restart
  BY <1>3, <1>6, VerdictsStay
<1> QED
  BY <1>2, <1>4, <1>5, <1>6

-----------------------------------------------------------------------------
LEMMA TypePart == ASSUME GateInv, [GateNext]_vars PROVE GateTypeOK'
<1>1. /\ GateTypeOK /\ VerdictsOfWorld' /\ verdicts' \in Seq(Status)
      /\ Len(verdicts') <= Len(GateProbes)
  BY VerdictsPart, FifteenProbes DEF GateInv
<1>2. \A i \in 1 .. Len(verdicts') - 1 : verdicts'[i] # "fail"
  <2>1. \A i \in 1 .. Len(verdicts') - 1 : i \in 1 .. Len(verdicts') /\ i < Len(verdicts')
    BY <1>1
  <2> QED
    BY <1>1, <2>1 DEF VerdictsOfWorld
<1>3. entry' \in Entry /\ world' \in World /\ starts' \in 1 .. MaxStarts
  <2>1. CASE Restart
    BY <1>1, <2>1, GateAssumption DEF Restart, GateTypeOK
  <2>2. CASE Inspect
    BY <1>1, <2>2 DEF Inspect, GoTo, GateTypeOK
  <2>3. CASE ~ Inspect /\ ~ Restart
    BY <1>1, <2>3, VerdictsStay DEF GateTypeOK
  <2> QED
    BY <2>1, <2>2, <2>3
<1> DEFINE Rest ==
      /\ place \in {"start", "gate", "hung", "handling", "enforcing", "train", "leaving",
                    "handler", "exiting", "over"}
      /\ startupOk \subseteq {"startup_ok"} \cup Baselines
      /\ onDisk \in BOOLEAN
      /\ killTried \in BOOLEAN
      /\ ending \in Ending
<1>4. signals' \in 0 .. MaxSignals
  <2>1. signals \in 0 .. MaxSignals /\ MaxSignals \in Nat
    BY <1>1, GateAssumption DEF GateTypeOK
  <2>2. \/ signals' = signals
        \/ signals' = 0
        \/ signals < MaxSignals /\ signals' = signals + 1
    BY DEF GateNext, GateStep, Start, Inspect, HandleFailure, Enforce, Enforced, Report, Attach,
           Left, Handler, Exited, InLadder, SaveCheckpoint, Leave, Signal, Killed,
           PodTakesProcess, Restart, Lost, GoTo, End, gateVars, vars
  <2> QED
    BY <2>1, <2>2
<1>5. Rest'
  <2>1. Rest
    BY <1>1 DEF GateTypeOK
  <2>2. Payload \subseteq {"startup_ok"} \cup Baselines
    BY DEF Payload, Measured
  <2>4. CASE Start \/ Inspect \/ HandleFailure \/ Enforce \/ Enforced
    BY <2>1, <2>4 DEF Start, Inspect, HandleFailure, Enforce, Enforced, GoTo, End, Ending
  <2>5. CASE Report \/ Attach
    BY <2>1, <2>2, <2>5 DEF Report, Attach, End, Ending
  <2>6. CASE Left \/ Handler \/ Exited \/ InLadder
    BY <2>1, <2>6 DEF Left, Handler, Exited, InLadder, GoTo, End, Ending
  <2>7. CASE SaveCheckpoint \/ Leave \/ Signal
    BY <2>1, <2>7 DEF SaveCheckpoint, Leave, Signal, GoTo
  <2>8. CASE Killed \/ PodTakesProcess \/ Restart \/ Lost \/ UNCHANGED vars
    BY <2>1, <2>8 DEF Killed, PodTakesProcess, Restart, Lost, End, Ending, gateVars, vars
  <2> QED
    BY <2>4, <2>5, <2>6, <2>7, <2>8 DEF GateNext, GateStep
<1> QED
  BY <1>1, <1>2, <1>3, <1>4, <1>5 DEF GateTypeOK

-----------------------------------------------------------------------------
LEMMA PlacePart == ASSUME GateInv, [GateNext]_vars PROVE PlaceOK'
<1>1. PlaceOK /\ Len(verdicts) \in Nat
  BY DEF GateInv, GateTypeOK
<1>2. CASE Inspect /\ place' # "hung"
  <2>1. place' = "gate" /\ place = "gate" /\ UNCHANGED <<world, ending>>
    BY <1>2, InspectAdds DEF Inspect
  <2> QED
    BY <1>1, <2>1 DEF PlaceOK
<1>3. CASE Inspect /\ place' = "hung"
  <2>1. /\ place = "gate" /\ UNCHANGED <<world, ending, verdicts>>
        /\ ~ Failed /\ Len(verdicts) < N /\ Inspected(world)[Len(verdicts) + 1] = "hang"
    BY <1>3, InspectHangs DEF Inspect
  <2>2. Failed' = Failed /\ Inspected(world)' = Inspected(world)
    BY <1>3, <2>1, InspectHangs, ReadingsStay DEF Failed
  <2> QED
    BY <1>1, <1>3, <2>1, <2>2 DEF PlaceOK
<1>4. CASE Restart
  BY <1>1, <1>4 DEF Restart, PlaceOK
<1>5. CASE ~ Inspect /\ ~ Restart
  <2>1. UNCHANGED <<entry, world, verdicts>>
    BY <1>5, VerdictsStay
  <2>2. Failed' = Failed /\ Through' = Through /\ Inspected(world)' = Inspected(world)
    BY <2>1, ReadingsStay DEF Failed, Through
  <2>3. CASE Start \/ HandleFailure \/ Enforce \/ Enforced
    BY <1>1, <2>1, <2>2, <2>3 DEF PlaceOK, Start, HandleFailure, Enforce, Enforced, GoTo, End
  <2>4. CASE Report \/ Attach \/ Left \/ Handler \/ Exited
    BY <1>1, <2>1, <2>2, <2>4 DEF PlaceOK, Report, Attach, Left, Handler, Exited, GoTo, End
  <2>5. CASE InLadder \/ SaveCheckpoint \/ Leave \/ Signal
    BY <1>1, <2>1, <2>2, <2>5 DEF PlaceOK, InLadder, SaveCheckpoint, Leave, Signal, GoTo
  <2>6. CASE Killed \/ PodTakesProcess \/ Lost \/ UNCHANGED vars
    BY <1>1, <2>1, <2>2, <2>6 DEF PlaceOK, Killed, PodTakesProcess, Lost, End, gateVars, vars
  <2> QED
    BY <1>5, <2>3, <2>4, <2>5, <2>6 DEF GateNext, GateStep
<1> QED
  BY <1>2, <1>3, <1>4, <1>5

(* Once a shutdown is begun, only its kill leads out of it. *)
LEMMA KillPart == ASSUME GateInv, [GateNext]_vars PROVE ComesToKill'
<1>1. ComesToKill /\ CallOfMain /\ Main \in Thread /\ (place # "over" => ending = "none")
  BY MainIsThread DEF GateInv, PlaceOK
<1>2. CASE Enforce \/ Leave \/ Handler
  BY <1>1, <1>2
     DEF ComesToKill, CallOfMain, Enforce, Leave, Handler, Shutdown, GoTo
<1>3. CASE InLadder
  <2>1. UNCHANGED <<place, ending>>
    BY <1>3 DEF InLadder
  <2>2. CASE Notify(Main) /\ UNCHANGED killTried
    BY <1>1, <2>1, <2>2 DEF ComesToKill, CallOfMain, Notify
  <2>3. CASE (Alert(Main) \/ Flush(Main)) /\ UNCHANGED killTried
    BY <1>1, <2>1, <2>3 DEF ComesToKill, CallOfMain, Alert, Flush, Do
  <2>4. CASE Record(Main) /\ UNCHANGED killTried
    BY <1>1, <2>1, <2>4 DEF ComesToKill, CallOfMain, Record, Return
  <2>5. CASE KillPod(Main) /\ killTried' = TRUE
    BY <1>1, <2>1, <2>5 DEF ComesToKill, CallOfMain, KillPod, Do
  <2> QED
    BY <1>3, <2>2, <2>3, <2>4, <2>5 DEF InLadder
<1>4. CASE Enforced \/ Left \/ Exited
  BY <1>1, <1>4 DEF ComesToKill, Enforced, Left, Exited, End
<1>5. CASE Start \/ Report \/ Attach \/ HandleFailure
  BY <1>1, <1>5 DEF ComesToKill, Start, Report, Attach, HandleFailure, GoTo, End
<1>6. CASE Inspect
  BY <1>1, <1>6 DEF ComesToKill, Inspect, GoTo
<1>7. CASE SaveCheckpoint \/ Signal \/ Killed \/ PodTakesProcess \/ Restart
  BY <1>1, <1>7 DEF ComesToKill, SaveCheckpoint, Signal, Killed, PodTakesProcess, Restart, End
<1>8. CASE Lost \/ UNCHANGED vars
  BY <1>1, <1>8 DEF ComesToKill, Lost, PodLost, callVars, ladderVars, gateVars, vars
<1> QED
  BY <1>2, <1>3, <1>4, <1>5, <1>6, <1>7, <1>8 DEF GateNext, GateStep

(* The inductive invariant of the gate. *)
THEOREM GateInvariance == GateSpec => []GateInv
<1>1. GateInv /\ [GateNext]_vars => GateInv'
  BY TypePart, CallPart, VerdictsPart, PlacePart, KillPart DEF GateInv
<1> QED
  BY <1>1, GateInitInv, PTL DEF GateSpec

-----------------------------------------------------------------------------
(* The state of the gate is well typed, and no verdict follows a failure. *)
THEOREM GateTypeCorrect == GateSpec => []GateTypeOK
<1>1. GateInv => GateTypeOK
  BY DEF GateInv
<1> QED
  BY <1>1, GateInvariance, PTL

(* A probe that the gate is past did not fail. *)
LEMMA PastProbe ==
  ASSUME GateInv, ~ Failed, NEW i \in 1 .. Len(verdicts)
  PROVE  Inspected(world)[i] # "fail"
BY DEF GateInv, GateTypeOK, VerdictsOfWorld, Failed

(* On every pod the run that trains can be saved, seen and killed. *)
THEOREM TrainsWhatItCan == GateSpec => []TrainsWhatItCanSaveSeeAndKill
<1>1. GateInv => TrainsWhatItCanSaveSeeAndKill
  <2> SUFFICES ASSUME GateInv, place = "train"
               PROVE  /\ world.volume = "good"
                      /\ Room(world) >= MinDisk \/ ~ world.du
                      /\ world.run = "readable" /\ world.canary \in {"unwired", "back"}
                      /\ HasPod /\ world.key \in {"write", "noAnswer"}
    BY DEF TrainsWhatItCanSaveSeeAndKill
  <2>1. /\ Through /\ entry = "attach" /\ world.key # "absent" /\ world \in World
        /\ Len(verdicts) = 15
    BY FifteenProbes DEF GateInv, GateTypeOK, PlaceOK, Through, N
  <2>2. \A i \in 1 .. 15 : Inspected(world)[i] # "fail"
    BY <2>1, PastProbe DEF Through
  <2>3. /\ RunPodWriteScope(world) # "fail" /\ DiskSpace(world) # "fail"
        /\ CheckpointRoundTrip(world) # "fail" /\ WandbVisibility(world) # "fail"
    BY <2>2 DEF Inspected
  <2>4. Room(world) >= MinDisk \/ ~ world.du
    BY <2>1, <2>3, NotFailed, RoomForCheckpoint
  <2>5. world.canary = Canary(world) /\ world.canary \in {"unwired", "back", "lost", "raises"}
    BY <2>1 DEF Canary, World
  <2>6. world.key \in {"absent", "write", "readOnly", "noAnswer"}
    BY <2>1 DEF World
  <2> QED
    BY <2>1, <2>3, <2>4, <2>5, <2>6, NotFailed
<1> QED
  BY <1>1, GateInvariance, PTL

(* A gate that hangs does so in a hook, on a pod the sentinel can see and kill. *)
THEOREM HungCanBeKilled == GateSpec => []HungGateCanBeKilled
<1>1. GateInv => HungGateCanBeKilled
  <2> SUFFICES ASSUME GateInv, place = "hung"
               PROVE  /\ \E h \in Hooks : world.hook[h] = "hangs"
                      /\ world.run = "readable" /\ world.key # "readOnly"
                      /\ Delivered(world) > 0
    BY DEF HungGateCanBeKilled
  <2>1. /\ ~ Failed /\ world \in World /\ Len(verdicts) \in Nat /\ Len(verdicts) < 15
        /\ Inspected(world)[Len(verdicts) + 1] = "hang"
    BY FifteenProbes DEF GateInv, GateTypeOK, PlaceOK, N
  <2>2. Len(verdicts) + 1 > 9 /\ \E h \in Hooks : world.hook[h] = "hangs"
    BY <2>1, InspectedAnswers
  <2>3. \A i \in 1 .. 9 : Inspected(world)[i] # "fail"
    BY <2>1, <2>2, PastProbe
  <2>4. /\ RunPodWriteScope(world) # "fail" /\ NotifySink(world) # "fail"
        /\ WandbVisibility(world) # "fail"
    BY <2>3 DEF Inspected
  <2>5. Delivered(world) # 0 => Delivered(world) > 0
    <3> DEFINE Sinks == {s \in {"console", "webhook"} :
                           IF s = "console" THEN world.console ELSE world.webhook = "takes"}
    <3>1. IsFiniteSet({"console", "webhook"})
      <4>1. IsFiniteSet({} \cup {"console"})
        BY FS_AddElement, FS_EmptySet
      <4>2. IsFiniteSet(({} \cup {"console"}) \cup {"webhook"})
        BY <4>1, FS_AddElement
      <4>3. ({} \cup {"console"}) \cup {"webhook"} = {"console", "webhook"}
        OBVIOUS
      <4> QED
        BY <4>2, <4>3
    <3>2. Cardinality(Sinks) \in Nat
      BY <3>1, FS_Subset, FS_CardinalityType
    <3> QED
      BY <3>2 DEF Delivered
  <2> QED
    BY <2>1, <2>2, <2>4, <2>5, NotFailed
<1> QED
  BY <1>1, GateInvariance, PTL

(* Every start that failed its gate, left or was signalled tried the kill, *)
(* however many signals landed and wherever they did.                      *)
THEOREM NoWayOutIsUnguarded == GateSpec => []NoWayOutUnguarded
<1>1. GateInv => NoWayOutUnguarded
  BY DEF GateInv, ComesToKill, NoWayOutUnguarded
<1> QED
  BY <1>1, GateInvariance, PTL

(* No pod is refused of which no probe says that it fails. *)
THEOREM RefusedForCause == GateSpec => []RefusesOnlyForCause
<1>1. GateInv => RefusesOnlyForCause
  <2> SUFFICES ASSUME GateInv, place \in {"handling", "enforcing"} \/ ending = "gateFailed"
               PROVE  \E i \in 1 .. Len(GateProbes) : Inspected(world)[i] = "fail"
    BY DEF RefusesOnlyForCause
  <2>1. Failed /\ Len(verdicts) \in Nat /\ Len(verdicts) <= Len(GateProbes)
    BY DEF GateInv, GateTypeOK, PlaceOK
  <2>2. Len(verdicts) \in 1 .. Len(verdicts)
    BY <2>1 DEF Failed, GateInv, GateTypeOK
  <2>3. Inspected(world)[Len(verdicts)] = "fail"
    BY <2>1, <2>2 DEF Failed, GateInv, VerdictsOfWorld
  <2> QED
    BY <2>1, <2>2, <2>3, FifteenProbes DEF N
<1> QED
  BY <1>1, GateInvariance, PTL
=============================================================================
