------------------------- MODULE RunPodClientProofs -------------------------
(***************************************************************************)
(* What the retrying client promises, for every number of attempts and     *)
(* whatever RunPod reports.                                                *)
(***************************************************************************)
EXTENDS RunPodClient, TLAPS

(* A kill that RunPod still holds was ordered, and so was the one under way. *)
KillsAreOrdered ==
  /\ late \subseteq ordered
  /\ place # "idle" /\ op \in Kill => op \in ordered

(* A call has no outcome before it is over, and waits only to try again. *)
CallInProgress ==
  /\ place # "idle" => outcome = "none"
  /\ place = "backoff" => attempt < MaxRetries - 1

BelievedIsDown == believed => pod \in {"stopped", "terminated"}

ClientInv ==
  /\ ClientTypeOK
  /\ KillsAreOrdered
  /\ CallInProgress
  /\ BelievedIsDown
  /\ OkMeansDone
  /\ UptimeIsWhatBills

-----------------------------------------------------------------------------
(* The helpers.                                                            *)

(* A kill that is carried out takes the pod down, and nothing starts it. *)
LEMMA EffectOfOp ==
  ASSUME NEW o \in Op, NEW p \in {"none", "running", "stopped", "terminated"}
  PROVE  /\ Effect(o, p) \in {"none", "running", "stopped", "terminated"}
         /\ o \notin Kill => Effect(o, p) = p
         /\ o \in Kill /\ p # "none" => Effect(o, p) \in {"stopped", "terminated"}
         /\ p = "none" => Effect(o, p) = "none"
         /\ p \in {"stopped", "terminated"} => Effect(o, p) \in {"stopped", "terminated"}
         /\ p = "terminated" \/ (o = "terminate" /\ p # "none") => Effect(o, p) = "terminated"
         /\ p # "running" => Effect(o, p) # "running"
BY DEF Effect, Op, Kill

(* A live pod of a known age has an uptime; one that is not live has only  *)
(* what a clock says.                                                      *)
LEMMA UptimeOfReport ==
  ASSUME NEW r \in Report, NEW s \in {"none", "running", "stopped", "terminated"}
  PROVE  /\ Uptime(r, s) \in Nat
         /\ s = "running" /\ r.age > 0 => Uptime(r, s) > 0
         /\ s = "stopped" => Uptime(r, s) \in {0, r.seconds, r.runtime}
<1>1. /\ r.seconds \in {Absent} \cup Nat
      /\ r.runtime \in {Absent} \cup Nat
      /\ r.age \in {Absent} \cup Nat
  BY DEF Report
<1>2. CASE r.seconds > 0
  BY <1>1, <1>2 DEF Uptime, Absent
<1>3. CASE r.seconds = Absent /\ r.runtime > 0
  BY <1>1, <1>3 DEF Uptime, Absent
<1>4. CASE r.seconds = 0 \/ (r.seconds = Absent /\ ~ r.runtime > 0)
  <2>1. /\ ~ r.seconds > 0
        /\ ~ (r.seconds = Absent /\ r.runtime > 0)
        /\ r.seconds = 0 \/ (r.seconds = Absent /\ r.runtime <= 0)
    BY <1>1, <1>4 DEF Absent
  <2>2. Uptime(r, s) = IF s = "running" /\ r.age > 0 THEN r.age ELSE 0
    BY <2>1 DEF Uptime
  <2> QED
    BY <1>1, <2>2 DEF Absent
<1> QED
  BY <1>1, <1>2, <1>3, <1>4 DEF Absent

LEMMA SilentIsReport == Silent \in Report
BY DEF Silent, Report, Absent

-----------------------------------------------------------------------------
(* Every step of a call, and what happens to the pod without one, keeps    *)
(* the invariant.                                                          *)

LEMMA IssueKeeps == ASSUME ClientInv, NEW o \in Op, Issue(o) PROVE ClientInv'
<1>1. ClientTypeOK'
  BY SilentIsReport, ClientAssumption
     DEF ClientInv, ClientTypeOK, Issue, Op, Kill
<1>2. KillsAreOrdered' /\ CallInProgress'
  BY DEF ClientInv, KillsAreOrdered, CallInProgress, Issue
<1>3. BelievedIsDown' /\ OkMeansDone' /\ UptimeIsWhatBills'
  BY DEF ClientInv, BelievedIsDown, OkMeansDone, UptimeIsWhatBills, Issue
<1> QED
  BY <1>1, <1>2, <1>3 DEF ClientInv

(* A call that raises, whatever it did to the pod. *)
LEMMA RaiseKeeps ==
  ASSUME ClientInv, NEW result \in {"auth", "error"}, Return(result),
         pod' \in {pod, Effect(op, pod)}, late' \subseteq ordered, late' \subseteq Kill,
         UNCHANGED <<uptime, told>>
  PROVE  ClientInv'
<1>1. ClientTypeOK'
  BY EffectOfOp, ClientAssumption DEF ClientInv, ClientTypeOK, Return
<1>2. KillsAreOrdered' /\ CallInProgress'
  BY DEF ClientInv, KillsAreOrdered, CallInProgress, Return
<1>3. OkMeansDone' /\ UptimeIsWhatBills'
  BY DEF ClientInv, OkMeansDone, UptimeIsWhatBills, Return
<1>4. BelievedIsDown'
  BY EffectOfOp DEF ClientInv, ClientTypeOK, BelievedIsDown, Return
<1> QED
  BY <1>1, <1>2, <1>3, <1>4 DEF ClientInv

LEMMA AcceptedKeeps == ASSUME ClientInv, Accepted PROVE ClientInv'
<1>1. PICK result \in {"ok", "error"} :
        /\ Return(result)
        /\ \/ /\ op = "status" /\ result = "ok"
              /\ \E r \in Reports :
                   /\ uptime' = Uptime(r, pod)
                   /\ told' = [report |-> r, state |-> pod]
           \/ /\ op # "status" \/ result = "error"
              /\ UNCHANGED <<uptime, told>>
  BY DEF Accepted
<1>2. /\ op \in Op /\ pod \in {"running", "stopped"}
      /\ pod' = Effect(op, pod) /\ late' = late
  BY DEF ClientInv, ClientTypeOK, Accepted
<1>3. CASE result = "error"
  <2>1. UNCHANGED <<uptime, told>>
    BY <1>1, <1>3
  <2>2. late' \subseteq ordered /\ late' \subseteq Kill
    BY <1>2 DEF ClientInv, ClientTypeOK, KillsAreOrdered
  <2> QED
    BY <1>1, <1>2, <1>3, <2>1, <2>2, RaiseKeeps
<1>4. CASE result = "ok"
  <2>1. /\ uptime' \in Nat
        /\ told' \in [report : Report, state : {"unasked", "running", "stopped"}]
        /\ UptimeIsWhatBills'
    <3>1. CASE op = "status"
      <4>1. PICK r \in Reports : /\ uptime' = Uptime(r, pod)
                                 /\ told' = [report |-> r, state |-> pod]
        BY <1>1, <1>4, <3>1
      <4>2. r \in Report
        BY ClientAssumption
      <4> QED
        BY <1>2, <4>1, <4>2, UptimeOfReport DEF UptimeIsWhatBills
    <3>2. CASE op # "status"
      BY <1>1, <1>4, <3>2 DEF ClientInv, ClientTypeOK, UptimeIsWhatBills
    <3> QED
      BY <3>1, <3>2
  <2>2. ClientTypeOK'
    BY <1>1, <1>2, <1>4, <2>1, EffectOfOp, ClientAssumption DEF ClientInv, ClientTypeOK, Return
  <2>3. KillsAreOrdered' /\ CallInProgress'
    BY <1>1, <1>2 DEF ClientInv, KillsAreOrdered, CallInProgress, Return
  <2>4. BelievedIsDown'
    BY <1>1, <1>2, EffectOfOp DEF ClientInv, BelievedIsDown, Return
  <2>5. OkMeansDone'
    BY <1>1, <1>2, EffectOfOp DEF OkMeansDone, Return, Kill
  <2> QED
    BY <2>1, <2>2, <2>3, <2>4, <2>5 DEF ClientInv
<1> QED
  BY <1>1, <1>3, <1>4

LEMMA AgainKeeps == ASSUME ClientInv, Again PROVE ClientInv'
<1>1. /\ pod' \in {pod, Effect(op, pod)}
      /\ late' \subseteq ordered /\ late' \subseteq Kill
  BY DEF ClientInv, ClientTypeOK, KillsAreOrdered, Again
<1>2. CASE Return("error")
  BY <1>1, <1>2, RaiseKeeps DEF Again
<1>3. CASE /\ attempt < MaxRetries - 1
           /\ place' = "backoff"
           /\ UNCHANGED <<keyWrites, op, attempt, outcome, ordered, believed>>
  <2>1. ClientTypeOK'
    BY <1>1, <1>3, EffectOfOp DEF ClientInv, ClientTypeOK, Again
  <2>2. outcome = "none"
    BY DEF ClientInv, CallInProgress, Again
  <2>3. KillsAreOrdered' /\ CallInProgress'
    BY <1>1, <1>3, <2>2 DEF ClientInv, KillsAreOrdered, CallInProgress, Again
  <2>4. OkMeansDone' /\ UptimeIsWhatBills'
    BY <1>3, <2>2 DEF ClientInv, OkMeansDone, UptimeIsWhatBills, Again
  <2>5. BelievedIsDown'
    BY <1>1, <1>3, EffectOfOp DEF ClientInv, ClientTypeOK, BelievedIsDown
  <2> QED
    BY <2>1, <2>3, <2>4, <2>5 DEF ClientInv
<1> QED
  BY <1>2, <1>3 DEF Again

LEMMA ClientStepKeeps == ASSUME ClientInv, ClientStep PROVE ClientInv'
<1>1. late \subseteq ordered /\ late \subseteq Kill
  BY DEF ClientInv, ClientTypeOK, KillsAreOrdered
<1>2. CASE Denied
  BY <1>1, <1>2, RaiseKeeps DEF Denied
<1>3. CASE Rejected
  BY <1>1, <1>3, RaiseKeeps DEF Rejected
<1>4. CASE Backoff
  <2>1. attempt' \in 0 .. MaxRetries - 1
    BY <1>4, ClientAssumption DEF ClientInv, ClientTypeOK, CallInProgress, Backoff
  <2> QED
    BY <1>4, <2>1
       DEF ClientInv, ClientTypeOK, KillsAreOrdered, CallInProgress, BelievedIsDown,
           OkMeansDone, UptimeIsWhatBills, Backoff
<1> QED
  BY <1>2, <1>3, <1>4, AcceptedKeeps, AgainKeeps DEF ClientStep

LEMMA CarriedOutLateKeeps == ASSUME ClientInv, CarriedOutLate PROVE ClientInv'
<1>1. PICK o \in late : late' = late \ {o} /\ pod' = Effect(o, pod)
  BY DEF CarriedOutLate
<1>2. o \in Op
  BY <1>1 DEF ClientInv, ClientTypeOK, Op
<1>3. ClientTypeOK'
  BY <1>1, <1>2, EffectOfOp DEF ClientInv, ClientTypeOK, CarriedOutLate
<1>4. KillsAreOrdered' /\ CallInProgress' /\ UptimeIsWhatBills'
  BY <1>1 DEF ClientInv, KillsAreOrdered, CallInProgress, UptimeIsWhatBills, CarriedOutLate
<1>5. BelievedIsDown' /\ OkMeansDone'
  BY <1>1, <1>2, EffectOfOp
     DEF ClientInv, ClientTypeOK, BelievedIsDown, OkMeansDone, CarriedOutLate
<1> QED
  BY <1>3, <1>4, <1>5 DEF ClientInv

LEMMA PodLostKeeps == ASSUME ClientInv, PodLost PROVE ClientInv'
<1>1. pod' \in {"stopped", "terminated"} /\ pod = "running"
  BY DEF PodLost
<1> QED
  BY <1>1
     DEF ClientInv, ClientTypeOK, KillsAreOrdered, CallInProgress, BelievedIsDown,
         OkMeansDone, UptimeIsWhatBills, PodLost

LEMMA StutterKeeps == ASSUME ClientInv, UNCHANGED clientVars PROVE ClientInv'
BY DEF ClientInv, ClientTypeOK, KillsAreOrdered, CallInProgress, BelievedIsDown,
       OkMeansDone, UptimeIsWhatBills, clientVars

LEMMA ClientNextKeeps == ASSUME ClientInv, [ClientNext]_clientVars PROVE ClientInv'
BY IssueKeeps, ClientStepKeeps, CarriedOutLateKeeps, PodLostKeeps, StutterKeeps
   DEF ClientNext

LEMMA ClientInitInv == ClientInit => ClientInv /\ pod # "none"
<1> SUFFICES ASSUME ClientInit PROVE ClientInv /\ pod # "none"
  OBVIOUS
<1>1. 0 \in 0 .. MaxRetries - 1
  BY ClientAssumption
<1>2. ClientTypeOK
  BY <1>1, SilentIsReport DEF ClientInit, ClientTypeOK, Op
<1>3. KillsAreOrdered /\ CallInProgress /\ BelievedIsDown /\ OkMeansDone /\ pod # "none"
  BY DEF ClientInit, KillsAreOrdered, CallInProgress, BelievedIsDown, OkMeansDone
<1>4. UptimeIsWhatBills
  BY DEF ClientInit, UptimeIsWhatBills
<1> QED
  BY <1>2, <1>3, <1>4 DEF ClientInv

(* The pod of a client on its own exists and stays known. *)
LEMMA PodStaysKnown ==
  ASSUME ClientInv, pod # "none", [ClientNext]_clientVars PROVE pod' # "none"
<1>1. \A o \in Op : Effect(o, pod) # "none"
  BY DEF ClientInv, ClientTypeOK, Effect
<1>2. op \in Op /\ late \subseteq Op
  BY DEF ClientInv, ClientTypeOK, Op
<1> QED
  BY <1>1, <1>2
     DEF ClientNext, ClientStep, Issue, Denied, Accepted, Rejected, Again, Backoff,
         CarriedOutLate, PodLost, clientVars

(* The inductive invariant of the client. *)
THEOREM ClientInvariance == ClientSpec => [](ClientInv /\ pod # "none")
<1>1. ClientInv /\ pod # "none" /\ [ClientNext]_clientVars => (ClientInv /\ pod # "none")'
  BY ClientNextKeeps, PodStaysKnown
<1> QED
  BY <1>1, ClientInitInv, PTL DEF ClientSpec

-----------------------------------------------------------------------------
(* The client implements the kill switch.                                  *)

LEMMA ClientInitSwitch == ClientInit => KS!Init
BY DEF ClientInit, KS!Init

LEMMA ClientSimulated ==
  ASSUME ClientInv, pod # "none", [ClientNext]_clientVars
  PROVE  [KS!Next]_(KS!vars)
<1> DEFINE evidence == [t \in {"client"} |-> IF ordered = {} THEN "none" ELSE "ordered"]
<1> SUFFICES KS!Next \/ UNCHANGED <<pod, believed, evidence>>
  BY DEF KS!vars
<1>1. /\ op \in Op /\ late \subseteq ordered /\ ordered \subseteq Kill
      /\ pod \in {"running", "stopped", "terminated"}
      /\ place # "idle" /\ op \in Kill => op \in ordered
  BY DEF ClientInv, ClientTypeOK, KillsAreOrdered
<1>2. ASSUME ordered # {}, UNCHANGED ordered, pod' \in {"stopped", "terminated"},
             believed' \in {TRUE, believed}
      PROVE  KS!Next
  <2>1. KS!Kill("client")
    BY <1>2 DEF KS!Kill, KS!Down
  <2> QED
    BY <2>1 DEF KS!Next
<1>3. ASSUME NEW o \in Op, Issue(o) PROVE KS!Next \/ UNCHANGED <<pod, believed, evidence>>
  <2>1. UNCHANGED <<pod, believed>> /\ ordered' = ordered \cup ({o} \cap Kill)
    BY <1>3 DEF Issue
  <2>2. CASE ordered' = {} \/ ordered # {}
    BY <2>1, <2>2
  <2>3. CASE ordered' # {} /\ ordered = {}
    <3>1. "ordered" \in KS!Follows("none")
      BY DEF KS!Follows
    <3>2. evidence' = [evidence EXCEPT !["client"] = "ordered"] /\ evidence["client"] = "none"
      BY <2>3
    <3>3. KS!Weigh("client")
      BY <2>1, <3>1, <3>2 DEF KS!Weigh
    <3> QED
      BY <3>3 DEF KS!Next
  <2> QED
    BY <2>2, <2>3
<1>4. CASE Denied \/ Rejected \/ Backoff
  <2>1. UNCHANGED <<pod, ordered, believed>>
    BY <1>4 DEF Denied, Rejected, Backoff, Return, ClientInv, ClientTypeOK
  <2> QED
    BY <2>1
<1>5. CASE Accepted
  <2>1. /\ UNCHANGED ordered /\ pod' = Effect(op, pod) /\ place # "idle"
        /\ believed' = believed \/ (believed' = TRUE /\ op \in Kill)
    <3>1. PICK result \in {"ok", "error"} : Return(result)
      BY <1>5 DEF Accepted
    <3> QED
      BY <1>5, <3>1 DEF Accepted, Return, ClientInv, ClientTypeOK
  <2>2. CASE op \in Kill
    BY <1>1, <1>2, <2>1, <2>2, EffectOfOp
  <2>3. CASE op \notin Kill
    BY <1>1, <2>1, <2>3, EffectOfOp
  <2> QED
    BY <2>2, <2>3
<1>6. CASE Again
  <2>1. UNCHANGED <<ordered, believed>> /\ pod' \in {pod, Effect(op, pod)} /\ place # "idle"
    BY <1>6 DEF Again, Return, ClientInv, ClientTypeOK
  <2>2. CASE op \in Kill /\ pod' # pod
    BY <1>1, <1>2, <2>1, <2>2, EffectOfOp
  <2>3. CASE op \notin Kill \/ pod' = pod
    BY <1>1, <2>1, <2>3, EffectOfOp
  <2> QED
    BY <2>2, <2>3
<1>7. CASE CarriedOutLate
  <2>1. PICK o \in late : pod' = Effect(o, pod)
    BY <1>7 DEF CarriedOutLate
  <2>2. o \in Op /\ o \in Kill /\ ordered # {}
    BY <1>1, <2>1 DEF Op
  <2>3. pod' \in {"stopped", "terminated"}
    BY <1>1, <2>1, <2>2, EffectOfOp
  <2> QED
    BY <1>2, <1>7, <2>2, <2>3 DEF CarriedOutLate
<1>8. CASE PodLost
  <2>1. KS!PodLost
    BY <1>8 DEF PodLost, KS!PodLost, KS!Down
  <2> QED
    BY <2>1 DEF KS!Next
<1>9. CASE UNCHANGED clientVars
  BY <1>9 DEF clientVars
<1> QED
  BY <1>3, <1>4, <1>5, <1>6, <1>7, <1>8, <1>9 DEF ClientNext, ClientStep

(* However RunPod delays, repeats or loses requests, the pod goes down by  *)
(* the client's hand only after a kill was issued, and is believed down    *)
(* only when it is.                                                        *)
THEOREM ClientImplements == ClientSpec => ClientImplementsKillSwitch
<1>1. ClientInv /\ pod # "none" /\ [ClientNext]_clientVars => [KS!Next]_(KS!vars)
  BY ClientSimulated
<1> QED
  BY <1>1, ClientInitSwitch, ClientInvariance, PTL
     DEF ClientSpec, ClientImplementsKillSwitch, KS!Spec
=============================================================================
