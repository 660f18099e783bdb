---------------------------- MODULE LadderProofs ----------------------------
(***************************************************************************)
(* Theorems about the ladder, for every set of probes and threads, every   *)
(* sweep of verdicts and every delay.                                      *)
(***************************************************************************)
EXTENDS Ladder, TLAPS

-----------------------------------------------------------------------------
(* The operators the actions are built from.                               *)

LEMMA AtMostType ==
  ASSUME NEW n \in Nat, NEW b \in Nat
  PROVE  AtMost(n, b) \in 0 .. b /\ (n <= b => n <= AtMost(n, b)) /\ AtMost(n, b) >= IF n < b THEN n ELSE b
BY DEF AtMost

LEMMA WaitCapType == /\ WaitCap \in Nat
                     /\ ConfirmDelay <= WaitCap
                     /\ CheckpointTimeout <= WaitCap
BY LadderAssumption DEF WaitCap, Longer

LEMMA LevelType == \A p \in Probe, s \in Status : TargetLevel(p, s) \in Level
<1> SUFFICES ASSUME NEW p \in Probe, NEW s \in Status
             PROVE  TargetLevel(p, s) \in Level
  OBVIOUS
<1>1. FailLevel(p) \in Level
  BY LadderAssumption DEF FailLevel, Level, LOG, NOTIFY, SNAPSHOT, HALT, TERMINATE
<1> QED
  BY <1>1 DEF TargetLevel, Status, Level, LOG, NOTIFY, SNAPSHOT, HALT, TERMINATE

(* What _decide makes of a verdict. *)
LEMMA DecideType ==
  ASSUME TypeOK, NEW v \in Verdict
  PROVE  /\ Decide(v) \in Item
         /\ Decide(v).second = "unpolled"
<1>1. ResolveStatus(v.probe, v.status) \in Status
  BY DEF ResolveStatus, Verdict, Status
<1>2. TargetLevel(v.probe, ResolveStatus(v.probe, v.status)) \in Level
  BY <1>1, LevelType DEF Verdict
<1>3. sinceReadable[v.probe] \in 0 .. UnknownTolerance
  BY DEF TypeOK, Verdict
<1>4. 0 \in 0 .. WaitCap
  BY WaitCapType
<1> QED
  BY <1>1, <1>2, <1>3, <1>4 DEF Decide, Item, Verdict

LEMMA SweepType ==
  ASSUME NEW vs \in Sweep
  PROVE  vs \in Seq(Verdict) /\ Len(vs) \in Nat \ {0} /\ \A i \in 1 .. Len(vs) : vs[i] \in Verdict
BY LadderAssumption

LEMMA BlindAfterType ==
  ASSUME TypeOK, NEW vs, NEW p \in Probe
  PROVE  BlindAfter(vs, p) \in NotBlind .. UnknownTolerance
BY LadderAssumption DEF TypeOK, BlindAfter, Longer, NotBlind

-----------------------------------------------------------------------------
(* The type invariant.                                                     *)

LEMMA InitType == LadderInit => TypeOK
<1> SUFFICES ASSUME LadderInit PROVE TypeOK
  OBVIOUS
<1>1. UnknownTolerance \in Nat /\ OnTerminal \in Action /\ WaitCap \in Nat
  BY LadderAssumption, WaitCapType
<1>2. blindFor \in [Probe -> NotBlind .. UnknownTolerance]
  BY <1>1 DEF LadderInit, NotBlind
<1>3. /\ work \in [Thread -> Seq(Item)]
      /\ steps \in [Thread -> SUBSET Steps]
  BY DEF LadderInit
<1>4. /\ pc \in [Thread -> Place]
      /\ mode \in [Thread -> Mode]
  BY DEF LadderInit, Place, Mode
<1>5. /\ cur \in [Thread -> Nat]
      /\ waited \in [Thread -> 0 .. WaitCap]
      /\ action \in [Thread -> Action]
      /\ sinceReadable \in [Probe -> 0 .. UnknownTolerance]
  BY <1>1 DEF LadderInit
<1> QED
  BY <1>2, <1>3, <1>4, <1>5 DEF LadderInit, TypeOK

LEMMA ReturnType ==
  ASSUME TypeOK, NEW t \in Thread, Return(t)
  PROVE  /\ pc' \in [Thread -> Place]
         /\ mode' \in [Thread -> Mode]
         /\ work' \in [Thread -> Seq(Item)]
         /\ cur' \in [Thread -> Nat]
         /\ waited' \in [Thread -> 0 .. WaitCap]
         /\ action' \in [Thread -> Action]
         /\ steps' \in [Thread -> SUBSET Steps]
BY LadderAssumption, WaitCapType DEF TypeOK, Return, Place, Mode, Steps

LEMMA BeginType ==
  ASSUME TypeOK, NEW t \in Thread, NEW m \in {"handle", "batch"}, NEW vs \in Seq(Verdict),
         NEW hasRecheck \in BOOLEAN, Begin(t, m, vs, hasRecheck)
  PROVE  TypeOK'
<1>1. work' \in [Thread -> Seq(Item)]
  <2>1. [i \in 1 .. Len(vs) |-> Decide(vs[i])] \in Seq(Item)
    <3>1. \A i \in 1 .. Len(vs) : Decide(vs[i]) \in Item
      <4>1. ASSUME NEW i \in 1 .. Len(vs) PROVE vs[i] \in Verdict
        OBVIOUS
      <4> QED
        BY <4>1, DecideType
    <3> QED
      BY <3>1
  <2> QED
    BY <2>1 DEF Begin, TypeOK
<1>2. blindFor' \in [Probe -> NotBlind .. UnknownTolerance]
  BY BlindAfterType DEF Begin
<1>3. sinceReadable' \in [Probe -> 0 .. UnknownTolerance]
  BY LadderAssumption DEF Begin, TypeOK
<1>4. pc' \in [Thread -> Place] /\ mode' \in [Thread -> Mode]
  BY DEF Begin, TypeOK, Place, Mode
<1> QED
  BY <1>1, <1>2, <1>3, <1>4 DEF Begin, TypeOK

LEMMA RecheckType ==
  ASSUME TypeOK, NEW t \in Thread, NEW r \in Poll, Recheck(t, r)
  PROVE  TypeOK'
<1>1. work' \in [Thread -> Seq(Item)]
  <2>1. CASE UNCHANGED work
    BY <2>1 DEF TypeOK
  <2>2. CASE \E i \in Pending(t) :
               work' = [work EXCEPT ![t][i].second = r, ![t][i].gap = waited[t]]
    <3>1. PICK i \in Pending(t) :
               work' = [work EXCEPT ![t][i].second = r, ![t][i].gap = waited[t]]
      BY <2>2
    <3>2. work[t] \in Seq(Item) /\ i \in 1 .. Len(work[t]) /\ work[t][i] \in Item
      BY DEF TypeOK, Pending
    <3>3. [work[t][i] EXCEPT !.second = r, !.gap = waited[t]] \in Item
      BY <3>2 DEF TypeOK, Item
    <3>4. work' = [work EXCEPT ![t] =
                     [work[t] EXCEPT ![i] = [work[t][i] EXCEPT !.second = r, !.gap = waited[t]]]]
      BY <3>1, <3>2 DEF TypeOK
    <3>5. [work[t] EXCEPT ![i] = [work[t][i] EXCEPT !.second = r, !.gap = waited[t]]]
             \in Seq(Item)
      BY <3>2, <3>3
    <3> QED
      BY <3>4, <3>5 DEF TypeOK
  <2> QED
    BY <2>1, <2>2 DEF Recheck
<1>2. pc' \in [Thread -> Place]
  BY DEF Recheck, TypeOK, Place
<1> QED
  BY <1>1, <1>2 DEF Recheck, TypeOK

(* Every other step moves one thread, or the world, in one way. *)
LEMMA OtherType ==
  ASSUME TypeOK, NEW t \in Thread,
         \/ Advance(t)
         \/ \E a \in Action : Shutdown(t, a)
  PROVE  TypeOK'
<1>1. CASE Unwind(t)
  BY <1>1, ReturnType DEF Unwind, TypeOK
<1>2. CASE Notify(t)
  BY <1>2 DEF Notify, TypeOK, Place, Steps
<1>3. CASE Snapshot(t)
  BY <1>3 DEF Snapshot, Do, TypeOK, Place, Steps
<1>4. CASE RequestHalt(t)
  BY <1>4 DEF RequestHalt, Do, TypeOK, Place, Steps
<1>5. CASE RequestCheckpoint(t)
  <2>1. CASE Do(t, "unsaved", "alert") /\ UNCHANGED <<waited, requested>>
    BY <1>5, <2>1 DEF RequestCheckpoint, Do, TypeOK, Place, Steps
  <2>2. CASE /\ requested' = TRUE
             /\ waited' = [waited EXCEPT ![t] = 0]
             /\ pc' = [pc EXCEPT ![t] = "wait"]
             /\ UNCHANGED steps
    BY <1>5, <2>2, WaitCapType DEF RequestCheckpoint, TypeOK, Place
  <2> QED
    BY <1>5, <2>1, <2>2 DEF RequestCheckpoint
<1>6. CASE SawCheckpoint(t)
  BY <1>6 DEF SawCheckpoint, Do, TypeOK, Place, Steps
<1>7. CASE GaveUpOnCheckpoint(t)
  BY <1>7 DEF GaveUpOnCheckpoint, Do, TypeOK, Place, Steps
<1>8. CASE Alert(t)
  BY <1>8 DEF Alert, Do, TypeOK, Place, Steps
<1>9. CASE Flush(t)
  BY <1>9 DEF Flush, Do, TypeOK, Place, Steps
<1>10. CASE KillPod(t)
  <2>1. terminated' \in BOOLEAN /\ pod' \in {"running", "stopped", "terminated"}
    BY <1>10 DEF KillPod, TypeOK, Off
  <2> QED
    BY <1>10, <2>1 DEF KillPod, Do, TypeOK, Place, Steps
<1>11. CASE Record(t)
  <2>1. CASE Return(t)
    BY <1>11, <2>1, ReturnType DEF Record, TypeOK
  <2>2. CASE /\ cur' = [cur EXCEPT ![t] = @ + 1]
             /\ pc' = [pc EXCEPT ![t] = "act"]
             /\ steps' = [steps EXCEPT ![t] = {}]
             /\ UNCHANGED <<mode, work, waited, action>>
    BY <1>11, <2>2 DEF Record, TypeOK, Place
  <2> QED
    BY <1>11, <2>1, <2>2 DEF Record
<1>12. ASSUME NEW a \in Action, Shutdown(t, a)
       PROVE  TypeOK'
  <2>1. requested' \in BOOLEAN
    BY <1>12, LadderAssumption DEF Shutdown, TypeOK
  <2> QED
    BY <1>12, <2>1 DEF Shutdown, TypeOK, Place, Mode, Steps
<1> QED
  BY <1>1, <1>2, <1>3, <1>4, <1>5, <1>6, <1>7, <1>8, <1>9, <1>10, <1>11, <1>12
  DEF Advance

LEMMA WorldType ==
  ASSUME TypeOK, TrainerSaves \/ PodLost \/ Tick
  PROVE  TypeOK'
<1>1. CASE TrainerSaves
  BY <1>1 DEF TrainerSaves, TypeOK, callVars
<1>2. CASE PodLost
  BY <1>2 DEF PodLost, TypeOK, callVars
<1>3. CASE Tick
  <2>1. UnknownTolerance \in Nat /\ WaitCap \in Nat
    BY LadderAssumption, WaitCapType
  <2>2. blindFor' \in [Probe -> NotBlind .. UnknownTolerance]
    BY <1>3, <2>1 DEF Tick, TypeOK, AtMost, NotBlind
  <2>3. sinceReadable' \in [Probe -> 0 .. UnknownTolerance]
    BY <1>3, <2>1 DEF Tick, TypeOK, AtMost
  <2>4. waited' \in [Thread -> 0 .. WaitCap]
    BY <1>3, <2>1 DEF Tick, TypeOK, AtMost
  <2> QED
    BY <1>3, <2>2, <2>3, <2>4 DEF Tick, TypeOK
<1> QED
  BY <1>1, <1>2, <1>3

LEMMA NextType == TypeOK /\ [LadderNext]_ladderVars => TypeOK'
<1> SUFFICES ASSUME TypeOK, [LadderNext]_ladderVars PROVE TypeOK'
  OBVIOUS
<1>1. CASE UNCHANGED ladderVars
  BY <1>1 DEF ladderVars, callVars, TypeOK
<1>2. CASE LadderNext
  BY <1>2, SweepType, BeginType, RecheckType, OtherType, WorldType DEF LadderNext
<1> QED
  BY <1>1, <1>2

(* The type invariant of the ladder. *)
THEOREM TypeCorrect == LadderSpec => []TypeOK
<1> QED
  BY InitType, NextType, PTL DEF LadderSpec

-----------------------------------------------------------------------------
(* The inductive invariant.                                                *)

(* What the rest of the call may rely on about a decided verdict. *)
ItemOK(item) ==
  /\ item.target = TargetLevel(item.probe, item.status)
  /\ \/ item.status = item.reading
     \/ /\ item.reading = "unknown"
        /\ item.status = "warn"
        /\ item.quiet >= UnknownTolerance
  /\ item.second = "fail" => item.gap >= ConfirmDelay

(* unknown_since is never older than the last readable poll. *)
BlindnessOK == \A p \in Probe : blindFor[p] # NotBlind => blindFor[p] <= sinceReadable[p]

WorkOK(t) == \A i \in 1 .. Len(work[t]) : ItemOK(work[t][i])

(* A call without a record in progress has nothing in it, and a call about *)
(* verdicts is at one of them.                                             *)
CallOK(t) ==
  /\ pc[t] \in {"idle", "confirm", "act", "raised"} => steps[t] = {}
  /\ pc[t] \in {"idle", "confirm"} => cur[t] = 1
  /\ pc[t] = "idle" => mode[t] # "shutdown"
  /\ mode[t] = "shutdown" => pc[t] \in {"alert", "flush", "kill", "record"}
  /\ Verdicts(t) => cur[t] \in 1 .. Len(work[t])

(* What was done so far, and what is next, is covered by the level.        *)
ClimbOK(t) ==
  Verdicts(t) =>
    /\ pc[t] \in Beyond \/ steps[t] \ {"log", "notify"} # {} => EffectiveLevel(Item_(t)) > NOTIFY
    /\ "notify" \in steps[t] => EffectiveLevel(Item_(t)) >= NOTIFY

(* Each place of the descent is reached with the step before it done.      *)
DescentOK(t) ==
  /\ pc[t] = "snapshot" => "notify" \in steps[t]
  /\ pc[t] = "halt" => "snapshot" \in steps[t]
  /\ pc[t] \in {"checkpoint", "wait"} => "halt" \in steps[t]
  /\ pc[t] = "alert" => mode[t] = "shutdown" \/ steps[t] \cap {"checkpoint", "unsaved"} # {}
  /\ pc[t] = "flush" => "alert" \in steps[t]
  /\ pc[t] = "kill" => "flush" \in steps[t]
  /\ "unsaved" \in steps[t] => pc[t] \in {"alert", "flush", "kill"} \/ "kill" \in steps[t]

(* OrderOnTheWayDown, of one thread. *)
OrderOK(t) ==
  /\ "kill" \in steps[t] => "flush" \in steps[t]
  /\ "flush" \in steps[t] => "alert" \in steps[t]
  /\ "alert" \in steps[t] =>
       mode[t] = "shutdown" \/ steps[t] \cap {"checkpoint", "unsaved"} # {}
  /\ steps[t] \cap {"checkpoint", "unsaved"} # {} => "halt" \in steps[t]
  /\ "halt" \in steps[t] => "snapshot" \in steps[t]
  /\ "snapshot" \in steps[t] => "notify" \in steps[t]

ThreadOK(t) == WorkOK(t) /\ CallOK(t) /\ ClimbOK(t) /\ DescentOK(t) /\ OrderOK(t)

IInv ==
  /\ TypeOK
  /\ BlindnessOK
  /\ TerminatedIsTrue
  /\ \A t \in Thread : ThreadOK(t)

LEMMA InitIInv == LadderInit => IInv
<1> SUFFICES ASSUME LadderInit PROVE IInv
  OBVIOUS
<1>1. TypeOK
  BY InitType
<1>2. BlindnessOK /\ TerminatedIsTrue
  BY DEF LadderInit, BlindnessOK, TerminatedIsTrue
<1>3. ASSUME NEW t \in Thread PROVE ThreadOK(t)
  <2>1. pc[t] = "idle" /\ mode[t] = "handle" /\ work[t] = <<>> /\ cur[t] = 1 /\ steps[t] = {}
    BY DEF LadderInit
  <2> QED
    BY <2>1 DEF ThreadOK, WorkOK, CallOK, ClimbOK, DescentOK, OrderOK, Verdicts
<1> QED
  BY <1>1, <1>2, <1>3 DEF IInv

(* A thread that does not move keeps its part of the invariant. *)
LEMMA Unmoved ==
  ASSUME NEW t \in Thread, ThreadOK(t),
         pc'[t] = pc[t], mode'[t] = mode[t], work'[t] = work[t],
         cur'[t] = cur[t], steps'[t] = steps[t]
  PROVE  ThreadOK(t)'
BY DEF ThreadOK, WorkOK, CallOK, ClimbOK, DescentOK, OrderOK, Verdicts, Item_, EffectiveLevel,
       Unconfirmed, ItemOK, TargetLevel, FailLevel, Beyond

(* Nor does one whose call returns. *)
LEMMA ReturnedOK ==
  ASSUME TypeOK, NEW t \in Thread, Return(t)
  PROVE  ThreadOK(t)'
<1>1. /\ pc'[t] = "idle" /\ mode'[t] = "handle" /\ work'[t] = <<>>
      /\ cur'[t] = 1 /\ steps'[t] = {}
  BY DEF Return, TypeOK
<1> QED
  BY <1>1 DEF ThreadOK, WorkOK, CallOK, ClimbOK, DescentOK, OrderOK, Verdicts

-----------------------------------------------------------------------------
(* The thread that moves.                                                  *)

(* _decide: a promoted unknown has been unreadable for the whole tolerance. *)
LEMMA DecideOK ==
  ASSUME TypeOK, BlindnessOK, NEW v \in Verdict
  PROVE  ItemOK(Decide(v))
<1>1. v.probe \in Probe /\ v.status \in Status
  BY DEF Verdict
<1>2. /\ Decide(v).target = TargetLevel(v.probe, ResolveStatus(v.probe, v.status))
      /\ Decide(v).probe = v.probe
      /\ Decide(v).status = ResolveStatus(v.probe, v.status)
      /\ Decide(v).reading = v.status
      /\ Decide(v).quiet = sinceReadable[v.probe]
      /\ Decide(v).second = "unpolled"
  BY DEF Decide
<1>3. \/ ResolveStatus(v.probe, v.status) = v.status
      \/ /\ v.status = "unknown"
         /\ ResolveStatus(v.probe, v.status) = "warn"
         /\ sinceReadable[v.probe] >= UnknownTolerance
  BY <1>1, LadderAssumption DEF ResolveStatus, BlindnessOK, TypeOK, NotBlind
<1> QED
  BY <1>2, <1>3 DEF ItemOK

LEMMA BeginOK ==
  ASSUME IInv, NEW t \in Thread, NEW m \in {"handle", "batch"}, NEW vs \in Sweep,
         NEW hasRecheck \in BOOLEAN, Begin(t, m, vs, hasRecheck)
  PROVE  ThreadOK(t)'
<1>1. /\ pc[t] = "idle" /\ steps[t] = {} /\ cur[t] = 1
      /\ steps'[t] = {} /\ cur'[t] = 1
      /\ mode'[t] = m
      /\ pc'[t] \in {"confirm", "act"}
      /\ work'[t] = [i \in 1 .. Len(vs) |-> Decide(vs[i])]
  BY DEF Begin, IInv, TypeOK, ThreadOK, CallOK
<1>2. Len(vs) \in Nat \ {0} /\ Len(work'[t]) = Len(vs)
  BY <1>1, SweepType
<1>3. WorkOK(t)'
  <2>1. ASSUME NEW i \in 1 .. Len(vs) PROVE ItemOK(work'[t][i])
    BY <1>1, SweepType, DecideOK DEF IInv
  <2> QED
    BY <2>1, <1>2 DEF WorkOK, ItemOK, TargetLevel, FailLevel
<1> QED
  BY <1>1, <1>2, <1>3 DEF ThreadOK, CallOK, ClimbOK, DescentOK, OrderOK, Verdicts, Beyond

LEMMA RecheckOK ==
  ASSUME IInv, NEW t \in Thread, NEW r \in Poll, Recheck(t, r)
  PROVE  ThreadOK(t)'
<1>1. /\ pc[t] = "confirm" /\ steps[t] = {} /\ cur[t] = 1 /\ mode[t] # "shutdown"
      /\ pc'[t] \in {"confirm", "act", "raised"}
      /\ steps'[t] = {} /\ cur'[t] = 1 /\ mode'[t] = mode[t]
      /\ 1 \in 1 .. Len(work[t])
  BY DEF Recheck, IInv, TypeOK, ThreadOK, CallOK, Verdicts
<1>2. WorkOK(t)' /\ Len(work'[t]) = Len(work[t])
  <2>1. CASE UNCHANGED work
    BY <2>1 DEF IInv, ThreadOK, WorkOK, ItemOK, TargetLevel, FailLevel
  <2>2. CASE \E i \in Pending(t) :
               work' = [work EXCEPT ![t][i].second = r, ![t][i].gap = waited[t]]
    <3>1. PICK i \in Pending(t) :
               work' = [work EXCEPT ![t][i].second = r, ![t][i].gap = waited[t]]
      BY <2>2
    <3>2. work[t] \in Seq(Item) /\ i \in 1 .. Len(work[t]) /\ work[t][i] \in Item
      BY DEF IInv, TypeOK, Pending
    <3> DEFINE new == [work[t][i] EXCEPT !.second = r, !.gap = waited[t]]
    <3>3. /\ new.target = work[t][i].target /\ new.status = work[t][i].status
          /\ new.probe = work[t][i].probe /\ new.reading = work[t][i].reading
          /\ new.quiet = work[t][i].quiet /\ new.gap = waited[t]
      BY <3>2 DEF Item
    <3>4. ItemOK(new)
      <4>1. ItemOK(work[t][i])
        BY <3>2 DEF IInv, ThreadOK, WorkOK
      <4>2. waited[t] >= ConfirmDelay
        BY DEF Recheck
      <4> QED
        BY <4>1, <4>2, <3>3 DEF ItemOK
    <3>5. work'[t] = [work[t] EXCEPT ![i] = new]
      BY <3>1, <3>2 DEF IInv, TypeOK
    <3> HIDE DEF new
    <3>6. /\ Len(work'[t]) = Len(work[t])
          /\ \A j \in 1 .. Len(work[t]) : work'[t][j] = IF j = i THEN new ELSE work[t][j]
      BY <3>2, <3>5
    <3>7. \A j \in 1 .. Len(work[t]) : ItemOK(work[t][j])
      BY DEF IInv, ThreadOK, WorkOK
    <3>8. \A j \in 1 .. Len(work'[t]) : ItemOK(work'[t][j])
      BY <3>4, <3>6, <3>7
    <3> QED
      BY <3>6, <3>8 DEF WorkOK, ItemOK, TargetLevel, FailLevel
  <2> QED
    BY <2>1, <2>2 DEF Recheck
<1> QED
  BY <1>1, <1>2 DEF ThreadOK, CallOK, ClimbOK, DescentOK, OrderOK, Verdicts, Beyond

(* A thread inside its call keeps its verdicts, and what they deserve. *)
LEMMA SameVerdict ==
  ASSUME NEW t \in Thread, ThreadOK(t),
         mode'[t] = mode[t], work'[t] = work[t], cur'[t] = cur[t]
  PROVE  /\ WorkOK(t)'
         /\ EffectiveLevel(Item_(t))' = EffectiveLevel(Item_(t))
         /\ Len(work[t])' = Len(work[t])
BY DEF ThreadOK, WorkOK, Item_, EffectiveLevel, Unconfirmed, ItemOK, TargetLevel, FailLevel

LEMMA EffectiveType ==
  ASSUME TypeOK, NEW t \in Thread, ThreadOK(t), Verdicts(t)
  PROVE  Item_(t) \in Item /\ EffectiveLevel(Item_(t)) \in 0 .. 4
<1>1. Item_(t) \in Item
  BY DEF TypeOK, ThreadOK, CallOK, Item_
<1> QED
  BY <1>1 DEF Item, EffectiveLevel, Level, LOG, TERMINATE, NOTIFY

(* The steps from snapshot to wait: the verdict stays, one more thing is done. *)
LEMMA ClimbingOK ==
  ASSUME IInv, NEW t \in Thread,
         \/ Snapshot(t) \/ RequestHalt(t) \/ RequestCheckpoint(t)
         \/ SawCheckpoint(t) \/ GaveUpOnCheckpoint(t)
  PROVE  ThreadOK(t)'
<1> DEFINE E == EffectiveLevel(Item_(t))
<1>1. TypeOK /\ ThreadOK(t)
  BY DEF IInv
<1>2. /\ pc[t] \in {"snapshot", "halt", "checkpoint", "wait"}
      /\ mode'[t] = mode[t] /\ work'[t] = work[t] /\ cur'[t] = cur[t]
  BY DEF Snapshot, RequestHalt, RequestCheckpoint, SawCheckpoint, GaveUpOnCheckpoint
<1>3. mode[t] # "shutdown" /\ Verdicts(t)
  BY <1>1, <1>2 DEF ThreadOK, CallOK, Verdicts
<1>4. E > NOTIFY
  BY <1>1, <1>2, <1>3 DEF ThreadOK, ClimbOK, Beyond
<1>5. E >= NOTIFY
  BY <1>1, <1>3, <1>4, EffectiveType DEF NOTIFY
<1>6. WorkOK(t)' /\ E' = E /\ Len(work[t])' = Len(work[t])
  BY <1>1, <1>2, SameVerdict
<1>7. CASE Snapshot(t)
  <2>1. /\ pc[t] = "snapshot" /\ steps'[t] = steps[t] \cup {"snapshot"}
        /\ pc'[t] \in {"halt", "record"}
    BY <1>1, <1>7 DEF Snapshot, Do, TypeOK
  <2> QED
    BY <1>1, <1>2, <1>3, <1>4, <1>5, <1>6, <2>1
    DEF ThreadOK, CallOK, ClimbOK, DescentOK, OrderOK, Verdicts, Beyond
<1>8. CASE RequestHalt(t)
  <2>1. /\ pc[t] = "halt" /\ steps'[t] = steps[t] \cup {"halt"}
        /\ pc'[t] = "checkpoint"
    BY <1>1, <1>8 DEF RequestHalt, Do, TypeOK
  <2> QED
    BY <1>1, <1>2, <1>3, <1>4, <1>5, <1>6, <2>1
    DEF ThreadOK, CallOK, ClimbOK, DescentOK, OrderOK, Verdicts, Beyond
<1>9. CASE RequestCheckpoint(t)
  <2>1. /\ pc[t] = "checkpoint"
        /\ \/ steps'[t] = steps[t] \cup {"unsaved"} /\ pc'[t] = "alert"
           \/ steps'[t] = steps[t] /\ pc'[t] = "wait"
    BY <1>1, <1>9 DEF RequestCheckpoint, Do, TypeOK
  <2> QED
    BY <1>1, <1>2, <1>3, <1>4, <1>5, <1>6, <2>1
    DEF ThreadOK, CallOK, ClimbOK, DescentOK, OrderOK, Verdicts, Beyond
<1>10. CASE SawCheckpoint(t)
  <2>1. /\ pc[t] = "wait" /\ steps'[t] = steps[t] \cup {"checkpoint"}
        /\ pc'[t] \in {"alert", "record"}
    BY <1>1, <1>10 DEF SawCheckpoint, Do, TypeOK
  <2> QED
    BY <1>1, <1>2, <1>3, <1>4, <1>5, <1>6, <2>1
    DEF ThreadOK, CallOK, ClimbOK, DescentOK, OrderOK, Verdicts, Beyond
<1>11. CASE GaveUpOnCheckpoint(t)
  <2>1. /\ pc[t] = "wait" /\ steps'[t] = steps[t] \cup {"unsaved"}
        /\ pc'[t] = "alert"
    BY <1>1, <1>11 DEF GaveUpOnCheckpoint, Do, TypeOK
  <2> QED
    BY <1>1, <1>2, <1>3, <1>4, <1>5, <1>6, <2>1
    DEF ThreadOK, CallOK, ClimbOK, DescentOK, OrderOK, Verdicts, Beyond
<1> QED
  BY <1>7, <1>8, <1>9, <1>10, <1>11

(* The steps of _terminate, for a verdict or for a shutdown. *)
LEMMA TerminatingOK ==
  ASSUME IInv, NEW t \in Thread, Alert(t) \/ Flush(t) \/ KillPod(t)
  PROVE  ThreadOK(t)'
<1> DEFINE E == EffectiveLevel(Item_(t))
<1>1. TypeOK /\ ThreadOK(t)
  BY DEF IInv
<1>2. /\ mode'[t] = mode[t] /\ work'[t] = work[t] /\ cur'[t] = cur[t]
      /\ \/ pc[t] = "alert" /\ pc'[t] = "flush" /\ steps'[t] = steps[t] \cup {"alert"}
         \/ pc[t] = "flush" /\ pc'[t] = "kill" /\ steps'[t] = steps[t] \cup {"flush"}
         \/ pc[t] = "kill" /\ pc'[t] = "record" /\ steps'[t] = steps[t] \cup {"kill"}
  BY <1>1 DEF Alert, Flush, KillPod, Do, TypeOK
<1>3. Verdicts(t) => E > NOTIFY /\ E >= NOTIFY
  <2> SUFFICES ASSUME Verdicts(t) PROVE E > NOTIFY /\ E >= NOTIFY
    OBVIOUS
  <2>1. E > NOTIFY
    BY <1>1, <1>2 DEF ThreadOK, ClimbOK, Beyond
  <2> QED
    BY <1>1, <2>1, EffectiveType DEF NOTIFY
<1>4. WorkOK(t)' /\ E' = E /\ Len(work[t])' = Len(work[t])
  BY <1>1, <1>2, SameVerdict
<1> QED
  BY <1>1, <1>2, <1>3, <1>4
  DEF ThreadOK, CallOK, ClimbOK, DescentOK, OrderOK, Verdicts, Beyond

LEMMA AdvanceOK ==
  ASSUME IInv, NEW t \in Thread, Advance(t)
  PROVE  ThreadOK(t)'
<1> DEFINE E == EffectiveLevel(Item_(t))
<1>1. TypeOK /\ ThreadOK(t)
  BY DEF IInv
<1>2. CASE Unwind(t) \/ Return(t)
  BY <1>1, <1>2, ReturnedOK DEF Unwind
<1>3. CASE Notify(t)
  <2>1. /\ pc[t] = "act" /\ mode[t] # "shutdown" /\ Verdicts(t)
        /\ Level_(t) = E
        /\ mode'[t] = mode[t] /\ work'[t] = work[t] /\ cur'[t] = cur[t]
    BY <1>1, <1>3 DEF Notify, ThreadOK, CallOK, Verdicts, Level_
  <2>2. /\ steps'[t] = IF E >= NOTIFY THEN {"log", "notify"} ELSE {"log"}
        /\ pc'[t] = IF E >= SNAPSHOT THEN "snapshot" ELSE "record"
    BY <1>1, <1>3, <2>1 DEF Notify, TypeOK
  <2>3. WorkOK(t)' /\ E' = E /\ Len(work[t])' = Len(work[t])
    BY <1>1, <2>1, SameVerdict
  <2>4. (E >= SNAPSHOT => E > NOTIFY) /\ (E > NOTIFY => E >= NOTIFY)
    BY <1>1, <2>1, EffectiveType DEF SNAPSHOT, NOTIFY
  <2> QED
    BY <1>1, <2>1, <2>2, <2>3, <2>4
    DEF ThreadOK, CallOK, ClimbOK, DescentOK, OrderOK, Verdicts, Beyond
<1>4. CASE Record(t) /\ ~ Return(t)
  <2>1. /\ pc[t] = "record" /\ mode[t] # "shutdown" /\ cur[t] < Len(work[t])
        /\ mode'[t] = mode[t] /\ work'[t] = work[t] /\ cur'[t] = cur[t] + 1
        /\ pc'[t] = "act" /\ steps'[t] = {}
    BY <1>1, <1>4 DEF Record, TypeOK
  <2>2. WorkOK(t)'
    BY <1>1, <2>1 DEF ThreadOK, WorkOK, ItemOK, TargetLevel, FailLevel
  <2>3. cur'[t] \in 1 .. Len(work'[t])
    <3>1. work[t] \in Seq(Item) /\ cur[t] \in 1 .. Len(work[t])
      BY <1>1, <2>1 DEF TypeOK, ThreadOK, CallOK, Verdicts
    <3> QED
      BY <2>1, <3>1
  <2> QED
    BY <2>1, <2>2, <2>3
    DEF ThreadOK, CallOK, ClimbOK, DescentOK, OrderOK, Verdicts, Beyond
<1> QED
  BY <1>2, <1>3, <1>4, ClimbingOK, TerminatingOK DEF Advance, Record

LEMMA ShutdownOK ==
  ASSUME IInv, NEW t \in Thread, NEW a \in Action, Shutdown(t, a)
  PROVE  ThreadOK(t)'
<1>1. TypeOK /\ ThreadOK(t)
  BY DEF IInv
<1>2. /\ pc'[t] = "alert" /\ mode'[t] = "shutdown" /\ steps'[t] = {"log", "notify"}
      /\ work'[t] = work[t] /\ cur'[t] = cur[t]
  BY <1>1 DEF Shutdown, TypeOK
<1>3. WorkOK(t)'
  BY <1>1, <1>2 DEF ThreadOK, WorkOK, ItemOK, TargetLevel, FailLevel
<1> QED
  BY <1>2, <1>3 DEF ThreadOK, CallOK, ClimbOK, DescentOK, OrderOK, Verdicts

-----------------------------------------------------------------------------
(* Every step preserves the invariant.                                     *)

LEMMA NextBlindness == IInv /\ [LadderNext]_ladderVars => BlindnessOK'
<1> SUFFICES ASSUME IInv, [LadderNext]_ladderVars PROVE BlindnessOK'
  OBVIOUS
<1>1. TypeOK /\ BlindnessOK
  BY DEF IInv
<1>2. CASE UNCHANGED <<blindFor, sinceReadable>>
  BY <1>1, <1>2 DEF BlindnessOK
<1>3. ASSUME NEW t \in Thread, NEW m \in {"handle", "batch"}, NEW vs \in Sweep,
             NEW hasRecheck \in BOOLEAN, Begin(t, m, vs, hasRecheck)
      PROVE  BlindnessOK'
  <2>1. ASSUME NEW p \in Probe, blindFor'[p] # NotBlind
        PROVE  blindFor'[p] <= sinceReadable'[p]
    <3>1. /\ blindFor'[p] = BlindAfter(vs, p)
          /\ sinceReadable'[p] = IF Readable(vs, p) THEN 0 ELSE sinceReadable[p]
      BY <1>3 DEF Begin
    <3>2. /\ ~ Readable(vs, p)
          /\ BlindAfter(vs, p) \in {Longer(blindFor[p], 0), blindFor[p]}
      BY <2>1, <3>1 DEF BlindAfter
    <3> QED
      BY <1>1, <2>1, <3>1, <3>2, LadderAssumption DEF Longer, TypeOK, BlindnessOK, NotBlind
  <2> QED
    BY <2>1 DEF BlindnessOK
<1>4. CASE Tick
  <2>1. ASSUME NEW p \in Probe, blindFor'[p] # NotBlind
        PROVE  blindFor'[p] <= sinceReadable'[p]
    BY <1>1, <1>4, <2>1, LadderAssumption DEF Tick, TypeOK, BlindnessOK, NotBlind, AtMost
  <2> QED
    BY <2>1 DEF BlindnessOK
<1>5. CASE UNCHANGED ladderVars
  BY <1>2, <1>5 DEF ladderVars
<1>6. CASE TrainerSaves \/ PodLost
  BY <1>2, <1>6 DEF TrainerSaves, PodLost
<1>7. ASSUME NEW t \in Thread,
             (\E r \in Poll : Recheck(t, r)) \/ (\E a \in Action : Shutdown(t, a)) \/ Advance(t)
      PROVE  BlindnessOK'
  BY <1>2, <1>7 DEF Recheck, Shutdown, Advance, Unwind, Notify, Snapshot, RequestHalt,
     RequestCheckpoint, SawCheckpoint, GaveUpOnCheckpoint, Alert, Flush, KillPod, Record
<1> QED
  BY <1>3, <1>4, <1>5, <1>6, <1>7 DEF LadderNext

LEMMA NextTerminated == IInv /\ [LadderNext]_ladderVars => TerminatedIsTrue'
<1> SUFFICES ASSUME IInv, [LadderNext]_ladderVars PROVE TerminatedIsTrue'
  OBVIOUS
<1>1. TerminatedIsTrue
  BY DEF IInv
<1>2. CASE UNCHANGED <<terminated, pod>>
  BY <1>1, <1>2 DEF TerminatedIsTrue
<1>3. ASSUME NEW t \in Thread, KillPod(t) PROVE TerminatedIsTrue'
  BY <1>1, <1>3 DEF KillPod, TerminatedIsTrue, Off
<1>4. CASE PodLost
  BY <1>4 DEF PodLost, TerminatedIsTrue
<1>5. CASE UNCHANGED ladderVars
  BY <1>2, <1>5 DEF ladderVars
<1>6. CASE TrainerSaves \/ Tick
  BY <1>2, <1>6 DEF TrainerSaves, Tick
<1>7. ASSUME NEW t \in Thread,
             \/ \E m \in {"handle", "batch"}, vs \in Sweep, hasRecheck \in BOOLEAN :
                  Begin(t, m, vs, hasRecheck)
             \/ \E r \in Poll : Recheck(t, r)
             \/ \E a \in Action : Shutdown(t, a)
             \/ Advance(t)
      PROVE  TerminatedIsTrue'
  BY <1>2, <1>3, <1>7 DEF Begin, Recheck, Shutdown, Advance, Unwind, Notify, Snapshot,
     RequestHalt, RequestCheckpoint, SawCheckpoint, GaveUpOnCheckpoint, Alert, Flush, Record
<1> QED
  BY <1>4, <1>5, <1>6, <1>7 DEF LadderNext

(* Only the thread that moves changes what is kept per thread. *)
LEMMA OthersStay ==
  ASSUME TypeOK, NEW t \in Thread, NEW s \in Thread, s # t,
         \/ \E m \in {"handle", "batch"}, vs \in Sweep, hasRecheck \in BOOLEAN :
              Begin(t, m, vs, hasRecheck)
         \/ \E r \in Poll : Recheck(t, r)
         \/ \E a \in Action : Shutdown(t, a)
         \/ Advance(t)
  PROVE  /\ pc'[s] = pc[s] /\ mode'[s] = mode[s] /\ work'[s] = work[s]
         /\ cur'[s] = cur[s] /\ steps'[s] = steps[s]
<1>1. CASE \E m \in {"handle", "batch"}, vs \in Sweep, hasRecheck \in BOOLEAN :
              Begin(t, m, vs, hasRecheck)
  BY <1>1 DEF Begin, TypeOK
<1>2. CASE \E r \in Poll : Recheck(t, r)
  <2>1. PICK r \in Poll : Recheck(t, r)
    BY <1>2
  <2>2. work'[s] = work[s]
    BY <2>1 DEF Recheck, TypeOK
  <2> QED
    BY <2>1, <2>2 DEF Recheck, TypeOK
<1>3. CASE \E a \in Action : Shutdown(t, a)
  BY <1>3 DEF Shutdown, TypeOK
<1>4. CASE Unwind(t) \/ Return(t)
  BY <1>4 DEF Unwind, Return, TypeOK
<1>5. CASE Notify(t) \/ Snapshot(t) \/ RequestHalt(t)
  BY <1>5 DEF Notify, Snapshot, RequestHalt, Do, TypeOK
<1>6. CASE RequestCheckpoint(t)
  BY <1>6 DEF RequestCheckpoint, Do, TypeOK
<1>7. CASE SawCheckpoint(t) \/ GaveUpOnCheckpoint(t)
  BY <1>7 DEF SawCheckpoint, GaveUpOnCheckpoint, Do, TypeOK
<1>8. CASE Alert(t) \/ Flush(t) \/ KillPod(t)
  BY <1>8 DEF Alert, Flush, KillPod, Do, TypeOK
<1>9. CASE Record(t) /\ ~ Return(t)
  BY <1>9 DEF Record, TypeOK
<1> QED
  BY <1>1, <1>2, <1>3, <1>4, <1>5, <1>6, <1>7, <1>8, <1>9 DEF Advance

LEMMA NextThreads == IInv /\ [LadderNext]_ladderVars => (\A s \in Thread : ThreadOK(s))'
<1> SUFFICES ASSUME IInv, [LadderNext]_ladderVars, NEW s \in Thread PROVE ThreadOK(s)'
  OBVIOUS
<1>1. TypeOK /\ ThreadOK(s)
  BY DEF IInv
<1>2. CASE UNCHANGED <<pc, mode, work, cur, steps>>
  BY <1>1, <1>2, Unmoved
<1>3. ASSUME NEW t \in Thread,
             \/ \E m \in {"handle", "batch"}, vs \in Sweep, hasRecheck \in BOOLEAN :
                  Begin(t, m, vs, hasRecheck)
             \/ \E r \in Poll : Recheck(t, r)
             \/ \E a \in Action : Shutdown(t, a)
             \/ Advance(t)
      PROVE  ThreadOK(s)'
  <2>1. CASE s = t
    BY <1>3, <2>1, BeginOK, RecheckOK, ShutdownOK, AdvanceOK
  <2>2. CASE s # t
    BY <1>1, <1>3, <2>2, OthersStay, Unmoved
  <2> QED
    BY <2>1, <2>2
<1>4. CASE UNCHANGED ladderVars
  BY <1>2, <1>4 DEF ladderVars, callVars
<1>5. CASE TrainerSaves \/ PodLost \/ Tick
  BY <1>2, <1>5 DEF TrainerSaves, PodLost, Tick, callVars
<1> QED
  BY <1>3, <1>4, <1>5 DEF LadderNext

LEMMA NextIInv == IInv /\ [LadderNext]_ladderVars => IInv'
BY NextType, NextBlindness, NextTerminated, NextThreads DEF IInv

THEOREM Invariance == LadderSpec => []IInv
<1> QED
  BY InitIInv, NextIInv, PTL DEF LadderSpec

-----------------------------------------------------------------------------
(* What the ladder promises.                                               *)

(* An effective level past L1 was earned by two failed polls. *)
LEMMA Earned ==
  ASSUME IInv, NEW t \in Thread, Verdicts(t), EffectiveLevel(Item_(t)) > NOTIFY
  PROVE  /\ Item_(t).reading = "fail"
         /\ Item_(t).second = "fail"
         /\ Item_(t).gap >= ConfirmDelay
<1>1. Item_(t) \in Item /\ ItemOK(Item_(t))
  BY EffectiveType DEF IInv, ThreadOK, CallOK, WorkOK, Item_
<1>2. Item_(t).target > NOTIFY /\ Item_(t).second = "fail"
  BY DEF EffectiveLevel, Unconfirmed, NOTIFY
<1>3. Item_(t).status = "fail"
  BY <1>1, <1>2 DEF ItemOK, TargetLevel, NOTIFY, LOG
<1> QED
  BY <1>1, <1>2, <1>3 DEF ItemOK

(* Rule 1: nothing past L1 on a single reading. *)
THEOREM Confirmed == LadderSpec => []ConfirmedEscalation
<1>1. IInv => ConfirmedEscalation
  BY Earned DEF IInv, ThreadOK, ClimbOK, ConfirmedEscalation
<1> QED
  BY <1>1, Invariance, PTL

(* Rule 2: blindness is reported at most, and only once it has lasted. *)
THEOREM BlindnessIsNoEvidence == LadderSpec => []BlindnessStopsAtNotify
<1>1. IInv => BlindnessStopsAtNotify
  <2> SUFFICES ASSUME IInv, NEW t \in Thread, Verdicts(t), Item_(t).reading = "unknown"
               PROVE  /\ steps[t] \subseteq {"log", "notify"}
                      /\ "notify" \in steps[t] => Item_(t).quiet >= UnknownTolerance
    BY DEF BlindnessStopsAtNotify
  <2>1. ThreadOK(t) /\ Item_(t) \in Item /\ ItemOK(Item_(t))
    BY EffectiveType DEF IInv, ThreadOK, CallOK, WorkOK, Item_
  <2>2. steps[t] \subseteq {"log", "notify"}
    BY <2>1, Earned DEF ThreadOK, ClimbOK
  <2>3. ASSUME "notify" \in steps[t] PROVE Item_(t).quiet >= UnknownTolerance
    <3>1. EffectiveLevel(Item_(t)) >= NOTIFY
      BY <2>1, <2>3 DEF ThreadOK, ClimbOK
    <3>2. Item_(t).target # LOG
      BY <3>1 DEF EffectiveLevel, Unconfirmed, NOTIFY, LOG
    <3> QED
      BY <2>1, <3>2 DEF ItemOK, TargetLevel
  <2> QED
    BY <2>2, <2>3
<1> QED
  BY <1>1, Invariance, PTL

(* Rule 3: checkpoint, alert, flush, kill. *)
THEOREM Ordered == LadderSpec => []OrderOnTheWayDown
<1>1. IInv => OrderOnTheWayDown
  BY DEF IInv, ThreadOK, OrderOK, OrderOnTheWayDown
<1> QED
  BY <1>1, Invariance, PTL

(* A halt that saved nothing is escalated. *)
THEOREM UnsavedIsKilled == LadderSpec => []UnsavedHaltKills
<1>1. IInv => UnsavedHaltKills
  BY DEF IInv, ThreadOK, DescentOK, UnsavedHaltKills
<1> QED
  BY <1>1, Invariance, PTL

(* terminated is never set on a pod that runs. *)
THEOREM TerminatedHolds == LadderSpec => []TerminatedIsTrue
<1>1. IInv => TerminatedIsTrue
  BY DEF IInv
<1> QED
  BY <1>1, Invariance, PTL

-----------------------------------------------------------------------------
(* Each outcome of a re-poll is its own verdict's.                         *)

Unpolled(t) == \A i \in 1 .. Len(work[t]) : work[t][i].second = "unpolled"
AllPolled(t) ==
  \A i \in 1 .. Len(work[t]) : work[t][i].target > NOTIFY => work[t][i].second # "unpolled"

(* OutcomesAreTheirOwn, of one thread. *)
FiledOK(t) ==
  /\ \A i \in 1 .. Len(work[t]) : work[t][i].second # "unpolled" => work[t][i].target > NOTIFY
  /\ pc[t] \in {"confirm", "raised"} \/ Unpolled(t) \/ AllPolled(t)

LEMMA FiledKept ==
  ASSUME NEW t \in Thread, FiledOK(t), work'[t] = work[t],
         pc'[t] = pc[t] \/ pc[t] \notin {"confirm", "raised"} \/ pc'[t] \in {"confirm", "raised"}
  PROVE  FiledOK(t)'
BY DEF FiledOK, Unpolled, AllPolled

LEMMA ReturnFiled ==
  ASSUME TypeOK, NEW t \in Thread, Return(t)
  PROVE  FiledOK(t)'
<1>1. work'[t] = <<>>
  BY DEF Return, TypeOK
<1> QED
  BY <1>1 DEF FiledOK, Unpolled

LEMMA BeginFiled ==
  ASSUME TypeOK, NEW t \in Thread, NEW m \in {"handle", "batch"}, NEW vs \in Sweep,
         NEW hasRecheck \in BOOLEAN, Begin(t, m, vs, hasRecheck)
  PROVE  FiledOK(t)'
<1>1. work'[t] = [i \in 1 .. Len(vs) |-> Decide(vs[i])]
  BY DEF Begin, TypeOK
<1>2. Len(work'[t]) = Len(vs) /\ \A i \in 1 .. Len(vs) : vs[i] \in Verdict
  BY <1>1, SweepType
<1>3. \A i \in 1 .. Len(work'[t]) : work'[t][i].second = "unpolled"
  BY <1>1, <1>2, DecideType
<1> QED
  BY <1>3 DEF FiledOK, Unpolled

LEMMA RecheckFiled ==
  ASSUME TypeOK, NEW t \in Thread, FiledOK(t), NEW r \in Poll, Recheck(t, r)
  PROVE  FiledOK(t)'
<1>1. CASE UNCHANGED work /\ pc'[t] = "raised"
  BY <1>1, FiledKept
<1>2. CASE \E i \in Pending(t) :
             /\ work' = [work EXCEPT ![t][i].second = r, ![t][i].gap = waited[t]]
             /\ pc' = [pc EXCEPT ![t] = IF Pending(t) = {i} THEN "act" ELSE "confirm"]
  <2>1. PICK i \in Pending(t) :
          /\ work' = [work EXCEPT ![t][i].second = r, ![t][i].gap = waited[t]]
          /\ pc' = [pc EXCEPT ![t] = IF Pending(t) = {i} THEN "act" ELSE "confirm"]
    BY <1>2
  <2>2. /\ work[t] \in Seq(Item) /\ i \in 1 .. Len(work[t]) /\ work[t][i] \in Item
        /\ work[t][i].target > NOTIFY
    BY DEF TypeOK, Pending
  <2> DEFINE new == [work[t][i] EXCEPT !.second = r, !.gap = waited[t]]
  <2>3. new.target = work[t][i].target /\ new.second = r /\ r # "unpolled"
    BY <2>2, LadderAssumption DEF Item, Status
  <2>4. work'[t] = [work[t] EXCEPT ![i] = new]
    BY <2>1, <2>2 DEF TypeOK
  <2> HIDE DEF new
  <2>5. /\ Len(work'[t]) = Len(work[t])
        /\ \A j \in 1 .. Len(work[t]) : work'[t][j] = IF j = i THEN new ELSE work[t][j]
    BY <2>2, <2>4
  <2>6. \A j \in 1 .. Len(work'[t]) :
          work'[t][j].second # "unpolled" => work'[t][j].target > NOTIFY
    BY <2>2, <2>3, <2>5 DEF FiledOK
  <2>7. pc'[t] = IF Pending(t) = {i} THEN "act" ELSE "confirm"
    BY <2>1 DEF TypeOK
  <2>8. ASSUME Pending(t) = {i}, NEW j \in 1 .. Len(work'[t]), work'[t][j].target > NOTIFY
        PROVE  work'[t][j].second # "unpolled"
    BY <2>3, <2>5, <2>8 DEF Pending
  <2> QED
    BY <2>6, <2>7, <2>8 DEF FiledOK, AllPolled
<1> QED
  BY <1>1, <1>2 DEF Recheck, TypeOK

LEMMA NextFiled ==
  ASSUME IInv, NEW s \in Thread, FiledOK(s), [LadderNext]_ladderVars
  PROVE  FiledOK(s)'
<1>1. TypeOK
  BY DEF IInv
<1>2. CASE UNCHANGED <<pc, work>>
  BY <1>2, FiledKept
<1>3. ASSUME NEW t \in Thread,
             \/ \E m \in {"handle", "batch"}, vs \in Sweep, hasRecheck \in BOOLEAN :
                  Begin(t, m, vs, hasRecheck)
             \/ \E r \in Poll : Recheck(t, r)
             \/ \E a \in Action : Shutdown(t, a)
             \/ Advance(t)
      PROVE  FiledOK(s)'
  <2>1. CASE s # t
    BY <1>1, <1>3, <2>1, OthersStay, FiledKept
  <2>2. CASE s = t /\ \E m \in {"handle", "batch"}, vs \in Sweep, hasRecheck \in BOOLEAN :
                        Begin(t, m, vs, hasRecheck)
    BY <1>1, <2>2, BeginFiled
  <2>3. CASE s = t /\ \E r \in Poll : Recheck(t, r)
    BY <1>1, <2>3, RecheckFiled
  <2>4. CASE s = t /\ (Unwind(t) \/ Return(t))
    BY <1>1, <2>4, ReturnFiled DEF Unwind
  <2>5. CASE s = t /\ \/ \E a \in Action : Shutdown(t, a)
                      \/ Advance(t) /\ ~ Unwind(t) /\ ~ Return(t)
    <3>1. pc[t] \notin {"confirm", "raised"} /\ work'[t] = work[t]
      BY <2>5 DEF Shutdown, Advance, Notify, Snapshot, RequestHalt, RequestCheckpoint,
         SawCheckpoint, GaveUpOnCheckpoint, Alert, Flush, KillPod, Record
    <3> QED
      BY <2>5, <3>1, FiledKept
  <2> QED
    BY <1>3, <2>1, <2>2, <2>3, <2>4, <2>5
<1>4. CASE UNCHANGED ladderVars
  BY <1>2, <1>4 DEF ladderVars, callVars
<1>5. CASE TrainerSaves \/ PodLost \/ Tick
  BY <1>2, <1>5 DEF TrainerSaves, PodLost, Tick, callVars
<1> QED
  BY <1>3, <1>4, <1>5 DEF LadderNext

(* No outcome of a re-poll is filed under another verdict, or left out. *)
THEOREM OutcomesAreFiled == LadderSpec => []OutcomesAreTheirOwn
<1> DEFINE Filed == \A t \in Thread : FiledOK(t)
<1>1. LadderInit => Filed
  BY DEF LadderInit, FiledOK, Unpolled
<1>2. IInv /\ Filed /\ [LadderNext]_ladderVars => Filed'
  BY NextFiled
<1>3. Filed => OutcomesAreTheirOwn
  BY DEF FiledOK, Unpolled, AllPolled, OutcomesAreTheirOwn
<1> HIDE DEF Filed
<1> QED
  BY <1>1, <1>2, <1>3, Invariance, PTL DEF LadderSpec

-----------------------------------------------------------------------------
(* A confirmed failure gets all of its level.                              *)

(* A record is closed with every step of the effective level done. *)
ClosedOK(t) ==
  Verdicts(t) /\ pc[t] = "record" =>
    /\ EffectiveLevel(Item_(t)) >= SNAPSHOT  => "snapshot" \in steps[t]
    /\ EffectiveLevel(Item_(t)) >= HALT      => "halt" \in steps[t]
    /\ EffectiveLevel(Item_(t)) >= TERMINATE => "kill" \in steps[t]

LEMMA ClosedKept ==
  ASSUME NEW t \in Thread, ClosedOK(t),
         pc'[t] = pc[t], mode'[t] = mode[t], work'[t] = work[t],
         cur'[t] = cur[t], steps'[t] = steps[t]
  PROVE  ClosedOK(t)'
BY DEF ClosedOK, Verdicts, Item_, EffectiveLevel, Unconfirmed

LEMMA NotClosing ==
  ASSUME NEW t \in Thread, pc'[t] # "record"
  PROVE  ClosedOK(t)'
BY DEF ClosedOK

(* The three ways a verdict's record is closed short of the kill, and the kill. *)
LEMMA ClosingOK ==
  ASSUME IInv, NEW t \in Thread, Verdicts(t),
         Notify(t) \/ Snapshot(t) \/ SawCheckpoint(t) \/ KillPod(t)
  PROVE  ClosedOK(t)'
<1> DEFINE E == EffectiveLevel(Item_(t))
<1>1. TypeOK /\ ThreadOK(t) /\ E \in 0 .. 4
  BY EffectiveType DEF IInv
<1>2. Level_(t) = E
  BY DEF Level_, Verdicts
<1>3. E' = E
  <2>1. mode'[t] = mode[t] /\ work'[t] = work[t] /\ cur'[t] = cur[t]
    BY DEF Notify, Snapshot, SawCheckpoint, KillPod
  <2> QED
    BY <1>1, <2>1, SameVerdict
<1>4. /\ E >= SNAPSHOT => "snapshot" \in steps'[t] \/ pc'[t] # "record"
      /\ E >= HALT => "halt" \in steps'[t] \/ pc'[t] # "record"
      /\ E >= TERMINATE => "kill" \in steps'[t] \/ pc'[t] # "record"
  <2> HIDE DEF E
  <2>1. CASE Notify(t)
    <3>1. pc'[t] = IF E >= SNAPSHOT THEN "snapshot" ELSE "record"
      BY <1>1, <1>2, <2>1 DEF Notify, TypeOK
    <3> QED
      BY <1>1, <3>1 DEF SNAPSHOT, HALT, TERMINATE
  <2>2. CASE Snapshot(t)
    <3>1. /\ pc'[t] = IF E >= HALT THEN "halt" ELSE "record"
          /\ "snapshot" \in steps'[t]
      BY <1>1, <1>2, <2>2 DEF Snapshot, Do, TypeOK
    <3> QED
      BY <1>1, <3>1 DEF HALT, TERMINATE
  <2>3. CASE SawCheckpoint(t)
    <3>1. /\ pc'[t] = IF E >= TERMINATE THEN "alert" ELSE "record"
          /\ steps'[t] = steps[t] \cup {"checkpoint"}
          /\ pc[t] = "wait"
      BY <1>1, <1>2, <2>3 DEF SawCheckpoint, Do, TypeOK
    <3>2. "halt" \in steps[t] /\ "snapshot" \in steps[t]
      BY <1>1, <3>1 DEF ThreadOK, DescentOK, OrderOK
    <3> QED
      BY <3>1, <3>2
  <2>4. CASE KillPod(t)
    <3>1. steps'[t] = steps[t] \cup {"kill"} /\ pc[t] = "kill"
      BY <1>1, <2>4 DEF KillPod, Do, TypeOK
    <3>2. "halt" \in steps[t] /\ "snapshot" \in steps[t]
      BY <1>1, <3>1 DEF ThreadOK, DescentOK, OrderOK, Verdicts
    <3> QED
      BY <3>1, <3>2
  <2> QED
    BY <2>1, <2>2, <2>3, <2>4
<1> QED
  BY <1>3, <1>4 DEF ClosedOK

LEMMA NextClosed ==
  ASSUME IInv, NEW s \in Thread, ClosedOK(s), [LadderNext]_ladderVars
  PROVE  ClosedOK(s)'
<1>1. TypeOK /\ ThreadOK(s)
  BY DEF IInv
<1>2. CASE UNCHANGED <<pc, mode, work, cur, steps>>
  BY <1>2, ClosedKept
<1>3. ASSUME NEW t \in Thread,
             \/ \E m \in {"handle", "batch"}, vs \in Sweep, hasRecheck \in BOOLEAN :
                  Begin(t, m, vs, hasRecheck)
             \/ \E r \in Poll : Recheck(t, r)
             \/ \E a \in Action : Shutdown(t, a)
             \/ Advance(t)
      PROVE  ClosedOK(s)'
  <2>1. CASE s # t
    BY <1>1, <1>3, <2>1, OthersStay, ClosedKept
  <2>2. CASE s = t /\ Verdicts(t) /\ (Notify(t) \/ Snapshot(t) \/ SawCheckpoint(t) \/ KillPod(t))
    BY <2>2, ClosingOK
  <2>3. CASE s = t /\ ~ Verdicts(t) /\ (Notify(t) \/ Snapshot(t) \/ SawCheckpoint(t) \/ KillPod(t))
    <3>1. mode[t] = "shutdown" /\ mode'[t] = mode[t]
      BY <2>3 DEF Notify, Snapshot, SawCheckpoint, KillPod, Verdicts
    <3> QED
      BY <2>3, <3>1 DEF ClosedOK, Verdicts
  <2>4. CASE s = t /\ ~ (Notify(t) \/ Snapshot(t) \/ SawCheckpoint(t) \/ KillPod(t))
    <3>1. pc'[t] # "record"
      BY <1>1, <1>3, <2>4 DEF Begin, Recheck, Shutdown, Advance, Unwind, Return, RequestHalt,
         RequestCheckpoint, GaveUpOnCheckpoint, Alert, Flush, Record, Do, TypeOK
    <3> QED
      BY <2>4, <3>1, NotClosing
  <2> QED
    BY <2>1, <2>2, <2>3, <2>4
<1>4. CASE UNCHANGED ladderVars
  BY <1>2, <1>4 DEF ladderVars, callVars
<1>5. CASE TrainerSaves \/ PodLost \/ Tick
  BY <1>2, <1>5 DEF TrainerSaves, PodLost, Tick, callVars
<1> QED
  BY <1>3, <1>4, <1>5 DEF LadderNext

(* A confirmed failure is carried out to its level before its record is    *)
(* closed, whatever the trainer and the other threads do meanwhile.        *)
THEOREM ConfirmedIsExecuted == LadderSpec => []ConfirmedIsCarriedOut
<1> DEFINE Closed == \A t \in Thread : ClosedOK(t)
<1>1. LadderInit => Closed
  BY DEF LadderInit, ClosedOK
<1>2. IInv /\ Closed /\ [LadderNext]_ladderVars => Closed'
  BY NextClosed
<1>3. Closed => ConfirmedIsCarriedOut
  BY DEF ClosedOK, EffectiveLevel, Unconfirmed, ConfirmedIsCarriedOut
<1> HIDE DEF Closed
<1> QED
  BY <1>1, <1>2, <1>3, Invariance, PTL DEF LadderSpec

-----------------------------------------------------------------------------
(* The ladder implements KillSwitch.                                       *)

(* What each place in a call says of the evidence. *)
EvidenceAt(t) ==
  /\ pc[t] = "idle" => EvidenceOf(t) = "none"
  /\ pc[t] # "idle" /\ mode[t] = "shutdown" => EvidenceOf(t) = "ordered"
  /\ Verdicts(t) /\ pc[t] \in {"confirm", "act", "raised"} =>
       EvidenceOf(t) \in {"none", "suspected"}
  /\ Verdicts(t) /\ pc[t] = "act" /\ cur[t] \in 1 .. Len(work[t])
       /\ Item_(t).target > NOTIFY => EvidenceOf(t) = "suspected"
  /\ Verdicts(t) /\ pc[t] \in Beyond \cup {"record"}
       /\ EffectiveLevel(Item_(t)) > NOTIFY => EvidenceOf(t) = "confirmed"
  /\ Verdicts(t) => EvidenceOf(t) \in {"none", "suspected", "confirmed"}
  /\ Verdicts(t) /\ ~ EffectiveLevel(Item_(t)) > NOTIFY =>
       EvidenceOf(t) \in {"none", "suspected"}

LEMMA EvidenceInCall == ASSUME NEW t \in Thread PROVE EvidenceAt(t)
<1>1. pc[t] = "idle" => EvidenceOf(t) = "none"
  BY DEF EvidenceOf, Verdicts
<1>2. pc[t] # "idle" /\ mode[t] = "shutdown" => EvidenceOf(t) = "ordered"
  BY DEF EvidenceOf, Verdicts
<1> DEFINE acting    == pc[t] \in Beyond \cup {"record"} /\ EffectiveLevel(Item_(t)) > NOTIFY
           suspicion == \E i \in cur[t] .. Len(work[t]) : work[t][i].target > NOTIFY
<1>3. Verdicts(t) => EvidenceOf(t) = IF acting THEN "confirmed"
                                     ELSE IF suspicion THEN "suspected" ELSE "none"
  <2> HIDE DEF acting, suspicion
  <2>1. EvidenceOf(t) = CASE pc[t] = "idle" -> "none"
                          [] pc[t] # "idle" /\ mode[t] = "shutdown" -> "ordered"
                          [] Verdicts(t) -> IF acting THEN "confirmed"
                                            ELSE IF suspicion THEN "suspected" ELSE "none"
    BY Zenon DEF EvidenceOf, acting, suspicion
  <2> QED
    BY <2>1 DEF Verdicts
<1>4. ~ (pc[t] \in {"confirm", "act", "raised"} /\ acting)
  BY DEF Beyond
<1>5. cur[t] \in 1 .. Len(work[t]) /\ Item_(t).target > NOTIFY => suspicion
  BY DEF Item_
<1> QED
  BY <1>1, <1>2, <1>3, <1>4, <1>5 DEF EvidenceAt

LEMMA EvidenceInCallNext == ASSUME NEW t \in Thread PROVE EvidenceAt(t)'
<1>1. EvidenceAt(t)
  BY EvidenceInCall
<1> QED
  BY <1>1, PTL

LEMMA InitKillSwitch == LadderInit => KS!Init
BY EvidenceInCall DEF EvidenceAt, LadderInit, KS!Init

(* A step of one thread that leaves the pod alone and whose evidence may   *)
(* follow from what it was is one the abstract thread may take.            *)
LEMMA Weighs ==
  ASSUME TypeOK, NEW t \in Thread, UNCHANGED <<pod, terminated>>,
         \A s \in Thread : s # t => EvidenceOf(s)' = EvidenceOf(s),
         EvidenceOf(t)' \in KS!Follows(EvidenceOf(t))
  PROVE  KS!Next
<1> DEFINE evidence == [s \in Thread |-> EvidenceOf(s)]
<1>1. evidence' = [evidence EXCEPT ![t] = EvidenceOf(t)']
  OBVIOUS
<1>2. KS!Weigh(t)
  BY <1>1 DEF KS!Weigh
<1> QED
  BY <1>2 DEF KS!Next

(* Every kind of evidence may stay, be dropped, or (but for an order) grow *)
(* into a suspicion.                                                       *)
LEMMA MayFollow ==
  /\ KS!Follows("none") = {"none", "suspected", "ordered"}
  /\ KS!Follows("suspected") = {"none", "suspected", "confirmed"}
  /\ KS!Follows("confirmed") = {"none", "suspected", "confirmed"}
  /\ KS!Follows("ordered") = {"none", "ordered"}
BY DEF KS!Follows

LEMMA SameEvidence ==
  ASSUME NEW s \in Thread,
         pc'[s] = pc[s], mode'[s] = mode[s], work'[s] = work[s], cur'[s] = cur[s]
  PROVE  EvidenceOf(s)' = EvidenceOf(s)
BY DEF EvidenceOf, Verdicts, Item_, EffectiveLevel, Unconfirmed

LEMMA BeginFollows ==
  ASSUME TypeOK, NEW t \in Thread, NEW m \in {"handle", "batch"}, NEW vs \in Sweep,
         NEW hasRecheck \in BOOLEAN, Begin(t, m, vs, hasRecheck)
  PROVE  EvidenceOf(t)' \in KS!Follows(EvidenceOf(t))
<1>1. EvidenceOf(t) = "none"
  BY EvidenceInCall DEF EvidenceAt, Begin
<1>2. pc'[t] \in {"confirm", "act"} /\ mode'[t] # "shutdown"
  BY DEF Begin, TypeOK
<1>3. EvidenceOf(t)' \in {"none", "suspected"}
  BY <1>2, EvidenceInCallNext DEF EvidenceAt, Verdicts
<1> QED
  BY <1>1, <1>3, MayFollow

LEMMA ShutdownFollows ==
  ASSUME TypeOK, NEW t \in Thread, NEW a \in Action, Shutdown(t, a)
  PROVE  EvidenceOf(t)' \in KS!Follows(EvidenceOf(t))
<1>1. EvidenceOf(t) = "none"
  BY EvidenceInCall DEF EvidenceAt, Shutdown
<1>2. pc'[t] # "idle" /\ mode'[t] = "shutdown"
  BY DEF Shutdown, TypeOK
<1>3. EvidenceOf(t)' = "ordered"
  BY <1>2, EvidenceInCallNext DEF EvidenceAt
<1> QED
  BY <1>1, <1>3, MayFollow

LEMMA RecheckFollows ==
  ASSUME TypeOK, NEW t \in Thread, ThreadOK(t), NEW r \in Poll, Recheck(t, r)
  PROVE  EvidenceOf(t)' \in KS!Follows(EvidenceOf(t))
<1>1. Verdicts(t) /\ EvidenceOf(t) \in {"none", "suspected"}
  BY EvidenceInCall DEF EvidenceAt, Recheck, ThreadOK, CallOK, Verdicts
<1>2. pc'[t] \in {"confirm", "act", "raised"} /\ mode'[t] # "shutdown"
  BY <1>1 DEF Recheck, TypeOK, Verdicts
<1>3. EvidenceOf(t)' \in {"none", "suspected"}
  BY <1>2, EvidenceInCallNext DEF EvidenceAt, Verdicts
<1> QED
  BY <1>1, <1>3, MayFollow

(* A thread that returns drops its evidence. *)
LEMMA ReturnFollows ==
  ASSUME TypeOK, NEW t \in Thread, pc[t] # "idle", Return(t)
  PROVE  EvidenceOf(t)' \in KS!Follows(EvidenceOf(t))
<1>1. pc'[t] = "idle"
  BY DEF Return, TypeOK
<1>2. EvidenceOf(t)' = "none"
  BY <1>1, EvidenceInCallNext DEF EvidenceAt
<1>3. EvidenceOf(t) \in {"none", "suspected", "confirmed", "ordered"}
  BY EvidenceInCall DEF EvidenceAt, Verdicts
<1> QED
  BY <1>2, <1>3, MayFollow

(* The levels past L1 and the kill: the evidence is what it was. *)
LEMMA ClimbFollows ==
  ASSUME TypeOK, NEW t \in Thread, ThreadOK(t), pc[t] \in Beyond,
         pc'[t] \in Beyond \cup {"record"}, UNCHANGED <<mode, work, cur>>
  PROVE  /\ EvidenceOf(t)' = EvidenceOf(t)
         /\ EvidenceOf(t) \in {"confirmed", "ordered"}
<1>1. pc[t] # "idle" /\ pc'[t] # "idle"
  BY DEF Beyond
<1>2. CASE mode[t] = "shutdown"
  BY <1>1, <1>2, EvidenceInCall, EvidenceInCallNext DEF EvidenceAt
<1>3. CASE mode[t] # "shutdown"
  <2>1. Verdicts(t) /\ Verdicts(t)'
    BY <1>1, <1>3 DEF Verdicts
  <2>2. EffectiveLevel(Item_(t)) > NOTIFY
    BY <2>1 DEF ThreadOK, ClimbOK
  <2>3. (EffectiveLevel(Item_(t)) > NOTIFY)'
    BY <2>2 DEF EffectiveLevel, Unconfirmed, Item_
  <2> QED
    BY <2>1, <2>2, <2>3, EvidenceInCall, EvidenceInCallNext DEF EvidenceAt
<1> QED
  BY <1>2, <1>3

LEMMA NotifyFollows ==
  ASSUME TypeOK, NEW t \in Thread, ThreadOK(t), Notify(t)
  PROVE  EvidenceOf(t)' \in KS!Follows(EvidenceOf(t))
<1>1. Verdicts(t) /\ cur[t] \in 1 .. Len(work[t]) /\ pc[t] = "act"
  BY DEF Notify, ThreadOK, CallOK, Verdicts
<1>2. pc'[t] \in {"snapshot", "record"} /\ Verdicts(t)' /\ UNCHANGED <<work, cur>>
  BY <1>1 DEF Notify, TypeOK, Verdicts
<1>3. EvidenceOf(t) \in {"none", "suspected"}
  BY <1>1, EvidenceInCall DEF EvidenceAt
<1>4. CASE EffectiveLevel(Item_(t)) > NOTIFY
  <2>1. Item_(t).target > NOTIFY
    BY <1>4 DEF EffectiveLevel, Unconfirmed, NOTIFY
  <2>2. EvidenceOf(t) = "suspected"
    BY <1>1, <2>1, EvidenceInCall DEF EvidenceAt
  <2> QED
    BY <1>2, <2>2, EvidenceInCallNext, MayFollow DEF EvidenceAt
<1>5. CASE ~ EffectiveLevel(Item_(t)) > NOTIFY
  <2>1. ~ (EffectiveLevel(Item_(t)) > NOTIFY)'
    BY <1>2, <1>5 DEF EffectiveLevel, Unconfirmed, Item_
  <2>2. EvidenceOf(t)' \in {"none", "suspected"}
    BY <1>2, <2>1, EvidenceInCallNext DEF EvidenceAt
  <2> QED
    BY <1>3, <2>2, MayFollow
<1> QED
  BY <1>4, <1>5

LEMMA RecordFollows ==
  ASSUME TypeOK, NEW t \in Thread, ThreadOK(t), Record(t)
  PROVE  EvidenceOf(t)' \in KS!Follows(EvidenceOf(t))
<1>1. CASE Return(t)
  BY <1>1, ReturnFollows DEF Record
<1>2. CASE ~ Return(t)
  <2>1. Verdicts(t) /\ mode'[t] # "shutdown" /\ pc'[t] = "act"
    BY <1>2 DEF Record, TypeOK, Verdicts
  <2>2. EvidenceOf(t)' \in {"none", "suspected"}
    BY <2>1, EvidenceInCallNext DEF EvidenceAt, Verdicts
  <2>3. EvidenceOf(t) \in {"none", "suspected", "confirmed"}
    BY <2>1, EvidenceInCall DEF EvidenceAt
  <2> QED
    BY <2>2, <2>3, MayFollow
<1> QED
  BY <1>1, <1>2

(* Every step that can move a thread's evidence, but the kill. *)
LEMMA MoveFollows ==
  ASSUME IInv, NEW t \in Thread,
         \/ \E m \in {"handle", "batch"}, vs \in Sweep, hasRecheck \in BOOLEAN :
              Begin(t, m, vs, hasRecheck)
         \/ \E r \in Poll : Recheck(t, r)
         \/ \E a \in Action : Shutdown(t, a)
         \/ Advance(t)
  PROVE  EvidenceOf(t)' \in KS!Follows(EvidenceOf(t))
<1> USE DEF IInv
<1>1. TypeOK /\ ThreadOK(t)
  OBVIOUS
<1>2. CASE \E m \in {"handle", "batch"}, vs \in Sweep, hasRecheck \in BOOLEAN :
              Begin(t, m, vs, hasRecheck)
  BY <1>1, <1>2, BeginFollows
<1>3. CASE \E r \in Poll : Recheck(t, r)
  BY <1>1, <1>3, RecheckFollows
<1>4. CASE \E a \in Action : Shutdown(t, a)
  BY <1>1, <1>4, ShutdownFollows
<1>5. CASE Unwind(t)
  BY <1>1, <1>5, ReturnFollows DEF Unwind
<1>6. CASE Notify(t)
  BY <1>1, <1>6, NotifyFollows
<1>7. CASE Record(t)
  BY <1>1, <1>7, RecordFollows
<1>8. CASE \/ Snapshot(t) \/ RequestHalt(t) \/ RequestCheckpoint(t)
           \/ SawCheckpoint(t) \/ GaveUpOnCheckpoint(t)
           \/ Alert(t) \/ Flush(t) \/ KillPod(t)
  <2>1. /\ pc[t] \in Beyond
        /\ UNCHANGED <<mode, work, cur>>
    BY <1>8 DEF Snapshot, RequestHalt, RequestCheckpoint, SawCheckpoint,
                GaveUpOnCheckpoint, Alert, Flush, KillPod, Beyond
  <2>2. pc'[t] \in Beyond \cup {"record"}
    BY <1>1, <1>8 DEF Snapshot, RequestHalt, RequestCheckpoint, SawCheckpoint,
         GaveUpOnCheckpoint, Alert, Flush, KillPod, Do, Beyond, TypeOK
  <2>3. EvidenceOf(t)' = EvidenceOf(t) /\ EvidenceOf(t) \in {"confirmed", "ordered"}
    BY <1>1, <2>1, <2>2, ClimbFollows
  <2> QED
    BY <2>3, MayFollow
<1> QED
  BY <1>2, <1>3, <1>4, <1>5, <1>6, <1>7, <1>8 DEF Advance

(* The kill: only on evidence, and only believed when it took. *)
LEMMA KillSimulated ==
  ASSUME IInv, NEW t \in Thread, KillPod(t), pod' # pod \/ terminated' # terminated
  PROVE  KS!Next
<1>1. TypeOK /\ ThreadOK(t)
  BY DEF IInv
<1>2. /\ pc[t] \in Beyond /\ pc'[t] \in Beyond \cup {"record"}
      /\ UNCHANGED <<mode, work, cur>>
  BY <1>1 DEF KillPod, Do, Beyond, TypeOK
<1>3. EvidenceOf(t)' = EvidenceOf(t) /\ EvidenceOf(t) \in {"confirmed", "ordered"}
  BY <1>1, <1>2, ClimbFollows
<1>4. \A s \in Thread : s # t => EvidenceOf(s)' = EvidenceOf(s)
  BY <1>1, OthersStay, SameEvidence DEF Advance
<1>5. pod' \in {"stopped", "terminated"} /\ terminated' \in {TRUE, terminated}
  BY DEF KillPod, Off
<1>6. UNCHANGED [s \in Thread |-> EvidenceOf(s)]
  BY <1>3, <1>4
<1>7. KS!Kill(t)
  BY <1>3, <1>5, <1>6 DEF KS!Kill, KS!Down
<1> QED
  BY <1>7 DEF KS!Next

(* Every step of the ladder is one of the abstract switch, or none. *)
LEMMA StepSimulated == IInv /\ [LadderNext]_ladderVars => [KS!Next]_(KS!vars)
<1> SUFFICES ASSUME IInv, [LadderNext]_ladderVars PROVE KS!Next \/ UNCHANGED KS!vars
  OBVIOUS
<1>1. TypeOK
  BY DEF IInv
<1>2. CASE UNCHANGED <<pc, mode, work, cur, pod, terminated>>
  <2>1. UNCHANGED [s \in Thread |-> EvidenceOf(s)]
    BY <1>2, SameEvidence
  <2> QED
    BY <1>2, <2>1 DEF KS!vars
<1>3. CASE PodLost
  <2>1. UNCHANGED [s \in Thread |-> EvidenceOf(s)]
    BY <1>3, SameEvidence DEF PodLost, callVars
  <2>2. KS!PodLost
    BY <1>3, <2>1 DEF PodLost, KS!PodLost, KS!Down
  <2> QED
    BY <2>2 DEF KS!Next
<1>4. ASSUME NEW t \in Thread,
             \/ \E m \in {"handle", "batch"}, vs \in Sweep, hasRecheck \in BOOLEAN :
                  Begin(t, m, vs, hasRecheck)
             \/ \E r \in Poll : Recheck(t, r)
             \/ \E a \in Action : Shutdown(t, a)
             \/ Advance(t)
      PROVE  KS!Next
  <2>1. \A s \in Thread : s # t => EvidenceOf(s)' = EvidenceOf(s)
    BY <1>1, <1>4, OthersStay, SameEvidence
  <2>2. EvidenceOf(t)' \in KS!Follows(EvidenceOf(t))
    BY <1>4, MoveFollows
  <2>3. CASE UNCHANGED <<pod, terminated>>
    BY <1>1, <2>1, <2>2, <2>3, Weighs
  <2>4. CASE ~ UNCHANGED <<pod, terminated>>
    <3>1. KillPod(t)
      BY <1>4, <2>4 DEF Begin, Recheck, Shutdown, Advance, Unwind, Notify, Snapshot, RequestHalt,
         RequestCheckpoint, SawCheckpoint, GaveUpOnCheckpoint, Alert, Flush, Record
    <3> QED
      BY <2>4, <3>1, KillSimulated
  <2> QED
    BY <2>3, <2>4
<1>5. CASE UNCHANGED ladderVars \/ TrainerSaves \/ Tick
  BY <1>2, <1>5 DEF ladderVars, callVars, TrainerSaves, Tick
<1> QED
  BY <1>3, <1>4, <1>5 DEF LadderNext

(* Whatever the threads do, the pod leaves RUNNING by the ladder's hand    *)
(* only on a failure seen twice or an order to leave, and is believed down *)
(* only when it is.                                                        *)
THEOREM Implements == LadderSpec => ImplementsKillSwitch
<1> QED
  BY InitKillSwitch, StepSimulated, Invariance, PTL
     DEF LadderSpec, ImplementsKillSwitch, KS!Spec
=============================================================================
