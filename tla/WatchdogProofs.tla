--------------------------- MODULE WatchdogProofs ---------------------------
(***************************************************************************)
(* What the process inside the pod promises, for every stall threshold and *)
(* every number of signals.  The two threads are looked at one by one: the *)
(* calls the one makes of the ladder are out of the other's reach.         *)
(***************************************************************************)
EXTENDS Watchdog, LadderProofs

(* The main thread's shutdown comes to its kill, and the process does not  *)
(* end before.                                                             *)
MainOK ==
  /\ mpc \in {"leaving", "handling"} =>
       \/ pc[Main] \in {"alert", "flush", "kill"} /\ mode[Main] = "shutdown"
       \/ pc[Main] = "record" /\ mode[Main] = "shutdown" /\ exitTried
       \/ pc[Main] = "idle" /\ exitTried
  /\ NoOrphanedExit

(* The watchdog's call is about the one verdict of the probe it is at. *)
OneVerdict ==
  /\ cur[Dog] = 1
  /\ pc[Dog] # "idle" =>
       /\ wpc = "sweep" /\ next > 1
       /\ mode[Dog] = "handle"
       /\ Len(work[Dog]) = 1 /\ work[Dog][1].probe = WatchOrder[next - 1]

(* A report is seen by the second reading, which then does not confirm. *)
ReportSeen ==
  /\ reported => seenAge = 0 /\ wpc = "sweep"
  /\ /\ reported
     /\ pc[Dog] \notin {"idle", "confirm"}
     /\ work[Dog][1].probe = "liveness.step_counter"
     => /\ pc[Dog] \in {"act", "record", "raised"}
        /\ work[Dog][1].second # "fail"

WatchdogInv ==
  /\ TypeOK
  /\ WatchdogTypeOK
  /\ MainOK
  /\ OneVerdict
  /\ ReportSeen

-----------------------------------------------------------------------------
(* The constants and the start.                                            *)

LEMMA TwoThreads == Main \in Thread /\ Dog \in Thread /\ Main # Dog
BY WatchdogAssumption DEF Main, Dog

LEMMA OrderOfProbes ==
  /\ Len(WatchOrder) \in Nat /\ Len(WatchOrder) >= 1
  /\ \A i \in 1 .. Len(WatchOrder) : WatchOrder[i] \in Probe
BY WatchdogAssumption

LEMMA StartsGuarded == WatchdogInit => WatchdogInv
<1> SUFFICES ASSUME WatchdogInit PROVE WatchdogInv
  OBVIOUS
<1>1. TypeOK /\ pc[Dog] = "idle" /\ cur[Dog] = 1
  BY InitType, TwoThreads DEF WatchdogInit, LadderInit
<1>2. WatchdogTypeOK
  <2>1. Stall \in Nat /\ MaxSignals \in Nat
    BY WatchdogAssumption
  <2>2. signals \in 0 .. MaxSignals /\ next \in 1 .. Len(WatchOrder) + 1
    BY <2>1, OrderOfProbes DEF WatchdogInit
  <2>3. stepAge \in NoStep .. Stall + 1 /\ seenAge \in NoStep .. Stall + 1
    BY <2>1 DEF WatchdogInit, NoStep
  <2> QED
    BY <2>2, <2>3 DEF WatchdogInit, WatchdogTypeOK, Body, Exiting
<1>3. MainOK /\ OneVerdict /\ ReportSeen
  BY <1>1 DEF WatchdogInit, MainOK, NoOrphanedExit, OneVerdict, ReportSeen
<1> QED
  BY <1>1, <1>2, <1>3 DEF WatchdogInv

-----------------------------------------------------------------------------
(* The types.                                                              *)

(* Steps that leave the ladder alone. *)
Apart ==
  \/ Heartbeat \/ Step \/ Continue \/ Break \/ LastStep \/ Raise \/ Wedge
  \/ Stop \/ Join \/ Leave \/ Unwound
  \/ StartTick \/ EndLoop \/ EndTick \/ PodTakesProcess \/ UNCHANGED vars

LEMMA ApartLeavesLadder == Apart => UNCHANGED ladderVars
BY DEF Apart, Heartbeat, Step, Continue, Break, LastStep, Raise, Wedge, Stop, Join, Leave,
       Unwound, StartTick, EndLoop, EndTick, PodTakesProcess, GoTo, vars

LEMMA EveryStep ==
  [WatchdogNext]_vars =>
    \/ Apart
    \/ Save \/ Guard \/ Handler \/ Signal \/ ExitGuard
    \/ Check \/ Repoll \/ Escalate \/ Pass
BY DEF WatchdogNext, DogStep, ExitStep, TrainStep, Apart

LEMMA ReadingIsStatus == \A p : Reading(p) \subseteq Status
BY DEF Reading, StepCounterReading, BackendReading, Status

(* The watchdog hands the ladder one verdict at a time. *)
LEMMA CheckBegins ==
  ASSUME TypeOK, WatchdogTypeOK, Check
  PROVE  \E v \in Verdict :
           /\ v.probe = WatchOrder[next]
           /\ Begin(Dog, "handle", <<v>>, TRUE)
<1>1. PICK s \in Reading(WatchOrder[next]) :
         Begin(Dog, "handle", <<[probe |-> WatchOrder[next], status |-> s]>>, TRUE)
  BY DEF Check
<1>2. next \in 1 .. Len(WatchOrder)
  BY OrderOfProbes DEF Check, WatchdogTypeOK
<1>3. [probe |-> WatchOrder[next], status |-> s] \in Verdict
  BY <1>1, <1>2, OrderOfProbes, ReadingIsStatus DEF Verdict
<1> QED
  BY <1>1, <1>3

LEMMA BeginOneType ==
  ASSUME TypeOK, NEW v \in Verdict, Begin(Dog, "handle", <<v>>, TRUE)
  PROVE  /\ TypeOK'
         /\ work' = [work EXCEPT ![Dog] = <<Decide(v)>>]
<1>1. work' = [work EXCEPT ![Dog] = <<Decide(v)>>]
  <2>1. [i \in 1 .. Len(<<v>>) |-> Decide(<<v>>[i])] = <<Decide(v)>>
    OBVIOUS
  <2> QED
    BY <2>1 DEF Begin
<1>2. <<v>> \in Seq(Verdict)
  OBVIOUS
<1> QED
  BY <1>1, <1>2, BeginType, TwoThreads

(* The second reading is one that the ladder may be given. *)
LEMMA RepollRechecks ==
  ASSUME Repoll
  PROVE  \E r \in Reading(WatchOrder[next - 1]) : r \in Poll /\ Recheck(Dog, r)
BY ReadingIsStatus, WatchdogAssumption DEF Repoll, Status

LEMMA LadderPart == ASSUME WatchdogInv, [WatchdogNext]_vars PROVE TypeOK'
<1>1. TypeOK /\ WatchdogTypeOK
  BY DEF WatchdogInv
<1>2. CASE Apart
  BY <1>1, <1>2, ApartLeavesLadder DEF ladderVars, callVars, TypeOK
<1>3. CASE Save
  BY <1>1, <1>3 DEF Save, TypeOK, callVars
<1>4. CASE Guard \/ Handler
  BY <1>1, <1>4, OtherType, TwoThreads, LadderAssumption DEF Guard, Handler
<1>5. CASE Signal
  BY <1>1, <1>5, ReturnType, TwoThreads DEF Signal, TypeOK
<1>6. CASE ExitGuard
  BY <1>1, <1>6, OtherType, TwoThreads DEF ExitGuard, Advance
<1>7. CASE Check
  BY <1>1, <1>7, CheckBegins, BeginOneType
<1>8. CASE Repoll
  BY <1>1, <1>8, RepollRechecks, RecheckType, TwoThreads
<1>9. CASE Escalate
  BY <1>1, <1>9, OtherType, TwoThreads DEF Escalate
<1>10. CASE Pass
  BY <1>1, <1>10, WorldType DEF Pass
<1> QED
  BY <1>2, <1>3, <1>4, <1>5, <1>6, <1>7, <1>8, <1>9, <1>10, EveryStep

LEMMA TypePart == ASSUME WatchdogInv, [WatchdogNext]_vars PROVE WatchdogTypeOK'
<1>1. WatchdogTypeOK /\ Len(WatchOrder) \in Nat /\ Len(WatchOrder) >= 1 /\ Stall \in Nat
      /\ MaxSignals \in Nat
  BY OrderOfProbes, WatchdogAssumption DEF WatchdogInv
<1>2. CASE Heartbeat \/ Step
  <2>1. 0 \in NoStep .. Stall + 1
    BY <1>1 DEF NoStep
  <2>2. /\ stepAge' = 0 /\ seenAge' = 0 /\ reported' \in BOOLEAN
        /\ mpc' \in {mpc, "save"}
        /\ UNCHANGED <<inBody, signals, exitTried, dogVars, stopSet, backendUp>>
    BY <1>2 DEF Heartbeat, Step, Report, mainVars
  <2> QED
    BY <1>1, <2>1, <2>2 DEF WatchdogTypeOK, dogVars, Body
<1>3. CASE Save \/ Continue \/ Break \/ LastStep \/ Raise \/ Wedge \/ PodTakesProcess
  BY <1>1, <1>3
     DEF WatchdogTypeOK, Save, Continue, Break, LastStep, Raise, Wedge, PodTakesProcess, GoTo,
         dogVars, reportVars, Body, Exiting
<1>4. CASE Stop \/ Join \/ Guard \/ Leave \/ Handler \/ Unwound
  <2>1. /\ mpc' \in {"exit", "join", "guard", "leaving", "handling", "gone"}
        /\ inBody' \in BOOLEAN /\ stopSet' \in BOOLEAN
        /\ UNCHANGED <<signals, exitTried, dogVars, reportVars, backendUp>>
    BY <1>1, <1>4 DEF WatchdogTypeOK, Stop, Join, Guard, Leave, Handler, Unwound, GoTo
  <2> QED
    BY <1>1, <2>1 DEF WatchdogTypeOK, dogVars, reportVars, Exiting
<1>5. CASE ExitGuard
  BY <1>1, <1>5 DEF WatchdogTypeOK, ExitGuard, dogVars, reportVars
<1>6. CASE Signal
  <2>1. signals' \in 0 .. MaxSignals /\ inBody' \in BOOLEAN
    BY <1>1, <1>6 DEF WatchdogTypeOK, Signal
  <2> QED
    BY <1>1, <1>6, <2>1 DEF WatchdogTypeOK, Signal, dogVars, reportVars
<1>7. CASE StartTick
  <2>1. lastHealth' \in {"healthy", "down", "unreported"}
    BY <1>7 DEF StartTick
  <2> QED
    BY <1>1, <1>7, <2>1 DEF WatchdogTypeOK, StartTick, mainVars
<1>8. CASE Check
  <2>1. next' \in 1 .. Len(WatchOrder) + 1
    BY <1>1, <1>8 DEF WatchdogTypeOK, Check
  <2> QED
    BY <1>1, <1>8, <2>1 DEF WatchdogTypeOK, Check, mainVars
<1>9. CASE EndLoop \/ Repoll \/ EndTick \/ Escalate
  <2>1. /\ wpc' \in {wpc, "done", "waiting"} /\ next' \in {next, 1} /\ reported' \in {reported, FALSE}
        /\ UNCHANGED <<mainVars, lastHealth, stepAge, seenAge, stopSet, backendUp>>
    BY <1>9 DEF EndLoop, Repoll, EndTick, Escalate, watchVars, dogVars, reportVars
  <2>2. next' \in 1 .. Len(WatchOrder) + 1
    BY <1>1, <2>1 DEF WatchdogTypeOK
  <2>3. reported' \in BOOLEAN /\ wpc' \in {"waiting", "sweep", "done"}
    BY <1>1, <2>1 DEF WatchdogTypeOK
  <2> QED
    BY <1>1, <2>1, <2>2, <2>3 DEF WatchdogTypeOK, mainVars
<1>10. CASE Pass
  <2>1. stepAge' \in NoStep .. Stall + 1
    BY <1>1, <1>10 DEF WatchdogTypeOK, Pass, AtMost, NoStep
  <2>2. backendUp' \in BOOLEAN
    BY <1>10 DEF Pass
  <2> QED
    BY <1>1, <1>10, <2>1, <2>2 DEF WatchdogTypeOK, Pass, mainVars, dogVars
<1>11. CASE UNCHANGED vars
  BY <1>1, <1>11 DEF WatchdogTypeOK, vars, watchVars, mainVars, dogVars, reportVars
<1> QED
  BY <1>2, <1>3, <1>4, <1>5, <1>6, <1>7, <1>8, <1>9, <1>10, <1>11
     DEF WatchdogNext, DogStep, ExitStep, TrainStep

-----------------------------------------------------------------------------
(* The main thread.                                                        *)

(* What the watchdog does of the ladder does not move the main thread's    *)
(* call, and no call starts a pod.                                         *)
LEMMA DogLeavesMain ==
  ASSUME TypeOK, Check \/ Repoll \/ Escalate
  PROVE  pc'[Main] = pc[Main] /\ mode'[Main] = mode[Main]
<1>1. TypeOK /\ Main \in Thread /\ Dog \in Thread /\ Main # Dog
  BY TwoThreads
<1>2. CASE Check
  BY <1>1, <1>2 DEF TypeOK, Check, Begin
<1>3. CASE Repoll
  BY <1>1, <1>3 DEF TypeOK, Repoll, Recheck
<1>4. CASE Escalate
  BY <1>1, <1>4
     DEF TypeOK, Escalate, Advance, Unwind, Notify, Snapshot, RequestHalt, RequestCheckpoint,
         SawCheckpoint, GaveUpOnCheckpoint, Alert, Flush, KillPod, Record, Do, Return
<1> QED
  BY <1>2, <1>3, <1>4

LEMMA NobodyStarts ==
  ASSUME [WatchdogNext]_vars, pod # "running"
  PROVE  pod' # "running"
<1>1. \A t : KillPod(t) => pod' # "running"
  BY DEF KillPod, Off
<1>2. CASE Apart
  BY <1>2, ApartLeavesLadder DEF ladderVars
<1>3. CASE Save \/ Guard \/ Handler \/ Signal
  BY <1>3 DEF Save, Guard, Handler, Signal, Shutdown
<1>4. CASE ExitGuard
  BY <1>1, <1>4 DEF ExitGuard, Alert, Flush, Record
<1>5. CASE Check \/ Repoll
  BY <1>5 DEF Check, Repoll, Begin, Recheck
<1>6. CASE Escalate
  BY <1>1, <1>6
     DEF Escalate, Advance, Unwind, Notify, Snapshot, RequestHalt, RequestCheckpoint,
         SawCheckpoint, GaveUpOnCheckpoint, Alert, Flush, Record
<1>7. CASE Pass
  BY <1>7 DEF Pass, Tick
<1> QED
  BY <1>2, <1>3, <1>4, <1>5, <1>6, <1>7, EveryStep

LEMMA MainPart == ASSUME WatchdogInv, [WatchdogNext]_vars PROVE MainOK'
<1>1. /\ TypeOK /\ MainOK /\ Main \in Thread /\ Dog \in Thread /\ Main # Dog
      /\ (pod # "running" => pod' # "running")
      /\ exitTried \in BOOLEAN
  BY TwoThreads, NobodyStarts DEF WatchdogInv, WatchdogTypeOK
<1>2. CASE Check \/ Repoll \/ Escalate
  <2>1. UNCHANGED <<mpc, exitTried>>
    BY <1>2 DEF Check, Repoll, Escalate, mainVars, watchVars
  <2> QED
    BY <1>1, <1>2, <2>1, DogLeavesMain DEF MainOK, NoOrphanedExit
<1>3. CASE ExitGuard
  <2>1. mpc \in {"leaving", "handling"} /\ UNCHANGED mpc
    BY <1>3 DEF ExitGuard
  <2>2. CASE (Alert(Main) \/ Flush(Main)) /\ UNCHANGED exitTried
    BY <1>1, <2>1, <2>2 DEF MainOK, NoOrphanedExit, TypeOK, Alert, Flush, Do
  <2>3. CASE Record(Main) /\ UNCHANGED exitTried
    BY <1>1, <2>1, <2>3 DEF MainOK, NoOrphanedExit, TypeOK, Record, Return
  <2>4. CASE KillPod(Main) /\ exitTried' = TRUE
    BY <1>1, <2>1, <2>4 DEF MainOK, NoOrphanedExit, TypeOK, KillPod, Do
  <2> QED
    BY <1>3, <2>2, <2>3, <2>4 DEF ExitGuard
<1>4. CASE Guard \/ Handler
  BY <1>1, <1>4 DEF MainOK, NoOrphanedExit, TypeOK, Guard, Handler, Shutdown
<1>5. CASE Leave \/ Unwound \/ PodTakesProcess
  BY <1>1, <1>5 DEF MainOK, NoOrphanedExit, Leave, Unwound, PodTakesProcess, GoTo
<1>6. CASE Signal
  BY <1>1, <1>6 DEF MainOK, NoOrphanedExit, Signal
<1>7. CASE Save \/ Step \/ Continue \/ Break \/ LastStep \/ Raise \/ Wedge \/ Stop \/ Join
  BY <1>1, <1>7
     DEF MainOK, NoOrphanedExit, Save, Step, Continue, Break, LastStep, Raise, Wedge, Stop,
         Join, GoTo
<1>8. CASE Heartbeat \/ StartTick \/ EndLoop \/ EndTick \/ Pass \/ UNCHANGED vars
  <2>1. UNCHANGED <<pc, mode, mpc, exitTried>>
    BY <1>8
       DEF Heartbeat, StartTick, EndLoop, EndTick, Pass, Tick, vars, watchVars, mainVars,
           ladderVars, callVars
  <2> QED
    BY <1>1, <2>1 DEF MainOK, NoOrphanedExit
<1> QED
  BY <1>2, <1>3, <1>4, <1>5, <1>6, <1>7, <1>8
     DEF WatchdogNext, DogStep, ExitStep, TrainStep

-----------------------------------------------------------------------------
(* The watchdog thread.                                                    *)

LEMMA FirstItem ==
  ASSUME TypeOK, Len(work[Dog]) = 1
  PROVE  work[Dog] \in Seq(Item) /\ 1 \in 1 .. Len(work[Dog]) /\ work[Dog][1] \in Item
<1>1. work[Dog] \in Seq(Item)
  BY TwoThreads DEF TypeOK
<1>2. 1 \in 1 .. Len(work[Dog])
  OBVIOUS
<1>3. \A S : \A s \in Seq(S) : \A i \in 1 .. Len(s) : s[i] \in S
  OBVIOUS
<1> QED
  BY <1>1, <1>2, <1>3

DogPart == OneVerdict /\ ReportSeen

(* Where nothing of the watchdog's call or of a report moves. *)
LEMMA DogStays ==
  ASSUME DogPart,
         pc'[Dog] = pc[Dog], mode'[Dog] = mode[Dog], cur'[Dog] = cur[Dog], work'[Dog] = work[Dog],
         UNCHANGED <<wpc, next, reported, seenAge>>
  PROVE  DogPart'
BY DEF DogPart, OneVerdict, ReportSeen

LEMMA MainLeavesDog ==
  ASSUME TypeOK, Save \/ Guard \/ Handler \/ Signal \/ ExitGuard
  PROVE  /\ pc'[Dog] = pc[Dog] /\ mode'[Dog] = mode[Dog]
         /\ cur'[Dog] = cur[Dog] /\ work'[Dog] = work[Dog]
         /\ UNCHANGED <<wpc, next, reported, seenAge>>
<1>1. TypeOK /\ Main \in Thread /\ Dog \in Thread /\ Main # Dog
  BY TwoThreads
<1>2. UNCHANGED <<wpc, next, reported, seenAge>>
  BY DEF Save, Guard, Handler, Signal, ExitGuard, dogVars, reportVars
<1>3. CASE Save
  BY <1>2, <1>3 DEF Save, callVars
<1>4. CASE Guard \/ Handler
  BY <1>1, <1>2, <1>4 DEF TypeOK, Guard, Handler, Shutdown
<1>5. CASE Signal
  BY <1>1, <1>2, <1>5 DEF TypeOK, Signal, Return
<1>6. CASE ExitGuard
  BY <1>1, <1>2, <1>6 DEF TypeOK, ExitGuard, Alert, Flush, KillPod, Record, Do, Return
<1> QED
  BY <1>3, <1>4, <1>5, <1>6

(* A report in the sleep is seen by the re-poll: it makes the age zero.    *)
LEMMA ReportReads ==
  ASSUME WatchdogTypeOK, reported => seenAge = 0, reported,
         NEW r \in Reading("liveness.step_counter")
  PROVE  r = "ok"
<1>1. seenAge = 0 /\ Stall \in Nat
  BY WatchdogAssumption
<1>2. seenAge # NoStep /\ ~ (seenAge > Stall)
  BY <1>1 DEF NoStep
<1> QED
  BY <1>2 DEF Reading, StepCounterReading

LEMMA RepollSees ==
  ASSUME WatchdogInv, Repoll
  PROVE  DogPart'
<1>1. /\ TypeOK /\ WatchdogTypeOK /\ OneVerdict /\ ReportSeen /\ Dog \in Thread
      /\ pc[Dog] = "confirm"
      /\ UNCHANGED <<wpc, next, reported, seenAge, mode, cur>>
  BY TwoThreads DEF WatchdogInv, Repoll, Recheck, dogVars, reportVars
<1>2. /\ wpc = "sweep" /\ next > 1 /\ mode[Dog] = "handle" /\ cur[Dog] = 1
      /\ Len(work[Dog]) = 1 /\ work[Dog][1].probe = WatchOrder[next - 1]
  BY <1>1 DEF OneVerdict
<1>3. PICK r \in Reading(WatchOrder[next - 1]) : r \in Poll /\ Recheck(Dog, r)
  BY RepollRechecks
<1>4. r # "none"
  BY <1>3, ReadingIsStatus DEF Status
<1>5. PICK i \in Pending(Dog) :
        /\ work' = [work EXCEPT ![Dog][i].second = r, ![Dog][i].gap = waited[Dog]]
        /\ pc' = [pc EXCEPT ![Dog] = IF Pending(Dog) = {i} THEN "act" ELSE "confirm"]
  BY <1>3, <1>4 DEF Recheck
<1>6. i = 1 /\ Pending(Dog) = {1}
  BY <1>2 DEF Pending
<1>7. work[Dog] \in Seq(Item) /\ 1 \in 1 .. Len(work[Dog]) /\ work[Dog][1] \in Item
  BY <1>1, <1>2, FirstItem
<1> DEFINE new == [work[Dog][1] EXCEPT !.second = r, !.gap = waited[Dog]]
<1>8. work'[Dog] = [work[Dog] EXCEPT ![1] = new]
  BY <1>1, <1>5, <1>6, <1>7 DEF TypeOK
<1>9. new.second = r /\ new.probe = work[Dog][1].probe
  BY <1>7 DEF Item
<1> HIDE DEF new
<1>10. Len(work'[Dog]) = 1 /\ work'[Dog][1] = new
  BY <1>2, <1>7, <1>8
<1>11. pc'[Dog] = "act"
  BY <1>1, <1>5, <1>6 DEF TypeOK
<1>12. OneVerdict'
  BY <1>1, <1>2, <1>9, <1>10 DEF OneVerdict
<1>13. reported /\ new.probe = "liveness.step_counter" => r # "fail"
  BY <1>1, <1>2, <1>3, <1>9, ReportReads DEF ReportSeen
<1>14. ReportSeen'
  BY <1>1, <1>2, <1>9, <1>10, <1>11, <1>13 DEF ReportSeen
<1> QED
  BY <1>12, <1>14 DEF DogPart

(* A call about an unconfirmed verdict logs, notifies and returns. *)
LEMMA EscalateKeeps ==
  ASSUME WatchdogInv, Escalate
  PROVE  DogPart'
<1>1. /\ TypeOK /\ OneVerdict /\ ReportSeen /\ Dog \in Thread
      /\ UNCHANGED <<wpc, next, reported, seenAge>>
  BY TwoThreads DEF WatchdogInv, Escalate, watchVars, dogVars, reportVars
<1>2. CASE Return(Dog)
  <2>1. pc'[Dog] = "idle" /\ cur'[Dog] = 1
    BY <1>1, <1>2 DEF TypeOK, Return
  <2> QED
    BY <1>1, <2>1 DEF DogPart, OneVerdict, ReportSeen
<1>3. CASE ~ Return(Dog)
  <2>1. /\ pc[Dog] \notin {"idle", "confirm"}
        /\ cur[Dog] = 1 /\ mode[Dog] = "handle" /\ Len(work[Dog]) = 1
    BY <1>1, <1>3
       DEF OneVerdict, Escalate, Advance, Unwind, Notify, Snapshot, RequestHalt,
           RequestCheckpoint, SawCheckpoint, GaveUpOnCheckpoint, Alert, Flush, KillPod, Record
  <2>2. UNCHANGED <<mode, work>>
    BY <1>3
       DEF Escalate, Advance, Unwind, Notify, Snapshot, RequestHalt, RequestCheckpoint,
           SawCheckpoint, GaveUpOnCheckpoint, Alert, Flush, KillPod, Record
  <2>3. ~ Record(Dog) /\ ~ Unwind(Dog)
    BY <1>3, <2>1 DEF Record, Unwind
  <2>4. UNCHANGED cur
    BY <2>3
       DEF Escalate, Advance, Notify, Snapshot, RequestHalt,
           RequestCheckpoint, SawCheckpoint, GaveUpOnCheckpoint, Alert, Flush, KillPod
  <2>5. OneVerdict'
    BY <1>1, <2>1, <2>2, <2>4 DEF OneVerdict
  <2>6. ASSUME reported, work[Dog][1].probe = "liveness.step_counter"
        PROVE  pc'[Dog] = "record" /\ work[Dog][1].second # "fail"
    <3>1. pc[Dog] \in {"act", "record", "raised"} /\ work[Dog][1].second # "fail"
      BY <1>1, <2>1, <2>6 DEF ReportSeen
    <3>2. Notify(Dog)
      BY <2>3, <3>1
         DEF Escalate, Advance, Snapshot, RequestHalt,
             RequestCheckpoint, SawCheckpoint, GaveUpOnCheckpoint, Alert, Flush, KillPod
    <3>3. work[Dog][1].target \in Level
      BY <1>1, <2>1, FirstItem DEF Item
    <3>4. ~ (Level_(Dog) >= SNAPSHOT)
      BY <2>1, <3>1, <3>3
         DEF Level_, Item_, EffectiveLevel, Unconfirmed, Level, LOG, NOTIFY, SNAPSHOT, TERMINATE
    <3> QED
      BY <1>1, <3>1, <3>2, <3>4 DEF Notify, TypeOK
  <2>7. ReportSeen'
    BY <1>1, <2>2, <2>6 DEF ReportSeen
  <2> QED
    BY <2>5, <2>7 DEF DogPart
<1> QED
  BY <1>2, <1>3

(* A new call, and no report yet. *)
LEMMA CheckKeeps ==
  ASSUME WatchdogInv, Check
  PROVE  DogPart'
<1>1. /\ TypeOK /\ WatchdogTypeOK /\ Dog \in Thread
      /\ wpc' = "sweep" /\ next' = next + 1 /\ reported' = FALSE
      /\ next \in Nat /\ next >= 1
      /\ cur[Dog] = 1
  BY TwoThreads, OrderOfProbes DEF WatchdogInv, WatchdogTypeOK, Check, OneVerdict
<1>2. PICK v \in Verdict : v.probe = WatchOrder[next] /\ Begin(Dog, "handle", <<v>>, TRUE)
  BY <1>1, CheckBegins
<1>3. work'[Dog] = <<Decide(v)>>
  BY <1>1, <1>2, BeginOneType DEF TypeOK
<1>4. Len(work'[Dog]) = 1 /\ work'[Dog][1].probe = WatchOrder[next]
  BY <1>2, <1>3 DEF Decide
<1>5. mode'[Dog] = "handle" /\ cur'[Dog] = 1
  BY <1>1, <1>2 DEF Begin, TypeOK
<1>6. next' > 1 /\ next' - 1 = next
  BY <1>1
<1> QED
  BY <1>1, <1>4, <1>5, <1>6 DEF DogPart, OneVerdict, ReportSeen

LEMMA DogKeeps == ASSUME WatchdogInv, [WatchdogNext]_vars PROVE DogPart'
<1>1. TypeOK /\ WatchdogTypeOK /\ DogPart
  BY DEF WatchdogInv, DogPart
<1>2. CASE Save \/ Guard \/ Handler \/ Signal \/ ExitGuard
  BY <1>1, <1>2, MainLeavesDog, DogStays
<1>3. CASE Check \/ Repoll \/ Escalate
  BY <1>3, CheckKeeps, RepollSees, EscalateKeeps
<1>4. CASE Pass
  BY <1>1, <1>4, DogStays DEF Pass, Tick, dogVars
<1>5. CASE Apart
  <2>1. UNCHANGED <<pc, mode, cur, work>>
    BY <1>5, ApartLeavesLadder DEF ladderVars, callVars
  <2>2. CASE Heartbeat \/ Step
    <3>1. UNCHANGED <<wpc, next>> /\ seenAge' = 0 /\ (reported' => reported \/ pc[Dog] = "confirm")
      BY <2>2 DEF Heartbeat, Step, Report, dogVars
    <3>2. CASE reported \/ ~ reported'
      BY <1>1, <2>1, <3>1, <3>2 DEF DogPart, OneVerdict, ReportSeen
    <3>3. CASE pc[Dog] = "confirm"
      BY <1>1, <2>1, <3>1, <3>3 DEF DogPart, OneVerdict, ReportSeen
    <3> QED
      BY <3>1, <3>2, <3>3
  <2>3. CASE StartTick \/ EndLoop \/ EndTick
    <3>1. pc[Dog] = "idle"
      BY <1>1, <2>3 DEF StartTick, EndLoop, EndTick, DogPart, OneVerdict
    <3>2. ~ reported'
      BY <1>1, <2>3 DEF StartTick, EndLoop, EndTick, DogPart, ReportSeen, reportVars
    <3> QED
      BY <1>1, <2>1, <3>1, <3>2 DEF DogPart, OneVerdict, ReportSeen
  <2>4. CASE \/ Continue \/ Break \/ LastStep \/ Raise \/ Wedge \/ Stop \/ Join \/ Leave
             \/ Unwound \/ PodTakesProcess \/ UNCHANGED vars
    <3>1. UNCHANGED <<wpc, next, reported, seenAge>>
      BY <2>4
         DEF Continue, Break, LastStep, Raise, Wedge, Stop, Join, Leave, Unwound,
             PodTakesProcess, GoTo, dogVars, reportVars, watchVars, vars
    <3> QED
      BY <1>1, <2>1, <3>1, DogStays
  <2> QED
    BY <1>5, <2>2, <2>3, <2>4 DEF Apart
<1> QED
  BY <1>2, <1>3, <1>4, <1>5, EveryStep

-----------------------------------------------------------------------------
(* The inductive invariant of the process in the pod. *)
THEOREM WatchdogInvariance == WatchdogSpec => []WatchdogInv
<1>1. WatchdogInv /\ [WatchdogNext]_vars => WatchdogInv'
  BY LadderPart, TypePart, MainPart, DogKeeps DEF WatchdogInv, DogPart
<1> QED
  BY <1>1, StartsGuarded, PTL DEF WatchdogSpec

(* The state of the process, and of the ladder in it, is well typed. *)
THEOREM WatchdogTypeCorrect == WatchdogSpec => [](WatchdogTypeOK /\ TypeOK)
<1>1. WatchdogInv => WatchdogTypeOK /\ TypeOK
  BY DEF WatchdogInv
<1> QED
  BY <1>1, WatchdogInvariance, PTL

(* Watchdog.__exit__ and the signal handler: however many signals land, and *)
(* wherever, the process ends after a kill was tried or with its pod.       *)
THEOREM EveryExitTried == WatchdogSpec => []NoOrphanedExit
<1>1. WatchdogInv => NoOrphanedExit
  BY DEF WatchdogInv, MainOK
<1> QED
  BY <1>1, WatchdogInvariance, PTL

(* A trainer that reported while the confirmation slept is neither halted  *)
(* nor killed for its step counter, whatever the stall threshold is.       *)
THEOREM ReportsAreHeard == WatchdogSpec => []ReportingTrainerIsLeftAlone
<1>1. WatchdogInv => ReportingTrainerIsLeftAlone
  <2> SUFFICES ASSUME WatchdogInv, pc[Dog] \in Beyond,
                      Item_(Dog).probe = "liveness.step_counter", reported
               PROVE  FALSE
    BY DEF ReportingTrainerIsLeftAlone, WatchdogInv, WatchdogTypeOK
  <2>1. Item_(Dog) = work[Dog][1]
    BY DEF WatchdogInv, OneVerdict, Item_
  <2> QED
    BY <2>1 DEF WatchdogInv, ReportSeen, Beyond
<1> QED
  BY <1>1, WatchdogInvariance, PTL
=============================================================================
