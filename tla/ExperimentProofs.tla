-------------------------- MODULE ExperimentProofs --------------------------
(***************************************************************************)
(* What the two scripts of the v0 experiment promise, for every number of  *)
(* runs, saves, polls and retries.  The invariant has one part for the     *)
(* client, one for who is in a call, and two for finish.py; each is shown  *)
(* to be kept by every step.                                               *)
(***************************************************************************)
EXTENDS Experiment, RunPodClientProofs

(* Only a script's own kill, or nobody's poll, leaves a call in progress. *)
NotCalling == script \notin {"none", "killing"} => place = "idle"

Delivering == script \in {"upload", "extras", "verify", "verified", "kill", "killing"}
Delivered  == script \in {"extras", "verify", "verified", "kill", "killing"}

(* The files of the adapter that was found do not go away. *)
AdapterKept ==
  /\ Delivering => found # 0
  /\ found # 0 => there \subseteq dirs[found]

HubHolds == Delivered => \A f \in there : hub[f] = found

ExperimentInv ==
  /\ ClientInv
  /\ ExperimentTypeOK
  /\ NotCalling
  /\ AdapterKept
  /\ HubHolds

-----------------------------------------------------------------------------
(* The steps that leave the client's variables alone.                      *)
Apart ==
  \/ Provision \/ CheckAuth \/ WaitUntilRunning
  \/ (CreatePod /\ UNCHANGED clientVars)
  \/ FinishRun \/ Measure \/ FindAdapter \/ Upload \/ UploadExtras
  \/ VerifyUpload \/ Verified \/ Killed
  \/ Boot \/ SaveFile \/ TrainerEnds \/ OperatorCleansUp
  \/ UNCHANGED vars

(* The steps that leave the scripts' variables alone. *)
Elsewhere == Killing \/ CarriesOutLate \/ Lost \/ Poll

LEMMA StepsOfTheModel ==
  ASSUME [ExperimentNext]_vars
  PROVE  Apart \/ Elsewhere \/ KillRequested \/ PodTakesProcesses
           \/ (script = "create" /\ Created)
BY DEF ExperimentNext, ScriptStep, CreatePod, Apart, Elsewhere

LEMMA ApartLeavesClient == ASSUME Apart PROVE UNCHANGED clientVars
BY DEF Apart, Provision, CheckAuth, WaitUntilRunning, FinishRun, Measure, FindAdapter, Upload,
       UploadExtras, VerifyUpload, Verified, Killed, Boot, SaveFile, TrainerEnds,
       OperatorCleansUp, finishRest, vars

LEMMA ElsewhereLeavesScripts == ASSUME Elsewhere PROVE UNCHANGED expVars
BY DEF Elsewhere, Killing, CarriesOutLate, Lost, Poll

-----------------------------------------------------------------------------
LEMMA ClientPart ==
  ASSUME ExperimentInv, [ExperimentNext]_vars PROVE ClientInv'
<1>1. ClientInv /\ NotCalling
  BY DEF ExperimentInv
<1>2. CASE Apart
  BY <1>1, <1>2, ApartLeavesClient, StutterKeeps
<1>3. CASE Elsewhere
  <2>1. ClientStep \/ CarriedOutLate \/ PodLost \/ Issue("status")
    BY <1>3 DEF Elsewhere, Killing, CarriesOutLate, Lost, Poll
  <2>2. "status" \in Op
    BY DEF Op
  <2> QED
    BY <1>1, <2>1, <2>2, ClientStepKeeps, CarriedOutLateKeeps, PodLostKeeps, IssueKeeps
<1>4. CASE KillRequested
  <2>1. "terminate" \in Op /\ Issue("terminate")
    BY <1>4 DEF Op, Kill, KillRequested
  <2> QED
    BY <1>1, <2>1, IssueKeeps
<1>5. CASE PodTakesProcesses
  <2>1. /\ place' \in {"idle", place}
        /\ UNCHANGED <<pod, keyWrites, op, attempt, late, outcome, uptime, told, ordered,
                       believed>>
    BY <1>5 DEF PodTakesProcesses
  <2> QED
    BY <1>1, <2>1
       DEF ClientInv, ClientTypeOK, KillsAreOrdered, CallInProgress, BelievedIsDown,
           OkMeansDone, UptimeIsWhatBills
<1>6. CASE script = "create" /\ Created
  <2>1. place = "idle"
    BY <1>1, <1>6 DEF NotCalling
  <2>2. ClientTypeOK'
    BY <1>1, <1>6, SilentIsReport DEF ClientInv, ClientTypeOK, Created
  <2>3. KillsAreOrdered' /\ CallInProgress' /\ BelievedIsDown' /\ OkMeansDone'
    BY <1>6, <2>1
       DEF KillsAreOrdered, CallInProgress, BelievedIsDown, OkMeansDone, Created
  <2>4. UptimeIsWhatBills'
    BY <1>6 DEF UptimeIsWhatBills, Created
  <2> QED
    BY <2>2, <2>3, <2>4 DEF ClientInv
<1> QED
  BY <1>2, <1>3, <1>4, <1>5, <1>6, StepsOfTheModel

-----------------------------------------------------------------------------
(* The scripts' state stays well typed.                                    *)
ScriptsOK ==
  /\ script \in {"none", "check", "create", "wait", "measure", "find", "upload", "extras",
                 "verify", "verified", "kill", "killing"}
  /\ allow \in BOOLEAN
  /\ polls \in 0 .. BootTicks
  /\ ready \in BOOLEAN
  /\ forgotten \in 0 .. MaxForgotten
  /\ runs \in 0 .. MaxRuns
  /\ training \in BOOLEAN

AdaptersOK ==
  /\ dirs \in Seq((SUBSET File) \ {{}}) /\ Len(dirs) <= MaxSaves
  /\ found \in 0 .. Len(dirs)
  /\ there \subseteq File
  /\ hub \in [File -> Before .. MaxSaves]

LEMMA TypeInParts == ExperimentTypeOK <=> ClientTypeOK /\ ScriptsOK /\ AdaptersOK
BY DEF ExperimentTypeOK, ScriptsOK, AdaptersOK

LEMMA ScriptsPart ==
  ASSUME ScriptsOK, ClientTypeOK, [ExperimentNext]_vars PROVE ScriptsOK'
<1>0. /\ BootTicks \in Nat /\ MaxForgotten \in Nat /\ MaxRuns \in Nat
      /\ 0 \in 0 .. BootTicks /\ 0 \in 0 .. MaxForgotten
      /\ polls \in Nat /\ forgotten \in Nat /\ runs \in Nat
  BY ExperimentAssumption DEF ScriptsOK
<1>1. Here \in {0, 1}
  BY DEF Here
<1>2. CASE \/ Provision \/ CheckAuth \/ WaitUntilRunning \/ FinishRun \/ Measure
           \/ FindAdapter \/ Upload \/ UploadExtras \/ VerifyUpload \/ Verified \/ Killed
  BY <1>2, ExperimentAssumption
     DEF ScriptsOK, Provision, CheckAuth, WaitUntilRunning, FinishRun, Measure,
         FindAdapter, Upload, UploadExtras, VerifyUpload, Verified, Killed, finishRest, Goes, Ends
<1>3. CASE CreatePod
  <2>1. forgotten' \in 0 .. MaxForgotten
    BY <1>0, <1>1, <1>3 DEF ScriptsOK, CreatePod, Created
  <2> QED
    BY <1>0, <1>3, <2>1 DEF ScriptsOK, CreatePod, Created, Goes, Ends
<1>4. CASE Boot \/ SaveFile \/ TrainerEnds \/ OperatorCleansUp \/ UNCHANGED vars
  BY <1>0, <1>4
     DEF ScriptsOK, Boot, SaveFile, TrainerEnds, OperatorCleansUp, vars, expVars
<1>5. CASE KillRequested \/ PodTakesProcesses
  BY <1>5 DEF ScriptsOK, KillRequested, PodTakesProcesses, Goes, Ends
<1>6. CASE Elsewhere
  BY <1>6, ElsewhereLeavesScripts DEF ScriptsOK, expVars
<1> QED
  BY <1>2, <1>3, <1>4, <1>5, <1>6 DEF ExperimentNext, ScriptStep, Elsewhere

(* The steps that touch neither the volume nor the Hub. *)
LEMMA AdaptersAlone ==
  ASSUME [ExperimentNext]_vars, ~ CreatePod, ~ SaveFile, ~ FindAdapter, ~ Upload
  PROVE  UNCHANGED <<dirs, found, there, hub>>
<1>1. CASE Elsewhere
  BY <1>1, ElsewhereLeavesScripts DEF expVars
<1> QED
  BY <1>1
     DEF ExperimentNext, ScriptStep, Elsewhere, Provision, CheckAuth, WaitUntilRunning,
         FinishRun, Measure, UploadExtras, VerifyUpload, Verified, Killed, KillRequested,
         PodTakesProcesses, Boot, TrainerEnds, OperatorCleansUp, finishRest, vars, expVars

(* A save adds a directory or completes the last one. *)
LEMMA SaveFileAdds ==
  ASSUME AdaptersOK, SaveFile
  PROVE  /\ dirs' \in Seq((SUBSET File) \ {{}}) /\ Len(dirs') \in Len(dirs) .. MaxSaves
         /\ \A i \in 1 .. Len(dirs) : dirs[i] \subseteq dirs'[i]
<1> DEFINE Dir == (SUBSET File) \ {{}}
<1>0. dirs \in Seq(Dir) /\ Len(dirs) <= MaxSaves /\ Len(dirs) \in Nat /\ MaxSaves \in Nat
  BY ExperimentAssumption DEF AdaptersOK
<1>1. CASE /\ Len(dirs) < MaxSaves
           /\ \E f \in File : dirs' = Append(dirs, {f})
  <2>1. PICK f \in File : dirs' = Append(dirs, {f})
    BY <1>1
  <2>2. {f} \in Dir
    <3>1. f \in {f}
      OBVIOUS
    <3> QED
      BY <3>1
  <2> HIDE DEF Dir
  <2>3. dirs' \in Seq(Dir) /\ Len(dirs') = Len(dirs) + 1
    BY <1>0, <2>1, <2>2
  <2>4. \A i \in 1 .. Len(dirs) : dirs'[i] = dirs[i]
    BY <1>0, <2>1, <2>2
  <2> QED
    BY <1>0, <1>1, <2>3, <2>4 DEF Dir
<1>2. CASE /\ dirs # <<>>
           /\ dirs' = [dirs EXCEPT ![Len(dirs)] = File]
  <2>1. File \in Dir
    <3>1. "config" \in File
      BY DEF File
    <3> QED
      BY <3>1
  <2> HIDE DEF Dir
  <2>2. dirs' \in Seq(Dir) /\ Len(dirs') = Len(dirs)
    BY <1>0, <1>2, <2>1
  <2>3. \A i \in 1 .. Len(dirs) : dirs[i] \in Dir /\ dirs'[i] \in {dirs[i], File}
    BY <1>0, <1>2
  <2> QED
    BY <1>0, <2>2, <2>3 DEF Dir
<1> QED
  BY <1>1, <1>2 DEF SaveFile

LEMMA AdaptersPart ==
  ASSUME AdaptersOK, AdapterKept, [ExperimentNext]_vars PROVE AdaptersOK'
<1>0. Len(dirs) \in Nat /\ MaxSaves \in Nat /\ found \in Nat
  BY ExperimentAssumption DEF AdaptersOK
<1>1. CASE CreatePod
  <2>1. <<>> \in Seq((SUBSET File) \ {{}}) /\ Len(<<>>) = 0
    OBVIOUS
  <2>2. \A f \in File : (IF hub[f] = Nobody THEN Nobody ELSE Before) \in Before .. MaxSaves
    BY <1>0 DEF Nobody, Before
  <2>3. CASE Created
    <3>1. hub' \in [File -> Before .. MaxSaves]
      BY <2>2, <2>3 DEF Created
    <3>2. dirs' = <<>> /\ found' = 0 /\ there' = {}
      BY <2>3 DEF Created
    <3> QED
      BY <1>0, <2>1, <3>1, <3>2 DEF AdaptersOK
  <2>4. CASE UNCHANGED <<dirs, found, there, hub>>
    BY <2>4 DEF AdaptersOK
  <2> QED
    BY <1>1, <2>3, <2>4 DEF CreatePod
<1>2. CASE SaveFile
  <2>1. UNCHANGED <<found, there, hub>>
    BY <1>2 DEF SaveFile
  <2>2. /\ dirs' \in Seq((SUBSET File) \ {{}})
        /\ Len(dirs') \in Nat /\ Len(dirs) <= Len(dirs') /\ Len(dirs') <= MaxSaves
    BY <1>0, <1>2, SaveFileAdds
  <2> QED
    BY <1>0, <2>1, <2>2 DEF AdaptersOK
<1>3. CASE FindAdapter
  <2>1. UNCHANGED <<dirs, hub>> /\ found' = Len(dirs)
    BY <1>3 DEF FindAdapter, finishRest
  <2>2. there' \subseteq File
    <3>1. CASE dirs = <<>>
      BY <1>3, <3>1 DEF FindAdapter
    <3>2. CASE dirs # <<>>
      <4>1. dirs[Len(dirs)] \in (SUBSET File) \ {{}}
        BY <3>2 DEF AdaptersOK
      <4> QED
        BY <1>3, <3>2, <4>1 DEF FindAdapter
    <3> QED
      BY <3>1, <3>2
  <2> QED
    BY <1>0, <2>1, <2>2 DEF AdaptersOK
<1>4. CASE Upload
  <2>1. found \in Before .. MaxSaves
    BY <1>0 DEF AdaptersOK, Before
  <2>2. UNCHANGED <<dirs, found, there>>
    BY <1>4 DEF Upload, finishRest
  <2>3. hub' \in [File -> Before .. MaxSaves]
    <3>1. \A f \in File : (IF f \in dirs[found] THEN found ELSE hub[f]) \in Before .. MaxSaves
      BY <2>1 DEF AdaptersOK
    <3> QED
      BY <1>4, <3>1 DEF AdaptersOK, Upload
  <2> QED
    BY <2>2, <2>3 DEF AdaptersOK
<1>5. CASE UNCHANGED <<dirs, found, there, hub>>
  BY <1>5 DEF AdaptersOK
<1> QED
  BY <1>1, <1>2, <1>3, <1>4, <1>5, AdaptersAlone

-----------------------------------------------------------------------------
(* One script at a time, and one call at a time.                           *)
LEMMA NotCallingPart ==
  ASSUME ExperimentInv, [ExperimentNext]_vars PROVE NotCalling'
<1>1. CASE Apart
  BY <1>1, ApartLeavesClient
     DEF ExperimentInv, NotCalling, clientVars, Apart, Provision, CheckAuth, CreatePod, Created,
         WaitUntilRunning, FinishRun, Measure, FindAdapter, Upload, UploadExtras, VerifyUpload,
         Verified, Killed, Boot, SaveFile, TrainerEnds, OperatorCleansUp, vars, expVars,
         finishRest, Goes, Ends
<1>2. CASE Elsewhere
  <2>1. UNCHANGED script
    BY <1>2, ElsewhereLeavesScripts DEF expVars
  <2>2. script \in {"none", "killing"} \/ UNCHANGED place
    BY <1>2 DEF Elsewhere, Killing, CarriesOutLate, CarriedOutLate, Lost, PodLost, Poll
  <2> QED
    BY <2>1, <2>2 DEF ExperimentInv, NotCalling
<1>3. CASE KillRequested \/ PodTakesProcesses
  BY <1>3
     DEF ExperimentInv, NotCalling, KillRequested, PodTakesProcesses, OnPod, Goes, Ends
<1>4. CASE script = "create" /\ Created
  BY <1>4 DEF ExperimentInv, NotCalling, Created, Goes
<1> QED
  BY <1>1, <1>2, <1>3, <1>4, StepsOfTheModel

-----------------------------------------------------------------------------
(* finish.py's way to the kill.                                            *)
LEMMA AdapterPart ==
  ASSUME ExperimentInv, [ExperimentNext]_vars PROVE AdapterKept'
<1>0. /\ AdaptersOK /\ AdapterKept
      /\ Len(dirs) \in Nat /\ found \in 0 .. Len(dirs)
  BY TypeInParts DEF ExperimentInv, AdaptersOK
<1>1. CASE CreatePod
  BY <1>0, <1>1 DEF AdapterKept, Delivering, CreatePod, Created, Goes, Ends
<1>2. CASE SaveFile
  <2>1. UNCHANGED <<script, found, there>>
    BY <1>2 DEF SaveFile
  <2>2. found # 0 => there \subseteq dirs'[found]
    BY <1>0, <1>2, SaveFileAdds DEF AdapterKept
  <2> QED
    BY <1>0, <2>1, <2>2 DEF AdapterKept, Delivering
<1>3. CASE FindAdapter
  <2>1. /\ found' = Len(dirs) /\ UNCHANGED dirs
        /\ there' = IF dirs = <<>> THEN {} ELSE dirs[Len(dirs)]
        /\ found' = 0 => script' = "none"
    BY <1>3 DEF FindAdapter, finishRest, Ends
  <2> QED
    BY <1>0, <2>1 DEF AdapterKept, Delivering
<1>4. CASE Upload
  BY <1>0, <1>4 DEF AdapterKept, Delivering, Upload, finishRest, Goes, Ends
<1>5. CASE ~ CreatePod /\ ~ SaveFile /\ ~ FindAdapter /\ ~ Upload
  <2>1. UNCHANGED <<dirs, found, there, hub>>
    BY <1>5, AdaptersAlone
  <2>2. Delivering' => Delivering
    <3>1. CASE UNCHANGED script
      BY <3>1 DEF Delivering
    <3>2. CASE Elsewhere
      BY <3>1, <3>2, ElsewhereLeavesScripts DEF expVars
    <3> QED
      BY <1>5, <3>1, <3>2
         DEF ExperimentNext, ScriptStep, Elsewhere, Delivering, Provision, CheckAuth,
             WaitUntilRunning, FinishRun, Measure, UploadExtras, VerifyUpload, Verified, Killed,
             KillRequested, PodTakesProcesses, Boot, TrainerEnds, OperatorCleansUp, vars,
             expVars, Goes, Ends
  <2> QED
    BY <1>0, <2>1, <2>2 DEF AdapterKept
<1> QED
  BY <1>1, <1>2, <1>3, <1>4, <1>5

LEMMA HubPart ==
  ASSUME ExperimentInv, [ExperimentNext]_vars PROVE HubHolds'
<1>0. AdaptersOK /\ AdapterKept /\ HubHolds
  BY TypeInParts DEF ExperimentInv
<1>1. CASE CreatePod
  BY <1>1 DEF HubHolds, Delivered, CreatePod, Created, Goes, Ends
<1>2. CASE SaveFile
  BY <1>0, <1>2 DEF HubHolds, Delivered, SaveFile
<1>3. CASE FindAdapter
  BY <1>3 DEF HubHolds, Delivered, FindAdapter, Goes, Ends
<1>4. CASE Upload
  <2>1. CASE script' = "none"
    BY <2>1 DEF HubHolds, Delivered
  <2>2. CASE hub' = [f \in File |-> IF f \in dirs[found] THEN found ELSE hub[f]]
    <3>1. there \subseteq File /\ there \subseteq dirs[found]
      BY <1>0, <1>4 DEF AdaptersOK, AdapterKept, Delivering, Upload
    <3>2. UNCHANGED <<found, there>>
      BY <1>4 DEF Upload
    <3> QED
      BY <2>2, <3>1, <3>2 DEF HubHolds
  <2> QED
    BY <1>4, <2>1, <2>2 DEF Upload, Ends
<1>5. CASE ~ CreatePod /\ ~ SaveFile /\ ~ FindAdapter /\ ~ Upload
  <2>1. UNCHANGED <<dirs, found, there, hub>>
    BY <1>5, AdaptersAlone
  <2>2. Delivered' => Delivered
    <3>1. CASE UNCHANGED script
      BY <3>1 DEF Delivered
    <3>2. CASE Elsewhere
      BY <3>1, <3>2, ElsewhereLeavesScripts DEF expVars
    <3> QED
      BY <1>5, <3>1, <3>2
         DEF ExperimentNext, ScriptStep, Elsewhere, Delivered, Provision, CheckAuth,
             WaitUntilRunning, FinishRun, Measure, UploadExtras, VerifyUpload, Verified, Killed,
             KillRequested, PodTakesProcesses, Boot, TrainerEnds, OperatorCleansUp, vars,
             expVars, Goes, Ends
  <2> QED
    BY <1>0, <2>1, <2>2 DEF HubHolds
<1> QED
  BY <1>1, <1>2, <1>3, <1>4, <1>5

-----------------------------------------------------------------------------
LEMMA ExperimentInitInv == ExperimentInit => ExperimentInv
<1> SUFFICES ASSUME ExperimentInit PROVE ExperimentInv
  OBVIOUS
<1>1. 0 \in 0 .. MaxRetries - 1
  BY ClientAssumption
<1>2. ClientTypeOK
  BY <1>1, SilentIsReport DEF ExperimentInit, ClientTypeOK, Op
<1>3. KillsAreOrdered /\ CallInProgress /\ BelievedIsDown /\ OkMeansDone
  BY DEF ExperimentInit, KillsAreOrdered, CallInProgress, BelievedIsDown, OkMeansDone
<1>4. UptimeIsWhatBills
  BY DEF ExperimentInit, UptimeIsWhatBills
<1>5. ScriptsOK
  <2>1. /\ 0 \in 0 .. BootTicks /\ 0 \in 0 .. MaxRuns
        /\ forgotten \in 0 .. MaxForgotten
    BY ExperimentAssumption DEF ExperimentInit
  <2> QED
    BY <2>1 DEF ExperimentInit, ScriptsOK
<1>6. AdaptersOK
  <2>1. <<>> \in Seq((SUBSET File) \ {{}}) /\ Len(<<>>) = 0
    OBVIOUS
  <2>2. hub \in [File -> Before .. MaxSaves]
    BY ExperimentAssumption DEF ExperimentInit, Nobody, Before
  <2> QED
    BY <2>1, <2>2, ExperimentAssumption DEF ExperimentInit, AdaptersOK
<1>7. NotCalling /\ AdapterKept /\ HubHolds
  BY DEF ExperimentInit, NotCalling, AdapterKept, HubHolds, Delivering, Delivered
<1> QED
  BY <1>2, <1>3, <1>4, <1>5, <1>6, <1>7, TypeInParts DEF ExperimentInv, ClientInv

LEMMA ExperimentNextInv ==
  ASSUME ExperimentInv, [ExperimentNext]_vars PROVE ExperimentInv'
<1>1. ScriptsOK /\ AdaptersOK /\ ClientTypeOK /\ AdapterKept
  BY TypeInParts DEF ExperimentInv
<1>2. ClientInv' /\ ScriptsOK' /\ AdaptersOK'
  BY <1>1, ClientPart, ScriptsPart, AdaptersPart
<1>3. ExperimentTypeOK'
  BY <1>2 DEF ClientInv, ExperimentTypeOK, ScriptsOK, AdaptersOK
<1> QED
  BY <1>2, <1>3, NotCallingPart, AdapterPart, HubPart DEF ExperimentInv

(* The inductive invariant of the experiment. *)
THEOREM ExperimentInvariance == ExperimentSpec => []ExperimentInv
BY ExperimentInitInv, ExperimentNextInv, PTL DEF ExperimentSpec

-----------------------------------------------------------------------------
(* The state of the scripts, the client, the volume and the Hub is well    *)
(* typed for every bound.                                                  *)
THEOREM ExperimentTypeCorrect == ExperimentSpec => []ExperimentTypeOK
<1>1. ExperimentInv => ExperimentTypeOK
  BY DEF ExperimentInv
<1> QED
  BY <1>1, ExperimentInvariance, PTL

(* A kill that returned did what its name says, with the whole experiment  *)
(* around the client: any number of retries, polls, pods and late answers. *)
THEOREM KillsThatReturnAreDone == ExperimentSpec => []OkMeansDone
<1>1. ExperimentInv => OkMeansDone
  BY DEF ExperimentInv, ClientInv
<1> QED
  BY <1>1, ExperimentInvariance, PTL

(* Whatever RunPod's clock fields hold, a live pod of a known age is never *)
(* free and a dead one is never charged for its age.                       *)
THEOREM UptimeBills == ExperimentSpec => []UptimeIsWhatBills
<1>1. ExperimentInv => UptimeIsWhatBills
  BY DEF ExperimentInv, ClientInv
<1> QED
  BY <1>1, ExperimentInvariance, PTL

(* finish.py deletes the pod only when the Hub has all it found. *)
THEOREM OnlyUploadedIsKilled == ExperimentSpec => []KillsOnlyWhatIsUploaded
<1>1. ExperimentInv => KillsOnlyWhatIsUploaded
  BY DEF ExperimentInv, AdapterKept, HubHolds, Delivering, Delivered, KillsOnlyWhatIsUploaded
<1> QED
  BY <1>1, ExperimentInvariance, PTL
=============================================================================
