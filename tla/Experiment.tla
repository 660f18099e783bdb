----------------------------- MODULE Experiment -----------------------------
(***************************************************************************)
(* The life of the v0 experiment's pod: provision.py rents it, the trainer *)
(* saves adapters on its volume, and finish.py moves the newest one to the *)
(* Hub before it deletes the pod through RunPodClient.  Any network call   *)
(* may fail, and the reply that names a new pod may be lost: that pod      *)
(* bills, and nobody knows its id.                                         *)
(***************************************************************************)
EXTENDS RunPodClient, Sequences

CONSTANTS
  BootTicks,    \* wait_until_running's timeout_s, in polls
  MaxSaves,     \* bound on the adapter directories the trainer makes
  MaxForgotten, \* bound on the pods that bill and that nobody knows
  MaxRuns       \* bound on the runs of either script

ASSUME ExperimentAssumption ==
  /\ BootTicks \in Nat \ {0}
  /\ MaxSaves \in Nat
  /\ MaxForgotten \in Nat
  /\ MaxRuns \in Nat

VARIABLES
  script,     \* where provision.py or finish.py is; they run one at a time
  allow,      \* --allow-existing
  polls,      \* how often wait_until_running has looked
  ready,      \* the pod has an IP and a mapped SSH port
  forgotten,  \* how many more pods bill on the account
  runs,       \* bound: how many scripts have run
  training,   \* the trainer may still write
  dirs,       \* adapter directories on the volume, oldest mtime first
  found,      \* main's local adapter: its index in dirs
  there,      \* history: the files it had when it was found
  hub         \* adapter/ in the Hub repository: each file's origin

expVars == <<script, allow, polls, ready, forgotten, runs, training, dirs,
             found, there, hub>>
vars    == <<clientVars, expVars>>

File   == {"config", "weights"}
Nobody == 0    \* the file is not there
Before == -1   \* it is there from an earlier experiment

ExperimentTypeOK ==
  /\ ClientTypeOK
  /\ script \in {"none", "check", "create", "wait", "measure", "find", "upload", "extras",
                 "verify", "verified", "kill", "killing"}
  /\ allow \in BOOLEAN
  /\ polls \in 0 .. BootTicks
  /\ ready \in BOOLEAN
  /\ forgotten \in 0 .. MaxForgotten
  /\ runs \in 0 .. MaxRuns
  /\ training \in BOOLEAN
  /\ dirs \in Seq((SUBSET File) \ {{}}) /\ Len(dirs) <= MaxSaves
  /\ found \in 0 .. Len(dirs)
  /\ there \subseteq File
  /\ hub \in [File -> Before .. MaxSaves]

ExperimentInit ==
  /\ pod = "none"
  /\ keyWrites \in BOOLEAN
  /\ op = "status" /\ place = "idle" /\ attempt = 0 /\ late = {} /\ outcome = "none"
  /\ uptime = 0 /\ told = [report |-> Silent, state |-> "unasked"]
  /\ ordered = {} /\ believed = FALSE
  /\ script = "none"
  /\ allow = FALSE
  /\ polls = 0
  /\ ready = FALSE
  /\ forgotten \in {0, 1} \cap 0 .. MaxForgotten
  /\ runs = 0
  /\ training = FALSE
  /\ dirs = <<>>
  /\ found = 0
  /\ there = {}
  /\ hub \in {[f \in File |-> Nobody], [f \in File |-> Before]}

-----------------------------------------------------------------------------
(* provision.py.                                                           *)

Goes(where) == script' = where

(* The script exits, with whatever code, or dies of an exception. *)
Ends == script' = "none"

(* The refusals before anything is asked of RunPod (spend cap, credentials, *)
(* ssh key) and --dry-run.                                                 *)
Provision ==
  /\ script = "none" /\ place = "idle"
  /\ runs < MaxRuns
  /\ runs' = runs + 1
  /\ allow' \in BOOLEAN
  /\ Ends \/ Goes("check")
  /\ UNCHANGED <<clientVars, polls, ready, forgotten, training, dirs, found, there, hub>>

(* Stopped pods are listed too. *)
Here     == IF pod \in {"running", "stopped"} THEN 1 ELSE 0
Existing == forgotten + Here

(* A rejected key, a failed listing, pods that exist, or go on.  A body    *)
(* that is not a list counts as no pods.                                   *)
CheckAuth ==
  /\ script = "check"
  /\ \/ Ends
     \/ \E listed \in {Existing, 0} :
          IF listed > 0 /\ ~ allow THEN Ends ELSE Goes("create")
  /\ UNCHANGED <<clientVars, allow, polls, ready, forgotten, runs, training, dirs,
                 found, there, hub>>

(* A new pod on the account, an older one beside it. *)
Created ==
  /\ keyWrites /\ forgotten + Here <= MaxForgotten
  /\ forgotten' = forgotten + Here
  /\ pod' = "running" /\ outcome' = "none" /\ late' = {} /\ ordered' = {} /\ believed' = FALSE
  /\ told' = [report |-> Silent, state |-> "unasked"]
  /\ ready' = FALSE /\ training' = FALSE /\ polls' = 0
  /\ dirs' = <<>> /\ found' = 0 /\ there' = {}
  /\ hub' = [f \in File |-> IF hub[f] = Nobody THEN Nobody ELSE Before]
  /\ uptime' = 0
  /\ Goes("wait")
  /\ UNCHANGED <<keyWrites, op, place, attempt, allow, runs>>

(* POST /pods is not retried: it makes a pod whose id is printed, or it    *)
(* makes one and the reply is lost or names none, or it fails.             *)
CreatePod ==
  /\ script = "create"
  /\ \/ Created
     \/ /\ Ends
        /\ forgotten' \in {forgotten} \cup
              (IF keyWrites /\ forgotten < MaxForgotten THEN {forgotten + 1} ELSE {})
        /\ UNCHANGED <<clientVars, allow, polls, ready, runs, training, dirs, found, there, hub>>

WaitUntilRunning_NoDeadline ==   \* mutant: polls until the pod can be reached
  /\ script = "wait"
  /\ pod = "running" /\ ready
  /\ Ends
  /\ UNCHANGED <<clientVars, allow, polls, ready, forgotten, runs, training, dirs, found,
                 there, hub>>

(* A poll finds the pod reachable, finds nothing (an error status is        *)
(* nothing), or raises; after the deadline it gives up.                    *)
WaitUntilRunning ==
  /\ script = "wait"
  /\ \/ /\ polls < BootTicks
        /\ \/ pod = "running" /\ ready /\ Ends
           \/ Goes("wait")
           \/ Ends
        /\ polls' = polls + 1
     \/ /\ polls = BootTicks
        /\ Ends
        /\ UNCHANGED polls
  /\ UNCHANGED <<clientVars, allow, ready, forgotten, runs, training, dirs, found, there, hub>>

-----------------------------------------------------------------------------
(* On the pod and around it.                                               *)

Boot ==
  /\ pod = "running" /\ ~ ready
  /\ ready' = TRUE
  /\ training' = TRUE
  /\ UNCHANGED <<clientVars, script, allow, polls, forgotten, runs, dirs, found, there,
                 hub>>

(* The files of a save appear one at a time, in either order. *)
SaveFile ==
  /\ pod = "running" /\ training
  /\ \/ /\ Len(dirs) < MaxSaves
        /\ \E f \in File : dirs' = Append(dirs, {f})
     \/ /\ dirs # <<>>
        /\ dirs' = [dirs EXCEPT ![Len(dirs)] = File]
  /\ UNCHANGED <<clientVars, script, allow, polls, ready, forgotten, runs,
                 training, found, there, hub>>

(* It is done, or it died in the middle of a save. *)
TrainerEnds ==
  /\ training
  /\ training' = FALSE
  /\ UNCHANGED <<clientVars, script, allow, polls, ready, forgotten, runs, dirs,
                 found, there, hub>>

(* The operator deletes the pods the console shows and no script knows. *)
OperatorCleansUp ==
  /\ forgotten > 0 /\ script = "none"
  /\ forgotten' = 0
  /\ UNCHANGED <<clientVars, script, allow, polls, ready, runs, training, dirs,
                 found, there, hub>>

Lost == PodLost /\ UNCHANGED expVars

(* The sentinel, or anybody, asks for the pod's status. *)
Poll ==
  /\ script = "none"
  /\ \/ place = "idle" /\ pod # "none" /\ Issue("status")
     \/ ClientStep
  /\ UNCHANGED expVars

-----------------------------------------------------------------------------
(* finish.py, on the pod.                                                  *)

finishRest == <<clientVars, allow, polls, ready, forgotten, runs, training, dirs>>

(* Without HF_TOKEN nothing is done. *)
FinishRun ==
  /\ script = "none" /\ place = "idle"
  /\ pod = "running" /\ ready
  /\ runs < MaxRuns
  /\ runs' = runs + 1
  /\ Ends \/ Goes("measure")
  /\ UNCHANGED <<clientVars, allow, polls, ready, forgotten, training, dirs, found, there, hub>>

(* A run that cannot be read is measured as an error, and only that. *)
Measure ==
  /\ script = "measure"
  /\ Goes("find") \/ Ends
  /\ UNCHANGED <<finishRest, found, there, hub>>

(* find_adapter: the newest directory with any of the files; then the      *)
(* measurement is written beside it.                                       *)
FindAdapter ==
  /\ script = "find"
  /\ found' = Len(dirs)
  /\ there' = IF dirs = <<>> THEN {} ELSE dirs[Len(dirs)]
  /\ \/ found' = 0 /\ Ends
     \/ found' # 0 /\ (Goes("upload") \/ Ends)
  /\ UNCHANGED <<finishRest, hub>>

Upload_Swallows ==   \* mutant: an upload that raises is reported and verified
  /\ script = "upload"
  /\ \/ Goes("verify") /\ UNCHANGED hub
     \/ /\ hub' = [f \in File |-> IF f \in dirs[found] THEN found ELSE hub[f]]
        /\ Goes("extras")
  /\ UNCHANGED <<finishRest, found, there>>

(* upload: the folder in one commit, over what adapter/ holds already.     *)
(* Without huggingface_hub it returns False, and whatever raises ends main. *)
Upload ==
  /\ script = "upload"
  /\ \/ Ends /\ UNCHANGED hub
     \/ /\ hub' = [f \in File |-> IF f \in dirs[found] THEN found ELSE hub[f]]
        /\ Goes("extras") \/ Ends
  /\ UNCHANGED <<finishRest, found, there>>

(* Then the logs and the measurement, one commit each. *)
UploadExtras ==
  /\ script = "extras"
  /\ Goes("verify") \/ Ends
  /\ UNCHANGED <<finishRest, found, there, hub>>

(* verify_upload: any file under adapter/ will do. *)
VerifyUpload ==
  /\ script = "verify"
  /\ \/ Ends
     \/ (\E f \in File : hub[f] # Nobody) /\ Goes("verified")
  /\ UNCHANGED <<finishRest, found, there, hub>>

(* --terminate is not given, or the pod id or the key is missing. *)
Verified ==
  /\ script = "verified"
  /\ Ends \/ Goes("kill")
  /\ UNCHANGED <<finishRest, found, there, hub>>

KillRequested ==
  /\ script = "kill"
  /\ Issue("terminate")
  /\ Goes("killing")
  /\ UNCHANGED <<allow, polls, ready, forgotten, runs, training, dirs, found, there, hub>>

Killing ==
  /\ script = "killing"
  /\ ClientStep
  /\ UNCHANGED expVars

(* "terminated. Billing has stopped.", or the client's exception. *)
Killed ==
  /\ script = "killing" /\ place = "idle"
  /\ Ends
  /\ UNCHANGED <<finishRest, found, there, hub>>

CarriesOutLate == CarriedOutLate /\ UNCHANGED expVars

OnPod == script \in {"measure", "find", "upload", "extras", "verify", "verified", "kill",
                     "killing"}

(* What runs on the pod goes with it, finish.py in its own kill included. *)
PodTakesProcesses ==
  /\ pod \in {"stopped", "terminated"}
  /\ training \/ OnPod
  /\ training' = FALSE
  /\ IF OnPod THEN Ends /\ place' = "idle" ELSE UNCHANGED <<script, place>>
  /\ UNCHANGED <<pod, keyWrites, op, attempt, late, outcome, uptime, told, ordered, believed,
                 allow, polls, ready, forgotten, runs, dirs, found, there, hub>>

ScriptStep ==
  \/ CheckAuth \/ CreatePod \/ WaitUntilRunning
  \/ Measure \/ FindAdapter \/ Upload \/ UploadExtras \/ VerifyUpload \/ Verified
  \/ KillRequested \/ Killing \/ Killed

ExperimentNext ==
  \/ ScriptStep \/ Provision \/ FinishRun
  \/ Boot \/ SaveFile \/ TrainerEnds \/ OperatorCleansUp \/ Lost \/ CarriesOutLate
  \/ PodTakesProcesses \/ Poll

(* A script that runs goes on; its calls time out, and its poll loop sleeps. *)
ExperimentSpec == ExperimentInit /\ [][ExperimentNext]_vars /\ WF_vars(ScriptStep)

-----------------------------------------------------------------------------
(* What the two scripts promise.                                           *)

(* finish.py: "upload [...], then -- and only then -- terminate".  When it *)
(* asks for the kill, the Hub holds every file of the directory it found   *)
(* when it looked, from that directory.                                    *)
KillsOnlyWhatIsUploaded ==
  script \in {"kill", "killing"} => found # 0 /\ \A f \in there : hub[f] = found

(* wait_until_running: "the timeout here is a cost control"; no call of    *)
(* either script waits for ever.                                           *)
ScriptsEnd == (script # "none") ~> (script = "none")
=============================================================================
