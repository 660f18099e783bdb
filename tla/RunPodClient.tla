---------------------------- MODULE RunPodClient ----------------------------
(***************************************************************************)
(* One pod and the retrying client of rlmwatch/clients/runpod.py.  A       *)
(* request that times out may have been carried out, may never have        *)
(* arrived, or may be carried out later, when the client has long retried  *)
(* or given up.  4xx is never retried; 5xx and transport errors are, up to *)
(* max_retries attempts with a backoff between them.                       *)
(***************************************************************************)
EXTENDS Integers, FiniteSets

CONSTANTS
  MaxRetries,  \* the client's max_retries
  Reports      \* what the clock fields of GET /pods/{id} may hold

Absent == -1   \* the field is missing, or does not parse

Kill   == {"stop", "terminate"}
Op     == Kill \cup {"patch", "status"}
Report == [seconds : {Absent} \cup Nat,   \* uptimeSeconds
           runtime : {Absent} \cup Nat,   \* runtime.uptimeInSeconds
           age     : {Absent} \cup Nat]   \* since createdAt, or lastStartedAt

Silent == [seconds |-> Absent, runtime |-> Absent, age |-> Absent]

ASSUME ClientAssumption ==
  /\ MaxRetries \in Nat \ {0}
  /\ Reports \subseteq Report

VARIABLES
  pod,        \* what RunPod has of the pod; "none" before it is created
  keyWrites,  \* the API key has write scope
  op,         \* the call in progress, or the last one
  place,      \* where the client is in it
  attempt,    \* _request's attempt
  late,       \* kills RunPod has accepted and not carried out, of any attempt
  outcome,    \* what the last call returned or raised
  uptime,     \* PodStatus.uptime_s, when the call was a status that returned
  told,       \* history: the report it is from, and the pod's state then
  ordered,    \* history: the kills ever issued
  believed    \* history: one of them has returned

clientVars == <<pod, keyWrites, op, place, attempt, late, outcome, uptime, told, ordered,
                believed>>

ClientTypeOK ==
  /\ pod \in {"none", "running", "stopped", "terminated"}
  /\ keyWrites \in BOOLEAN
  /\ op \in Op
  /\ place \in {"idle", "send", "backoff"}
  /\ attempt \in 0 .. MaxRetries - 1
  /\ late \subseteq Kill
  /\ outcome \in {"none", "ok", "auth", "error"}
  /\ uptime \in Nat
  /\ told \in [report : Report, state : {"unasked", "running", "stopped"}]
  /\ ordered \subseteq Kill
  /\ believed \in BOOLEAN

ClientInit ==
  /\ pod = "running"
  /\ keyWrites \in BOOLEAN
  /\ op = "status"
  /\ place = "idle"
  /\ attempt = 0
  /\ late = {}
  /\ outcome = "none"
  /\ uptime = 0
  /\ told = [report |-> Silent, state |-> "unasked"]
  /\ ordered = {}
  /\ believed = FALSE

-----------------------------------------------------------------------------
(* What RunPod does with a request that reached it.                        *)

(* Deleting is final, and what is stopped stays stopped. *)
Effect(o, p) ==
  CASE o = "terminate" /\ p # "none"  -> "terminated"
    [] o = "stop" /\ p = "running"    -> "stopped"
    [] OTHER                          -> p

Refused == op # "status" /\ ~ keyWrites

(* status(): the first clock that ticks; without one, the age of a live    *)
(* pod and nothing for any other.                                          *)
Uptime_NoFallback(r, state) ==   \* mutant: a pod without a clock costs nothing
  CASE r.seconds > 0                         -> r.seconds
    [] r.seconds = Absent /\ r.runtime > 0   -> r.runtime
    [] OTHER                                 -> 0

Uptime(r, state) ==
  CASE r.seconds > 0                         -> r.seconds
    [] r.seconds = Absent /\ r.runtime > 0   -> r.runtime
    [] (r.seconds = 0 \/ (r.seconds = Absent /\ r.runtime <= 0))
         /\ state = "running" /\ r.age > 0   -> r.age
    [] OTHER                                 -> 0

-----------------------------------------------------------------------------
(* A call: _request, and what _json makes of the answer.                   *)

Issue(o) ==
  /\ place = "idle"
  /\ op' = o
  /\ place' = "send"
  /\ outcome' = "none"
  /\ uptime' = 0
  /\ told' = [report |-> Silent, state |-> "unasked"]
  /\ attempt' = 0
  /\ ordered' = ordered \cup ({o} \cap Kill)
  /\ UNCHANGED <<pod, keyWrites, late, believed>>

Return(result) ==
  /\ place' = "idle"
  /\ outcome' = result
  /\ attempt' = 0
  /\ believed' = (believed \/ (result = "ok" /\ op \in Kill))
  /\ UNCHANGED <<keyWrites, op, ordered>>

(* 401 and 403. *)
Denied ==
  /\ place = "send"
  /\ Refused
  /\ Return("auth")
  /\ UNCHANGED <<pod, late, uptime, told>>

(* 2xx: the request was carried out.  A body that is not JSON raises. *)
Accepted ==
  /\ place = "send"
  /\ ~ Refused /\ pod \notin {"none", "terminated"}
  /\ pod' = Effect(op, pod)
  /\ \E result \in {"ok", "error"} :
       /\ Return(result)
       /\ \/ /\ op = "status" /\ result = "ok"
             /\ \E r \in Reports :
                  /\ uptime' = Uptime(r, pod)
                  /\ told' = [report |-> r, state |-> pod]
          \/ /\ op # "status" \/ result = "error"
             /\ UNCHANGED <<uptime, told>>
  /\ UNCHANGED late

(* 404 of a pod that is gone, or another 4xx: it raises at once. *)
Rejected_GoneIsDone ==   \* mutant: any 404 counts as success
  /\ place = "send"
  /\ ~ Refused
  /\ Return("ok")
  /\ UNCHANGED <<pod, late, uptime, told>>

Rejected ==
  /\ place = "send"
  /\ ~ Refused
  /\ Return("error")
  /\ UNCHANGED <<pod, late, uptime, told>>

(* 5xx or a transport error, whatever became of the request. *)
Again_Forever ==   \* mutant: the attempts are not counted
  /\ place = "send"
  /\ place' = "backoff"
  /\ UNCHANGED <<pod, keyWrites, op, attempt, late, outcome, uptime, told, ordered, believed>>

Again ==
  /\ place = "send"
  /\ \/ UNCHANGED <<pod, late>>
     \/ ~ Refused /\ pod' = Effect(op, pod) /\ UNCHANGED late
     \/ ~ Refused /\ op \in Kill /\ late' = late \cup {op} /\ UNCHANGED pod
  /\ \/ /\ attempt < MaxRetries - 1
        /\ place' = "backoff"
        /\ UNCHANGED <<keyWrites, op, attempt, outcome, ordered, believed>>
     \/ /\ attempt = MaxRetries - 1
        /\ Return("error")
  /\ UNCHANGED <<uptime, told>>

Backoff ==
  /\ place = "backoff"
  /\ place' = "send"
  /\ attempt' = attempt + 1
  /\ UNCHANGED <<pod, keyWrites, op, late, outcome, uptime, told, ordered, believed>>

(* RunPod gets round to a kill whose caller has stopped waiting for it. *)
CarriedOutLate ==
  \E o \in late :
    /\ late' = late \ {o}
    /\ pod' = Effect(o, pod)
    /\ UNCHANGED <<keyWrites, op, place, attempt, outcome, uptime, told, ordered, believed>>

(* The pod goes down without the client. *)
PodLost ==
  /\ pod = "running"
  /\ pod' \in {"stopped", "terminated"}
  /\ UNCHANGED <<keyWrites, op, place, attempt, late, outcome, uptime, told, ordered, believed>>

ClientStep == Denied \/ Accepted \/ Rejected \/ Again \/ Backoff

ClientNext == (\E o \in Op : Issue(o)) \/ ClientStep \/ CarriedOutLate \/ PodLost

ClientSpec == ClientInit /\ [][ClientNext]_clientVars

-----------------------------------------------------------------------------
(* What the client promises.                                               *)

(* terminate: "the only call that actually stops the meter".  A kill that  *)
(* returned did what its name says, however many attempts it took.         *)
OkMeansDone ==
  outcome = "ok" => /\ op = "terminate" => pod = "terminated"
                    /\ op = "stop" => pod # "running"

(* status: a live pod that is known to have been created is never free,    *)
(* and a pod that is not live is never charged for its age.                *)
UptimeIsWhatBills ==
  LET r == told.report
  IN  /\ told.state = "running" /\ r.age > 0 => uptime > 0
      /\ told.state = "stopped" => uptime \in {0, r.seconds, r.runtime}

(* The client implements the kill switch the ladder takes it for, however  *)
(* requests are delayed, repeated or lost: the pod goes down by it only    *)
(* after a kill was issued, and is believed down only when it is.          *)
KS == INSTANCE KillSwitch WITH
        Thread   <- {"client"},
        evidence <- [t \in {"client"} |-> IF ordered = {} THEN "none" ELSE "ordered"]

ClientImplementsKillSwitch == KS!Spec
=============================================================================
