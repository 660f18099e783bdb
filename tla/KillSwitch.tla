----------------------------- MODULE KillSwitch -----------------------------
(***************************************************************************)
(* What the escalation ladder promises about the pod, without how: the pod *)
(* is only ever taken down by a thread that holds a failure seen twice, or *)
(* that was ordered to leave, and it is only believed down when it is.     *)
(***************************************************************************)
CONSTANT Thread

VARIABLES
  pod,        \* "running", "stopped" or "terminated"
  believed,   \* the ladder takes the pod for gone
  evidence    \* [Thread -> what the thread could justify a kill with]

vars == <<pod, believed, evidence>>

Evidence == {"none", "suspected", "confirmed", "ordered"}
Down     == {"stopped", "terminated"}

Init ==
  /\ pod = "running"
  /\ believed = FALSE
  /\ evidence = [t \in Thread |-> "none"]

(* How evidence may change: a failure is confirmed only after it was       *)
(* suspected, and only an idle thread takes an order.                      *)
Follows(e) ==
  CASE e = "none"      -> {"none", "suspected", "ordered"}
    [] e = "suspected" -> {"none", "suspected", "confirmed"}
    [] e = "confirmed" -> {"none", "suspected", "confirmed"}
    [] e = "ordered"   -> {"none", "ordered"}

Weigh(t) ==
  /\ \E e \in Follows(evidence[t]) : evidence' = [evidence EXCEPT ![t] = e]
  /\ UNCHANGED <<pod, believed>>

Kill(t) ==
  /\ evidence[t] \in {"confirmed", "ordered"}
  /\ pod' \in Down
  /\ believed' \in {TRUE, believed}
  /\ UNCHANGED evidence

(* The pod goes down by itself, or somebody else takes it down. *)
PodLost ==
  /\ pod = "running"
  /\ pod' \in Down
  /\ UNCHANGED <<believed, evidence>>

Next ==
  \/ \E t \in Thread : Weigh(t) \/ Kill(t)
  \/ PodLost

Spec == Init /\ [][Next]_vars
=============================================================================
