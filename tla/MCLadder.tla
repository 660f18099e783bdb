------------------------------ MODULE MCLadder ------------------------------
(***************************************************************************)
(* The ladder of the in-pod process on a small instance: a watchdog thread *)
(* and a main thread, one probe of each kind of target level.              *)
(***************************************************************************)
EXTENDS Ladder

MCProbe    == {"liveness.progress_age", "rlm.reward_std"}
NoOverride == [p \in {} |-> LOG]

(* A sweep that pairs an L3 probe with an L4 one, and a lone L4 verdict.   *)
MCPair   == {[i \in 1 .. 2 |-> [probe  |-> IF i = 1 THEN "rlm.reward_std"
                                            ELSE "liveness.progress_age",
                                status |-> st[i]]]
               : st \in [1 .. 2 -> {"fail", "unknown"}]}
MCSingle == {<<[probe |-> "liveness.progress_age", status |-> s]>> : s \in Status}
MCSweep  == MCPair \cup MCSingle
=============================================================================
