---------------------------- MODULE MCSentinel ----------------------------
(***************************************************************************)
(* The sentinel on a small instance: the probes whose failure kills, each  *)
(* of which reads the world in its own way, and the two verdicts the       *)
(* sentinel makes up itself.                                               *)
(***************************************************************************)
EXTENDS Sentinel, Functions

MCOrder    == <<"liveness.observer_agreement", "liveness.progress_age">>
MCCapOrder == <<"liveness.run_state", "liveness.gpu_util", "cost.wall_clock">>
MCAgeOrder == <<"liveness.progress_age">>
MCProbe    == Range(MCOrder) \cup Own
MCCapProbe == Range(MCCapOrder) \cup Own
MCAgeProbe == Range(MCAgeOrder) \cup Own
NoOverride == [p \in {} |-> LOG]
NoSweep    == {}
=============================================================================
