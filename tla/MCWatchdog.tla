---------------------------- MODULE MCWatchdog ----------------------------
(***************************************************************************)
(* The in-pod process on a small instance, with the probe that kills and   *)
(* no generation backend; and with the probe that halts for the backend.   *)
(***************************************************************************)
EXTENDS Watchdog

MCOrder        == <<"liveness.step_counter">>
MCBackendOrder == <<"rlm.generation_backend">>
MCProbe        == {"liveness.step_counter", "rlm.generation_backend"}
NoOverride     == [p \in {} |-> LOG]
NoSweep        == {}
=============================================================================
