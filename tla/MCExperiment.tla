---------------------------- MODULE MCExperiment ----------------------------
(***************************************************************************)
(* One experiment with two runs of its scripts, two saves, and a pod whose *)
(* clocks are each missing, at zero or running.                            *)
(***************************************************************************)
EXTENDS Experiment

MCReports ==
  {[seconds |-> 0, runtime |-> 1, age |-> 3],
   [seconds |-> Absent, runtime |-> Absent, age |-> 3], Silent}
=============================================================================
