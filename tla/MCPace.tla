-------------------------------- MODULE MCPace -------------------------------
(* Three steps of one or two ticks after a step 0, the first a warm-up perhaps.  *)
EXTENDS Pace
==============================================================================
