SPECIFICATION SentinelSpec
CONSTANTS
  Probe <- MCProbe
  SweepOrder <- MCOrder
  ProbeOverride <- NoOverride
  Sweep <- NoSweep
  Poll = {"fail", "ok", "warn", "unknown", "none"}
  Thread = {"sentinel"}
  Poller = {"sentinel"}
  HasTrainer = FALSE
  HasPod = TRUE
  OnTerminal = "stop"
  ConfirmDelay = 1
  UnknownTolerance = 1
  CheckpointTimeout = 1
  Deadline = 1
  DeadMan = 2
  CreatedAtGiven = FALSE
  Faults = {"wandb"}
INVARIANT
  PartitionNeverKillsHealthyRun
