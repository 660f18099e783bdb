SPECIFICATION GateSpec
CONSTANTS
  Worlds <- MCWorlds
  Later <- MCLater
  Entry = {"attach", "preflight", "preflight --no-enforce"}
  ExpectGpus = 2
  MinDisk = 2
  Quota = 4
  Regime = "rl"
  OnFailure = "terminate"
  MaxStarts = 2
  MaxSignals = 1
  Probe <- MCProbe
  ProbeOverride <- NoOverride
  Sweep <- NoSweep
  Poll = {"fail"}
  Thread = {"main"}
  Poller = {"main"}
  HasTrainer = TRUE
  HasPod = TRUE
  OnTerminal = "stop"
  ConfirmDelay = 1
  UnknownTolerance = 1
  CheckpointTimeout = 1
INVARIANTS
  GateTypeOK
  TrainsWhatItCanSaveSeeAndKill
  HungGateCanBeKilled
  NoWayOutUnguarded
  RefusesOnlyForCause
PROPERTY
  GateDecides
CHECK_DEADLOCK FALSE
