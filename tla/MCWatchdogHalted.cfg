SPECIFICATION LiveWatchdog
CONSTANTS
  Probe <- MCProbe
  WatchOrder <- MCBackendOrder
  ProbeOverride <- NoOverride
  Sweep <- NoSweep
  Poll = {"fail", "ok", "warn", "unknown"}
  Thread = {"main", "watchdog"}
  Poller = {"watchdog"}
  HasTrainer = TRUE
  HasBackend = TRUE
  HasPod = TRUE
  OnTerminal = "stop"
  ConfirmDelay = 1
  UnknownTolerance = 1
  CheckpointTimeout = 1
  Stall = 0
  MaxSignals = 0
PROPERTIES
  HaltedLoopIsSaved
