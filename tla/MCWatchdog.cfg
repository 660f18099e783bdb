SPECIFICATION LiveWatchdog
CONSTANTS
  Probe <- MCProbe
  WatchOrder <- MCOrder
  ProbeOverride <- NoOverride
  Sweep <- NoSweep
  Poll = {"fail", "ok", "warn", "unknown"}
  Thread = {"main", "watchdog"}
  Poller = {"watchdog"}
  HasTrainer = TRUE
  HasBackend = FALSE
  HasPod = TRUE
  OnTerminal = "stop"
  ConfirmDelay = 1
  UnknownTolerance = 1
  CheckpointTimeout = 1
  Stall = 0
  MaxSignals = 2
INVARIANTS
  NoOrphanedExit
  ReportingTrainerIsLeftAlone
PROPERTIES
  WedgedTrainerIsKilled
  ExitCompletes
