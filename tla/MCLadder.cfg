SPECIFICATION LadderSpec
CONSTANTS
  Probe <- MCProbe
  ProbeOverride <- NoOverride
  Sweep <- MCSweep
  Thread = {"watchdog", "main"}
  Poller = {"watchdog"}
  Poll = {"fail", "ok", "raise", "none"}
  HasTrainer = TRUE
  HasPod = TRUE
  OnTerminal = "stop"
  ConfirmDelay = 1
  UnknownTolerance = 1
  CheckpointTimeout = 1
INVARIANTS
  ConfirmedEscalation
  BlindnessStopsAtNotify
  OutcomesAreTheirOwn
  ConfirmedIsCarriedOut
  OrderOnTheWayDown
  UnsavedHaltKills
  TerminatedIsTrue
PROPERTY
  ImplementsKillSwitch
