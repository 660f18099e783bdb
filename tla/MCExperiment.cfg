SPECIFICATION ExperimentSpec
CONSTANTS
  MaxRetries = 2
  Reports <- MCReports
  BootTicks = 1
  MaxSaves = 2
  MaxForgotten = 1
  MaxRuns = 3
INVARIANTS
  ExperimentTypeOK
  OkMeansDone
  UptimeIsWhatBills
  KillsOnlyWhatIsUploaded
PROPERTIES
  ScriptsEnd
CHECK_DEADLOCK FALSE
