SPECIFICATION AppSpec
CONSTANTS
  Owners = {"manual_fetch","remote_import","manual_processing","manual_analysis_load","automatic_fetch","settings"}
  MaxCalls = 2
  MaxShutdowns = 2
  CatchUp = 3
  LastHour = 2
  MaxPresses = 2
  MaxRestarts = 1
  AutoFaults = 1
  Planned = 2
  MaxRuns = 2
  MaxFaults = 1
  MaxDeaths = 1
INVARIANTS AllTyped DisposalIsSafe WorkIsExclusive StopIsFinal
  RunTellsTheTruth
PROPERTIES NoHourStarves EverythingEnds
CHECK_DEADLOCK FALSE
