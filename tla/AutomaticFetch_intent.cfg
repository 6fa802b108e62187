SPECIFICATION Spec
CONSTANTS
  CatchUp = 1
  LastHour = 0
  MaxPresses = 2
  MaxRestarts = 1
  MaxFaults = 0
INVARIANT IntentPersists
CHECK_DEADLOCK FALSE
