SPECIFICATION Spec
CONSTANTS
  LastHour = 1
  Runs = {r1}
  Searches = {2}
  Absent = Absent
  Unknown = Unknown
  MaxUpsets = 0
INVARIANT SeedsAreUsable
CHECK_DEADLOCK FALSE
