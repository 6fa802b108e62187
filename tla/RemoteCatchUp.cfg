SPECIFICATION FairSpec
CONSTANTS
  LastHour = 2
  Runs = {r1, r2}
  Searches = {2, 3}
  Absent = Absent
  Unknown = Unknown
  MaxUpsets = 1
INVARIANT CatchUpIsSound
PROPERTIES StoreGrowsInOrder ChainCatchesUp
CHECK_DEADLOCK FALSE
