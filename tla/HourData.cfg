SPECIFICATION MCSpec
CONSTANTS
  BucketCount = 3
  BucketTicks = 2
  Open = Open
  EventLimit = 4
  HourLimit = 2
  Hours = {h1}
  Bytes = {b1, b2}
  Garbled = Garbled
  Absent = Absent
  Tags = {t1}
  Apps = {a1}
  Perishable = {h1}
  MaxRepublish = 0
  MaxCrashes = 1
  NoId = NoId
  Nothing = Nothing
  Levels = {"a", "b", "c", "garbled"}
  Rows <- MCRows
  TradeRows <- MCTradeRows
  MaxRows = 5
  MaxEventRows = 2
  MaxIssues = 2
  ProbeEvery = 2
INVARIANTS EmittedIsLatest SamplersAgree ReadingIsExact
PROPERTIES ImplementsSampling BookImplementsSampling Reacquired
CHECK_DEADLOCK FALSE
