SPECIFICATION MCSpec
CONSTANTS
  Hours = {h1, h2}
  OneHour = {h1}
  Bytes = {b1, b2}
  Garbled = Garbled
  Absent = Absent
  Tags = {t1, t2}
  Apps = {a1}
  TwoApps = {p1, p2}
  Perishable = {h1}
  MaxRepublish = 1
  MaxCrashes = 1
SYMMETRY Symmetry
INVARIANTS ClaimedBytesSurvive UnprocessedBytesKept
PROPERTIES DurableIdentity SharedHourIsKept
CHECK_DEADLOCK FALSE
