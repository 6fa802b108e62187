SPECIFICATION FairSpec
CONSTANTS
  Hours = {h1}
  Bytes = {b1, b2}
  Garbled = Garbled
  Absent = Absent
  Tags = {t1}
  Apps = {a1}
  Perishable = {h1}
  MaxRepublish = 2
  MaxCrashes = 0
PROPERTY Reacquired
CHECK_DEADLOCK FALSE
