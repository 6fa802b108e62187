SPECIFICATION Spec
CONSTANTS
  Hours = {h1}
  Bytes = {b1, b2}
  Garbled = Garbled
  Absent = Absent
  Tags = {t1}
  Apps = {a1}
  Perishable = {h1}
  MaxRepublish = 0
  MaxCrashes = 1
PROPERTY RepairLeavesAgreement
CHECK_DEADLOCK FALSE
