SPECIFICATION Spec
CONSTANTS
  LastHour = 2
  Lookback = 1
  Presets = {p1, p2}
  Apps = {a1}
  Nothing = Nothing
PROPERTY OwnershipIsDurable
