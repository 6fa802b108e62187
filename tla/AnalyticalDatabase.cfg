SPECIFICATION PartsSpec
CONSTANTS
  LastHour = 2
  Lookback = 1
  Presets = {p1, p2}
  Apps = {a1, a2}
  Nothing = Nothing
  d1 = d1
  d2 = d2
  x = x
  z = z
  Null = Null
  SourceHours = {1, 2}
  Markets <- OneMarket
  Depths = {d1, d2}
  Artifacts <- MadeOf
  DigestOf <- ArchiveOf
  Requests <- Asked
  MaxPublished = 2
  MaxImports = 2
  MaxSteps = 2
  DataPresets = {d1, d2}
  Editable = {d1}
  Rows = {d1}
  Files = {x}
  Pages = {"this", "other"}
  Discovered <- DiscoveredAt
  StaleAfter = 0
  OrphanAge = 1
  Validity = 0
  MaxTime = 2
  MaxMoves = 3
INVARIANTS TypeOK OwnedCheckpointExists OrphansNeverBegin ImportIsTrue PresetsAreSafe MaintenanceIsConfirmed
PROPERTY DeletionSparesReferences
SYMMETRY Symmetry
CHECK_DEADLOCK FALSE
