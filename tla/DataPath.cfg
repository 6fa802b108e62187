SPECIFICATION PathSpec
CONSTANTS
    Venue = "bybit"
    NoId = NoId
    Absent = Absent
    Missing = Absent
    NoEvent = NoEvent
    NoCheckpoint = NoCheckpoint
    q1 = q1
    q2 = q2
    Prices <- MCPrices
    Payloads <- MCPayloads
    Events <- MCFeedEvents
    Recorded <- MCFeedEvents
    Positions <- MCPositions
    Truth <- MCTruth
    TakenAt <- MCTakenAt
    d1 = d1
    d2 = d2
    p1 = p1
    p2 = p2
    s1 = s1
    s2 = s2
    Null = Null
    None = None
    Refused = Refused
    NoCandle = NoCandle
    Broken = Broken
    Lost = Lost
    Unknown = Unknown
    Downloads = {s1, s2}
    Limits = {1, 2}
    Window = 2
    MaxAttempts = 2
    Backoff = 1
    MaxBackoff = 2
    Delays = {0, 3}
    MaxTime = 4
    RunHours = {1, 2}
    Digests = {d1, d2}
    Presets = {p1, p2}
    MaxRuns = 2
    MaxEvents = 3
    Plan <- TwoHours
    Chain <- OneChain
    Contents <- SeedOrNot
    Holdings <- LastIsSeed
    Chained = {p2}
    MaxSends = 2
    MaxMigrations = 1
    MaxUpsets = 1
    Inputs = {s1, s2}
    Timeframes = {1, 2}
    MaxLoads = 3
    MaxTasks = 1
    TradeHours = {0, 1}
    TradeHourTicks = 4
    BucketTicks = 2
    TradeRecords <- OfTwoHours
    StreamLimit = 4
    HourTicks = 2
    DayTicks = 4
    MaxTick = 13
    Zones <- HalfHourOrChange
    Ranking <- NewestFirst
    Markets <- OneAndTwo
    Component <- FirstIsP1
    FullHour = 2
    Worlds <- GapOrOneMarket
    Archives <- ThereOrNot
    RowSeconds = {0, 2}
    Changeable = {3}
    Dates = {1, 2}
    NoDate = None
    Lookback = 2
    RangeLimits = {3, 9}
    Universe <- BooksAndTrades
    MaxChanges = 2
INVARIANTS
    ReplaysAgree
    OneCheckpointPerBoundary
    BookIsTruthful
    CheckpointIsTruthful
    AnyReplayIsExact
    RequestsAreLimited
    ObservationsAreExact
    CandlesAreTruthful
    RunIsTruthful
    ChartIsItsInput
    PageIsTruthful
    BucketIsTruthful
    CalendarIsTruthful
CHECK_DEADLOCK FALSE
