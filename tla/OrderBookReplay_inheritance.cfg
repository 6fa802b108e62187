SPECIFICATION Spec
CONSTANTS
    Venue = "bybit"
    NoId = NoId
    Absent = Absent
    Missing = Absent
    NoEvent = NoEvent
    NoCheckpoint = NoCheckpoint
    q1 = q1
    q2 = q2
    Prices <- MCPrices
    Payloads <- MCPayloads
    Events <- MCEvents
PROPERTY FrontierInheritedFromBoundary
