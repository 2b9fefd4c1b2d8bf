SPECIFICATION PathSpec
CONSTANTS
    Detents <- MCDetents
    Readings <- MCReadings
    NoReading = NoReading
    Hysteresis = 2
    SettleSamples = 2
    DebouncePolls = 2
    HoldPolls = 4
    PollBlocks = 2
    SettleBlocks = 5
    RampTop = 3
    MaxBehind = 2
INVARIANTS
    RouteIsClean
    OneEventPerPress
    InTimeIsFresh
PROPERTY HysteresisSeparates
ACTION_CONSTRAINT MCPunctual
CHECK_DEADLOCK FALSE
