CONSTANTS
    Capacity = 20
    Nominal = 4
    Block = 2
    Drifts = {"fast", "slow"}
    Spacing = 2
    Stale = Stale
    MaxMissed = 2
    MaxPads = 4
SPECIFICATION Spec
INVARIANTS
    StreamIsContiguous
    FastClockAbsorbed
    StallIsCounted
