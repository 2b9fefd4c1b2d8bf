CONSTANTS
    Capacity = 16
    Nominal = 4
    Block = 2
    Drifts = {"slow"}
    Spacing = 2
    Stale = Stale
    MaxMissed = 0
    MaxPads = 8
SPECIFICATION Spec
INVARIANT ToleranceAbsorbed
