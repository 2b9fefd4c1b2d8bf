CONSTANTS
    HalfSeq = 16
    SlotA = SlotA
    SlotB = SlotB
    NoSlot = NoSlot
    MaxTrials = 3
    RamPersonality = FALSE
    Faults = {TRUE}
    MaxCuts = 2
    MaxUpdates = 2
SPECIFICATION Spec
INVARIANT TargetIsNotConfirmed
CHECK_DEADLOCK FALSE
