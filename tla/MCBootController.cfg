CONSTANTS
    HalfSeq = 16
    SlotA = SlotA
    SlotB = SlotB
    NoSlot = NoSlot
    MaxTrials = 3
    RamPersonality = TRUE
    Faults = {TRUE, FALSE}
    MaxCuts = 2
    MaxUpdates = 3
SPECIFICATION FairSpec
INVARIANTS
    TrialsAreBudgeted
    ConfirmedImageWorks
    TargetIsNotConfirmed
PROPERTIES
    TrialIsSettled
    HealthyIsConfirmed
CHECK_DEADLOCK FALSE
