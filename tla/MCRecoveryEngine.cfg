CONSTANTS
    HalfSeq = 16
    SlotA = SlotA
    SlotB = SlotB
    NoSlot = NoSlot
    MaxTrials = 3
    BootCells = 2
    SectorCells = 2
    EraseChunk = 4
    MinImage = 2
    P1 = P1
    P2 = P2
    Payloads = {P1, P2}
    SlotImages <- MCImages
    OfferedPayloads = {P1, P2}
    Erased = Erased
    Torn = Torn
    NoState = NoState
    NoPrevious = NoPrevious
    NoData = NoData
    Unlock = Unlock
    MayFail = TRUE
    Start = {SlotB}
    SlotCells = 4
    WholeChip <- MCWholeChip
    FullFlashEnabled = FALSE
    MaxSessions = 2
    MaxSequence = 8
    MaxUpdates = 2
SPECIFICATION MCSpec
INVARIANTS
    AcknowledgedIsStored
    PendingIsDurable
    FinalizedIsVerified
    ReplayedInfoIsCurrent
PROPERTIES
    OnlyTargetChanges
    ImplementsPolicy
CHECK_DEADLOCK FALSE
