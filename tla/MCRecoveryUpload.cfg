CONSTANTS
    HalfSeq = 16
    SlotA = SlotA
    SlotB = SlotB
    NoSlot = NoSlot
    MaxTrials = 3
    BootCells = 2
    SlotCells = 2
    SectorCells = 2
    EraseChunk = 4
    MinImage = 2
    P1 = P1
    P2 = P2
    Payloads = {P1, P2}
    SlotImages <- MCImages
    Images <- MCImages
    WholeChip <- MCWholeChip
    Erased = Erased
    Torn = Torn
    NoState = NoState
    NoPrevious = NoPrevious
    NoData = NoData
    Unlock = Unlock
    FullFlashEnabled = TRUE
    MayFail = TRUE
    MaxSessions = 3
    MaxSequence = 12
    MaxUpdates = 4
    Plans = {"upload", "restore"}
    FullProgramVerified = TRUE
    Retries = 1
    MaxLost = 2
    MaxLate = 1
    MaxRuns = 2
SPECIFICATION MCUploadSpec
INVARIANTS
    SuccessIsReal
    LossesAreMasked
PROPERTY UploadEnds
CHECK_DEADLOCK FALSE
