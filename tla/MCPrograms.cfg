SPECIFICATION Spec
CONSTANTS
    NULL = NULL
    NaN = NaN
    Arena = 16
    Capacity = 3
    BlockFrames = 2
    Requests = {1, 3, 4}
    MaxFrames = 8
    Keys <- MCKeys
    Ids = {1, 2}
    Levels <- MCLevels
    Programs <- MCPrograms
    Banks = {1, 2, 3}
    Word = 12
    HoldThreshold = 5
    ReleaseRearm = 2
    Elapsed = {0, 1, 3, 11}
    Builds = {TRUE, FALSE}
    Registries <- MCRegistries
    Edited <- MCEdited
    OverrideLists <- MCOverrides
    Registry <- MCRegistry
    Libraries <- MCLibraries
    Bases = {1, 6}
INVARIANTS
    ContextsAreIntact
    LibraryIsUsable
    PreparedIsWhole
    StreamKeepsTime
PROPERTY OneChangePerHold
CHECK_DEADLOCK FALSE
