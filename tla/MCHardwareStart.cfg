CONSTANTS
    HalfSeq = 2
    Slots = {"A", "B"}
    Engines = {E1, E5}
    FactoryEngines = {E1}
    NoToken = NoToken
    CandidateCount = 2
    RegisterOrder <- MCRegisterOrder
SPECIFICATION StartSpec
INVARIANTS
    TokensAreOneShot
    HangEndsInRecovery
    RouteIsSafe
    LoopHasCodec
    FoundIsCodec
    EngineIsWhole
PROPERTIES
    ImplementsMailbox
    StartEnds
