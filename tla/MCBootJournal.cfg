CONSTANTS
    HalfSeq = 9
    CellCount = 2
    GoodBody = GoodBody
    BadBody = BadBody
    NoState = NoState
    Erased = Erased
    Torn = Torn
    Bodies <- MCBodies
    ValidBodies <- MCValidBodies
SPECIFICATION Spec
INVARIANTS
    ScanFindsNewest
PROPERTY ImplementsRegister
