CONSTANTS
    Packets = {R1, R2}
    NoPacket = NoPacket
    MaxSends = 4
    MaxEvents = 3
SPECIFICATION FairSpec
INVARIANTS
    CacheAnswersItsRequest
    AnsweredInOrder
PROPERTIES
    RequestIsServed
    EndpointComesBack
