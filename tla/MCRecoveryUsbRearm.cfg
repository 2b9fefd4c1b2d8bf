CONSTANTS
    Packets = {R1, R2}
    NoPacket = NoPacket
    MaxSends = 4
    MaxEvents = 1
SPECIFICATION Spec
INVARIANT UnarmedUntilAnswered
