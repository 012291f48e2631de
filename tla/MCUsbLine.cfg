CONSTANTS
    Size = 1
    Byte <- MCByte
    EpSize = 3
    Mod = 3
    Puts = 1
    MaxLength = 3
    MaxPacket = 2
    Faults = 1
SPECIFICATION LineSpec
INVARIANTS
    NothingDropped
    ReachesApp
    SessionAgrees
PROPERTIES
    Delivered
    PutEnds
    Opens
