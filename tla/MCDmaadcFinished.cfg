CONSTANTS
    BufSize <- MCBufSize
    CountMod <- MCCountMod
SPECIFICATION Spec
PROPERTIES
    ReturnsWhenFinished
CHECK_DEADLOCK FALSE
