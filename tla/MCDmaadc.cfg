CONSTANTS
    BufSize <- MCBufSize
    CountMod <- MCCountMod
SPECIFICATION FairSpec
INVARIANTS TypeOK TransferFits FilledWhenDone
PROPERTIES ReadReturns
CHECK_DEADLOCK FALSE
