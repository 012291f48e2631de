SPECIFICATION MCFairSpec
CONSTANTS
    BufSize <- MCBufSize
    CountMod <- MCCountMod
    OutCap <- MCOutCap
    Commands <- MCCommands
    Arguments <- MCArguments
INVARIANTS
    TypeOK
PROPERTIES
    FetchedIsSampled
    UsesDmaadc
    CommandEnds
