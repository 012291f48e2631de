SPECIFICATION FairSpec3
CONSTANTS
    BufSize <- MCBufSize
    CountMod <- MCCountMod
    OutCap <- MCOutCap
    InCap <- MCInCap
    Self <- MCSelf
    Commands <- NoBytes
    Arguments <- NoBytes
    Forms <- MCForms
    guiSamples <- MCGuiSamples
    Shots <- MCShots
    maxMutesInARow <- MCMaxMutesInARow
INVARIANTS
    InStep
    SettingsAgree
    Survives
    CountedIsGlitched
    PoweredWhenStarted
PROPERTIES
    Resyncs
    AttemptEnds
CHECK_DEADLOCK FALSE
