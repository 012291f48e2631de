CONSTANTS
    CountMod <- MCCountMod
    MaxPulses <- MCMaxPulses
SPECIFICATION FairSpec
INVARIANTS TypeOK PulseWidth PulseCount
PROPERTIES GlitchEnds
