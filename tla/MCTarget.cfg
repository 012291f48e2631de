SPECIFICATION FairSpec
CONSTANTS
    Keys <- MCKeys
    Inputs <- MCInputs
    Missing <- MCMissing
    Known <- MCKnown
INVARIANTS
    SavedBelongTogether
    StepsAreStandard
PROPERTIES
    RoundsInvert
    TestTargetEnds
