CONSTANTS
    Timeouts <- MCTimeouts
    Delays <- MCDelays
    CntMod <- MCCntMod
SPECIFICATION Spec
INVARIANTS
    TimerOffAfterTimeout
