CONSTANTS
    Timeouts <- MCTimeouts
    Delays <- MCDelays
    CntMod <- MCCntMod
SPECIFICATION FairSpec
INVARIANTS TypeOK DelayHonoured SpinIsServed CaughtLeavesQuiet
PROPERTIES ImplementsTriggerWait WaitReturns
