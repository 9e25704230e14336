\* Three runs on one thread, nested or not, any of them stopped and halted.
CONSTANTS
    r1 = r1
    r2 = r2
    r3 = r3
    Runs <- ThreeRuns
SPECIFICATION FairSpec
INVARIANTS
    OneHaltStaysInside
    StuckRunInReach
    OverIsReported
PROPERTY
    StuckRunEnds
