\* Three threads; that of a sync run may be halted in a call.
CONSTANTS
    t1 = t1
    t2 = t2
    t3 = t3
    Threads <- ThreeThreads
    FailuresToOpen = 3
    Haltable <- OneSync
SPECIFICATION FairSpec
INVARIANTS
    ProbingIsProbe
PROPERTIES
    RecoversUncut
