\* Two async functions and a stream on one task, whose owner cancels it once.
CONSTANTS
    r1 = r1
    r2 = r2
    s = s
    Runs <- ThreeRuns
    Streams <- OneStream
    MaxAsked = 1
SPECIFICATION FairSpec
INVARIANTS
    CancelStaysInside
    OwnersCountKept
    StuckRunInReach
PROPERTIES
    SeenIsSpared
    StuckRunIsCancelled
