\* Two calls at a time, paused, held, released and stopped at any moment.
CONSTANTS
    c1 = c1
    c2 = c2
    Calls <- TwoCalls
    Parallel = 2
    Pauses = TRUE
SPECIFICATION FairSpec
INVARIANTS
    AloneHeldUntilPerson
    ResumeIsNoTimeout
    SeenStopSticks
PROPERTIES
    StopBeatsRelease
    StopLeavesFewSteps
    StopEndsHolds
