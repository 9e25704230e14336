\* Five items of two runs through a queue of three, spans two to a request.
CONSTANTS
    r1 = r1
    r2 = r2
    Runs <- TwoRuns
    MaxQueued = 3
    SpanBatch = 2
    MaxItems = 5
SPECIFICATION FairSpec
INVARIANTS
    Accounted
PROPERTIES
    OneLine
    AllDone
