\* Two chains, either of them outermost, two model calls and a tool.  The
\* system stops when all of them are over.
CONSTANTS
    c1 = c1
    c2 = c2
    m1 = m1
    m2 = m2
    t1 = t1
    Chains <- TwoChains
    Models <- TwoModels
    Tools <- OneTool
    Foreign = Foreign
SYMMETRY Alike
SPECIFICATION Spec
CHECK_DEADLOCK FALSE
INVARIANTS
    RunsMatch
    RoomFollowsCalls
