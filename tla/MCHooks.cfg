\* Three calls in two slots, with prompts of up to two tokens.  The system
\* stops when all calls are over.
CONSTANTS
    c1 = c1
    c2 = c2
    c3 = c3
    s1 = s1
    s2 = s2
    Calls <- ThreeCalls
    Slots <- TwoSlots
    Prices <- TwoPrices
    Budget = 6
    MaxTokens = 2
    MaxOutput = 1
SYMMETRY Alike
SPECIFICATION Spec
CHECK_DEADLOCK FALSE
INVARIANTS
    NoOverspend
    OnlyFailedLeft
PROPERTY
    FenceUntilCrossed
