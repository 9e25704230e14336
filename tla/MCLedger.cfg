\* Two priced model calls beside a tool whose task may be cancelled.
CONSTANTS
    m1 = m1
    m2 = m2
    t1 = t1
    ModelCalls <- Models
    ToolCalls <- OneTool
    Budget = 3
    MaxAmount = 2
    MaxUnchecked = 1
    Unpriced <- None
    Cancellable <- OneTool
SPECIFICATION Spec
INVARIANTS
    ReservedIsHeld
    NoOverspend
    HoldsCoverBills
    QuietBooks
PROPERTY
    FenceSpec
