\* A model call whose adapter passes no response to finish().
CONSTANTS
    m1 = m1
    m2 = m2
    t1 = t1
    ModelCalls <- Models
    ToolCalls <- OneTool
    Budget = 3
    MaxAmount = 2
    MaxUnchecked = 1
    Unpriced <- OneModel
    Cancellable <- None
SPECIFICATION Spec
INVARIANTS
    NoOverspend
