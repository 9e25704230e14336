\* A budget of one unit, changed or lifted by the dashboard.  The system
\* stops when every call is over.
CONSTANTS
    m1 = m1
    m2 = m2
    t1 = t1
    NoBudget = NoBudget
    ModelCalls <- TwoModels
    ToolCalls <- OneTool
    Budgets <- SomeBudgets
    MaxAmount = 1
    MaxOthers = 1
SYMMETRY ModelsAlike
SPECIFICATION Spec
CHECK_DEADLOCK FALSE
INVARIANTS
    OnlyForgottenOverspends
    CountedOnce
    BothHold
