\* Two requests, granted with an amount or without, denied or expired.
CONSTANTS
    r1 = r1
    r2 = r2
    Requests <- TwoRequests
    MaxAmount = 1
    NoBudget = NoBudget
SPECIFICATION FairSpec
INVARIANTS
    CountedAtMostTwice
PROPERTIES
    AnswerHeard
    BudgetAgrees
