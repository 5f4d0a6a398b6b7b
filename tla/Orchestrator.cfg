SPECIFICATION Spec
CONSTANTS
    Code = {c1, c2}
    None = None
    Doc = Doc
    CallCost = {0, 4}
    MaxCallCost = 4
    Budget = 9
    BudgetEnforced = TRUE
    MaxTotalSteps = 25
    MaxTotalAgentCalls = 23
    MaxReviewFixLoops = 3
    MaxQaFixLoops = 2
    StateMaxRetry = 2
INVARIANTS LimitsHold ApprovedBeforeUse
PROPERTY KeepsPromise
CHECK_DEADLOCK FALSE
