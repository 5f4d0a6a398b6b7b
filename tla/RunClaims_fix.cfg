SPECIFICATION RunSpec
CONSTANTS
    Code = {c1, c2, c3}
    Writable = {c1, c2}
    None = None
    Doc = Doc
    CallCost = {0}
    MaxCallCost = 0
    Budget = 0
    BudgetEnforced = FALSE
    MaxTotalSteps = 25
    MaxTotalAgentCalls = 40
    MaxReviewFixLoops = 1
    MaxQaFixLoops = 2
    StateMaxRetry = 0
INVARIANT SuccessIsOnCheckedCode
CHECK_DEADLOCK FALSE
