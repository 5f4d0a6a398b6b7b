SPECIFICATION Spec
CONSTANTS
    Roles = 3
    Coordinator = 2
    Token = {k1, k2, k3}
    Task = {t1}
    MaxLaunches = 2
    None = None
INVARIANTS ValidatorAgreesWithBuilder FailedStartIsUndone HandlersHaveTheirBots
PROPERTY ClosingEnds
CHECK_DEADLOCK FALSE
