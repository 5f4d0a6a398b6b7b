SPECIFICATION Spec
CONSTANTS
    Roles = 2
    Coordinator = 1
    Token = {k1, k2}
    Task = {t1}
    MaxLaunches = 2
    None = None
PROPERTY SweptAtStart
CHECK_DEADLOCK FALSE
