SPECIFICATION Spec
CONSTANTS
    Task = {t1, t2, t3}
    Caller = {b1, b2}
    None = None
INVARIANT SlotIsHeldByLiveTask
PROPERTIES ShutdownReturns RunsSerially
CHECK_DEADLOCK FALSE
