SPECIFICATION HandlerSpec
CONSTANTS
    Task = {t1, t2}
    Caller = {b1, b2}
    None = None
    HistoryLen = 1
INVARIANTS VerdictIsTrue HistoryServesPush
PROPERTY TakenTaskIsReported
CHECK_DEADLOCK FALSE
