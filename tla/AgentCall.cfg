SPECIFICATION Spec
CONSTANTS
    Task = {t1, t2}
    Role = {r1}
    Askable = {r1, r2}
    RawLimit = 1
    BatchSize = 2
    Window = 3
    MaxFailedSends = 1
    Models = 2
    MaxConsults = 1
    Now = {1, 20}
    MaxLog = 5
    MaxCrashes = 1
    None = None
INVARIANTS AccountedFor PostsAreConversation UsageIsWhole
PROPERTY CallEnds
CHECK_DEADLOCK FALSE
