SPECIFICATION Spec
CONSTANTS
    Task = {t1, t2}
    Project = {p1, p2}
    Group = {g1, g2}
    Repo = {r1, r2}
    MaxLen = 2
    Bot = {coordinator, developer}
    Coordinator = coordinator
    None = None
    MaxCalls = 1
    MaxBranches = 3
SYMMETRY Symmetric
INVARIANTS
    PushedIsOwnWork
    
    OneProjectPerChat
    CopiesAgree
PROPERTY ChatNeverMoves
