SPECIFICATION FairSpec
CONSTANTS
    d1 = d1
    d2 = d2
    p1 = p1
    p2 = p2
    Documents = {d1, d2}
    Passes = {p1, p2}
    Linters = 2
    MaxProblems = 0
    MaxMessages = 1
    MaxTimers = 1
    Running = Running
    Rejected = Rejected
    None = None
INVARIANTS PassInvariant OneLivePass
PROPERTY EveryPassEnds
CHECK_DEADLOCK FALSE
