SPECIFICATION FairSpec
CONSTANTS
    d1 = d1
    d2 = d2
    d3 = d3
    r1 = r1
    r2 = r2
    Discoveries = {d1, d2, d3}
    Runs = {r1, r2}
    None = None
INVARIANT ManagerInvariant
PROPERTY WaitingRunsGoOn
CHECK_DEADLOCK FALSE
