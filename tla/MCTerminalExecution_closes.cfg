SPECIFICATION FairSpec
CONSTANTS
    f = f
    s1 = s1
    s2 = s2
    t1 = t1
    t2 = t2
    user = user
    Files = {f}
    Selections = {s1, s2}
    Terminals = {t1, t2}
    Foreign = user
    Activations = 1
    None = None
INVARIANTS
    TerminalInvariant
    CodeReachesRepl
PROPERTIES
    CallsEnd
CHECK_DEADLOCK FALSE
