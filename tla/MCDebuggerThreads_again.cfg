SPECIFICATION Spec
CONSTANTS
    m = m
    u = u
    e1 = e1
    e2 = e2
    Nothing = Nothing
    Threads = {m, u}
    Main = m
    Evaluations = {e1}
    Enumerations = {e2}
    Kinds <- TwoStops
    MaxCommands = 2
INVARIANT
    BlocksAgain
CHECK_DEADLOCK FALSE
