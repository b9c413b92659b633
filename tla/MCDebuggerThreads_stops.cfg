SPECIFICATION Spec
CONSTANTS
    m = m
    u = u
    e1 = e1
    e2 = e2
    Nothing = Nothing
    Threads = {m, u}
    Main = m
    Evaluations = {e1}
    Enumerations = {}
    Kinds <- TwoStops
    MaxCommands = 2
INVARIANTS
    ThreadInvariant
    BlocksAgain
PROPERTIES
    ResumedRuns
    EvaluationSettles
CHECK_DEADLOCK FALSE
