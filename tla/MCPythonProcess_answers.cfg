CONSTANTS
    x1 = x1
    x2 = x2
    e1 = e1
    e2 = e2
    Executions = {x1, x2}
    Enumerations = {e1, e2}
SPECIFICATION FairSpec
INVARIANTS ProcessInvariant AnswersReachTheirAsker
PROPERTIES EveryExecutionSettles EveryEnumerationSettles
CHECK_DEADLOCK FALSE
