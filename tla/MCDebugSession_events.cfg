CONSTANTS
    f1 = f1
    f2 = f2
    Files = {f1}
    Lines = {1}
    Requests = 3
    Stops = 1
SPECIFICATION FairSession
INVARIANTS SessionInvariant BreakpointsAgree
PROPERTIES HitsAreHonoured StopIsKnown RequestsAreAnswered EndIsTold
CHECK_DEADLOCK FALSE
