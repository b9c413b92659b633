SPECIFICATION LSSpec
CONSTANTS
    Interpreters <- Named
    WithoutData <- Script
    Hash <- Times
    NoHash = ""
    MaxActivities = 4
    Undefined = Undefined
INVARIANTS
    ServerInvariant
    StillListens
    ServerIsCurrent
CHECK_DEADLOCK FALSE
