SPECIFICATION Spec
CONSTANTS
    CommandTypes <- OneKind
    QueueLimit = 1
    RetryLimit = 2
    MaxRequests = 3
    MaxSpawns = 2
    Faults <- QueueFaults
INVARIANTS
    QueueInvariant
    NoRequestToKilledServer
PROPERTIES
    ImplementsLedger
    AnsweredIsLatest
CHECK_DEADLOCK FALSE
