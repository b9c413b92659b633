SPECIFICATION FairSpec
CONSTANTS
    CommandTypes <- TwoKinds
    QueueLimit = 0
    RetryLimit = 2
    MaxRequests = 2
    MaxSpawns = 2
    Faults <- SpawnFaults
INVARIANT
    OldDeferredsSettled
PROPERTIES
    StartingSettles
    SentSettles
CHECK_DEADLOCK FALSE
