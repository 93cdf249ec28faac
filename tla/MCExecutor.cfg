\* Three calls of Execute at once: two given up and one under way.
CONSTANTS
    Attempt = {a1, a2, a3}
    Null = Null
    MaxRetry = 2
\* A job without a timeout that calls Stop waits for itself: the end.
CHECK_DEADLOCK FALSE
SPECIFICATION FairSpec
INVARIANTS
    OneAttemptAtATime
    RetriesAreUsedUp
PROPERTIES
    ExecutionEnds
    StopReturns
    NoLeak
