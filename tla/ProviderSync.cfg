\* Two requests at once, three in all, one crash of either process.
SPECIFICATION FairSpec
CONSTANTS
    r1 = r1
    r2 = r2
    Worker = Worker
    Requests <- TwoRequests
    MaxOps = 3
    MaxTokens = 3
    MaxCrashes = 1
INVARIANTS
    TypeOK
    PendingHasItsJob
    ImportedOncePerGrant
PROPERTIES
    JobsMoveForward
    QueuedJobEnds
CHECK_DEADLOCK FALSE
