SPECIFICATION FairSpec
CONSTANTS
    i1 = i1
    i2 = i2
    f1 = f1
    f2 = f2
    Items <- TwoItems
    Poisoned <- Poison
    Flushers <- OneFlusher
    MaxBeats = 2
    MaxCrashes = 1
    MaxAborts = 1
INVARIANTS
    TypeOK
    NothingLost
PROPERTIES
    ImplementsWriteBehind
    AcceptedIsStored
CHECK_DEADLOCK FALSE
