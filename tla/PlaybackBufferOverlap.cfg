SPECIFICATION Spec
CONSTANTS
    i1 = i1
    i2 = i2
    f1 = f1
    f2 = f2
    Items <- TwoItems
    Poisoned <- Poison
    Flushers <- TwoFlushers
    MaxBeats = 1
    MaxCrashes = 1
    MaxAborts = 0
INVARIANT
    CrashCannotDropProgress
CHECK_DEADLOCK FALSE
