\* An authorization, its callback and two refreshes of one token.
SPECIFICATION Spec
CONSTANTS
    r1 = r1
    r2 = r2
    Worker = Worker
    Requests <- TwoRequests
    MaxOps = 4
    MaxTokens = 3
    MaxCrashes = 0
SYMMETRY Interchangeable
PROPERTY ReauthOnlyWhenInvalid
CHECK_DEADLOCK FALSE
