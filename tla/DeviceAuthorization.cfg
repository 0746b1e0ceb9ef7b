\* Two codes that may collide, two accounts, two polls in progress.
SPECIFICATION Spec
CONSTANTS
    c1 = c1
    c2 = c2
    u1 = u1
    u2 = u2
    d1 = d1
    d2 = d2
    a1 = a1
    a2 = a2
    p1 = p1
    p2 = p2
    None = None
    Codes <- TwoCodes
    UserCodes <- TwoUserCodes
    Devices <- TwoDevices
    Accounts <- TwoAccounts
    Polls <- TwoPolls
INVARIANTS
    TypeOK
    SingleUse
    SessionFollowsApproval
PROPERTIES
    RefusalIsFinal
SYMMETRY Interchangeable
CHECK_DEADLOCK FALSE
