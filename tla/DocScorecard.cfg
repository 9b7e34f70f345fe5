SPECIFICATION Spec
CONSTANTS
    theRoom = theRoom
    c = c
    d1 = d1
    d2 = d2
    h1 = h1
    h2 = h2
    w1 = w1
    w2 = w2
    op = op
    escrow = escrow
    none = none
    RoomId <- theRoom
    Creator <- c
    Challengers <- OneChallenger
    Handlers <- OneHandler
    Workers <- OneWorker
    Operator <- op
    Escrow <- escrow
    None <- none
    ErrorCodes <- ArcError
    JoinBy = 1
    ResolveBy = 2
    Horizon = 2
    LeaseTime = 1
    RetryDelay = 1
    RefundDelay = 1
    RetryBudget = 2
    MaxRetries = 1
    Scenarios = 2
    MaxFaults = 0
    Actions <- Withdrawals
CHECK_DEADLOCK FALSE
INVARIANT ScorecardAvailable
