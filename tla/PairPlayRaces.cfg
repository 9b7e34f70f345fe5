SPECIFICATION MCSpec
CONSTANTS
    theRoom = theRoom
    c = c
    d0 = d0
    d1 = d1
    d2 = d2
    h0 = h0
    h1 = h1
    h2 = h2
    w0 = w0
    w1 = w1
    w2 = w2
    op = op
    escrow = escrow
    none = none
    RoomId <- theRoom
    Creator <- c
    Challengers <- AllChallengers
    Handlers <- AllHandlers
    Workers <- AllWorkers
    Operator <- op
    Escrow <- escrow
    None <- none
    ErrorCodes <- ArcError
    JoinBy = 1
    ResolveBy = 2
    Horizon = 2
    LeaseTime = 1
    RetryDelay = 1
    RefundDelay = 1
    RetryBudget = 2
    MaxRetries = 1
    Scenarios = 1
    MaxFaults = 0
    Actions <- EveryAction
CHECK_DEADLOCK FALSE
INVARIANTS WinnerIsVerdict RecordBacked JoinReserved
SYMMETRY Alike
