SPECIFICATION MCSpec
CONSTANTS
    daily = daily
    request = request
    p1 = p1
    p2 = p2
    none = none
    Days <- TwoDays
    Extra <- ByHand
    ExtraStart = 2
    Lifetime = 1
    Worker <- daily
    Requests <- OneRequest
    MinEntrants = 1
    MaxEntrants = 2
    RetryLimit = 1
    Horizon = 3
    MaxRequests = 1
    MaxFaults = 1
    Processes <- TwoProcesses
    Payees <- TwoPayees
    MaxAttempts = 2
    MaxFailures = 2
    MaxSends = 9
    Nobody <- none
    s1 = s1
    s2 = s2
    Calls <- FourCalls
    Signers <- TwoSigners
    KeyOf <- SignerOf
    Limit = 2
    NoLane <- none
INVARIANTS PrizesEarned OneDailyAtATime CompleteMeansApplied LanesSound
PROPERTIES MCDailyEnds MCEveryoneIsPaid
CHECK_DEADLOCK FALSE
