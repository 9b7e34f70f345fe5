SPECIFICATION MCSpec
CONSTANTS
    none = none
    address = address
    email = email
    r1 = r1
    r2 = r2
    w1 = w1
    w2 = w2
    pay1 = pay1
    pay2 = pay2
    b0 = b0
    b1 = b1
    b2 = b2
    g1 = g1
    g2 = g2
    text = text
    i1 = i1
    i2 = i2
    f1 = f1
    f2 = f2
    u1 = u1
    u2 = u2
    u3 = u3
    c1 = c1
    c2 = c2
    v1 = v1
    v2 = v2
    platform = platform
    market = market
    campaign = campaign
    Addresses <- OneAddress
    Emails <- OneEmail
    Logins <- TwoRequests
    Guesses = 2
    AuthEntries = 2
    MaxProofs = 3
    MaxRestarts = 1
    NoOne <- none
    Withdrawals <- TwoWithdrawals
    Payments <- TwoPayments
    Bridges <- ThreeBridges
    Legacy <- OldBridge
    BridgeAmount <- OneEach
    Fees <- FeeQuotes
    SourceBalance = 3
    MaxEnds = 1
    Nothing <- none
    Agents <- TwoAgents
    Texts <- OneText
    OwnerRequests <- TwoRequests
    Campaigns <- OneCampaign
    MaxVersions = 2
    MaxCrashes = 1
    NoAgent <- none
    Matches <- RecordMatches
    BracketOrder <- RecordBracket
    Opening <- RecordMatches
    Facts <- NoFacts
    MaxEvents = 1
    None <- none
    Runners <- TwoRunners
    Attempts <- TwoAttempts
    Payloads <- TwoPayloads
    MaxCost = 3
    CallCost = 1
    MaxRunnerEnds = 1
    MaxLapses = 1
    NoPayload <- none
    Rooms <- TwoRooms
    Creators <- TwoCreators
    OldNumbers = {1, 3}
    MaxNumber = 7
    Trackers <- TwoRunners
    Trials <- TwoTrials
    MatchOf <- OneMatch
    MaxMishaps = 1
    NoUser <- none
    Users <- ThreeUsers
    FirstOwner = u1
    Platform = platform
    Market = market
    Certificates <- TwoCertificates
    VersionOf <- VersionEach
    Price = 100
    Fee = 1
    FundsOf <- SomeFunds
    MaxPurchases = 2
    MaxReads = 1
    Withdrawing <- TwoWithdraw
    MaxSaleRestarts = 1
INVARIANTS LoginsSound MovedOnce IdentitySound NumbersKept
           PairsSound TrackedOnce SoldAndDelivered
PROPERTY NothingLost
CHECK_DEADLOCK FALSE
