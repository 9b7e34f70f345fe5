SPECIFICATION MCSpec
CONSTANTS
    t1 = t1
    t2 = t2
    a1 = a1
    a2 = a2
    op = op
    escrow = escrow
    e1 = e1
    e2 = e2
    none = none
    Tournaments <- TwoTournaments
    Accounts <- Wallets
    Owner <- op
    Escrow <- escrow
    Entrants <- TwoEntrants
    Policies <- SomePolicies
    Funds = 14
    RankCount = 2
    LeastEntrants = 2
    MostEntrants = 2
    FeeBps = 1000
    Denominator = 10000
    Horizon = 2
    Live = t1
    LivePolicy <- FirstPolicy
    AgentCount = 2
    AccountOf <- ScriptAccounts
    EntrantOf <- ScriptEntrants
    MaxRuns = 2
    MaxSent = 20
    None <- none
    Ids = {1, 2, 3}
    Namespaces = {"tournaments", "matches"}
    Claimants = {"tick", "operation", "later operation"}
    Owners = {"worker", "api"}
    OwnerOf <- SomeOwners
    LeaseTimes = {1, 2}
    SafeInteger = 1
    LastMoment = 3
    StartsAt = 2
    MaxHeight = 5
    MaxTime = 3
INVARIANTS TypeOK BooksBalance CreditsFollowOutcome RunTruthful MCRankingEarned LeaseHeld PurgeExact
PROPERTIES PoolHonoured MCEveryPoolCloses
CHECK_DEADLOCK FALSE
