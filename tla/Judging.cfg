SPECIFICATION MCSpec
CONSTANTS
    r1 = r1
    r2 = r2
    none = none
    Inputs <- TwoInputs
    Abandoned <- NoAttempts
    Runs <- TwoRuns
    MaxSends = 3
    MaxMishaps = 1
    None <- none
    Scenarios = 2
    MaxProviderAttempts = 2
    MaxSubmissions = 2
    Requests <- TwoRequests
    MaxFaults = 2
    MaxSettlements = 3
    Entries <- TestEntries
    Gradings <- WideAndNarrow
    Rankings <- EveryRanking
    Unfenced <- WithoutFences
    MaxText = 4
    Envelope = 1
    b1 = b1
    b2 = b2
    k1 = k1
    k2 = k2
    Campaigns = {b1, b2, k1, k2}
    Binding <- TwoVersions
    Cards <- ThreeCards
    Asks <- FiveAsks
    Nothing = Nothing
CHECK_DEADLOCK FALSE
INVARIANTS OneWinningAttempt RankingsFounded FeeTruthful MCResultsHold
PROPERTY MCJudgingConcludes
