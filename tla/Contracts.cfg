\* Two rooms share two wallets and one pool of USDC.
SPECIFICATION FairSpec
CONSTANTS
    r1 = r1
    r2 = r2
    p1 = p1
    p2 = p2
    op = op
    escrow = escrow
    v1 = v1
    v2 = v2
    none = none
    Rooms <- TwoRooms
    Players <- TwoPlayers
    Operator <- op
    Escrow <- escrow
    Versions <- TwoVersions
    Stakes = {1}
    Funds = 2
    MaxWindow = 2
    Horizon = 2
    None <- none
INVARIANTS TypeOK LiabilityBacked CreditMatchesOutcome
PROPERTIES DeadlineSplitsOutcomes WagerHonoured EveryStakeReturns
CHECK_DEADLOCK FALSE
