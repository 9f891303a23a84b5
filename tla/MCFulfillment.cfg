SPECIFICATION FairSpec
CONSTANTS
    Orders = {o1, o2}
    Workers = {w1, w2}
    Txs = {x1, x2}
    MaxAttempts = 2
    None = None
CHECK_DEADLOCK FALSE
INVARIANTS
    RowsAgree
    ClaimableHasAttemptsLeft
    FulfilledByItsMint
    StockFollowsOrders
PROPERTY
    EveryClaimEnds
