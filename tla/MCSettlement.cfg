SPECIFICATION SettlementSpec
CONSTANTS
    Intents = {i1, i2}
    Amount <- MCAmount
    Account <- MCAccount
    Outcomes = {yes, no}
    DelayedTargets = {"resolved"}
    MaxUser = 10
    MaxMarket = 10
    StakeTxs = {h1, h2}
    GovernanceActions <- MCGovernanceActions
    Runs = {r1, r2}
    FeeBps = 1000
    Payments = {x1, x2}
    Batches <- MCBatches
    None = None
SYMMETRY Symmetry
CONSTRAINT PaidByOne
CHECK_DEADLOCK FALSE
INVARIANTS
    PositionsAreBacked
    PlanIsExact
    RunsArePaid
