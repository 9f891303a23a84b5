SPECIFICATION TicketSpec
CONSTANTS
    Orders = {o1, o2, o3}
    Attempts = {a1, a2}
    Events = {e1}
    Intents = {i1}
    Buyers = {b1, b2}
    SupplyLimit = 3
    PerUserLimit = 2
    MaxQuantity = 2
    Ledgers = {1}
    PagingTokens = {1}
    NoOrder = NoOrder
    NoAttempt = NoAttempt
    NoEvent = NoEvent
    NoEvidence = NoEvidence
    NoBuyer = NoBuyer
SYMMETRY Symmetry
CHECK_DEADLOCK FALSE
INVARIANTS
    StockConserved
    PerUserLimitKept
    IssuedIsPaidOnChain
    ReservationFollowsOrder
PROPERTY
    SellsLifecycle
