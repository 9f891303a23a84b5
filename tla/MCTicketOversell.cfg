SPECIFICATION TicketSpec
CONSTANTS
    Orders = {o1, o2}
    Attempts = {a1, a2}
    Events = {}
    Intents = {i1, i2}
    Buyers = {b1, b2}
    SupplyLimit = 1
    PerUserLimit = 1
    MaxQuantity = 1
    Ledgers = {1}
    PagingTokens = {1, 2}
    NoOrder = NoOrder
    NoAttempt = NoAttempt
    NoEvent = NoEvent
    NoEvidence = NoEvidence
    NoBuyer = NoBuyer
SYMMETRY Symmetry
CHECK_DEADLOCK FALSE
INVARIANT PaidWithinSupply
