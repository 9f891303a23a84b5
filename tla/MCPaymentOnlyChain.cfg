SPECIFICATION Spec
CONSTANTS
    Orders = {o1}
    Attempts = {a1}
    Events = {e1}
    Intents = {i1}
    SupplyLimit = 1
    MaxQuantity = 1
    Ledgers = {1}
    PagingTokens = {1}
    NoOrder = NoOrder
    NoAttempt = NoAttempt
    NoEvent = NoEvent
    NoEvidence = NoEvidence
SYMMETRY Symmetry
CHECK_DEADLOCK FALSE
INVARIANT OnlyChainPays
