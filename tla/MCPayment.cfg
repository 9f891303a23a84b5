SPECIFICATION Spec
CONSTANTS
    Orders = {o1, o2}
    Attempts = {a1, a2, a3}
    Events = {e1}
    Intents = {i1, i2}
    SupplyLimit = 3
    MaxQuantity = 2
    Ledgers = {1, 2}
    PagingTokens = {1, 2}
    NoOrder = NoOrder
    NoAttempt = NoAttempt
    NoEvent = NoEvent
    NoEvidence = NoEvidence
SYMMETRY Symmetry
CHECK_DEADLOCK FALSE
INVARIANTS
    PaidByOneAttempt
    ConfirmedByOneProof
    ConfirmedIntentHasEvidence
    AcceptedOncePerOrder
    CursorAtLastAccepted
PROPERTIES
    PaysLifecycle
    ConfirmsPayments
