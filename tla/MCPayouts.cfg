SPECIFICATION Spec
CONSTANTS
    Orders = {o1, o2}
    Price <- MCPrice
    Rules = {q1, q2}
    Divisions <- MCDivisions
    Txs = {x1, x2}
    None = None
SYMMETRY Symmetry
CHECK_DEADLOCK FALSE
INVARIANTS
    SharesAreExact
    BatchFollowsTransfers
PROPERTIES
    ConfirmsTransfers
