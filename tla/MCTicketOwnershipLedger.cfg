SPECIFICATION Spec
CONSTANTS
    Issuances = {i1, i2}
    Transfers = {r1, r2, r3}
    Users = {a, b, c}
    Buyer = a
    Tokens = {k1, k2}
    Txs = {x1, x2, x3, x4}
    None = None
SYMMETRY Symmetry
CHECK_DEADLOCK FALSE
PROPERTY ConfirmsOwners
