\* Two reports under way together: every ticket is issued, the order is not
\* fulfilled.  TLC finds FulfilledOnceIssued violated.
SPECIFICATION Spec
CONSTANTS
    Issuances = {i1, i2}
    Transfers = {r1}
    Users = {a, b}
    Buyer = a
    Tokens = {k1, k2}
    Txs = {x1, x2}
    None = None
SYMMETRY Symmetry
CHECK_DEADLOCK FALSE
INVARIANT FulfilledOnceIssued
