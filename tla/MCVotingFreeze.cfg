SPECIFICATION Spec
CONSTANTS
    Rounds = {r1}
    Requests = {q1, q2}
    Voters = {v1, v2}
    Contestants = {c1, c2}
    Txs = {t1}
    MaxLeaves = 0
    NoBallot = NoBallot
    NoSnapshot = NoSnapshot
    NoAnchor = NoAnchor
    NoTx = NoTx
    NoEvent = NoEvent
SYMMETRY Symmetry
CHECK_DEADLOCK FALSE
INVARIANT CloseFreezesVotes
