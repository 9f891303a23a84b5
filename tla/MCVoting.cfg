SPECIFICATION Spec
CONSTANTS
    Rounds = {r1, r2}
    Requests = {q1, q2, q3}
    Voters = {v1, v2}
    Contestants = {c1, c2}
    Txs = {t1, t2}
    MaxLeaves = 9
    NoBallot = NoBallot
    NoSnapshot = NoSnapshot
    NoAnchor = NoAnchor
    NoTx = NoTx
    NoEvent = NoEvent
SYMMETRY Symmetry
CHECK_DEADLOCK FALSE
INVARIANTS
    OneVotePerVoter
    ReceiptVerifies
    AnchorRowsAgree
PROPERTIES
    SnapshotIsKept
    ConfirmsAnchors
