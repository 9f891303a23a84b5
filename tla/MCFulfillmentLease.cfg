SPECIFICATION FairSpec
CONSTANTS
    Orders = {o1}
    Workers = {w1, w2}
    Txs = {x1}
    MaxAttempts = 2
    None = None
CHECK_DEADLOCK FALSE
PROPERTY
    CrashReleasesJob
