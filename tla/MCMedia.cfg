SPECIFICATION Spec
CONSTANTS
    Assets = {a1, a2}
    Requests = {p1, p2}
    Contestants = {c1}
    PoolSizes = {2, 3}
    None = None
CHECK_DEADLOCK FALSE
INVARIANT ShownIsStored
PROPERTIES
    DecidedOnce
    EveryRequestEnds
