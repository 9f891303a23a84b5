SPECIFICATION Spec
CONSTANTS
    Markets = {m1, m2}
    Users = {u1, u2}
    Options = {yes, no}
    Amounts = {7, 13}
    MaxTotal = 27
    FeeBps = 1000
    CloseTime = 1
    Delay = 1
    MaxTime = 2
    None = None
SYMMETRY Symmetry
CHECK_DEADLOCK FALSE
INVARIANTS
    EscrowMatchesBooks
    WinnersKeepStake
PROPERTY ResultIsFinal
