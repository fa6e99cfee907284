SPECIFICATION Spec
CONSTANTS
    p1 = p1
    p2 = p2
    Procs = {p1, p2}
    MaxTxns = 3
    MaxRandom = 1
    Wanted = {1, 2, 3}
    Limit = 1
    Effective <- MCEffective
    MaxBack = 1
    MaxClock = 2
    MaxRestarts = 1
INVARIANTS
    WalkIsComplete
    FeedMissesOnlyInFlight
    KnownIsWhatWasShown
PROPERTIES
    IdsIncrease
    KnownIsFinal
CHECK_DEADLOCK FALSE
SYMMETRY Symmetry
