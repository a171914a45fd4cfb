SPECIFICATION FairSpec
CONSTANTS
    Calls = {c1, c2}
    Workers = {w1, w2}
    Reconciler = reconciler
    None = none
    MaxDay = 1
    MaxEnds = 1
    MaxDeliver = 2
    MaxFaults = 1
INVARIANTS TypeOK CountedOnce OneTransaction
PROPERTIES ImplementsLedger SameDayCounted
CHECK_DEADLOCK FALSE
