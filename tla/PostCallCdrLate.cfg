SPECIFICATION FairSpec
CONSTANTS
    Calls = {c1}
    Workers = {w1}
    Reconciler = reconciler
    None = none
    MaxDay = 2
    MaxEnds = 1
    MaxDeliver = 2
    MaxFaults = 1
PROPERTIES EveryEndedCounted
CHECK_DEADLOCK FALSE
