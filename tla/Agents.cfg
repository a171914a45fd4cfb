SPECIFICATION AgentsSpec
CONSTANTS
    Sessions = {s1}
    Timers = {w1, w2}
    Sweeper = sweeper
    None = none
    MaxFaults = 1
    s1 = s1
    w1 = w1
    w2 = w2
    Focus = {"presence", "acd"}
INVARIANTS TypeOK StopClosedOnce ACWTimed
PROPERTIES ACWEnds WaitEnds
CHECK_DEADLOCK FALSE
