SPECIFICATION Spec
CONSTANTS
    c1 = c1
    c2 = c2
    g1 = g1
    g2 = g2
    Calls = {c1, c2}
    Agents = {a1}
    Groups = {g1}
    Dispatchers = {d1, d2}
    None = none
    Target <- MCTarget
    Priority <- MCPriority
    Members <- MCMembers
    MaxQueueSize <- MCMaxQueueSize
    OverflowGroup <- MCOverflowGroup
    Expiring = {g1}
    MaxFaults = 1
SYMMETRY Symmetry
INVARIANTS TypeOK HeldOnce ServedNotQueued OneCallPerIdle NoCallForgotten
