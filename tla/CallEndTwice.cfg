SPECIFICATION Spec
CONSTANTS
    Calls = {c1}
    Sessions = {s1}
    Listeners = {l1, l2}
    Agents = {a1}
    None = none
    RequestOps = {}
    Kinds = {"inbound"}
    FsEvents = {}
    OriginateReply = "exact"
    MaxConcurrent = 1
    MaxEnds = 1
    MaxFaults = 0
    Lossy = FALSE
SYMMETRY Symmetry
INVARIANTS EndedOnce
CHECK_DEADLOCK FALSE
