SPECIFICATION Spec
CONSTANTS
    Calls = {c1, c2, c3}
    Sessions = {s1}
    Listeners = {l1, l2}
    Agents = {a1}
    None = none
    RequestOps = {"end"}
    Kinds = {"inbound", "outbound"}
    FsEvents = {}
    OriginateReply = "exact"
    MaxConcurrent = 1
    MaxEnds = 1
    MaxFaults = 0
    Lossy = FALSE
SYMMETRY Symmetry
INVARIANTS LimitRespected
CHECK_DEADLOCK FALSE
