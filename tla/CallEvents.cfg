SPECIFICATION FairSpec
CONSTANTS
    Calls = {c1, c2}
    Sessions = {s1}
    Listeners = {l1}
    Agents = {a1}
    None = none
    RequestOps = {}
    Kinds = {"inbound", "outbound", "monitor"}
    FsEvents = {"ANSWER", "BRIDGE"}
    OriginateReply = "exact"
    MaxConcurrent = 2
    MaxEnds = 1
    MaxFaults = 1
    Lossy = FALSE
PROPERTIES HangupCompletes
CHECK_DEADLOCK FALSE
