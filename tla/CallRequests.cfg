SPECIFICATION Spec
CONSTANTS
    Calls = {c1}
    Sessions = {s1}
    Listeners = {l1, l2}
    Agents = {a1}
    None = none
    RequestOps = {"end", "queue", "ring", "answer", "hold", "retrieve", "transfer", "attended", "consult", "consultDone", "consultCancel", "conference", "disposition"}
    Kinds = {"inbound", "internal"}
    FsEvents = {"BRIDGE", "PARK"}
    OriginateReply = "exact"
    MaxConcurrent = 1
    MaxEnds = 1
    MaxFaults = 0
    Lossy = FALSE
SYMMETRY Symmetry
INVARIANTS TypeOK RowConsistent
PROPERTIES EndedIsFinal
CHECK_DEADLOCK FALSE
