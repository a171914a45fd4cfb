SPECIFICATION Spec
CONSTANTS
    Workers = {w1, w2}
    Growers = {g1}
    AutoScaler = as
    Conns = {c1, c2, c3}
    NoConn = nil
    MinPool = 1
    InitPool = 1
    MaxPool = 2
    Threshold = 2
SYMMETRY Symmetry
INVARIANTS
    TypeOK
    ConnOwnedOnce
    UsableSocket
    SocketsAccounted
    TokensMatchPoolSize
    OvershootAtMostOne
    BreakerCoherent
CHECK_DEADLOCK FALSE
