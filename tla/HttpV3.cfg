SPECIFICATION Spec
CONSTANTS
    Clients = {c1, c2, c3}
    Servers = {s1, s2}
    Calls = {r1, r2}
    Paths = {"nonce", "cancel", "v2/upload"}
    Tls = {s1}
    SharedIp = {c1, c2}
    Legacy = TRUE
    MapSize = 1
SYMMETRY Symmetry
INVARIANTS
    TypeOK
    PairsMatch
    OrderlyPairsAgree
CHECK_DEADLOCK FALSE
