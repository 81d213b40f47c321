SPECIFICATION Spec
CONSTANTS
    Peers = {a, b, c}
    Capacity = 2
    MaxConnections = 2
    MaxRequests = 1
SYMMETRY Symmetry
CONSTRAINT FewUnderWay
INVARIANTS
    TypeOK
    QuietViewExact
    LeftIsFinal
CHECK_DEADLOCK FALSE
