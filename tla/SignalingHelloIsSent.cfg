SPECIFICATION FairSpec
CONSTANTS
    Peers = {a, b}
    Capacity = 4
    MaxConnections = 2
    MaxRequests = 4
PROPERTY HelloIsSent
CHECK_DEADLOCK FALSE
