SPECIFICATION FairSpec
CONSTANTS
    Notices = {n1}
    Offers = {o1}
    Incoming = {i1}
    AppCapacity = 1
INVARIANTS
    TypeOK
    NothingLost
    PutIsWritten
PROPERTIES
    ConnectReturns
    CloseEnds
    AnsweredInTime
CHECK_DEADLOCK FALSE
