SPECIFICATION FairSpec
CONSTANTS
    Sessions = {s1, s2}
    Files = {f1, f2}
    Targets = {t1, t2}
    V1Targets = {t2}
    None = None
    Concurrency = 1
INVARIANTS
    TypeOK
    InFlightIffSending
    SendingHasWork
PROPERTIES
    NoUploadAfterEnd
    EndIsFinal
    LoopEnds
CHECK_DEADLOCK FALSE
