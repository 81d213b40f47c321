SPECIFICATION AppFairSpec
CONSTANTS
    Files = {f1, f2}
    None = None
    MaxTries = 2
    Bridge = FALSE
INVARIANTS
    TypeOK
    ConsentBeforeFiles
    NoMutualWait
    Understood
    ResultMeansReceived
PROPERTIES
    ImplementsFileTransfer
    ErrorIsLast
    PinProceeds
    TransferEnds
CHECK_DEADLOCK FALSE
