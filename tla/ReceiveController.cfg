SPECIFICATION Spec
CONSTANTS
    Peers = {p1, p2}
    Files = {f1, f2}
    Prepares = {r1, r2}
    Uploads = {u1, u2}
    None = None
    PinSet = TRUE
    QuickSavePeers = {p2}
    V1Peers = {p1}
SYMMETRY Symmetry
INVARIANTS
    TypeOK
    ConsentBeforeData
    SendingHasWork
    FinishedMeansSaved
    OkMeansSaved
PROPERTY EndIsFinal
