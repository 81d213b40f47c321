SPECIFICATION Spec
CONSTANTS
    Peers = {p1}
    Files = {f1, f2}
    Prepares = {r1, r2}
    Uploads = {u1, u2}
    None = None
    PinSet = FALSE
    QuickSavePeers = {}
    V1Peers = {}
PROPERTY SessionNotReplaced
