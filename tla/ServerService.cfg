SPECIFICATION ServiceFairSpec
CONSTANTS
    Peers = {p1, p2}
    Files = {f1, f2}
    Prepares = {r1, r2}
    Uploads = {u1, u2}
    Addresses = {a1, a2}
    Requests = {b1, b2, b3}
    p1 = p1
    p2 = p2
    r1 = r1
    r2 = r2
    u1 = u1
    u2 = u2
    a1 = a1
    a2 = a2
    b1 = b1
    b2 = b2
    b3 = b3
    None = None
    PinSet = FALSE
    QuickSavePeers = {p1}
    V1Peers = {}
    Bounds <- BoundsValue
INVARIANTS
    ConsentBeforeDownload
    AnswersReach
PROPERTY QuickSaveReleases
CHECK_DEADLOCK FALSE
