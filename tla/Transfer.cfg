SPECIFICATION FairSpec
CONSTANTS
    Sessions = {s1, s2}
    Files = {f1, f2}
    f1 = f1
    f2 = f2
    s1 = s1
    s2 = s2
    None = None
    Concurrency = 1
    Tries = 2
    Bounds <- BoundsValue
INVARIANTS
    SentMeansSaved
    CancelIsPrecise
    LeftAlone
PROPERTY StopsSending
CHECK_DEADLOCK FALSE
