SPECIFICATION Spec
CONSTANTS
    Sessions = {s1}
    Files = {f1, f2}
    Targets = {t1}
    V1Targets = {}
    None = None
    Concurrency = 2
INVARIANT FinishedMeansSent
CHECK_DEADLOCK FALSE
