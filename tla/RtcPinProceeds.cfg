SPECIFICATION AppFairSpec
CONSTANTS
    Files = {f1}
    None = None
    MaxTries = 2
    Bridge = TRUE
PROPERTY PinProceeds
CHECK_DEADLOCK FALSE
