CONSTANTS
    Ios = FALSE
    Awaits = TRUE
    Pushed = FALSE
    FileFaults = FALSE
    Slots = {1}
    Batch = 2
    LowWater = 0
    ResetLimit = 6
    LastResort = 99
    MaxGen = 6
SPECIFICATION RegSpec
INVARIANT SoftResetNeedsManyKeys
CHECK_DEADLOCK FALSE
