CONSTANTS
    Ios = FALSE
    Awaits = TRUE
    Pushed = FALSE
    FileFaults = FALSE
    Slots = {1}
    Batch = 2
    LowWater = 1
    ResetLimit = 2
    LastResort = 99
    MaxGen = 5
SPECIFICATION RegSpec
INVARIANT LastResortStored
CHECK_DEADLOCK FALSE
