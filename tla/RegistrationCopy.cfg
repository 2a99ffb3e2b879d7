CONSTANTS
    Ios = TRUE
    Awaits = TRUE
    Pushed = FALSE
    FileFaults = FALSE
    Slots = {1, 2}
    Batch = 1
    LowWater = 0
    ResetLimit = 4
    LastResort = 99
    MaxGen = 5
SPECIFICATION RegSpec
INVARIANT CopySaved
CHECK_DEADLOCK FALSE
