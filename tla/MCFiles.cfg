CONSTANTS
    Ios = FALSE
    Awaits = FALSE
    Slots = {1, 2}
    Pushed = TRUE
    FileFaults = TRUE
    Batch = 2
    LowWater = 1
    ResetLimit = 2
    LastResort = 99
    MaxGen = 4
    Msgs = {1, 2}
    Bad = {}
    Broken = {2}
    Own = {3}
    Push = TRUE
    Crashes = TRUE
    Faults = TRUE
    MaxAnswers = 1
    MaxEntries = 2
SPECIFICATION MCSpec
CONSTRAINT Undisturbed
INVARIANTS PublishedStored FetchedOnce StoredOnce
CHECK_DEADLOCK FALSE
