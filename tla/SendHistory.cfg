CONSTANTS
    Calls = {1, 2}
    MaxRegs = 3
    IsAndroid = FALSE
SPECIFICATION SendSpec
INVARIANT SentInHistory
CHECK_DEADLOCK FALSE
