CONSTANTS
    MaxSkip = 3
    MaxKeys = 2
    MaxMessages = 6
    GroupSkip = 2
    GroupKeys = 1
    MaxStates = 2
    MaxSent = 4
    MaxChains = 2
    MaxDists = 2
    MaxInstalls = 3
SPECIFICATION MCSpec
INVARIANTS AtMostOnce WindowKept NeverAhead ReadsBounded GroupKeysUsedOnce UnreadGroupReadable
PROPERTIES ImplementsChain NewestKept
CHECK_DEADLOCK FALSE
