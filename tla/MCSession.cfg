CONSTANTS
    MaxSkip = 5
    MaxKeys = 5
    MaxChains = 5
    MaxArchived = 3
    MaxMessages = 4
    MaxAdds = 3
    MaxResets = 1
    MaxCrashes = 1
    Deletes = TRUE
SPECIFICATION MCSpec
INVARIANTS AtMostOnce KeysUsedOnce DuplicateMeansRead UnreadIsReadableInOrder
CHECK_DEADLOCK FALSE
