CONSTANTS
    DigitBits = 4
    WordBits = 10
    LongBits = 17
    HashLen = 3
    HashIterations = 2
    IdentityKeys = {3, 5}
    Devices = {1, 2}
    Generations = {0, 1}
    MaxLists = 3
    Agreements = {1, 2}
    MaxDerived = 4
    BlkSize = 3
    Limit = 7
    MaxData = 3
    MaxPoolOps = 4
    MaxPrevious = 2
    Objects = {1, 2, 3, 4, 5, 6}
SPECIFICATION Spec
INVARIANTS FingerprintsAgree CodesAgree ExpandsExactly KeysAreSeparate PoolHolds CountsExact
CHECK_DEADLOCK FALSE
