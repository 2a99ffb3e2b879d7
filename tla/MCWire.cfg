CONSTANTS
    Samples <- MCSamples
    Sent <- MCSent
    Counters <- Ends
    Ids <- Ends
    DigitBits = 4
    WordBits = 10
    LongBits = 17
    MacLen = 2
    SigLen = 3
    Noise = {1, 2, 8, 16, 48}
    MaxChains = 2
    MaxKept = 2
    MaxArchived = 2
    Keys = {1}
    MaxCalls = 4
    GroupSkip = 2
    GroupKeys = 2
    MaxStates = 2
    KeyIds = {1, 1023}
    Iterations = {0, 15, 1012}
    MaxSteps = 4
SPECIFICATION Spec
INVARIANTS
    RoundTrip SizeExact PrefixGrowsByOne CutIsSeen JoinedIsMerged UnknownSurvives
    AcceptedExactly DamagedPreKeyIsHarmless KindsAreApart
    SavedIsLoaded NewestArchived SenderKeysSurvive
CHECK_DEADLOCK FALSE
