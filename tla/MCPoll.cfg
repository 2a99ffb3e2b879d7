CONSTANTS
    Msgs = {1, 2, 3}
    Bad = {2}
    Broken = {3}
    Own = {}
    Push = FALSE
    Crashes = FALSE
    Faults = TRUE
    MaxAnswers = 1
    MaxEntries = 2
    Calls = {1, 2}
    MaxRegs = 3
    IsAndroid = TRUE
SPECIFICATION FairSpec
INVARIANTS DeletedIsStored DecryptedIsKept SettledOnce TakenOnce
PROPERTIES EventuallyStored EventuallySettled
CHECK_DEADLOCK FALSE
