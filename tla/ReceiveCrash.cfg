CONSTANTS
    Msgs = {1, 2}
    Bad = {}
    Own = {}
    Push = FALSE
    Broken = {}
    Faults = FALSE
    Crashes = TRUE
    MaxAnswers = 1
    MaxEntries = 2
SPECIFICATION Spec
INVARIANT DecryptedIsStored
