CONSTANTS
    Msgs = {1, 2}
    Bad = {}
    Own = {}
    Push = TRUE
    Broken = {}
    Faults = FALSE
    Crashes = FALSE
    MaxAnswers = 1
    MaxEntries = 2
SPECIFICATION Spec
INVARIANT DecryptedIsStored
