SPECIFICATION Spec
CONSTANTS
    Tids = {"title"}
    SlotSeq <- MCSlotSeq
    Mhz = {0, 1020}
    KvalSeq <- MCKvalSeq
    Inputs = {0, 80}
    Edits <- MCEdits
    MaxTime = 2
    MaxChanges = 2
    MaxEdits = 1
    MaxLosses = 1
INVARIANTS StoreInv
PROPERTIES PromiseKept FileIsLoaded
CHECK_DEADLOCK FALSE
