SPECIFICATION Spec
CONSTANTS
    FieldSeq <- MCFieldSeq
    Values = {0, 1}
    BootVolt = 800
    Versions = {230, 231, 240}
    KIP_VERSION = 231
    MaxAsks = 2
    MaxUpdates = 2
    MaxEdits = 1
    MaxFailures = 1
    MaxLosses = 2
INVARIANTS SyncInv
PROPERTIES StepsRight
CHECK_DEADLOCK FALSE
