\* Is what was recovered from one crash safe from the next?
SPECIFICATION Spec
CONSTANTS
    Keys = {k1, k2}
    Values = {0, 1}
    InitVal = 0
    MaxTxId = 6
    MaxRecords = 2
    MaxWalSize = 6
    MaxCrashes = 1
SYMMETRY Symmetry
CHECK_DEADLOCK FALSE
INVARIANTS
    EveryCrashRecovers
