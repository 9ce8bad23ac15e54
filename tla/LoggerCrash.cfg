\* One crash at any moment and the recovery from it.
\* The bound on transaction ids ends the behaviours.
SPECIFICATION Spec
CONSTANTS
    Keys = {k1, k2}
    Values = {0, 1}
    InitVal = 0
    MaxTxId = 7
    MaxRecords = 2
    MaxWalSize = 8
    MaxCrashes = 1
SYMMETRY Symmetry
VIEW Relevant
CHECK_DEADLOCK FALSE
INVARIANTS
    TypeOK
    FirstCrashRecovers
    RecoveredStateFaithful
    LogShorterThanMax
