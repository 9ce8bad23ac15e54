\* kWal with checkpoints: does a rollback undo the transaction?
SPECIFICATION WalSpec
CONSTANTS
    Readers = {r1}
    Leaves = {l1}
    Values = {0, 1}
    InitVal = 0
    MaxTxId = 7
    PageMaxCount = 14
    MaxCrashes = 0
SYMMETRY Symmetry
INVARIANTS
    RollBackRestores
