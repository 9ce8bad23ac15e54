\* kWal with a checkpoint at any commit or rollback: pages and views.
SPECIFICATION WalSpec
CONSTANTS
    Readers = {r1, r2}
    Leaves = {l1, l2}
    Values = {0}
    InitVal = 0
    MaxTxId = 8
    PageMaxCount = 13
    MaxCrashes = 0
SYMMETRY Symmetry
VIEW LiveState
INVARIANTS
    ViewPagesNotFree
    WalNoDoubleFree
