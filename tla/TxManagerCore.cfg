\* Two readers, two leaves that share a root, and enough transactions for
\* pages to be freed, released, reused and rolled back while old views are
\* open; one crash anywhere, with torn meta pages and lost page writes.
SPECIFICATION Spec
CONSTANTS
    Readers = {r1, r2}
    Leaves = {l1, l2}
    Values = {0, 1}
    InitVal = 0
    MaxTxId = 8
    PageMaxCount = 10
    MaxCrashes = 1
SYMMETRY Symmetry
VIEW LiveState
INVARIANTS
    TypeOK
    SnapshotIsolation
    CommittedStateReadable
    WriterSeesItsWrites
    DurableVersionsIntact
    AckedCommitSurvives
    LivePagesNotFree
    NoDoubleFree
PROPERTIES
    LivePagesNeverOverwritten
    ImplementsKVStore
