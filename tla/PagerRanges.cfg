\* A tree of four pages; ranges of one and two pages; enough transactions for
\* pages to be freed, released, merged on both sides and on neither, reused,
\* and given back by a rollback.
SPECIFICATION Spec
CONSTANTS
    MaxTxId = 5
    InitCount = 6
    PageMaxCount = 8
    MaxCount = 2
    PairsPerPage = 2
    MaxOps = 3
INVARIANTS
    TypeOK
    NoPageHeldTwice
    FreeListSound
PROPERTIES
    ImplementsPageSets
