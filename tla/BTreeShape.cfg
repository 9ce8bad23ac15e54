\* Splits, borrowing and merges up to three levels, with commits and rollbacks.
SPECIFICATION Spec
VIEW PagesUnnamed
CONSTANTS
    Keys = {1, 2, 3, 4, 5, 6}
    Values = {0}
    KeySize <- SameKeySize
    ValueSize <- NoValueSize
    PageSpace = 2
    MaxPages = 24
    MaxOps = 3
INVARIANTS
    AssertionsHold
    SearchIsExact
    ScanIsSorted
    Balanced
    CommittedVersionIntact
    PagesAccountedFor
