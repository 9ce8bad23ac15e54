\* Keys of different sizes: does a split of a branch keep every child?
SPECIFICATION Spec
VIEW PagesUnnamed
CONSTANTS
    Keys = {1, 2, 3, 4, 5, 6, 7, 8}
    Values = {0}
    KeySize <- OddKeysLarge
    ValueSize <- NoValueSize
    PageSpace = 4
    MaxPages = 40
    MaxOps = 2
INVARIANT SearchIsExact
