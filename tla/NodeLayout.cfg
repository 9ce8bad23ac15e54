\* A page of eight units with records of one and three units, and longer ones
\* that go to overflow pages.  A failed assertion ends the program.
SPECIFICATION Spec
CONSTANTS
    Tags = {x, y}
    Sizes = {1, 3, 4}
    Children = {c1, c2}
    NoChild = NoChild
    PageSize = 8
    SlotSize = 1
    PgidSize = 2
    MaxPages = 2
CHECK_DEADLOCK FALSE
SYMMETRY Symmetry
VIEW LivePage
INVARIANTS
    RecordsIntact
    SpaceIsExact
    OverflowAccountedFor
    ChildrenInOrder
