\* One level of buckets: transactions that open, create and change up to two
\* buckets, with a view beside them, until pages of the first version are
\* reused.
SPECIFICATION Spec
CONSTANTS
    Readers = {r1}
    Names = {a, b}
    Keys = {k}
    Values = {v}
    NoValue = NoValue
    MaxDepth = 1
    MaxTxId = 5
    PageMaxCount = 8
    MaxOps = 3
SYMMETRY Symmetry
VIEW LiveState
INVARIANTS
    TypeOK
    CommittedBucketsReadable
    ViewsSeeTheirBuckets
    HandlesReadOwnWrites
    BucketPagesNotFree
