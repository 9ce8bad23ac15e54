\* A bucket in a bucket, committed by one transaction and opened by the next.
SPECIFICATION Spec
CONSTANTS
    Readers = {r1}
    Names = {a}
    Keys = {k}
    Values = {v}
    NoValue = NoValue
    MaxDepth = 2
    MaxTxId = 3
    PageMaxCount = 12
    MaxOps = 3
INVARIANTS
    CommittedBucketsReadable
