\* Three threads that read and write, either policy of the shared lock.
\* The behaviours end when every thread has made its calls.
SPECIFICATION Spec
CONSTANTS
    Threads = {t1, t2, t3}
    MaxCalls = 2
    MaxMaps = 3
CHECK_DEADLOCK FALSE
INVARIANTS
    TypeOK
    PointersStayMapped
PROPERTIES
    PendingClearedByUpdate
    EveryCallReturns
