SPECIFICATION Spec
CONSTANTS
    k1 = k1  k2 = k2  v1 = v1  v2 = v2  other = other
    Keys = {k1, k2}
    Vals = {v1, v2, other}
    OtherVal = other
    Hash <- NoHash
    ValBytes <- NoBytes
    PtrBytes = 0  EntryBytes = 0  ListBytes = 0  SetBytes = 0  NodeBytes = 0
    InitBuckets = 1  MaxCapacity = 0
    t1 = t1  t2 = t2
    Threads = {t1, t2}
    Ops <- SharedOps
    Long = {}
    Levels = {0}
    IoFailures = {}
    RewriteFailures = {}
    MaxCalls = 4  MaxTime = 0  MaxRestarts = 1  MaxRewrites = 0
INVARIANTS RecoveryExact
