SPECIFICATION FairSpec
CONSTANTS
    k1 = k1  k2 = k2  k3 = k3  v1 = v1  v2 = v2
    Keys = {k1, k2, k3}
    Vals = {v1}
    Hash <- MCHash
    ValBytes <- MCValBytes
    PtrBytes = 1  EntryBytes = 3  ListBytes = 1  SetBytes = 2  NodeBytes = 1
    t1 = t1  t2 = t2
    Threads = {t1, t2}
    NoThread = NoThread
    Ops <- StringOps
    InitBuckets = 2  MinLocks = 2  MaxLocks = 4
    MaxCapacity = 0  Budget = 0  AutoResize = TRUE
    AllocMayFail = FALSE
    MaxCalls = 2
    MaxTime = 0
INVARIANTS BucketExclusive SizeExact AccountingExact LoadBounded
PROPERTIES KeyIsolation CallsReturn
