SPECIFICATION Spec
CONSTANTS
    k1 = k1  k2 = k2  k3 = k3  v1 = v1  v2 = v2
    Keys = {k1, k2, k3}
    Vals = {v1, v2}
    Hash <- MCHash
    ValBytes <- MCValBytes
    PtrBytes = 1  EntryBytes = 3  ListBytes = 1  SetBytes = 2  NodeBytes = 1
    t1 = t1  t2 = t2
    Threads = {t1, t2}
    NoThread = NoThread
    Ops <- LimitOps
    InitBuckets = 2  MinLocks = 2  MaxLocks = 4
    MaxCapacity = 1  Budget = 12  AutoResize = FALSE
    AllocMayFail = TRUE
    MaxCalls = 2
    MaxTime = 0
INVARIANTS TypeOK ExactUntilUndef
PROPERTIES CapacityBounded BudgetBounded SetTakesEffect
