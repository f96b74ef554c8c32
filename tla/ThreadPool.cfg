SPECIFICATION FairSpec
CONSTANTS
    Workers = {w1, w2, w3}
    Tasks = {t1, t2, t3}
    Capacity = 2
    NoTask = NoTask
CHECK_DEADLOCK FALSE
INVARIANTS TypeOK DrainedWhenFreed PoolInv ExactlyOnce NoIdleBacklog NoSleeperAfterShutdown
PROPERTIES AcceptedRuns TeardownReturns ImplementsTaskQueue
