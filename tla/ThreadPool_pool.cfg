\* Three workers at most, two clients, three tasks; pthread_create may fail.
SPECIFICATION FairSpec
CONSTANTS
    Tasks = {t1, t2, t3}
    Clients = {c1, c2}
    Owner = owner
    NULL = null
    MaxWorkers = 3
    UINT8_MOD = 4
    SpawnMayFail = TRUE
    MaxSpurious = 1
\* A join of a worker that was never started may end the process.
CHECK_DEADLOCK FALSE
INVARIANTS
    TypeOK
    NodeHasOneOwner
    NoUseAfterFree
    NoLostWakeup
PROPERTIES
    QueuedTaskRuns
    TaskNodesFreed
    ShutdownReturns
    ImplementsTaskPool
