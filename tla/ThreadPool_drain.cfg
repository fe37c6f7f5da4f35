\* The documented shutdown: the queue is run to its end first.
SPECIFICATION Spec
CONSTANTS
    Tasks = {t1, t2}
    Clients = {c1}
    Owner = owner
    NULL = null
    MaxWorkers = 2
    UINT8_MOD = 4
    SpawnMayFail = FALSE
    MaxSpurious = 0
CHECK_DEADLOCK FALSE
INVARIANT ShutdownRunsQueue
