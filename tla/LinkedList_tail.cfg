\* A queue used by one thread that also calls llist_peek_tail.
SPECIFICATION Spec
CONSTANTS
    Nodes = {n1, n2}
    Items = {x1, x2}
    Threads = {t1}
    consumer = t1
    Uses <- TailUses
    NULL = null
    COUNT_MOD = 8
\* The caller may stop calling.
CHECK_DEADLOCK FALSE
INVARIANT NoFault
