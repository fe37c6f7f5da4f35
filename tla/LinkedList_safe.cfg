\* Two threads, one of which removes and reads: three addresses for four items.
SPECIFICATION Spec
CONSTANTS
    Nodes = {n1, n2, n3}
    Items = {x1, x2, x3, x4}
    Threads = {t1, t2}
    consumer = t1
    Uses <- SafeUses
    NULL = null
    COUNT_MOD = 8
SYMMETRY Symmetry
\* The callers may stop calling.
CHECK_DEADLOCK FALSE
INVARIANTS
    TypeOK
    NoFault
    ChainIsSound
    TailIsLast
PROPERTIES
    ImplementsDeque
