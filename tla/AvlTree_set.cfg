\* Seven keys in every order of insertions and deletions.
SPECIFICATION Spec
CONSTANTS
    N = 7
    Keys <- MCKeys
    MaxCount = 7
    NULL = null
    CRASH = crash
\* After destroy_avl_tree, or a fault, nothing more happens.
CHECK_DEADLOCK FALSE
INVARIANTS
    Ordered
    NothingLeaks
    BalancedUntilSplice
    TraversalsVisit
PROPERTIES
    ImplementsKeySet
