\* The documented balance.
SPECIFICATION Spec
CONSTANTS
    N = 6
    Keys <- MCKeys
    MaxCount = 6
    NULL = null
    CRASH = crash
CHECK_DEADLOCK FALSE
INVARIANT Balanced
