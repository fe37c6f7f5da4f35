\* Files of up to six four-bit bytes, new, older and in place; one write may fail.
SPECIFICATION FairSpec
CONSTANTS
    BITS = 4
    WORD = 256
    HALF = 64
    ALPHA = 3
    UPPER = 1
    LOWER = 5
    Inputs <- const_Inputs
    Leftovers <- const_Leftovers
    HexArgs <- const_HexArgs
    RotArgs <- const_RotArgs
    NONE = NONE
    BAD = BAD
INVARIANTS
    RoundTrip
    VerdictCountsChecksum
PROPERTIES
    Terminates
