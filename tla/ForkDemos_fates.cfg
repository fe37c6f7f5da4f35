\* The four programs with every pair of times, terminal or redirected output.
SPECIFICATION FairSpec
CONSTANTS
    Times <- const_Times
    UINT_MOD = 8
    PAUSE = 3
    NONE = NONE
INVARIANTS
    AnnouncedFate
    CommandReported
    OutputKept
PROPERTIES
    AllEnds
