\* Two servers and one reader share three descriptors; one call may fail for
\* no reason in the model.
SPECIFICATION FairSpec
CONSTANTS
    s1 = s1
    s2 = s2
    Servers = {s1, s2}
    Readers = {r1}
    Configs <- const_Configs
    Paths = {p1}
    MaxFd = 3
    MaxFaults = 1
    FREE = FREE
    NULL = NULL
INVARIANTS
    TypeOK
    EstablishedListens
    TidyKeepsDescriptors
    HandleKeepsFile
PROPERTIES
    ServerComesUp
