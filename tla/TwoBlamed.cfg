SPECIFICATION FairSpec
CONSTANTS
    Servers = {s1, s2, s3}
    N = 2
    Malformed = {1}
    Blamed = {0}
PROPERTIES
    MixingCompletes
CHECK_DEADLOCK FALSE
