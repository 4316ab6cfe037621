SPECIFICATION FairSpec
CONSTANTS
    Servers = {1, 2, 3}
    Sessions = 1
    N = 1
    Malformed <- NoneMalformed
    Exiting = {1, 2, 3}
PROPERTIES
    ClientFinishes
CHECK_DEADLOCK FALSE
