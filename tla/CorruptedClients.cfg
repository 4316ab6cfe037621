SPECIFICATION Spec
CONSTANTS
    Servers = {1, 2, 3}
    Sessions = 2
    N = 2
    Malformed <- FirstMalformed
    Exiting = {1, 2, 3}
INVARIANTS
    SessionStartsInitialized
CHECK_DEADLOCK FALSE
