SPECIFICATION FairSpec
CONSTANTS
    Servers = {1, 2, 3}
    Sessions = 2
    N = 2
    Malformed <- FirstMalformed
    Exiting = {1, 2}
INVARIANTS
    TypeOK
    ReadUnderOwnSession
    OneStateMachine
    SessionsApart
    OutputsAgree
    SessInv
PROPERTIES
    AllSessionsEnd
CHECK_DEADLOCK FALSE
