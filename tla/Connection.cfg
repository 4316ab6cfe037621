SPECIFICATION FairSpec
CONSTANTS
    Message = {long, short}
    Bodiless = {short}
    Garbled = {}
    MaxSends = 3
INVARIANTS
    TypeOK
    ConnInv
    NoStrandedMessage
    OneWriteAtATime
    OwnParts
PROPERTIES
    ChannelSpec
CHECK_DEADLOCK FALSE
