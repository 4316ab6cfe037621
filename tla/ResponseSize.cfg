SPECIFICATION FairSpec
CONSTANTS
    Message = {long, short, garbled}
    Bodiless = {short, garbled}
    Garbled = {garbled}
    MaxSends = 2
PROPERTIES
    SentArrives
CHECK_DEADLOCK FALSE
