SPECIFICATION FairSpec
CONSTANTS
    Servers = {s1, s2, s3}
    N = 4
    Malformed = {1}
    Blamed = {}
INVARIANTS
    TypeOK
    IInv
    OpensOneVector
    NoReadOfClearedStatus
    StoppedServerWaits
    NoLeftovers
    MixesTheGoodInputs
PROPERTIES
    ExchangeSpec
    SessionEnds
