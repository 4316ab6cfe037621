CONSTANTS
    p = 97
    zeta = 5
    two_exponent = 5
    odd_factor = 3
    Batches <- MCBatches
SPECIFICATION Spec
INVARIANTS
    TypeOK
    FactorsKept
    RootInv
    ReturnsMessages
    OnlyMessages
    CanProgress
