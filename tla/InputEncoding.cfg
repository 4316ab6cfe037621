CONSTANTS
    Lengths = {1, 2, 3}
    Messages = {1, 2}
    Offsets = {1, 2}
    MaxOff = 2
    Word = 64
SPECIFICATION Spec
INVARIANTS
    TypeOK
    EncodingInv
    VerdictIsRight
    DecompressedPowers
    AllWritten
    RowArrivesWhole
