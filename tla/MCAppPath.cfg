SPECIFICATION FairSpec
CONSTANTS
    Bytes = {0, 32, 64, 216, 220}
    MaxLen = 6
INVARIANTS
    TypeOK
    UnitsShown
    OutputWellFormed
PROPERTY Returns
