SPECIFICATION Spec
CONSTANTS
    Bytes = {0, 64, 216, 220}
    MaxLen = 6
INVARIANT PairsAreRead
