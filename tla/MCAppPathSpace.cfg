SPECIFICATION Spec
CONSTANTS
    Bytes = {0, 32}
    MaxLen = 6
INVARIANT TwoBytesPerUnit
