SPECIFICATION Utf8Spec
CONSTANTS
    Bytes <- MCBytes
    MaxLen = 6
    CodePoints <- MCCodePoints
    MaxChars = 3
    MaxDamage = 2
INVARIANTS
    TextReadBack
    SuccessIsHonest
    DamageIsLocal
