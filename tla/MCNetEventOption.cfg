SPECIFICATION Spec
CONSTANTS
    Instances = {i1, i2, i3}
    Original = 0
SYMMETRY Symmetry
INVARIANTS
    TypeOK
    SomebodyRestores
    CollectsUntilTheEnd
