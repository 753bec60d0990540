SPECIFICATION Spec
CONSTANTS
    Txns = {t1, t2, t3}
    Engines = {e1, e2}
    NoTxn = NoTxn
    NoEngine = NoEngine
    Stack = 2
SYMMETRY Symmetry
INVARIANTS
    TypeOK
    OneOwner
    NoHalfTransaction
    FailureAborts
