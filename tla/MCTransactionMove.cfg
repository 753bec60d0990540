SPECIFICATION Spec
CONSTANTS
    Txns = {t1, t2}
    Engines = {e1, e2}
    NoTxn = NoTxn
    NoEngine = NoEngine
    Stack = 1
INVARIANT ImplicitAbort
