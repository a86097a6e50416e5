CONSTANTS
    Threads = {t1, t2}
    Conns = {c1, c2}
    NULL = NULL
    Ptrs = {NULL, p1}
    LogFns = {l1}
    None = None
SPECIFICATION Spec
SYMMETRY Symmetry
INVARIANTS
    TypeOK
    StackMatchesCalls
    
    CallbackSeesOwnUserdata
PROPERTIES
    StackRestored
    PanicOnlyIfPanicked
    ImplementsCallbackScope
