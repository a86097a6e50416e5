CONSTANTS
    Threads = {t1}
    Conns = {c1, c2}
    NULL = NULL
    Ptrs = {NULL, p1}
    LogFns = {l1}
    None = None
SPECIFICATION Spec
INVARIANT LogSeesOwnUserdata
