CONSTANTS
    Threads = {t1, t2}
    Keys = {k1, k2}
    BufLen = 2
    ValueLens = {2, 3}
    MaxPuts = 2
SPECIFICATION Spec
SYMMETRY Symmetry
INVARIANTS
    TypeOK
    WholeValue
    StoredIfTold
PROPERTIES
    TakenOnce
