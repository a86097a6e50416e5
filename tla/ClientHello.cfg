CONSTANTS
    rsa = rsa
    ecdsa = ecdsa
    ed = ed
    Keys = {rsa, ecdsa, ed}
    supports <- MCsupports
    Hellos <- MCHellos
    Names = {0, 2}
    Counts = {1, 2}
    NULL = NULL
    MaxKeys = 2
SPECIFICATION Spec
INVARIANTS
    FirstSuitable
PROPERTIES
    NameWholeOrNone
