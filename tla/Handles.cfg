CONSTANTS
    Threads = {t1, t2}
    Keys = {k1}
    Vers = {v1}
    Configs = {g1}
    Builders = {b1, b2}
    Conns = {c1}
    Servers = {b1}
    NULL = NULL
    MaxKeys = 2
SPECIFICATION Spec
SYMMETRY Symmetry
INVARIANTS
    TypeOK
    CountsExact
    AliveIffReachable

    
