CONSTANTS
    Threads = {t1, t2}
    Keys = {k1}
    Vers = {v1}
    Configs = {g1}
    Builders = {b1}
    Conns = {c1}
    Servers = {}
    NULL = NULL
    MaxKeys = 2
SPECIFICATION Spec
INVARIANTS
    InnerDropped
