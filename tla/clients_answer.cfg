SPECIFICATION Spec
CONSTANTS
    p = p
    q = q
    m = m
    n = n
    Client = {p, q}
    Old = {}
    Viewer = {p}
    Nick = {m}
    Op = {}
    InSize = 1
    OutSize = 1
    MaxIrc = 1
INVARIANT NothingUnknown
CHECK_DEADLOCK FALSE
