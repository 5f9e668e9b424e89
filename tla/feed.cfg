SPECIFICATION FairSpec
CONSTANTS
    p = p
    q = q
    m = m
    n = n
    Client = {p}
    Old = {}
    Viewer = {p}
    Nick = {m, n}
    Op = {n}
    InSize = 2
    OutSize = 1
    MaxIrc = 2
INVARIANTS TypeOK IrcUsersOnce LastWordIsRight 
PROPERTY NewsGetsOut
CHECK_DEADLOCK FALSE
