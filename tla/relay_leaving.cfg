SPECIFICATION FairSpec
CONSTANTS
    h = h
    a = a
    b = b
    r1 = r1
    Nil = Nil
    Conn = {h, a}
    Password <- HostOnly
    Caller = {}
    Pinged = {a}
    Talking = {h, a}
    Timed = FALSE
    IdLimit = 3
    IdMod = 4
INVARIANTS  HostHearsOfLeavers
PROPERTY LeaverIsLetGo
CHECK_DEADLOCK FALSE
