SPECIFICATION Spec
CONSTANTS
    h = h
    a = a
    b = b
    r1 = r1
    Nil = Nil
    Conn = {h, a}
    Password <- HostOnly
    Caller = {r1}
    Pinged = {}
    Talking = {h, a}
    Timed = TRUE
    IdLimit = 3
    IdMod = 4
INVARIANTS TypeOK ToldBeforeRemoved Attended
PROPERTY IsRelayGame
CHECK_DEADLOCK FALSE
