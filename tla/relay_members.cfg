SPECIFICATION Spec
CONSTANTS
    h = h
    a = a
    b = b
    r1 = r1
    Nil = Nil
    Conn = {h, a, b}
    Password <- HostOnly
    Caller = {}
    Pinged = {h}
    Talking = {a, b}
    Timed = FALSE
    IdLimit = 4
    IdMod = 5
SYMMETRY Players
INVARIANTS IdsDistinct 
CONSTRAINT Running
CHECK_DEADLOCK FALSE
