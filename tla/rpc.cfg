SPECIFICATION FairSpec
CONSTANTS
    c1 = c1
    c2 = c2
    c3 = c3
    k1 = k1
    k2 = k2
    k3 = k3
    k4 = k4
    Nil = Nil
    Caller = {c1, c2}
    Link = {k1, k2, k3, k4}
INVARIANTS TypeOK OneLossIsSurvived
PROPERTIES IsRemoteCall 
CHECK_DEADLOCK FALSE
