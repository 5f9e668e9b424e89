SPECIFICATION Spec
CONSTANTS
    old = old
    new = new
    n1 = n1
    n2 = n2
    Nil = Nil
    Player = {old, new}
    Legacy = {old}
    Name = {n1}
    MaxGames = 2
    MaxTrouble = 1
INVARIANTS TypeOK  NoGhosts OfferedIsHosted UnhostedIsEnding
PROPERTY IsRelay
CHECK_DEADLOCK FALSE
