SPECIFICATION Spec
CONSTANTS
  c1 = c1
  c2 = c2
  c3 = c3
  p1 = p1
  p2 = p2
  bert = bert
  otto = otto
  Nil = Nil
  Conn = {c1, c2, c3}
  Player = {p1, p2}
  Word = {bert, otto}
  Peer <- PeerPPQ
  Account <- Accounts
  Owner <- OwnerP
  UserPerm <- Superuser
  Request <- Modern
  MaxTries = 1
  MaxLate = 1
SYMMETRY SamePeer

  
  
  
  
PROPERTIES
  EvictOnlyDead
  
CHECK_DEADLOCK FALSE
