------------------------------- MODULE Presence -------------------------------
(***************************************************************************)
(* What the lobby promises of a connection: the abstract specification of  *)
(* Lobby.                                                                  *)
(*                                                                         *)
(* A connection enters the lobby at most once, under a name its player may *)
(* have and with the permissions of that name.  Both stay as they are      *)
(* until it leaves, which it does only when it is closed.  A login that is *)
(* decided against, or lost, is not taken up again.                        *)
(*                                                                         *)
(* In a step every connection makes a move of its own: one step of the     *)
(* code may take one client out of the list and give up another.           *)
(***************************************************************************)
CONSTANTS
    Conn,           \* connections
    Peer,           \* Peer[c]: the player who opened connection c
    Account,        \* the registered names
    Owner,          \* Owner[a]: the player who knows the password of account a
    UserPerm        \* UserPerm[a]: the permissions of account a

VARIABLES
    place,          \* "outside" the lobby, "inside", or "gone" for good
    name,           \* the name under which others see the connection, if inside
    rank,           \* its permissions, if inside
    open            \* whether the connection is open, which is not the lobby's to say

pvars == <<place, name, rank, open>>

NoName == <<>>
NoRank == "UNREGISTERED"

Init ==
    /\ place = [c \in Conn |-> "outside"]
    /\ name = [c \in Conn |-> NoName]
    /\ rank = [c \in Conn |-> NoRank]
    /\ open = [c \in Conn |-> FALSE]

\* A registered name is its owner's, and permissions go with it.
MayBear(c, n, r) ==
    /\ n \in Account => Owner[n] = Peer[c]
    /\ r # NoRank => n \in Account /\ r = UserPerm[n]

Enter(c) ==
    /\ place[c] = "outside" /\ place'[c] = "inside"
    /\ MayBear(c, name'[c], rank'[c])

Leave(c) ==
    /\ place[c] = "inside" /\ place'[c] = "gone"
    /\ name'[c] = NoName /\ rank'[c] = NoRank
    /\ ~open'[c]

\* The login is refused, given up or forgotten.
GiveUp(c) ==
    /\ place[c] = "outside" /\ place'[c] = "gone"
    /\ name'[c] = name[c] /\ rank'[c] = rank[c]

Stay(c) ==
    /\ place'[c] = place[c]
    /\ name'[c] = name[c] /\ rank'[c] = rank[c]

Next == \A c \in Conn : Enter(c) \/ Leave(c) \/ GiveUp(c) \/ Stay(c)

Spec == Init /\ [][Next]_pvars
===============================================================================
