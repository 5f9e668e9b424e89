------------------------------- MODULE MCLobby -------------------------------
(* Small instances of the session registry for TLC. *)
EXTENDS Lobby

CONSTANTS c1, c2, c3, p1, p2, bert, otto

PeerPPQ == c1 :> p1 @@ c2 :> p1 @@ c3 :> p2
PeerPP == c1 :> p1 @@ c2 :> p1
PeerPQ == c1 :> p1 @@ c2 :> p2

\* The two connections of p1 are interchangeable.
SamePeer == Permutations({c1, c2})

Accounts == {<<otto>>}
OwnerP == <<otto>> :> p1
Superuser == <<otto>> :> "SUPERUSER"
Registered == <<otto>> :> "REGISTERED"

Req(ver, name, reg, owns) == [ver |-> ver, name |-> name, reg |-> reg, owns |-> owns]

\* Current clients: the account, and its name without the password.
Modern == {Req(BUILD20, <<otto>>, TRUE, Nil), Req(BUILD20, <<otto>>, FALSE, Nil)}
\* The account from an old and from a current client, and a session of otto that
\* was downgraded to otto1.
Mixed == {Req(BUILD19, <<otto>>, TRUE, Nil),
          Req(BUILD20, <<otto>>, TRUE, Nil),
          Req(BUILD20, <<otto, 1>>, FALSE, <<otto>>)}
Anonymous == {Req(BUILD21, <<bert>>, FALSE, Nil)}
=============================================================================
