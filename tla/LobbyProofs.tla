----------------------------- MODULE LobbyProofs -----------------------------
(***************************************************************************)
(* Theorems about the session registry, for any number of connections,     *)
(* players, accounts and requests: its type invariant, and that only       *)
(* clients whose connection is closed are removed from the client list.    *)
(***************************************************************************)
EXTENDS Lobby, TLAPS, SequenceTheorems, FiniteSetTheorems

Born(cl, c) == cl[c].loop # "unborn"

\* What holds of the Client objects at any point of a handler: a client that is
\* disconnected, or whose goroutine has returned, has no open connection; one
\* whose connection is not yet accepted has never been touched.
ClientsOK(cl) ==
    /\ cl \in [Conn -> Client]
    /\ \A c \in Conn :
        /\ cl[c].state = "RECENTLY_DISCONNECTED" => ~cl[c].up
        /\ cl[c].loop \in {"returned", "forgotten"} => ~cl[c].up
        /\ cl[c].loop = "unborn" => cl[c].state = "HANDSHAKE"
        /\ cl[c].pending # Nil => Born(cl, cl[c].pending)

ListOK(cl, ls) ==
    /\ ls \in Seq(Conn)
    /\ \A c \in ToSet(ls) : Born(cl, c)

CallsOK(cl, ad) ==
    /\ ad \subseteq Call
    /\ \A call \in ad : Born(cl, call.for)

IInv ==
    /\ ClientsOK(client)
    /\ ListOK(client, list)
    /\ CallsOK(client, adding)
    /\ banned \subseteq Player

\* What a call may do to clients cl and list ls: it opens no connection, un-borns
\* nobody, and drops from the list only clients whose connection is closed.
Closes(cl, dl) ==
    \A d \in Conn : (~cl[d].up => ~dl[d].up) /\ (Born(cl, d) => Born(dl, d))

Drops(dl, ls, ms) == \A d \in Conn : d \in ToSet(ls) => d \in ToSet(ms) \/ ~dl[d].up

-----------------------------------------------------------------------------
(* The client list. *)

LEMMA RemoveClientProperties ==
    ASSUME NEW ls \in Seq(Conn), NEW c \in Conn
    PROVE  /\ RemoveClient(ls, c) \in Seq(Conn)
           /\ ToSet(RemoveClient(ls, c)) \subseteq ToSet(ls)
           /\ \A d \in ToSet(ls) : d # c => d \in ToSet(RemoveClient(ls, c))
<1> DEFINE at == FirstAt(ls, {c})
           i == CHOOSE j \in at : TRUE
<1>1. CASE at = {}
    BY <1>1 DEF RemoveClient
<1>2. CASE at # {}
    <2>1. i \in DOMAIN ls /\ ls[i] = c
        BY <1>2 DEF FirstAt
    <2>2. Len(ls) \in Nat /\ i \in 1..Len(ls) /\ DOMAIN ls = 1..Len(ls)
        BY <2>1, LenProperties
    <2> DEFINE front == SubSeq(ls, 1, i - 1)
               back == SubSeq(ls, i + 1, Len(ls))
    <2> HIDE DEF i
    <2>3. \A j \in 1..Len(ls) : ls[j] \in Conn
        BY ElementOfSeq
    <2>4. /\ front \in Seq(Conn) /\ Len(front) = i - 1
          /\ \A j \in 1..(i - 1) : front[j] = ls[j]
        <3>1. \A j \in 1..(i - 1) : ls[j] \in Conn
            BY <2>2, <2>3
        <3>2. /\ front \in Seq(Conn)
              /\ Len(front) = IF 1 <= i - 1 THEN i - 1 - 1 + 1 ELSE 0
              /\ \A j \in 1..(i - 1 - 1 + 1) : front[j] = ls[1 + j - 1]
            BY <2>2, <3>1, SubSeqProperties
        <3> QED  BY <2>2, <3>2
    <2>5. /\ back \in Seq(Conn) /\ Len(back) = Len(ls) - i
          /\ \A j \in 1..(Len(ls) - i) : back[j] = ls[i + j]
        <3>1. \A j \in (i + 1)..Len(ls) : ls[j] \in Conn
            BY <2>2, <2>3
        <3>2. /\ back \in Seq(Conn)
              /\ Len(back) = IF i + 1 <= Len(ls) THEN Len(ls) - (i + 1) + 1 ELSE 0
              /\ \A j \in 1..(Len(ls) - (i + 1) + 1) : back[j] = ls[i + 1 + j - 1]
            BY <2>2, <3>1, SubSeqProperties
        <3> HIDE DEF back
        <3>3. ASSUME NEW j \in 1..(Len(ls) - i)
              PROVE  back[j] = ls[i + j]
            <4>1. j \in 1..(Len(ls) - (i + 1) + 1) /\ i + 1 + j - 1 = i + j
                BY <2>2
            <4>2. back[j] = ls[i + 1 + j - 1]
                BY <3>2, <4>1
            <4> QED  BY <4>1, <4>2
        <3>4. Len(back) = Len(ls) - i
            BY <2>2, <3>2
        <3> QED  BY <3>2, <3>3, <3>4
    <2> DEFINE rest == front \o back
    <2>6. RemoveClient(ls, c) = rest
        BY <1>2 DEF RemoveClient, RemoveAt, i
    <2> HIDE DEF front, back
    <2>7. /\ rest \in Seq(Conn) /\ Len(rest) = Len(ls) - 1
          /\ DOMAIN rest = 1..(Len(ls) - 1)
          /\ \A j \in 1..(Len(ls) - 1) : rest[j] = IF j <= i - 1 THEN ls[j] ELSE ls[j + 1]
        <3>1. /\ rest \in Seq(Conn) /\ Len(rest) = Len(front) + Len(back)
              /\ \A j \in 1..(Len(front) + Len(back)) :
                    rest[j] = IF j <= Len(front) THEN front[j] ELSE back[j - Len(front)]
            BY <2>4, <2>5, ConcatProperties
        <3>2. Len(rest) = Len(ls) - 1 /\ DOMAIN rest = 1..(Len(ls) - 1)
            <4>1. Len(rest) = Len(ls) - 1
                BY <3>1, <2>2, <2>4, <2>5
            <4> QED  BY <4>1, <3>1, LenProperties
        <3>3. ASSUME NEW j \in 1..(Len(ls) - 1)
              PROVE  rest[j] = IF j <= i - 1 THEN ls[j] ELSE ls[j + 1]
            BY <3>1, <2>2, <2>4, <2>5
        <3> QED  BY <3>1, <3>2, <3>3
    <2> HIDE DEF rest
    <2>8. ToSet(rest) \subseteq ToSet(ls)
        BY <2>2, <2>7 DEF ToSet
    <2>9. ASSUME NEW d \in ToSet(ls), d # c
          PROVE  d \in ToSet(rest)
        <3>1. PICK j \in 1..Len(ls) : ls[j] = d
            BY <2>2 DEF ToSet
        <3>2. j # i
            BY <3>1, <2>1, <2>9
        <3>3. CASE j < i
            BY <3>1, <3>3, <2>2, <2>7 DEF ToSet
        <3>4. CASE j > i
            <4>1. j - 1 \in 1..(Len(ls) - 1) /\ rest[j - 1] = ls[j]
                BY <3>4, <2>2, <2>7
            <4> QED  BY <4>1, <3>1, <2>7 DEF ToSet
        <3> QED  BY <3>2, <3>3, <3>4, <2>2
    <2> QED  BY <2>6, <2>7, <2>8, <2>9
<1> QED  BY <1>1, <1>2

LEMMA HasClientProperties ==
    ASSUME NEW cl, NEW ls \in Seq(Conn), NEW n
    PROVE  \/ HasClient(cl, ls, n) = Nil
           \/ HasClient(cl, ls, n) \in ToSet(ls) /\ HasClient(cl, ls, n) \in Conn
<1> DEFINE S == {c \in Conn : cl[c].userName = n}
           at == FirstAt(ls, S)
<1>1. CASE at = {}
    BY <1>1 DEF HasClient
<1>2. CASE at # {}
    <2>1. (CHOOSE i \in at : TRUE) \in at
        BY <1>2
    <2>2. ls[CHOOSE i \in at : TRUE] \in S /\ ls[CHOOSE i \in at : TRUE] \in ToSet(ls)
        BY <2>1 DEF FirstAt, ToSet
    <2> QED  BY <2>2, <1>2 DEF HasClient
<1> QED  BY <1>1, <1>2

-----------------------------------------------------------------------------
(* Types of names and nonces. *)

LEMMA NumberedType ==
    ASSUME NEW n \in Name, NEW i \in 1..MaxTries
    PROVE  Numbered(n, i) \in Name
BY AppendProperties DEF Numbered, Name

LEMMA DowngradedType ==
    ASSUME NEW n \in Name, NEW m \in Name
    PROVE  Downgraded(n, m) \in Nonce
BY DEF Downgraded, Nonce

LEMMA NonceOfType ==
    ASSUME NEW g \in Conn, NEW r \in Request
    PROVE  NonceOf(g, r) \in Nonce
<1>1. r.name \in Name /\ r.owns \in Account \cup {Nil} /\ Account \subseteq Name
    BY RequestAssumption, AccountAssumption
<1>2. Peer[g] \in Player
    BY PlayerAssumption
<1>3. CASE r.ver < BUILD20
    BY <1>1, <1>2, <1>3 DEF NonceOf, Nonce
<1>4. CASE ~(r.ver < BUILD20)
    BY <1>1, <1>2, <1>4, DowngradedType DEF NonceOf, Nonce
<1> QED  BY <1>3, <1>4

-----------------------------------------------------------------------------
(* The steps of a login. *)

\* Fields a handler may fill in without any effect on the connections.
LEMMA SameLife ==
    ASSUME NEW cl, ClientsOK(cl), NEW dl \in [Conn -> Client],
           \A d \in Conn : /\ dl[d].up = cl[d].up /\ dl[d].loop = cl[d].loop
                           /\ dl[d].state = cl[d].state
                           /\ dl[d].pending = cl[d].pending
    PROVE  ClientsOK(dl) /\ Closes(cl, dl)
<1> USE DEF ClientsOK, Closes, Born
<1>1. \A d \in Conn : cl[d].pending \in Conn \cup {Nil}
    BY DEF Client
<1> QED  BY <1>1

\* A client record changed at some of its fields is a client record.
LEMMA UpdateType ==
    ASSUME NEW cl \in [Conn -> Client], NEW c \in Conn, NEW r \in Client
    PROVE  /\ [cl EXCEPT ![c] = r] \in [Conn -> Client]
           /\ [cl EXCEPT ![c] = r][c] = r
           /\ \A d \in Conn : d # c => [cl EXCEPT ![c] = r][d] = cl[d]
OBVIOUS

LEMMA DisconnectProperties ==
    ASSUME NEW cl, ClientsOK(cl), NEW c \in Conn, Born(cl, c)
    PROVE  /\ ClientsOK(Disconnect(cl, c)) /\ Closes(cl, Disconnect(cl, c))
           /\ ~Disconnect(cl, c)[c].up
<1> DEFINE dl == Disconnect(cl, c)
<1> DEFINE r == [cl[c] EXCEPT !.up = FALSE, !.state = "RECENTLY_DISCONNECTED"]
<1>0. cl \in [Conn -> Client] /\ cl[c] \in Client
    BY DEF ClientsOK
<1>1. dl \in [Conn -> Client]
    <2>1. r \in Client
        BY <1>0 DEF Client
    <2>2. dl = [cl EXCEPT ![c] = r]
        BY <1>0 DEF Disconnect
    <2> QED  BY <1>0, <2>1, <2>2, UpdateType
<1>2. /\ ~dl[c].up /\ dl[c].state = "RECENTLY_DISCONNECTED"
      /\ \A d \in Conn : /\ dl[d].loop = cl[d].loop /\ dl[d].pending = cl[d].pending
                         /\ d # c => dl[d] = cl[d]
    BY DEF ClientsOK, Disconnect, Client
<1>3. \A d \in Conn : cl[d].pending \in Conn \cup {Nil}
    BY DEF ClientsOK, Client
<1> HIDE DEF dl
<1> QED  BY <1>1, <1>2, <1>3 DEF ClientsOK, Closes, Born, dl

LEMMA ReturnProperties ==
    ASSUME NEW cl, ClientsOK(cl), NEW call \in Call
    PROVE  ClientsOK(Return(cl, call)) /\ Closes(cl, Return(cl, call))
           /\ \A d \in Conn : Return(cl, call)[d].up = cl[d].up
<1> DEFINE dl == Return(cl, call)
<1>0. call.by \in Conn
    BY DEF Call
<1>1. dl \in [Conn -> Client]
    BY <1>0 DEF ClientsOK, Return, Client
<1>2. \A d \in Conn : /\ dl[d].loop = cl[d].loop /\ dl[d].state = cl[d].state
                      /\ dl[d].up = cl[d].up
                      /\ dl[d].pending \in {Nil, cl[d].pending}
    BY <1>0 DEF ClientsOK, Return, Client
<1>3. \A d \in Conn : cl[d].pending \in Conn \cup {Nil}
    BY DEF ClientsOK, Client
<1> HIDE DEF dl
<1> QED  BY <1>1, <1>2, <1>3 DEF ClientsOK, Closes, Born, dl

LEMMA ClosesIsTransitive ==
    ASSUME NEW cl, NEW dl, NEW el, Closes(cl, dl), Closes(dl, el)
    PROVE  Closes(cl, el)
BY DEF Closes

LEMMA ListedAreConnections ==
    ASSUME NEW ls \in Seq(Conn)
    PROVE  ToSet(ls) \subseteq Conn
BY ElementOfSeq, LenProperties DEF ToSet

LEMMA BornStay ==
    ASSUME NEW cl, NEW dl, Closes(cl, dl)
    PROVE  /\ \A ls : ListOK(cl, ls) => ListOK(dl, ls)
           /\ \A ad : CallsOK(cl, ad) => CallsOK(dl, ad)
BY ListedAreConnections DEF Closes, ListOK, CallsOK, Call

\* A goroutine has a login in hand, with clients cl and list ls; and what the
\* rest of its handler makes of them.
InHand(cl, ls, call) ==
    /\ ClientsOK(cl) /\ ListOK(cl, ls) /\ CallsOK(cl, adding)
    /\ call \in Call /\ Born(cl, call.for)

Results(cl, ls) ==
    /\ ClientsOK(client') /\ ListOK(client', list') /\ CallsOK(client', adding')
    /\ Closes(cl, client') /\ Drops(client', ls, list')

LEMMA AbortResult ==
    ASSUME NEW cl, NEW ls, NEW call, InHand(cl, ls, call), Abort(cl, ls, call)
    PROVE  Results(cl, ls)
<1> DEFINE dl == Disconnect(cl, call.for)
<1>1. ClientsOK(dl) /\ Closes(cl, dl)
    BY DisconnectProperties DEF InHand, Call
<1>2. ClientsOK(client') /\ Closes(dl, client')
    BY <1>1, ReturnProperties DEF InHand, Abort
<1>3. Closes(cl, client')
    BY <1>1, <1>2, ClosesIsTransitive
<1>4. ListOK(client', list') /\ CallsOK(client', adding') /\ Drops(client', ls, list')
    BY <1>3, BornStay DEF InHand, Abort, Drops
<1> QED  BY <1>2, <1>3, <1>4 DEF Results

LEMMA EnterWindowResult ==
    ASSUME NEW cl, NEW ls, NEW call, InHand(cl, ls, call), EnterWindow(cl, ls, call)
    PROVE  Results(cl, ls)
BY DEF InHand, EnterWindow, Results, CallsOK, Closes, Drops

LEMMA LoginDoneResult ==
    ASSUME NEW cl, NEW ls, NEW call, InHand(cl, ls, call), LoginDone(cl, ls, call)
    PROVE  Results(cl, ls)
BY AbortResult, EnterWindowResult DEF LoginDone

\* The connection of a client that is removed is closed.
LEMMA RemoveResult ==
    ASSUME NEW cl, NEW ls, NEW c \in Conn, NEW call, InHand(cl, ls, call), ~cl[c].up
    PROVE  /\ InHand(cl, RemoveClient(ls, c), call)
           /\ Results(cl, RemoveClient(ls, c)) => Results(cl, ls)
<1>1. InHand(cl, RemoveClient(ls, c), call)
    BY RemoveClientProperties DEF InHand, ListOK
<1>2. ASSUME Results(cl, RemoveClient(ls, c))
      PROVE  Drops(client', ls, list')
    <2>1. ~client'[c].up
        BY <1>2 DEF Results, Closes
    <2> QED  BY <1>2, <2>1, RemoveClientProperties DEF Results, Drops, InHand, ListOK
<1> QED  BY <1>1, <1>2 DEF Results

LEMMA SuccessfulReloginResult ==
    ASSUME NEW cl, NEW ls, NEW old \in Conn, NEW call, InHand(cl, ls, call),
           ~cl[old].up, SuccessfulRelogin(cl, ls, old, call)
    PROVE  Results(cl, ls)
BY RemoveResult, EnterWindowResult DEF SuccessfulRelogin

\* Filling in fields before the rest of the handler.
LEMMA SameLifeResult ==
    ASSUME NEW cl, NEW ls, NEW call, InHand(cl, ls, call), NEW dl \in [Conn -> Client],
           \A d \in Conn : /\ dl[d].up = cl[d].up /\ dl[d].loop = cl[d].loop
                           /\ dl[d].state = cl[d].state
                           /\ dl[d].pending = cl[d].pending
    PROVE  /\ InHand(dl, ls, call)
           /\ Results(dl, ls) => Results(cl, ls)
<1>1. ClientsOK(dl) /\ Closes(cl, dl)
    BY SameLife DEF InHand
<1>2. InHand(dl, ls, call)
    BY <1>1, BornStay DEF InHand, Closes, Call
<1>3. ASSUME Results(dl, ls)  PROVE Results(cl, ls)
    BY <1>1, <1>3, ClosesIsTransitive DEF Results
<1> QED  BY <1>2, <1>3

LEMMA FillInResult ==
    ASSUME NEW cl, NEW ls, NEW call, InHand(cl, ls, call), NEW c \in Conn,
           NEW r \in Client, r.up = cl[c].up, r.loop = cl[c].loop,
           r.state = cl[c].state, r.pending = cl[c].pending
    PROVE  /\ InHand([cl EXCEPT ![c] = r], ls, call)
           /\ Results([cl EXCEPT ![c] = r], ls) => Results(cl, ls)
<1> DEFINE dl == [cl EXCEPT ![c] = r]
<1>1. cl \in [Conn -> Client]
    BY DEF InHand, ClientsOK
<1>2. dl \in [Conn -> Client] /\ dl[c] = r /\ \A d \in Conn : d # c => dl[d] = cl[d]
    BY <1>1, UpdateType
<1> HIDE DEF dl
<1>3. \A d \in Conn : /\ dl[d].up = cl[d].up /\ dl[d].loop = cl[d].loop
                      /\ dl[d].state = cl[d].state
                      /\ dl[d].pending = cl[d].pending
    BY <1>2
<1>4. InHand(dl, ls, call) /\ (Results(dl, ls) => Results(cl, ls))
    BY <1>2, <1>3, SameLifeResult
<1> QED  BY <1>4 DEF dl

LEMMA FindUnconnectedNameResult ==
    ASSUME NEW cl, NEW ls, NEW call, InHand(cl, ls, call),
           FindUnconnectedName(cl, ls, call)
    PROVE  Results(cl, ls)
<1> DEFINE c == call.for
           me == cl[c]
           tried(i) == Numbered(me.userName, i)
           nonce(i) == IF me.ver >= BUILD20 /\ me.permissions # "UNREGISTERED"
                       THEN Downgraded(me.userName, tried(i)) ELSE me.nonce
           named(i) == [cl EXCEPT ![c].userName = tried(i),
                                  ![c].nonce = IF me.ver >= BUILD20 /\ me.permissions # "UNREGISTERED"
                                               THEN Downgraded(me.userName, tried(i)) ELSE @,
                                  ![c].permissions = "UNREGISTERED"]
<1>1. CASE Abort([cl EXCEPT ![c].userName = tried(MaxTries)], ls, call)
    <2> DEFINE n == tried(MaxTries)
               r == [me EXCEPT !.userName = n]
               dl == [cl EXCEPT ![c].userName = n]
    <2>1. cl \in [Conn -> Client] /\ c \in Conn /\ me \in Client /\ me = cl[c]
        BY DEF InHand, ClientsOK, Call
    <2>2. n \in Name
        <3>1. me.userName \in Name /\ MaxTries \in 1..MaxTries
            BY <2>1, BoundAssumption DEF Client
        <3> QED  BY <3>1, NumberedType
    <2>3. Abort(dl, ls, call)
        BY <1>1
    <2> HIDE DEF n, me, c
    <2>4. /\ r \in Client /\ r.up = me.up /\ r.loop = me.loop
          /\ r.state = me.state /\ r.pending = me.pending
        BY <2>1, <2>2 DEF Client
    <2>5. dl = [cl EXCEPT ![c] = r]
        BY <2>1
    <2> HIDE DEF r, dl
    <2>6. InHand(dl, ls, call) /\ (Results(dl, ls) => Results(cl, ls))
        BY <2>1, <2>4, <2>5, FillInResult
    <2> QED  BY <2>3, <2>6, AbortResult
<1>2. ASSUME NEW i \in 1..MaxTries, LoginDone(named(i), ls, call)
      PROVE  Results(cl, ls)
    <2>1. cl \in [Conn -> Client] /\ c \in Conn /\ me \in Client
        BY DEF InHand, ClientsOK, Call
    <2>2. me.userName \in Name /\ me.nonce \in Nonce
        BY <2>1 DEF Client
    <2>3. tried(i) \in Name /\ nonce(i) \in Nonce
        BY <2>2, NumberedType, DowngradedType
    <2> DEFINE r == [me EXCEPT !.userName = tried(i), !.nonce = nonce(i),
                               !.permissions = "UNREGISTERED"]
    <2>4. r \in Client
        <3> HIDE DEF tried, nonce, me
        <3> QED  BY <2>1, <2>3 DEF Client, Perm
    <2>5. named(i) = [cl EXCEPT ![c] = r]
        <3> HIDE DEF c, tried
        <3> QED  BY <2>1, <2>3
    <2>6. /\ r.up = me.up /\ r.loop = me.loop
          /\ r.state = me.state /\ r.pending = me.pending
        <3> HIDE DEF tried, nonce, me
        <3> QED  BY <2>1 DEF Client
    <2> DEFINE dl == named(i)
    <2>7. me = cl[c] /\ LoginDone(dl, ls, call)
        BY <1>2
    <2> HIDE DEF r, dl, c, me
    <2>8. InHand([cl EXCEPT ![c] = r], ls, call)
          /\ (Results([cl EXCEPT ![c] = r], ls) => Results(cl, ls))
        BY <2>1, <2>4, <2>6, <2>7, FillInResult
    <2>9. dl = [cl EXCEPT ![c] = r]
        BY <2>5 DEF dl
    <2> QED  BY <2>7, <2>8, <2>9, LoginDoneResult
<1> QED  BY <1>1, <1>2 DEF FindUnconnectedName

LEMMA RestartPingLoopProperties ==
    ASSUME NEW cl, ClientsOK(cl), NEW c \in Conn
    PROVE  /\ RestartPingLoop(cl, c) \in [Conn -> Client]
           /\ \A d \in Conn : LET dl == RestartPingLoop(cl, c) IN
                /\ dl[d].up = cl[d].up /\ dl[d].loop = cl[d].loop
                /\ dl[d].state = cl[d].state /\ dl[d].pending = cl[d].pending
                /\ dl[d].userName = cl[d].userName
<1> DEFINE r == [cl[c] EXCEPT !.waiting = @ \/ cl[c].state = "CONNECTED"]
           dl == RestartPingLoop(cl, c)
<1>1. cl \in [Conn -> Client] /\ cl[c] \in Client
    BY DEF ClientsOK
<1>2. r \in Client
    BY <1>1 DEF Client
<1>3. dl = [cl EXCEPT ![c] = r]
    BY <1>1 DEF RestartPingLoop
<1>4. /\ r.up = cl[c].up /\ r.loop = cl[c].loop /\ r.state = cl[c].state
      /\ r.pending = cl[c].pending /\ r.userName = cl[c].userName
    BY <1>1 DEF Client
<1>5. dl \in [Conn -> Client] /\ dl[c] = r /\ \A d \in Conn : d # c => dl[d] = cl[d]
    BY <1>1, <1>2, <1>3, UpdateType
<1> HIDE DEF r, dl
<1>6. \A d \in Conn :
        /\ dl[d].up = cl[d].up /\ dl[d].loop = cl[d].loop
        /\ dl[d].state = cl[d].state /\ dl[d].pending = cl[d].pending
        /\ dl[d].userName = cl[d].userName
    BY <1>4, <1>5
<1> QED  BY <1>5, <1>6 DEF dl

\* A login starts to wait for the connection `old'.
LEMMA AwaitResult ==
    ASSUME NEW cl, NEW ls, NEW call, InHand(cl, ls, call), NEW old \in Conn, NEW dl,
           dl = [RestartPingLoop(cl, old) EXCEPT ![old].pending = call.for]
    PROVE  InHand(dl, ls, call) /\ (Results(dl, ls) => Results(cl, ls))
<1> DEFINE el == RestartPingLoop(cl, old)
           r == [el[old] EXCEPT !.pending = call.for]
<1>1. ClientsOK(cl) /\ call.for \in Conn /\ Born(cl, call.for)
    BY DEF InHand, Call
<1>2. ClientsOK(el) /\ Closes(cl, el)
    BY <1>1, RestartPingLoopProperties, SameLife
<1>3. el \in [Conn -> Client] /\ el[old] \in Client
    BY <1>2 DEF ClientsOK
<1>4. Born(el, call.for)
    BY <1>1, <1>2 DEF Closes
<1> HIDE DEF el
<1>5. dl = [el EXCEPT ![old] = r]
    BY <1>3 DEF el
<1>6. r \in Client
    BY <1>1, <1>3 DEF Client
<1>7. /\ r.up = el[old].up /\ r.loop = el[old].loop
      /\ r.state = el[old].state /\ r.pending = call.for
    BY <1>3 DEF Client
<1> HIDE DEF r
<1>8. dl \in [Conn -> Client] /\ dl[old] = r /\ \A d \in Conn : d # old => dl[d] = el[d]
    <2>1. /\ [el EXCEPT ![old] = r] \in [Conn -> Client]
          /\ [el EXCEPT ![old] = r][old] = r
          /\ \A d \in Conn : d # old => [el EXCEPT ![old] = r][d] = el[d]
        BY <1>3, <1>6, UpdateType
    <2> QED  BY <1>5, <2>1
<1>9. \A d \in Conn : /\ dl[d].up = el[d].up /\ dl[d].loop = el[d].loop
                      /\ dl[d].state = el[d].state
                      /\ dl[d].pending \in {call.for, el[d].pending}
    BY <1>7, <1>8
<1>10. \A d \in Conn : el[d].pending \in Conn \cup {Nil}
    BY <1>2 DEF ClientsOK, Client
<1>11. ClientsOK(dl) /\ Closes(el, dl)
    BY <1>1, <1>2, <1>4, <1>8, <1>9, <1>10 DEF ClientsOK, Closes, Born
<1>12. ClientsOK(dl) /\ Closes(cl, dl)
    BY <1>2, <1>11, ClosesIsTransitive DEF el
<1>13. InHand(dl, ls, call)
    BY <1>1, <1>12, BornStay DEF InHand, Closes
<1>14. ASSUME Results(dl, ls)  PROVE Results(cl, ls)
    BY <1>12, <1>14, ClosesIsTransitive DEF Results
<1> QED  BY <1>13, <1>14

LEMMA CheckCandidatesResult ==
    ASSUME NEW cl, NEW ls, NEW call, InHand(cl, ls, call),
           cl[call.for].candidates \in Seq(Conn),
           CheckCandidates(cl, ls, call)
    PROVE  Results(cl, ls)
<1> DEFINE c == call.for
           q == cl[c].candidates
           foreign(k) == cl[q[k]].userName # cl[c].userName
           F(k) == {j \in 1..k : foreign(j) /\ \A i \in 1..(j - 1) : ~foreign(i)}
           drops(k) == ~(F(k) = {} \/ cl[c].permissions = "UNREGISTERED")
           fromNonce(k) == Downgraded(cl[c].userName, cl[q[CHOOSE j \in F(k) : TRUE]].userName)
           seen(k) == IF F(k) = {} \/ cl[c].permissions = "UNREGISTERED" THEN cl ELSE
                        [cl EXCEPT ![c].nonce = fromNonce(k),
                                   ![c].permissions = "UNREGISTERED"]
           rest(k) == SubSeq(q, k + 1, Len(q))
           popped(k) == [seen(k) EXCEPT ![c].candidates = rest(k)]
<1>1. /\ cl \in [Conn -> Client] /\ c \in Conn /\ cl[c] \in Client
      /\ q \in Seq(Conn) /\ ls \in Seq(Conn)
    <2>1. cl \in [Conn -> Client] /\ c \in Conn /\ ls \in Seq(Conn)
        BY DEF InHand, ClientsOK, ListOK, Call
    <2>2. cl[c] \in Client
        BY <2>1
    <2> QED  BY <2>1, <2>2 DEF Client
<1>2. Len(q) \in Nat /\ DOMAIN q = 1..Len(q) /\ \A k \in 1..Len(q) : q[k] \in Conn
    BY <1>1, ElementOfSeq, LenProperties
\* Looking at the candidates up to k changes what a SameLife step may change.
<1>3. ASSUME NEW k \in 0..Len(q)
      PROVE  /\ InHand(seen(k), ls, call)
             /\ Results(seen(k), ls) => Results(cl, ls)
             /\ \A d \in Conn : /\ seen(k)[d].up = cl[d].up
                                /\ seen(k)[d].state = cl[d].state
                                /\ seen(k)[d].userName = cl[d].userName
    <2>1. CASE ~drops(k)
        BY <2>1
    <2>2. CASE drops(k)
        <3> DEFINE j == CHOOSE j \in F(k) : TRUE
        <3>1. j \in F(k) /\ j \in 1..Len(q)
            <4>1. F(k) # {}
                BY <2>2
            <4>2. j \in F(k)
                BY <4>1
            <4>3. F(k) \subseteq 1..k /\ 1..k \subseteq 1..Len(q)
                BY <1>2
            <4> HIDE DEF j, F
            <4> QED  BY <4>2, <4>3
        <3>2. cl[q[j]].userName \in Name /\ cl[c].userName \in Name
            <4>1. q[j] \in Conn
                BY <3>1, <1>2
            <4>2. cl[q[j]] \in Client
                BY <1>1, <4>1
            <4> QED  BY <4>2, <1>1 DEF Client
        <3>3. fromNonce(k) \in Nonce
            BY <3>2, DowngradedType
        <3> DEFINE n == fromNonce(k)
                   r == [cl[c] EXCEPT !.nonce = n, !.permissions = "UNREGISTERED"]
        <3>4. seen(k) = [cl EXCEPT ![c].nonce = n, ![c].permissions = "UNREGISTERED"]
            BY <2>2
        <3> HIDE DEF n, c, seen
        <3>5. seen(k) = [cl EXCEPT ![c] = r]
            BY <3>4, <1>1
        <3>6. n \in Nonce
            BY <3>3 DEF n
        <3>7. r \in Client
            BY <3>6, <1>1 DEF Client, Perm
        <3>8. /\ r.up = cl[c].up /\ r.loop = cl[c].loop /\ r.state = cl[c].state
              /\ r.pending = cl[c].pending /\ r.userName = cl[c].userName
            BY <1>1 DEF Client
        <3> HIDE DEF r
        <3>9. /\ InHand([cl EXCEPT ![c] = r], ls, call)
              /\ Results([cl EXCEPT ![c] = r], ls) => Results(cl, ls)
            BY <1>1, <3>7, <3>8, FillInResult
        <3>10. \A d \in Conn : /\ [cl EXCEPT ![c] = r][d].up = cl[d].up
                               /\ [cl EXCEPT ![c] = r][d].state = cl[d].state
                               /\ [cl EXCEPT ![c] = r][d].userName = cl[d].userName
            BY <1>1, <3>7, <3>8, UpdateType
        <3> QED  BY <3>5, <3>9, <3>10
    <2> QED  BY <2>1, <2>2
<1> HIDE DEF seen
\* Popping candidates off the list is such a step as well.
<1>4. ASSUME NEW k \in 0..Len(q), NEW s \in Seq(Conn), NEW n \in Name
      PROVE  /\ InHand([seen(k) EXCEPT ![c].candidates = s], ls, call)
             /\ Results([seen(k) EXCEPT ![c].candidates = s], ls) => Results(cl, ls)
             /\ InHand([seen(k) EXCEPT ![c].candidates = s, ![c].userName = n], ls, call)
             /\ Results([seen(k) EXCEPT ![c].candidates = s, ![c].userName = n], ls)
                    => Results(cl, ls)
             /\ \A d \in Conn :
                    [seen(k) EXCEPT ![c].candidates = s, ![c].userName = n][d].up = cl[d].up
    <2> DEFINE sl == seen(k)
               r == [sl[c] EXCEPT !.candidates = s]
               t == [sl[c] EXCEPT !.candidates = s, !.userName = n]
    <2>1. sl \in [Conn -> Client] /\ InHand(sl, ls, call)
        BY <1>3 DEF InHand, ClientsOK
    <2> HIDE DEF sl, c
    <2>2. sl[c] \in Client
        BY <2>1, <1>1
    <2>3. /\ r \in Client /\ t \in Client
          /\ r.up = sl[c].up /\ r.loop = sl[c].loop
          /\ r.state = sl[c].state /\ r.pending = sl[c].pending
          /\ t.up = sl[c].up /\ t.loop = sl[c].loop
          /\ t.state = sl[c].state /\ t.pending = sl[c].pending
        BY <2>2 DEF Client
    <2>4. /\ [sl EXCEPT ![c].candidates = s] = [sl EXCEPT ![c] = r]
          /\ [sl EXCEPT ![c].candidates = s, ![c].userName = n] = [sl EXCEPT ![c] = t]
        BY <2>1, <1>1
    <2> HIDE DEF r, t
    <2>5. /\ InHand([sl EXCEPT ![c] = r], ls, call)
          /\ Results([sl EXCEPT ![c] = r], ls) => Results(sl, ls)
        BY <2>1, <2>3, <1>1, FillInResult
    <2>6. /\ InHand([sl EXCEPT ![c] = t], ls, call)
          /\ Results([sl EXCEPT ![c] = t], ls) => Results(sl, ls)
        BY <2>1, <2>3, <1>1, FillInResult
    <2>7. \A d \in Conn : /\ [sl EXCEPT ![c] = r][d].up = sl[d].up
                          /\ [sl EXCEPT ![c] = t][d].up = sl[d].up
        BY <2>1, <2>3, <1>1, UpdateType
    <2>8. /\ Results(sl, ls) => Results(cl, ls)
          /\ \A d \in Conn : sl[d].up = cl[d].up
        BY <1>3 DEF sl
    <2> QED  BY <2>4, <2>5, <2>6, <2>7, <2>8 DEF sl
<1>5. CASE cl[c].state # "HANDSHAKE"
    BY <1>5, AbortResult DEF CheckCandidates
<1>6. ASSUME FindUnconnectedName([seen(Len(q)) EXCEPT ![c].candidates = <<>>], ls, call)
      PROVE  Results(cl, ls)
    <2>1. Len(q) \in 0..Len(q) /\ <<>> \in Seq(Conn) /\ cl[c].userName \in Name
        BY <1>1, <1>2 DEF Client
    <2> HIDE DEF q, c
    <2> QED  BY <1>6, <2>1, <1>4, FindUnconnectedNameResult
<1>7. ASSUME NEW k \in DOMAIN q, cl[q[k]].state = "RECENTLY_DISCONNECTED",
             LoginDone([popped(k) EXCEPT ![c].userName = cl[q[k]].userName],
                       RemoveClient(ls, q[k]), call)
      PROVE  Results(cl, ls)
    <2>1. /\ k \in 0..Len(q) /\ q[k] \in Conn /\ rest(k) \in Seq(Conn)
          /\ cl[q[k]].userName \in Name
        <3>1. k \in 1..Len(q) /\ q[k] \in Conn
            BY <1>2
        <3>2. cl[q[k]].userName \in Name
            BY <3>1, <1>1 DEF Client
        <3>3. rest(k) \in Seq(Conn)
            <4>1. \A i \in (k + 1)..Len(q) : q[i] \in Conn
                BY <3>1, <1>2
            <4> QED  BY <4>1, <3>1, <1>2, SubSeqProperties
        <3> QED  BY <3>1, <3>2, <3>3, <1>2
    <2> DEFINE old == q[k]
               n == cl[old].userName
               s == rest(k)
               el == [seen(k) EXCEPT ![c].candidates = s, ![c].userName = n]
    <2>2. LoginDone(el, RemoveClient(ls, old), call)
        <3>1. seen(k) \in [Conn -> Client]
            BY <2>1, <1>3 DEF InHand, ClientsOK
        <3> HIDE DEF c, q, rest
        <3> QED  BY <1>7, <3>1, <1>1
    <2>3. ~cl[old].up
        BY <1>7, <2>1 DEF InHand, ClientsOK
    <2>4. old \in Conn /\ n \in Name /\ s \in Seq(Conn)
        BY <2>1
    <2> HIDE DEF old, n, s, c, q
    <2>5. InHand(el, ls, call) /\ (Results(el, ls) => Results(cl, ls)) /\ ~el[old].up
        <3>1. /\ InHand(el, ls, call) /\ (Results(el, ls) => Results(cl, ls))
              /\ \A d \in Conn : el[d].up = cl[d].up
            BY <1>4, <2>1, <2>4
        <3>2. ~cl[old].up /\ old \in Conn
            BY <2>3, <2>4
        <3> HIDE DEF el
        <3> QED  BY <3>1, <3>2
    <2> HIDE DEF el
    <2> QED  BY <2>2, <2>4, <2>5, RemoveResult, LoginDoneResult
<1>8. ASSUME NEW k \in DOMAIN q,
             client' = Return([RestartPingLoop(popped(k), q[k])
                                 EXCEPT ![q[k]].pending = c], call),
             adding' = adding, list' = ls
      PROVE  Results(cl, ls)
    <2>1. k \in 0..Len(q) /\ q[k] \in Conn /\ rest(k) \in Seq(Conn)
        <3>1. k \in 1..Len(q) /\ q[k] \in Conn
            BY <1>2
        <3>2. \A i \in (k + 1)..Len(q) : q[i] \in Conn
            BY <3>1, <1>2
        <3> QED  BY <3>1, <3>2, <1>2, SubSeqProperties
    <2>2. cl[c].userName \in Name
        BY <1>1 DEF Client
    <2> DEFINE s == rest(k)
               dl == [seen(k) EXCEPT ![c].candidates = s]
               old == q[k]
               el == [RestartPingLoop(dl, old) EXCEPT ![old].pending = call.for]
    <2>3. client' = Return(el, call) /\ old \in Conn /\ s \in Seq(Conn)
        BY <1>8, <2>1
    <2> HIDE DEF s, old, c, q
    <2>4. InHand(dl, ls, call) /\ (Results(dl, ls) => Results(cl, ls))
        BY <1>4, <2>1, <2>2, <2>3
    <2> HIDE DEF dl
    <2>5. InHand(el, ls, call) /\ (Results(el, ls) => Results(dl, ls))
        BY <2>3, <2>4, AwaitResult
    <2> HIDE DEF el
    <2>6. ClientsOK(client') /\ Closes(el, client')
        BY <2>3, <2>5, ReturnProperties DEF InHand
    <2>7. Results(el, ls)
        BY <2>5, <2>6, <1>8, BornStay DEF InHand, Results, Drops
    <2> QED  BY <2>4, <2>5, <2>7
<1> QED  BY <1>5, <1>6, <1>7, <1>8 DEF CheckCandidates, seen

LEMMA FindReplaceCandidatesResult ==
    ASSUME NEW cl, NEW ls, NEW c \in Conn, NEW registered \in BOOLEAN,
           ClientsOK(cl), ListOK(cl, ls), CallsOK(cl, adding), Born(cl, c),
           FindReplaceCandidates(cl, ls, c, registered)
    PROVE  Results(cl, ls)
<1> DEFINE call == [by |-> c, for |-> c, clears |-> FALSE]
           n == cl[c].userName
<1>1. InHand(cl, ls, call) /\ call.for = c
    BY DEF InHand, Call
<1>2. PICK found \in FindClientsToReplace(cl, ls, cl[c].nonce, n) :
        LET searched == [cl EXCEPT ![c].candidates = found]
        IN  \/ CheckCandidates(searched, ls, call)
            \/ LoginDone(searched, ls, call)
            \/ FindUnconnectedName(searched, ls, call)
    BY DEF FindReplaceCandidates
<1>3. found \in Seq(Conn)
    <2> DEFINE S == ReplaceableAt(cl, ls, cl[c].nonce, n)
               m == Cardinality(S)
    <2>1. DOMAIN ls = 1..Len(ls) /\ Len(ls) \in Nat /\ \A i \in 1..Len(ls) : ls[i] \in Conn
        BY LenProperties, ElementOfSeq DEF ListOK
    <2>2. S \subseteq 1..Len(ls)
        BY <2>1 DEF ReplaceableAt, SameNonce
    <2>3. m \in Nat
        <3>1. IsFiniteSet(1..Len(ls))
            <4>1. 1 \in Int /\ Len(ls) \in Int
                BY <2>1
            <4> QED  BY <4>1, FS_Interval
        <3> QED  BY <2>2, <3>1, FS_Subset, FS_CardinalityType
    <2>4. PICK q \in [1..m -> S] : found = [k \in 1..m |-> ls[q[k]]]
        BY <1>2 DEF FindClientsToReplace
    <2> HIDE DEF S, m
    <2>5. \A k \in 1..m : found[k] \in Conn
        BY <2>1, <2>2, <2>4
    <2> QED  BY <2>3, <2>4, <2>5
<1> DEFINE r == [cl[c] EXCEPT !.candidates = found]
           dl == [cl EXCEPT ![c].candidates = found]
<1>4. cl \in [Conn -> Client] /\ cl[c] \in Client
    BY DEF ClientsOK
<1> HIDE DEF call
<1>5. dl = [cl EXCEPT ![c] = r]
    BY <1>4
<1>6. /\ r \in Client /\ r.up = cl[c].up /\ r.loop = cl[c].loop
      /\ r.state = cl[c].state /\ r.pending = cl[c].pending /\ r.candidates = found
    BY <1>3, <1>4 DEF Client
<1> HIDE DEF r
<1>7. InHand(dl, ls, call) /\ (Results(dl, ls) => Results(cl, ls))
    BY <1>1, <1>5, <1>6, FillInResult
<1>8. dl[call.for].candidates \in Seq(Conn)
    BY <1>1, <1>3, <1>4, <1>5, <1>6, UpdateType
<1>9. \/ CheckCandidates(dl, ls, call)
      \/ LoginDone(dl, ls, call)
      \/ FindUnconnectedName(dl, ls, call)
    BY <1>2 DEF call
<1> HIDE DEF dl
<1> QED  BY <1>7, <1>8, <1>9, CheckCandidatesResult, LoginDoneResult, FindUnconnectedNameResult

-----------------------------------------------------------------------------
(* The actions. *)

\* What every step does: it preserves the invariant and drops only the dead.
StepOK == IInv' /\ Drops(client', list, list')

\* A step that leaves the list and the logins in hand alone.
LEMMA LocalStep ==
    ASSUME IInv, ClientsOK(client'), Closes(client, client'),
           UNCHANGED <<list, adding, banned>>
    PROVE  StepOK
BY BornStay DEF IInv, StepOK, Drops

LEMMA ResultStep ==
    ASSUME IInv, NEW cl, Closes(client, cl), Results(cl, list), banned' = banned
    PROVE  StepOK
BY DEF IInv, StepOK, Results

LEMMA ReceivedProperties ==
    ASSUME IInv, NEW g \in Conn, HasPacket(g)
    PROVE  /\ Received(g) \in [Conn -> Client] /\ Born(client, g)
           /\ ClientsOK(Received(g)) /\ Closes(client, Received(g))
           /\ \A d \in Conn : /\ Received(g)[d].up = client[d].up
                              /\ Received(g)[d].loop = client[d].loop
                              /\ Received(g)[d].state = client[d].state
                              /\ Received(g)[d].pending = client[d].pending
                              /\ Received(g)[d].candidates = client[d].candidates
<1> DEFINE r == [client[g] EXCEPT !.waiting = FALSE,
                                  !.late = IF client[g].up THEN @ ELSE @ + 1]
<1>1. client \in [Conn -> Client] /\ client[g] \in Client
    BY DEF IInv, ClientsOK
<1>2. Received(g) = [client EXCEPT ![g] = r]
    BY <1>1 DEF Received
<1>3. r \in Client
    <2>1. client[g].late \in 0..MaxLate /\ (~client[g].up => client[g].late < MaxLate)
        BY <1>1 DEF HasPacket, Client
    <2>2. (IF client[g].up THEN client[g].late ELSE client[g].late + 1) \in 0..MaxLate
        BY <2>1, BoundAssumption
    <2> QED  BY <1>1, <2>2 DEF Client
<1>4. /\ r.up = client[g].up /\ r.loop = client[g].loop /\ r.state = client[g].state
      /\ r.pending = client[g].pending /\ r.candidates = client[g].candidates
    BY <1>1 DEF Client
<1> HIDE DEF r
<1>5. /\ Received(g) \in [Conn -> Client]
      /\ \A d \in Conn : /\ Received(g)[d].up = client[d].up
                         /\ Received(g)[d].loop = client[d].loop
                         /\ Received(g)[d].state = client[d].state
                         /\ Received(g)[d].pending = client[d].pending
                         /\ Received(g)[d].candidates = client[d].candidates
    BY <1>1, <1>2, <1>3, <1>4, UpdateType
<1>6. Born(client, g)
    BY DEF HasPacket, Selecting, Born
<1>7. ClientsOK(Received(g)) /\ Closes(client, Received(g))
    BY <1>5, SameLife DEF IInv
<1> QED  BY <1>5, <1>6, <1>7

\* After a packet is taken its handler has a sound set of clients in hand.
LEMMA ReceivedInHand ==
    ASSUME IInv, NEW g \in Conn, HasPacket(g), NEW call \in Call, Born(client, call.for)
    PROVE  InHand(Received(g), list, call)
<1>1. call.for \in Conn
    BY DEF Call
<1> QED  BY <1>1, ReceivedProperties, BornStay DEF IInv, InHand, Closes

LEMMA AcceptStep ==
    ASSUME IInv, NEW g \in Conn, Accept(g)
    PROVE  StepOK
<1> DEFINE r == [client[g] EXCEPT !.loop = "running", !.up = TRUE]
<1>1. client \in [Conn -> Client] /\ client[g] \in Client
    BY DEF IInv, ClientsOK
<1>2. client' = [client EXCEPT ![g] = r]
    BY <1>1 DEF Accept
<1>3. r \in Client /\ r.loop = "running" /\ r.up /\ r.state = "HANDSHAKE"
      /\ r.pending = client[g].pending
    BY <1>1 DEF Client, Accept, IInv, ClientsOK
<1>4. client[g].loop = "unborn"
    BY DEF Accept
<1> HIDE DEF r
<1>5. /\ client' \in [Conn -> Client] /\ client'[g] = r
      /\ \A d \in Conn : d # g => client'[d] = client[d]
    BY <1>1, <1>2, <1>3, UpdateType
<1>6. \A d \in Conn : Born(client, d) => Born(client', d)
    BY <1>3, <1>5 DEF Born
<1>7. \A d \in Conn : client[d].pending \in Conn \cup {Nil}
    BY <1>1 DEF Client
<1>8. ClientsOK(client')
    BY <1>3, <1>5, <1>6, <1>7 DEF IInv, ClientsOK
<1>9. ListOK(client', list') /\ CallsOK(client', adding')
    BY <1>6, ListedAreConnections DEF Accept, IInv, ListOK, CallsOK, Call
<1> QED  BY <1>8, <1>9 DEF Accept, IInv, StepOK, Drops

LEMMA AnswerForPendingStep ==
    ASSUME IInv, NEW g \in Conn, AnswerForPending(g)
    PROVE  StepOK
<1> DEFINE call == [by |-> g, for |-> client[g].pending, clears |-> TRUE]
<1>1. HasPacket(g) /\ client[g].pending \in Conn /\ Born(client, client[g].pending)
    BY DEF AnswerForPending, IInv, ClientsOK, Client
<1>2. call \in Call /\ call.for = client[g].pending
    BY <1>1 DEF Call
<1>3. \/ Abort(Received(g), list, call)
      \/ client[call.for].candidates # Nil /\ CheckCandidates(Received(g), list, call)
    BY DEF AnswerForPending
<1> HIDE DEF call
<1>4. InHand(Received(g), list, call)
    BY <1>1, <1>2, ReceivedInHand
<1>5. CASE Abort(Received(g), list, call)
    BY <1>1, <1>4, <1>5, AbortResult, ResultStep, ReceivedProperties DEF AnswerForPending
<1>6. CASE client[call.for].candidates # Nil /\ CheckCandidates(Received(g), list, call)
    <2>1. Received(g)[call.for].candidates \in Seq(Conn)
        <3>1. client[call.for].candidates \in Seq(Conn)
            BY <1>1, <1>2, <1>6 DEF IInv, ClientsOK, Client
        <3> QED  BY <1>1, <1>2, <3>1, ReceivedProperties
    <2> QED  BY <1>1, <1>4, <1>6, <2>1, CheckCandidatesResult, ResultStep, ReceivedProperties
             DEF AnswerForPending
<1> QED  BY <1>3, <1>5, <1>6

LEMMA PongStep ==
    ASSUME IInv, NEW g \in Conn, Pong(g)
    PROVE  StepOK
BY ReceivedProperties, LocalStep DEF Pong, Handles

\* A packet whose handler ends in Disconnect, after fields were filled in.
LEMMA RefusalStep ==
    ASSUME IInv, NEW cl, ClientsOK(cl), Closes(client, cl), NEW g \in Conn, Born(client, g),
           client' = Disconnect(cl, g), UNCHANGED <<list, adding, banned>>
    PROVE  StepOK
<1>1. ClientsOK(client') /\ Closes(cl, client')
    BY DisconnectProperties DEF Closes
<1> QED  BY <1>1, ClosesIsTransitive, LocalStep

LEMMA CriticalErrorStep ==
    ASSUME IInv, NEW g \in Conn, CriticalError(g)
    PROVE  StepOK
BY ReceivedProperties, RefusalStep DEF CriticalError, Handles

LEMMA FillIn ==
    ASSUME NEW cl, ClientsOK(cl), NEW c \in Conn,
           NEW r \in Client, r.up = cl[c].up, r.loop = cl[c].loop,
           r.state = cl[c].state, r.pending = cl[c].pending
    PROVE  /\ ClientsOK([cl EXCEPT ![c] = r]) /\ Closes(cl, [cl EXCEPT ![c] = r])
<1> DEFINE dl == [cl EXCEPT ![c] = r]
<1>1. cl \in [Conn -> Client]
    BY DEF ClientsOK
<1>2. dl \in [Conn -> Client] /\ dl[c] = r /\ \A d \in Conn : d # c => dl[d] = cl[d]
    BY <1>1, UpdateType
<1> HIDE DEF dl
<1>3. ClientsOK(dl) /\ Closes(cl, dl)
    BY <1>2, SameLife
<1> QED  BY <1>3 DEF dl

LEMMA LoginStep ==
    ASSUME IInv, NEW g \in Conn, NEW r \in Request, Login(g, r)
    PROVE  StepOK
<1> DEFINE rl == Received(g)
           nonce == IF r.reg \/ r.ver >= BUILD20 THEN NonceOf(g, r) ELSE rl[g].nonce
           a == [rl[g] EXCEPT !.asked = TRUE, !.ver = r.ver, !.userName = r.name,
                              !.nonce = nonce]
           asked == [rl EXCEPT ![g] = a]
<1>1. /\ rl \in [Conn -> Client] /\ rl[g] \in Client /\ Born(client, g)
      /\ ClientsOK(rl) /\ Closes(client, rl)
    BY ReceivedProperties DEF Login, Handles
<1>2. /\ r.ver \in {BUILD19, BUILD20, BUILD21} /\ r.name \in Name /\ r.reg \in BOOLEAN
    BY RequestAssumption
<1>3. nonce \in Nonce
    BY <1>1, NonceOfType DEF Client
<1> DEFINE legacy == [asked EXCEPT ![g].permissions = UserPerm[r.name]]
           l == [a EXCEPT !.permissions = UserPerm[r.name]]
           challenged == [asked EXCEPT ![g].challenge = r.name]
           x == [a EXCEPT !.challenge = r.name]
<1>4. banned' = banned /\ LET as == [rl EXCEPT
            ![g].asked = TRUE, ![g].ver = r.ver, ![g].userName = r.name,
            ![g].nonce = nonce]
      IN  \/ client' = Disconnect(as, g) /\ UNCHANGED <<list, adding>>
          \/ /\ r.name \in Account
             /\ \/ /\ client' = [as EXCEPT ![g].challenge = r.name]
                   /\ UNCHANGED <<list, adding>>
                \/ FindReplaceCandidates([as EXCEPT ![g].permissions = UserPerm[r.name]],
                                         list, g, TRUE)
          \/ FindReplaceCandidates(as, list, g, FALSE)
    BY DEF Login
<1> HIDE DEF nonce, rl
<1>5. [rl EXCEPT ![g].asked = TRUE, ![g].ver = r.ver, ![g].userName = r.name,
                 ![g].nonce = nonce] = asked
    BY <1>1
<1>6. /\ a \in Client /\ a.up = rl[g].up /\ a.loop = rl[g].loop
      /\ a.state = rl[g].state /\ a.pending = rl[g].pending
    BY <1>1, <1>2, <1>3 DEF Client
<1> HIDE DEF a
<1>7. ClientsOK(asked) /\ Closes(rl, asked) /\ asked \in [Conn -> Client] /\ asked[g] = a
    BY <1>1, <1>6, FillIn, UpdateType
<1> HIDE DEF asked
<1>8. Closes(client, asked) /\ Born(asked, g)
    BY <1>1, <1>7, ClosesIsTransitive DEF Closes
<1>9. \/ client' = Disconnect(asked, g) /\ UNCHANGED <<list, adding>>
      \/ /\ r.name \in Account
         /\ client' = challenged /\ UNCHANGED <<list, adding>>
      \/ r.name \in Account /\ FindReplaceCandidates(legacy, list, g, TRUE)
      \/ FindReplaceCandidates(asked, list, g, FALSE)
    BY <1>4, <1>5
<1>10. CASE client' = Disconnect(asked, g) /\ UNCHANGED <<list, adding>>
    BY <1>1, <1>4, <1>7, <1>8, <1>10, RefusalStep
<1>11. CASE r.name \in Account /\ client' = challenged /\ UNCHANGED <<list, adding>>
    <2>1. /\ x \in Client /\ x.up = asked[g].up /\ x.loop = asked[g].loop
          /\ x.state = asked[g].state /\ x.pending = asked[g].pending
        BY <1>6, <1>7, <1>11 DEF Client
    <2>2. challenged = [asked EXCEPT ![g] = x]
        BY <1>7
    <2> HIDE DEF x
    <2>3. ClientsOK(challenged) /\ Closes(asked, challenged)
        BY <1>7, <2>1, <2>2, FillIn
    <2> QED  BY <1>4, <1>8, <1>11, <2>3, ClosesIsTransitive, LocalStep
<1>12. CASE r.name \in Account /\ FindReplaceCandidates(legacy, list, g, TRUE)
    <2>1. UserPerm[r.name] \in Perm
        BY <1>12, AccountAssumption
    <2>2. /\ l \in Client /\ l.up = asked[g].up /\ l.loop = asked[g].loop
          /\ l.state = asked[g].state /\ l.pending = asked[g].pending
        BY <1>6, <1>7, <2>1 DEF Client
    <2>3. legacy = [asked EXCEPT ![g] = l]
        BY <1>7
    <2> HIDE DEF l
    <2>4. ClientsOK(legacy) /\ Closes(asked, legacy)
        BY <1>7, <2>2, <2>3, FillIn
    <2> HIDE DEF legacy
    <2>5. Closes(client, legacy) /\ Born(legacy, g)
        BY <1>8, <2>4, ClosesIsTransitive DEF Closes
    <2>6. Results(legacy, list)
        BY <1>12, <2>4, <2>5, BornStay, FindReplaceCandidatesResult DEF IInv
    <2> QED  BY <1>4, <2>5, <2>6, ResultStep
<1>13. CASE FindReplaceCandidates(asked, list, g, FALSE)
    <2>1. Results(asked, list)
        BY <1>7, <1>8, <1>13, BornStay, FindReplaceCandidatesResult DEF IInv
    <2> QED  BY <1>4, <1>8, <2>1, ResultStep
<1> QED  BY <1>9, <1>10, <1>11, <1>12, <1>13

LEMMA CheckPwdStep ==
    ASSUME IInv, NEW g \in Conn, NEW n \in Name, CheckPwd(g, n)
    PROVE  StepOK
<1> DEFINE rl == Received(g)
           a == [rl[g] EXCEPT !.ver = BUILD21, !.userName = n]
           checking == [rl EXCEPT ![g] = a]
           x == [a EXCEPT !.challenge = n, !.state = "CHECK_PWD"]
           challenged == [checking EXCEPT ![g] = x]
<1>1. /\ rl \in [Conn -> Client] /\ rl[g] \in Client /\ Born(client, g)
      /\ ClientsOK(rl) /\ Closes(client, rl)
      /\ rl[g].loop = "running" /\ rl[g].state = client[g].state
    BY ReceivedProperties DEF CheckPwd, Handles, HasPacket, Selecting
<1>2. /\ UNCHANGED <<list, adding, banned>>
      /\ LET ch == [rl EXCEPT ![g].ver = BUILD21, ![g].userName = n]
         IN \/ n \in Account /\ client' = [ch EXCEPT ![g].challenge = n, ![g].state = "CHECK_PWD"]
            \/ client' = Disconnect(ch, g)
    BY DEF CheckPwd
<1> HIDE DEF rl
<1>3. [rl EXCEPT ![g].ver = BUILD21, ![g].userName = n] = checking
    BY <1>1
<1>4. /\ a \in Client /\ a.up = rl[g].up /\ a.loop = rl[g].loop
      /\ a.state = rl[g].state /\ a.pending = rl[g].pending
    BY <1>1 DEF Client
<1> HIDE DEF a
<1>5. ClientsOK(checking) /\ Closes(rl, checking)
      /\ checking \in [Conn -> Client] /\ checking[g] = a
    BY <1>1, <1>4, FillIn, UpdateType
<1> HIDE DEF checking
<1>6. Closes(client, checking) /\ Born(checking, g)
    BY <1>1, <1>5, ClosesIsTransitive DEF Closes
<1>7. \/ n \in Account /\ client' = challenged
      \/ client' = Disconnect(checking, g)
    BY <1>2, <1>3, <1>5
<1>8. CASE n \in Account /\ client' = challenged
    <2>1. /\ x \in Client /\ x.up = a.up /\ x.loop = a.loop
          /\ x.state = "CHECK_PWD" /\ x.pending = a.pending
        BY <1>4, <1>8 DEF Client
    <2> HIDE DEF x
    <2>2. /\ challenged \in [Conn -> Client] /\ challenged[g] = x
          /\ \A d \in Conn : d # g => challenged[d] = checking[d]
        BY <1>5, <2>1, UpdateType
    <2> HIDE DEF challenged
    <2>3. \A d \in Conn : checking[d].pending \in Conn \cup {Nil}
        BY <1>5 DEF Client
    <2>4. ClientsOK(challenged) /\ Closes(checking, challenged)
        BY <1>1, <1>4, <1>5, <2>1, <2>2, <2>3 DEF ClientsOK, Closes, Born
    <2> QED  BY <1>2, <1>6, <1>8, <2>4, ClosesIsTransitive, LocalStep
<1>9. CASE client' = Disconnect(checking, g)
    BY <1>1, <1>2, <1>5, <1>6, <1>9, RefusalStep
<1> QED  BY <1>7, <1>8, <1>9

LEMMA PwdChallengeStep ==
    ASSUME IInv, NEW g \in Conn, PwdChallenge(g)
    PROVE  StepOK
<1> DEFINE rl == Received(g)
           account == client[g].challenge
           a == [rl[g] EXCEPT !.challenge = Nil]
           answered == [rl EXCEPT ![g] = a]
           p == [a EXCEPT !.permissions = UserPerm[account],
                          !.nonce = Downgraded(account, account)]
           proven == [answered EXCEPT ![g] = p]
           h == [a EXCEPT !.state = "HANDSHAKE"]
           checked == [answered EXCEPT ![g] = h]
<1>1. /\ rl \in [Conn -> Client] /\ rl[g] \in Client /\ Born(client, g)
      /\ ClientsOK(rl) /\ Closes(client, rl) /\ rl[g].state = client[g].state
    BY ReceivedProperties DEF PwdChallenge, Handles
<1>2. /\ banned' = banned
      /\ LET an == [rl EXCEPT ![g].challenge = Nil]
         IN \/ /\ account \in Account
               /\ FindReplaceCandidates(
                     [an EXCEPT ![g].permissions = UserPerm[account],
                                ![g].nonce = Downgraded(account, account)], list, g, TRUE)
            \/ /\ client[g].state = "CHECK_PWD"
               /\ client' = [an EXCEPT ![g].state = "HANDSHAKE"]
               /\ UNCHANGED <<list, adding>>
            \/ client' = Disconnect(an, g) /\ UNCHANGED <<list, adding>>
    BY DEF PwdChallenge, Knows
<1> HIDE DEF rl, account
<1>3. [rl EXCEPT ![g].challenge = Nil] = answered
    BY <1>1
<1>4. /\ a \in Client /\ a.up = rl[g].up /\ a.loop = rl[g].loop
      /\ a.state = rl[g].state /\ a.pending = rl[g].pending
    BY <1>1 DEF Client
<1> HIDE DEF a
<1>5. ClientsOK(answered) /\ Closes(rl, answered)
      /\ answered \in [Conn -> Client] /\ answered[g] = a
    BY <1>1, <1>4, FillIn, UpdateType
<1> HIDE DEF answered
<1>6. Closes(client, answered) /\ Born(answered, g)
    BY <1>1, <1>5, ClosesIsTransitive DEF Closes
<1>7. [answered EXCEPT ![g].permissions = UserPerm[account],
                       ![g].nonce = Downgraded(account, account)] = proven
      /\ [answered EXCEPT ![g].state = "HANDSHAKE"] = checked
    BY <1>5
<1>8. CASE account \in Account /\ FindReplaceCandidates(proven, list, g, TRUE)
    <2>1. UserPerm[account] \in Perm /\ Downgraded(account, account) \in Nonce
        BY <1>8, AccountAssumption, DowngradedType
    <2>2. /\ p \in Client /\ p.up = answered[g].up /\ p.loop = answered[g].loop
          /\ p.state = answered[g].state /\ p.pending = answered[g].pending
        BY <1>4, <1>5, <2>1 DEF Client
    <2> HIDE DEF p
    <2>3. ClientsOK(proven) /\ Closes(answered, proven)
        BY <1>5, <2>2, FillIn
    <2> HIDE DEF proven
    <2>4. Closes(client, proven) /\ Born(proven, g)
        BY <1>6, <2>3, ClosesIsTransitive DEF Closes
    <2>5. Results(proven, list)
        BY <1>8, <2>3, <2>4, BornStay, FindReplaceCandidatesResult DEF IInv
    <2> QED  BY <1>2, <2>4, <2>5, ResultStep
<1>9. CASE /\ client[g].state = "CHECK_PWD"
           /\ client' = checked /\ UNCHANGED <<list, adding>>
    <2>1. /\ h \in Client /\ h.up = a.up /\ h.loop = a.loop
          /\ h.state = "HANDSHAKE" /\ h.pending = a.pending
        BY <1>4 DEF Client
    <2> HIDE DEF h
    <2>2. /\ checked \in [Conn -> Client] /\ checked[g] = h
          /\ \A d \in Conn : d # g => checked[d] = answered[d]
        BY <1>5, <2>1, UpdateType
    <2> HIDE DEF checked
    <2>3. \A d \in Conn : answered[d].pending \in Conn \cup {Nil}
        BY <1>5 DEF Client
    <2>4. ClientsOK(checked) /\ Closes(answered, checked)
        BY <1>4, <1>5, <2>1, <2>2, <2>3 DEF ClientsOK, Closes, Born
    <2> QED  BY <1>2, <1>6, <1>9, <2>4, ClosesIsTransitive, LocalStep
<1>10. CASE client' = Disconnect(answered, g) /\ UNCHANGED <<list, adding>>
    BY <1>1, <1>2, <1>5, <1>6, <1>10, RefusalStep
<1> QED  BY <1>2, <1>3, <1>7, <1>8, <1>9, <1>10

LEMMA ReloginStep ==
    ASSUME IInv, NEW g \in Conn, NEW r \in Request, Relogin(g, r)
    PROVE  StepOK
<1> DEFINE rl == Received(g)
           old == HasClient(client, list, r.name)
           call == [by |-> g, for |-> g, clears |-> FALSE]
           a == [rl[g] EXCEPT !.asked = TRUE]
           asked == [rl EXCEPT ![g] = a]
           i == [a EXCEPT !.ver = client[old].ver, !.permissions = client[old].permissions,
                          !.userName = client[old].userName, !.nonce = client[old].nonce]
           identified == [asked EXCEPT ![g] = i]
<1>1. /\ rl \in [Conn -> Client] /\ rl[g] \in Client /\ Born(client, g)
      /\ ClientsOK(rl) /\ Closes(client, rl)
      /\ \A d \in Conn : rl[d].up = client[d].up
    <2>1. HasPacket(g)
        BY DEF Relogin, Handles
    <2> QED  BY <2>1, ReceivedProperties
<1>2. /\ banned' = banned
      /\ LET as == [rl EXCEPT ![g].asked = TRUE]
             id == [as EXCEPT ![g].ver = client[old].ver,
                              ![g].permissions = client[old].permissions,
                              ![g].userName = client[old].userName,
                              ![g].nonce = client[old].nonce]
         IN \/ client' = Disconnect(as, g) /\ UNCHANGED <<list, adding>>
            \/ /\ old # Nil /\ client[old].state = "RECENTLY_DISCONNECTED"
               /\ SuccessfulRelogin(id, list, old, call)
            \/ /\ old # Nil
               /\ client' = [RestartPingLoop(id, old) EXCEPT ![old].pending = g]
               /\ UNCHANGED <<list, adding>>
    BY DEF Relogin
<1>3. old # Nil => old \in Conn
    BY HasClientProperties DEF IInv, ListOK
<1>4. client \in [Conn -> Client]
    BY DEF IInv, ClientsOK
<1>5. call \in Call /\ call.for = g
    BY DEF Call
<1> HIDE DEF rl, old, call
<1>6. [rl EXCEPT ![g].asked = TRUE] = asked
    BY <1>1
<1>7. /\ a \in Client /\ a.up = rl[g].up /\ a.loop = rl[g].loop
      /\ a.state = rl[g].state /\ a.pending = rl[g].pending
    BY <1>1 DEF Client
<1> HIDE DEF a
<1>8. /\ ClientsOK(asked) /\ Closes(rl, asked)
      /\ asked \in [Conn -> Client] /\ asked[g] = a
      /\ \A d \in Conn : asked[d].up = client[d].up
    BY <1>1, <1>7, FillIn, UpdateType
<1> HIDE DEF asked
<1>9. Closes(client, asked) /\ Born(asked, g)
    BY <1>1, <1>8, ClosesIsTransitive DEF Closes
<1>10. CASE client' = Disconnect(asked, g) /\ UNCHANGED <<list, adding>>
    BY <1>1, <1>2, <1>8, <1>9, <1>10, RefusalStep
<1>11. ASSUME old # Nil
       PROVE  /\ identified = [asked EXCEPT ![g].ver = client[old].ver,
                                            ![g].permissions = client[old].permissions,
                                            ![g].userName = client[old].userName,
                                            ![g].nonce = client[old].nonce]
              /\ InHand(identified, list, call) /\ Closes(client, identified)
              /\ \A d \in Conn : identified[d].up = client[d].up
    <2>1. client[old] \in Client
        BY <1>3, <1>4, <1>11
    <2>2. /\ i \in Client /\ i.up = asked[g].up /\ i.loop = asked[g].loop
          /\ i.state = asked[g].state /\ i.pending = asked[g].pending
        BY <1>7, <1>8, <2>1 DEF Client
    <2>3. identified = [asked EXCEPT ![g].ver = client[old].ver,
                                     ![g].permissions = client[old].permissions,
                                     ![g].userName = client[old].userName,
                                     ![g].nonce = client[old].nonce]
        BY <1>8
    <2> HIDE DEF i
    <2>4. /\ ClientsOK(identified) /\ Closes(asked, identified)
          /\ \A d \in Conn : identified[d].up = client[d].up
        BY <1>8, <2>2, FillIn, UpdateType
    <2> HIDE DEF identified
    <2>5. Closes(client, identified) /\ Born(identified, g)
        BY <1>9, <2>4, ClosesIsTransitive DEF Closes
    <2>6. InHand(identified, list, call)
        BY <1>5, <2>4, <2>5, BornStay DEF InHand, IInv
    <2> QED  BY <2>3, <2>4, <2>5, <2>6
<1> HIDE DEF identified
<1>12. CASE /\ old # Nil /\ client[old].state = "RECENTLY_DISCONNECTED"
            /\ SuccessfulRelogin(identified, list, old, call)
    <2>1. ~identified[old].up
        BY <1>3, <1>11, <1>12 DEF IInv, ClientsOK
    <2>2. Results(identified, list)
        BY <1>3, <1>11, <1>12, <2>1, SuccessfulReloginResult
    <2> QED  BY <1>2, <1>11, <1>12, <2>2, ResultStep
<1>13. CASE /\ old # Nil
            /\ client' = [RestartPingLoop(identified, old) EXCEPT ![old].pending = g]
            /\ UNCHANGED <<list, adding>>
    <2> DEFINE dl == [RestartPingLoop(identified, old) EXCEPT ![old].pending = call.for]
    <2>1. old \in Conn /\ InHand(identified, list, call) /\ Closes(client, identified)
        BY <1>3, <1>11, <1>13
    <2>2. client' = dl
        BY <1>5, <1>13
    <2>3. InHand(dl, list, call) /\ (Results(dl, list) => Results(identified, list))
        BY <2>1, AwaitResult
    <2> HIDE DEF dl
    <2>4. Results(dl, list)
        BY <2>2, <2>3, <1>13 DEF Results, InHand, Closes, Drops
    <2> QED  BY <1>2, <2>1, <2>3, <2>4, ResultStep
<1>14. \/ client' = Disconnect(asked, g) /\ UNCHANGED <<list, adding>>
       \/ /\ old # Nil /\ client[old].state = "RECENTLY_DISCONNECTED"
          /\ SuccessfulRelogin(identified, list, old, call)
       \/ /\ old # Nil
          /\ client' = [RestartPingLoop(identified, old) EXCEPT ![old].pending = g]
          /\ UNCHANGED <<list, adding>>
    BY <1>2, <1>6, <1>11
<1> QED  BY <1>10, <1>12, <1>13, <1>14

\* A client is disconnected and then removed.
LEMMA RemovalStep ==
    ASSUME IInv, NEW cl, ClientsOK(cl), Closes(client, cl), NEW c \in Conn, Born(client, c),
           client' = Disconnect(cl, c), list' = RemoveClient(list, c), UNCHANGED adding,
           banned' \subseteq Player
    PROVE  StepOK
<1>1. ClientsOK(client') /\ Closes(cl, client') /\ ~client'[c].up
    BY DisconnectProperties DEF Closes
<1>2. Closes(client, client')
    BY <1>1, ClosesIsTransitive
<1>3. ListOK(client', list') /\ Drops(client', list, list')
    BY <1>1, <1>2, RemoveClientProperties, BornStay DEF IInv, ListOK, Drops
<1>4. CallsOK(client', adding')
    BY <1>2, BornStay DEF IInv
<1> QED  BY <1>1, <1>3, <1>4 DEF StepOK, IInv

LEMMA DisconnectCmdStep ==
    ASSUME IInv, NEW g \in Conn, DisconnectCmd(g)
    PROVE  StepOK
<1>1. banned' \subseteq Player
    BY DEF IInv, DisconnectCmd
<1> QED  BY <1>1, ReceivedProperties, RemovalStep DEF DisconnectCmd, Handles

LEMMA KickStep ==
    ASSUME IInv, NEW g \in Conn, NEW t \in Conn, Kick(g, t)
    PROVE  StepOK
<1>1. banned' \subseteq Player
    BY PlayerAssumption DEF IInv, Kick
<1>2. Born(client, t)
    BY DEF Kick, Listed, IInv, ListOK
<1> QED  BY <1>1, <1>2, ReceivedProperties, RemovalStep DEF Kick, Handles

LEMMA BanExpiresStep ==
    ASSUME IInv, NEW p \in Player, BanExpires(p)
    PROVE  StepOK
BY DEF IInv, StepOK, BanExpires, Drops, ClientsOK, ListOK, CallsOK, Born

LEMMA FinishLoginStep ==
    ASSUME IInv, NEW call \in adding, FinishLogin(call)
    PROVE  StepOK
<1> DEFINE c == call.for
           r == [client[c] EXCEPT !.state = "CONNECTED", !.candidates = Nil]
           dl == [client EXCEPT ![c] = r]
<1>1. call \in Call /\ c \in Conn /\ Born(client, c) /\ ClientsOK(client)
    BY DEF IInv, CallsOK, Call
<1>2. client \in [Conn -> Client] /\ client[c] \in Client
    BY <1>1 DEF ClientsOK
<1>3. client' = Return([client EXCEPT ![c].state = "CONNECTED", ![c].candidates = Nil], call)
    BY DEF FinishLogin
<1> HIDE DEF c
<1>4. [client EXCEPT ![c].state = "CONNECTED", ![c].candidates = Nil] = dl
    BY <1>2
<1>5. /\ r \in Client /\ r.state = "CONNECTED" /\ r.up = client[c].up
      /\ r.loop = client[c].loop /\ r.pending = client[c].pending
    BY <1>2 DEF Client
<1> HIDE DEF r
<1>6. dl \in [Conn -> Client] /\ dl[c] = r /\ \A d \in Conn : d # c => dl[d] = client[d]
    BY <1>1, <1>2, <1>5, UpdateType
<1> HIDE DEF dl
<1>7. \A d \in Conn : client[d].pending \in Conn \cup {Nil}
    BY <1>2 DEF Client
<1>8. ClientsOK(dl) /\ Closes(client, dl)
    BY <1>1, <1>5, <1>6, <1>7 DEF ClientsOK, Closes, Born
<1>9. ClientsOK(client') /\ Closes(client, client')
    BY <1>1, <1>3, <1>4, <1>8, ReturnProperties, ClosesIsTransitive
<1>10. ListOK(client', list) /\ CallsOK(client', adding) /\ Born(client', c)
    BY <1>1, <1>9, BornStay DEF IInv, Closes
<1>11. /\ list \in Seq(Conn) /\ Len(list) \in Nat /\ DOMAIN list = 1..Len(list)
       /\ list' = Append(list, c) /\ list' \in Seq(Conn)
       /\ DOMAIN list' = 1..(Len(list) + 1)
       /\ \A i \in 1..Len(list) : list'[i] = list[i]
       /\ list'[Len(list) + 1] = c
    <2>1. list \in Seq(Conn) /\ list' = Append(list, c)
        BY DEF IInv, ListOK, FinishLogin, c
    <2>2. Len(list) \in Nat /\ DOMAIN list = 1..Len(list)
        BY <2>1, LenProperties
    <2>3. /\ list' \in Seq(Conn) /\ Len(list') = Len(list) + 1
          /\ \A i \in 1..Len(list) : list'[i] = list[i]
          /\ list'[Len(list) + 1] = c
        BY <1>1, <2>1, AppendProperties
    <2>4. DOMAIN list' = 1..(Len(list) + 1)
        BY <2>3, LenProperties
    <2> QED  BY <2>1, <2>2, <2>3, <2>4
<1>12. ToSet(list') \subseteq ToSet(list) \cup {c} /\ ToSet(list) \subseteq ToSet(list')
    BY <1>11 DEF ToSet
<1>13. ListOK(client', list') /\ Drops(client', list, list')
    BY <1>10, <1>11, <1>12 DEF ListOK, Drops
<1>14. CallsOK(client', adding') /\ banned' \subseteq Player
    BY <1>10 DEF CallsOK, FinishLogin, IInv
<1> QED  BY <1>9, <1>13, <1>14 DEF StepOK, IInv

LEMMA FailedPongStep ==
    ASSUME IInv, NEW cl, ClientsOK(cl), Closes(client, cl), NEW g \in Conn,
           Born(client, g),
           \A d \in Conn : /\ cl[d].pending = client[d].pending
                           /\ cl[d].candidates = client[d].candidates
                           /\ cl[d].userName = client[d].userName
                           /\ cl[d].state = client[d].state,
           FailedPong(cl, g), banned' = banned
    PROVE  StepOK
<1> DEFINE dl == Disconnect(cl, g)
           w == [dl[g] EXCEPT !.waiting = FALSE]
           gone == [dl EXCEPT ![g] = w]
           c == client[g].pending
           call == [by |-> g, for |-> c, clears |-> FALSE]
           n == client[g].userName
           u == [gone[c] EXCEPT !.userName = n]
           named == [gone EXCEPT ![c] = u]
<1>1. /\ ClientsOK(dl) /\ Closes(cl, dl) /\ ~dl[g].up
      /\ dl \in [Conn -> Client] /\ dl[g] \in Client
    BY DisconnectProperties DEF Closes, ClientsOK
<1>2. /\ client \in [Conn -> Client] /\ c \in Conn \cup {Nil} /\ n \in Name
      /\ c # Nil => Born(client, c)
    BY DEF IInv, ClientsOK, Client
<1>3. c # Nil => call \in Call /\ call.for = c
    BY <1>2 DEF Call
<1>4. LET go == [dl EXCEPT ![g].waiting = FALSE]
      IN \/ client' = go /\ UNCHANGED <<list, adding>>
         \/ c # Nil /\ SuccessfulRelogin(go, list, g, call)
         \/ /\ c # Nil
            /\ LoginDone([go EXCEPT ![c].userName = n], RemoveClient(list, g), call)
    BY DEF FailedPong
<1> HIDE DEF dl, c, call, n
<1>5. [dl EXCEPT ![g].waiting = FALSE] = gone
    BY <1>1
<1>6. /\ w \in Client /\ w.up = dl[g].up /\ w.loop = dl[g].loop
      /\ w.state = dl[g].state /\ w.pending = dl[g].pending
    BY <1>1 DEF Client
<1> HIDE DEF w
<1>7. /\ gone \in [Conn -> Client] /\ gone[g] = w /\ ClientsOK(gone) /\ Closes(dl, gone)
    BY <1>1, <1>6, FillIn, UpdateType
<1> HIDE DEF gone
<1>8. Closes(client, gone) /\ ~gone[g].up
    BY <1>1, <1>6, <1>7, ClosesIsTransitive
<1>9. CASE client' = gone /\ UNCHANGED <<list, adding>>
    BY <1>7, <1>8, <1>9, LocalStep
<1>10. ASSUME c # Nil
       PROVE  InHand(gone, list, call)
    <2>1. Born(gone, c)
        BY <1>2, <1>8, <1>10 DEF Closes
    <2> QED  BY <1>3, <1>7, <1>8, <1>10, <2>1, BornStay DEF InHand, IInv
<1>11. CASE c # Nil /\ SuccessfulRelogin(gone, list, g, call)
    BY <1>8, <1>10, <1>11, SuccessfulReloginResult, ResultStep
<1>12. CASE /\ c # Nil
            /\ LoginDone([gone EXCEPT ![c].userName = n], RemoveClient(list, g), call)
    <2>1. c \in Conn /\ gone[c] \in Client
        BY <1>2, <1>7, <1>12
    <2>2. named = [gone EXCEPT ![c].userName = n]
        BY <1>7, <2>1
    <2>3. /\ u \in Client /\ u.up = gone[c].up /\ u.loop = gone[c].loop
          /\ u.state = gone[c].state /\ u.pending = gone[c].pending
        BY <1>2, <2>1 DEF Client
    <2> HIDE DEF u
    <2>4. InHand(named, list, call) /\ (Results(named, list) => Results(gone, list))
        BY <1>10, <1>12, <2>1, <2>3, FillInResult
    <2>5. ~named[g].up
        BY <1>7, <1>8, <2>1, <2>3, UpdateType
    <2> HIDE DEF named
    <2>6. Results(named, RemoveClient(list, g))
        BY <1>12, <2>2, <2>4, <2>5, RemoveResult, LoginDoneResult
    <2>7. Results(gone, list)
        BY <2>4, <2>5, <2>6, RemoveResult
    <2> QED  BY <1>8, <2>7, ResultStep
<1>13. \/ client' = gone /\ UNCHANGED <<list, adding>>
       \/ c # Nil /\ SuccessfulRelogin(gone, list, g, call)
       \/ /\ c # Nil
          /\ LoginDone([gone EXCEPT ![c].userName = n], RemoveClient(list, g), call)
    BY <1>4, <1>5
<1> QED  BY <1>9, <1>11, <1>12, <1>13

LEMMA PingTimerStep ==
    ASSUME IInv, NEW g \in Conn, PingTimer(g)
    PROVE  StepOK
<1>1. CASE client' = RestartPingLoop(client, g) /\ UNCHANGED <<list, adding, banned>>
    BY <1>1, RestartPingLoopProperties, SameLife, LocalStep DEF IInv
<1>2. CASE FailedPong(client, g) /\ banned' = banned
    <2>1. ClientsOK(client) /\ Closes(client, client) /\ Born(client, g)
        BY DEF IInv, Closes, PingTimer, Selecting, Born
    <2> QED  BY <1>2, <2>1, FailedPongStep
<1> QED  BY <1>1, <1>2 DEF PingTimer

LEMMA TimeoutStep ==
    ASSUME IInv, NEW g \in Conn, Timeout(g)
    PROVE  StepOK
<1>1. ClientsOK(client) /\ Born(client, g) /\ Closes(client, client)
    BY DEF IInv, Timeout, Selecting, Born, Closes
<1> QED  BY <1>1, RefusalStep DEF Timeout

\* A connection that is closed, and a goroutine that ends.
LEMMA EndOfLife ==
    ASSUME IInv, NEW g \in Conn, NEW r \in Client, Born(client, g),
           r.state = client[g].state, r.pending = client[g].pending, ~r.up,
           r.loop # "unborn"
    PROVE  /\ ClientsOK([client EXCEPT ![g] = r])
           /\ Closes(client, [client EXCEPT ![g] = r])
<1> DEFINE dl == [client EXCEPT ![g] = r]
<1>1. /\ dl \in [Conn -> Client] /\ dl[g] = r
      /\ \A d \in Conn : d # g => dl[d] = client[d]
    BY UpdateType DEF IInv, ClientsOK
<1>2. \A d \in Conn : client[d].pending \in Conn \cup {Nil}
    BY DEF IInv, ClientsOK, Client
<1> HIDE DEF dl
<1>3. ClientsOK(dl) /\ Closes(client, dl)
    BY <1>1, <1>2 DEF IInv, ClientsOK, Closes, Born
<1> QED  BY <1>3 DEF dl

LEMMA PeerClosesStep ==
    ASSUME IInv, NEW g \in Conn, PeerCloses(g)
    PROVE  StepOK
<1> DEFINE r == [client[g] EXCEPT !.up = FALSE]
<1>1. client \in [Conn -> Client] /\ client[g] \in Client /\ client[g].up
    BY DEF IInv, ClientsOK, PeerCloses
<1>2. client' = [client EXCEPT ![g] = r] /\ UNCHANGED <<list, adding, banned>>
    BY <1>1 DEF PeerCloses
<1>3. /\ r \in Client /\ r.state = client[g].state /\ r.pending = client[g].pending
      /\ ~r.up /\ r.loop = client[g].loop
    BY <1>1 DEF Client
<1> HIDE DEF r
<1>4. CASE Born(client, g)
    BY <1>2, <1>3, <1>4, EndOfLife, LocalStep DEF Born
<1>5. CASE ~Born(client, g)
    <2>1. /\ client' \in [Conn -> Client] /\ client'[g] = r
          /\ \A d \in Conn : d # g => client'[d] = client[d]
        BY <1>1, <1>2, <1>3, UpdateType
    <2>2. \A d \in Conn : client[d].pending \in Conn \cup {Nil}
        BY <1>1 DEF Client
    <2>3. ClientsOK(client') /\ Closes(client, client')
        BY <1>3, <2>1, <2>2 DEF IInv, ClientsOK, Closes, Born
    <2> QED  BY <1>2, <2>3, LocalStep
<1> QED  BY <1>4, <1>5

LEMMA EofStep ==
    ASSUME IInv, NEW g \in Conn, Eof(g)
    PROVE  StepOK
<1> DEFINE r == [client[g] EXCEPT !.loop = "returned"]
           returned == [client EXCEPT ![g] = r]
<1>1. /\ client \in [Conn -> Client] /\ client[g] \in Client
      /\ Born(client, g) /\ ~client[g].up /\ banned' = banned
    BY DEF IInv, ClientsOK, Eof, Selecting, Born
<1>2. returned = [client EXCEPT ![g].loop = "returned"]
    BY <1>1
<1>3. /\ r \in Client /\ r.state = client[g].state /\ r.pending = client[g].pending
      /\ ~r.up /\ r.loop # "unborn"
      /\ r.candidates = client[g].candidates /\ r.userName = client[g].userName
    BY <1>1 DEF Client
<1> HIDE DEF r
<1>4. ClientsOK(returned) /\ Closes(client, returned)
    BY <1>1, <1>3, EndOfLife
<1>5. \A d \in Conn : /\ returned[d].pending = client[d].pending
                      /\ returned[d].candidates = client[d].candidates
                      /\ returned[d].userName = client[d].userName
                      /\ returned[d].state = client[d].state
    BY <1>1, <1>3, UpdateType
<1>6. \/ client' = returned /\ UNCHANGED <<list, adding>>
      \/ FailedPong(returned, g)
    BY <1>2 DEF Eof
<1> HIDE DEF returned
<1>7. CASE client' = returned /\ UNCHANGED <<list, adding>>
    BY <1>1, <1>4, <1>7, LocalStep
<1>8. CASE FailedPong(returned, g)
    BY <1>1, <1>4, <1>5, <1>8, FailedPongStep
<1> QED  BY <1>6, <1>7, <1>8

LEMMA ForgetStep ==
    ASSUME IInv, NEW g \in Conn, Forget(g)
    PROVE  StepOK
<1> DEFINE r == [client[g] EXCEPT !.loop = "forgotten"]
<1>1. /\ client \in [Conn -> Client] /\ client[g] \in Client
      /\ Born(client, g) /\ ~client[g].up
    BY DEF IInv, ClientsOK, Forget, Born
<1>2. client' = [client EXCEPT ![g] = r]
    BY <1>1 DEF Forget
<1>3. /\ r \in Client /\ r.state = client[g].state /\ r.pending = client[g].pending
      /\ ~r.up /\ r.loop # "unborn"
    BY <1>1 DEF Client
<1> HIDE DEF r
<1>4. ClientsOK(client') /\ Closes(client, client')
    BY <1>1, <1>2, <1>3, EndOfLife
<1>5. ~client'[g].up
    BY <1>1, <1>4 DEF Closes
<1>6. CASE list' = list
    BY <1>4, <1>6, LocalStep DEF Forget
<1>7. CASE list' = RemoveClient(list, g)
    <2>1. ListOK(client', list') /\ Drops(client', list, list')
        BY <1>4, <1>5, <1>7, RemoveClientProperties, BornStay DEF IInv, ListOK, Drops
    <2>2. CallsOK(client', adding') /\ banned' \subseteq Player
        BY <1>4, BornStay DEF IInv, Forget
    <2> QED  BY <1>4, <2>1, <2>2 DEF StepOK, IInv
<1> QED  BY <1>6, <1>7 DEF Forget

LEMMA WeeklyCleanupStep ==
    ASSUME IInv, NEW g \in Conn, WeeklyCleanup(g)
    PROVE  StepOK
<1>1. ClientsOK(client) /\ Born(client, g) /\ Closes(client, client)
    BY DEF IInv, WeeklyCleanup, Born, Closes
<1> QED  BY <1>1, RefusalStep DEF WeeklyCleanup

-----------------------------------------------------------------------------
(* The theorems. *)

LEMMA InitIInv == Init => IInv
<1> SUFFICES ASSUME Init  PROVE IInv
    OBVIOUS
<1>1. NewClient \in Client
    <2>1. <<>> \in Name /\ <<"none">> \in Nonce
        BY DEF Name, Nonce
    <2>2. 0 \in 0..MaxLate
        BY BoundAssumption
    <2> QED  BY <2>1, <2>2 DEF NewClient, Client, Perm
<1>2. ClientsOK(client)
    BY <1>1 DEF Init, ClientsOK, NewClient
<1>3. ListOK(client, list)
    BY DEF Init, ListOK, ToSet
<1>4. CallsOK(client, adding) /\ banned \subseteq Player
    BY DEF Init, CallsOK
<1> QED  BY <1>2, <1>3, <1>4 DEF IInv

\* Every step of every goroutine preserves the invariant, and drops from the
\* list only clients whose connection is closed.
LEMMA EveryStep == IInv /\ [Next]_vars => StepOK
<1> SUFFICES ASSUME IInv, [Next]_vars  PROVE StepOK
    OBVIOUS
<1>1. CASE UNCHANGED vars
    BY <1>1 DEF vars, IInv, StepOK, Drops, ClientsOK, ListOK, CallsOK, Born
<1>2. ASSUME NEW g \in Conn, NEW r \in Request, Login(g, r) \/ Relogin(g, r)
      PROVE  StepOK
    BY <1>2, LoginStep, ReloginStep
<1>3. ASSUME NEW g \in Conn, NEW n \in {r.name : r \in Request}, CheckPwd(g, n)
      PROVE  StepOK
    <2>1. n \in Name
        BY RequestAssumption
    <2> QED  BY <1>3, <2>1, CheckPwdStep
<1>4. ASSUME NEW g \in Conn, NEW t \in Conn, Kick(g, t)
      PROVE  StepOK
    BY <1>4, KickStep
<1>5. ASSUME NEW g \in Conn, \/ Accept(g) \/ AnswerForPending(g) \/ Pong(g)
                             \/ CriticalError(g) \/ PwdChallenge(g) \/ DisconnectCmd(g)
      PROVE  StepOK
    BY <1>5, AcceptStep, AnswerForPendingStep, PongStep, CriticalErrorStep,
       PwdChallengeStep, DisconnectCmdStep
<1>6. ASSUME NEW g \in Conn, \/ PingTimer(g) \/ Timeout(g) \/ PeerCloses(g) \/ Eof(g)
                             \/ Forget(g) \/ WeeklyCleanup(g)
      PROVE  StepOK
    BY <1>6, PingTimerStep, TimeoutStep, PeerClosesStep, EofStep, ForgetStep,
       WeeklyCleanupStep
<1>7. ASSUME NEW call \in adding, FinishLogin(call)
      PROVE  StepOK
    BY <1>7, FinishLoginStep
<1>8. ASSUME NEW p \in Player, BanExpires(p)
      PROVE  StepOK
    BY <1>8, BanExpiresStep
<1> QED  BY <1>1, <1>2, <1>3, <1>4, <1>5, <1>6, <1>7, <1>8 DEF Next

LEMMA SpecIInv == Spec => []IInv
<1>1. IInv /\ [Next]_vars => IInv'
    BY EveryStep DEF StepOK
<1> QED  BY InitIInv, <1>1, PTL DEF Spec

\* Every field of the registry has its type, whatever the goroutines interleave.
THEOREM TypeCorrect == Spec => []TypeOK
<1>1. IInv => TypeOK
    BY DEF IInv, ClientsOK, ListOK, CallsOK, TypeOK
<1> QED  BY SpecIInv, <1>1, PTL

\* Whoever removes a client from the list (the peer, a superuser, a login that
\* replaces it, the timers), its connection is closed.
THEOREM OnlyTheDeadAreEvicted == Spec => EvictOnlyDead
<1> DEFINE A == \A c \in Conn : Listed(c) /\ ~Listed(c)' => ~client'[c].up
<1>1. IInv /\ [Next]_vars => [A]_vars
    BY EveryStep DEF StepOK, Drops, Listed
<1>2. []IInv /\ [][Next]_vars => [][A]_vars
    BY <1>1, PTL
<1> QED  BY SpecIInv, <1>2, PTL DEF Spec, EvictOnlyDead
=============================================================================
