-------------------------------- MODULE Lobby --------------------------------
(***************************************************************************)
(* The session registry of the metaserver: wlms/client.go together with    *)
(* the client list and the ban list of wlms/server.go.                     *)
(*                                                                         *)
(* Every connection has a goroutine (DealWithNewConnection) that selects   *)
(* between a packet, a timer and the end of the stream.  A LOGIN does more *)
(* than enter a name: the server looks for older connections of the same   *)
(* player (same nonce), pings the ones that may be alive, and lets the new *)
(* connection take over the name of one that is dead.  A login therefore   *)
(* waits in the field pendingLogin of another Client and is finished by    *)
(* that Client's goroutine.  Nothing is locked.                            *)
(*                                                                         *)
(* A step is what one goroutine does between two points where it waits.    *)
(* One handler is split: the packets loginDone and successfulRelogin write *)
(* before they call AddClient let other goroutines run between the check   *)
(* of the name and the insertion into the list (see `adding').             *)
(*                                                                         *)
(* Operators named after a function of the code take the values the        *)
(* clients and the list have when the function is called (cl, ls).         *)
(*                                                                         *)
(* A definition commented as a mutant is no part of the model: it is the   *)
(* definition after it with a plausible mistake, and shows that a property *)
(* notices the mistake.                                                    *)
(***************************************************************************)
EXTENDS Integers, Sequences, FiniteSets, SequencesExt

CONSTANTS
    Conn,       \* connections, one Client object and one goroutine each
    Player,     \* the people (and IP addresses) behind the connections
    Peer,       \* Peer[c]: who opened connection c
    Word,       \* what names are made of, besides numbers
    Account,    \* the names registered in the user database
    Owner,      \* Owner[a]: the player who knows the password of account a
    UserPerm,   \* UserPerm[a]: the permissions of account a
    Request,    \* the LOGIN and RELOGIN packets players send
    Nil,        \* Go's nil
    MaxTries,   \* bound of the search for a free name (1000 in the code)
    MaxLate     \* bound on packets still buffered when a connection closes

BUILD19 == 0
BUILD20 == 5
BUILD21 == 6

\* "bert" is <<bert>>, "bert1" is <<bert, 1>>, the empty string is <<>>.
Name == Seq(Word \cup (1..MaxTries))
Numbered(n, i) == Append(n, i)

\* What a nonce says of who sent it; hashes and passwords never coincide.
Nonce == {<<"none">>, <<"unregistered">>}
            \cup ({"own"} \X Player)
            \cup ({"password"} \X Name)
            \cup ({"downgraded"} \X Name \X Name)

Downgraded(registered, assigned) ==
    IF registered \in Account THEN <<"downgraded", registered, assigned>>
                              ELSE <<"unregistered">>

Perm == {"UNREGISTERED", "REGISTERED", "SUPERUSER"}

ASSUME ConnAssumption == IsFiniteSet(Conn) /\ Nil \notin Conn \cup Seq(Conn)
ASSUME PlayerAssumption == Peer \in [Conn -> Player]
ASSUME BoundAssumption == MaxTries \in Nat \ {0} /\ MaxLate \in Nat
ASSUME AccountAssumption ==
    /\ Account \subseteq Name /\ Nil \notin Account
    /\ Owner \in [Account -> Player]
    /\ UserPerm \in [Account -> Perm \ {"UNREGISTERED"}]
\* `owns' is the account whose password the player keeps using to prove that a
\* downgraded session is his, and Nil for a player without an account.
ASSUME RequestAssumption ==
    Request \subseteq [ver : {BUILD19, BUILD20, BUILD21}, name : Name,
                       reg : BOOLEAN, owns : Account \cup {Nil}]

-----------------------------------------------------------------------------
VARIABLES
    client,     \* client[c]: the Client object of connection c
    list,       \* server.clients, without the IRC users
    adding,     \* goroutines between the check of a name and AddClient
    banned      \* players whose IP address is on server.banned

vars == <<client, list, adding, banned>>

\* `up' and `loop' are the connection and the goroutine; `late' counts packets
\* handled after the connection closed; `asked' and `challenge' are what the
\* peer has asked for and has been asked; `waiting' is waitingForPong while the
\* ping timer is armed.  The other fields carry the names of the code.
Client ==
    [state : {"HANDSHAKE", "CHECK_PWD", "CONNECTED", "RECENTLY_DISCONNECTED"},
     up : BOOLEAN,
     loop : {"unborn", "running", "returned", "forgotten"},
     userName : Name, nonce : Nonce, permissions : Perm,
     ver : {BUILD19, BUILD20, BUILD21},
     candidates : Seq(Conn) \cup {Nil},
     pending : Conn \cup {Nil},
     waiting : BOOLEAN,
     challenge : Account \cup {Nil},
     asked : BOOLEAN, late : 0..MaxLate]

\* The connections for whose players a goroutine may have a login in hand.
\* `clears' says whether it resets its own pendingLogin when the call returns.
Call == [by : Conn, for : Conn, clears : BOOLEAN]

NewClient ==
    [state |-> "HANDSHAKE", up |-> FALSE, loop |-> "unborn",
     userName |-> <<>>, nonce |-> <<"none">>, permissions |-> "UNREGISTERED",
     ver |-> BUILD19, candidates |-> Nil, pending |-> Nil, waiting |-> FALSE,
     challenge |-> Nil, asked |-> FALSE, late |-> 0]

Init ==
    /\ client = [c \in Conn |-> NewClient]
    /\ list = <<>>
    /\ adding = {}
    /\ banned = {}

-----------------------------------------------------------------------------
\* The client list.

FirstAt(ls, S) == {i \in DOMAIN ls : ls[i] \in S /\ \A j \in 1..(i - 1) : ls[j] \notin S}

\* The first client of that name, whatever its state.
HasClient(cl, ls, n) ==
    LET at == FirstAt(ls, {c \in Conn : cl[c].userName = n})
    IN  IF at = {} THEN Nil ELSE ls[CHOOSE i \in at : TRUE]

RemoveClient(ls, c) ==
    LET at == FirstAt(ls, {c})
    IN  IF at = {} THEN ls ELSE RemoveAt(ls, CHOOSE i \in at : TRUE)

Listed(c) == c \in ToSet(list)

\* Mutant: the nonce is not compared.
SameNonceOrNot(cl, ls, nonce) == {i \in DOMAIN ls : cl[ls[i]].pending = Nil}

\* The positions of the clients with that nonce that no login waits for; of
\* those that also have the wanted name only the last one is kept.
SameNonce(cl, ls, nonce) ==
    {i \in DOMAIN ls : cl[ls[i]].pending = Nil /\ cl[ls[i]].nonce = nonce}

ReplaceableAt(cl, ls, nonce, n) ==
    {i \in SameNonce(cl, ls, nonce) :
        cl[ls[i]].userName = n =>
            \A j \in SameNonce(cl, ls, nonce) : cl[ls[j]].userName = n => j <= i}

\* The order of the result: the wanted name first, then the disconnected
\* clients (each was pushed to the front), then the others as listed.
Precedes(cl, ls, n, i, j) ==
    LET best(k) == cl[ls[k]].userName = n
        dead(k) == cl[ls[k]].state = "RECENTLY_DISCONNECTED"
    IN  \/ best(i)
        \/ ~best(j) /\ dead(i) /\ (dead(j) => j < i)
        \/ ~best(j) /\ ~dead(i) /\ ~dead(j) /\ i < j

FindClientsToReplace(cl, ls, nonce, n) ==
    LET S == ReplaceableAt(cl, ls, nonce, n)
        Orders == {q \in [1..Cardinality(S) -> S] :
                      \A a, b \in 1..Cardinality(S) :
                          a < b => q[a] # q[b] /\ Precedes(cl, ls, n, q[a], q[b])}
    IN  {[k \in 1..Cardinality(S) |-> ls[q[k]]] : q \in Orders}

-----------------------------------------------------------------------------
\* The steps of a login.  `call' is the goroutine that runs them and the client
\* it runs them for.

\* Mutant: the connection is not closed.
DisconnectKeepsOpen(cl, c) == [cl EXCEPT ![c].state = "RECENTLY_DISCONNECTED"]

Disconnect(cl, c) ==
    [cl EXCEPT ![c].up = FALSE, ![c].state = "RECENTLY_DISCONNECTED"]

\* Mutant: pendingLogin is never reset.
ReturnKeepsPending(cl, call) == cl

\* pendingLogin is reset when the call returns.
Return(cl, call) ==
    IF call.clears THEN [cl EXCEPT ![call.by].pending = Nil] ELSE cl

Abort(cl, ls, call) ==
    /\ client' = Return(Disconnect(cl, call.for), call)
    /\ list' = ls
    /\ UNCHANGED adding

EnterWindow(cl, ls, call) ==
    /\ client' = cl
    /\ list' = ls
    /\ adding' = adding \cup {call}

\* Mutant: a client that is disconnected is entered.
LoginDoneAnyhow(cl, ls, call) == EnterWindow(cl, ls, call)

LoginDone(cl, ls, call) ==
    IF cl[call.for].state = "HANDSHAKE" THEN EnterWindow(cl, ls, call)
                                        ELSE Abort(cl, ls, call)

SuccessfulRelogin(cl, ls, old, call) == EnterWindow(cl, RemoveClient(ls, old), call)

FindUnconnectedName(cl, ls, call) ==
    LET c == call.for
        me == cl[c]
        tried(i) == Numbered(me.userName, i)
        free(i) == tried(i) \notin Account /\ HasClient(cl, ls, tried(i)) = Nil
        named(i) == [cl EXCEPT
            ![c].userName = tried(i),
            ![c].nonce = IF me.ver >= BUILD20 /\ me.permissions # "UNREGISTERED"
                         THEN Downgraded(me.userName, tried(i)) ELSE @,
            ![c].permissions = "UNREGISTERED"]
    IN  \/ \E i \in 1..MaxTries :
            /\ free(i) /\ \A j \in 1..(i - 1) : ~free(j)
            /\ LoginDone(named(i), ls, call)
        \/ /\ \A i \in 1..MaxTries : ~free(i)
           /\ Abort([cl EXCEPT ![c].userName = tried(MaxTries)], ls, call)

\* Mutant: the PING is not noted as owed.
RestartPingLoopOnly(cl, c) == cl

\* PING and a new deadline; a client that is not logged in gets no PING.
RestartPingLoop(cl, c) ==
    [cl EXCEPT ![c].waiting = @ \/ cl[c].state = "CONNECTED"]

\* Candidates that already have a login waiting are skipped.  Looking at a
\* candidate of another name costs a registered user his permissions.
CheckCandidates(cl, ls, call) ==
    LET c == call.for
        q == cl[c].candidates
        open == {k \in DOMAIN q : cl[q[k]].pending = Nil}
        isFirst(k) == k \in open /\ \A j \in open : k <= j
        foreign(k) == cl[q[k]].userName # cl[c].userName
        \* c after it has looked at the candidates 1..k
        seen(k) ==
            LET F == {j \in 1..k : foreign(j) /\ \A i \in 1..(j - 1) : ~foreign(i)}
            IN  IF F = {} \/ cl[c].permissions = "UNREGISTERED" THEN cl ELSE
                  [cl EXCEPT
                    ![c].nonce = Downgraded(cl[c].userName,
                                            cl[q[CHOOSE j \in F : TRUE]].userName),
                    ![c].permissions = "UNREGISTERED"]
        popped(k) == [seen(k) EXCEPT ![c].candidates = SubSeq(q, k + 1, Len(q))]
    IN  IF cl[c].state # "HANDSHAKE" THEN Abort(cl, ls, call) ELSE
        \/ /\ open = {}
           /\ FindUnconnectedName([seen(Len(q)) EXCEPT ![c].candidates = <<>>], ls, call)
        \/ \E k \in DOMAIN q :
            /\ isFirst(k)
            /\ IF cl[q[k]].state = "RECENTLY_DISCONNECTED"
               THEN LoginDone([popped(k) EXCEPT ![c].userName = cl[q[k]].userName],
                              RemoveClient(ls, q[k]), call)
               ELSE /\ client' = Return([RestartPingLoop(popped(k), q[k])
                                        EXCEPT ![q[k]].pending = c], call)
                    /\ UNCHANGED adding
                    /\ list' = ls

\* Mutant: names of accounts are given away.
NameIsFreeUnlessRegistered(cl, ls, n, registered) == HasClient(cl, ls, n) = Nil

\* Nobody has the name and nobody else owns it.
NameIsFree(cl, ls, n, registered) ==
    HasClient(cl, ls, n) = Nil /\ (registered \/ n \notin Account)

FindReplaceCandidates(cl, ls, c, registered) ==
    LET call == [by |-> c, for |-> c, clears |-> FALSE]
        n == cl[c].userName
    IN  \E found \in FindClientsToReplace(cl, ls, cl[c].nonce, n) :
            LET searched == [cl EXCEPT ![c].candidates = found]
                isFree == NameIsFree(cl, ls, n, registered)
            IN  \/ /\ found # <<>>
                   /\ CheckCandidates(searched, ls, call)
                \/ /\ found = <<>> /\ isFree
                   /\ LoginDone(searched, ls, call)
                \/ /\ found = <<>> /\ ~isFree
                   /\ FindUnconnectedName(searched, ls, call)

-----------------------------------------------------------------------------
\* The select loop of a connection's goroutine.

Idle(g) == \A call \in adding : call.by # g
Selecting(g) == client[g].loop = "running" /\ Idle(g)

Accept(g) ==
    /\ client[g].loop = "unborn"
    /\ client' = [client EXCEPT ![g].loop = "running", ![g].up = TRUE]
    /\ UNCHANGED <<list, adding, banned>>

\* Some packet is there: sent by the peer, or buffered before the close.
HasPacket(g) == Selecting(g) /\ (client[g].up \/ client[g].late < MaxLate)

Received(g) ==
    [client EXCEPT ![g].waiting = FALSE,
                   ![g].late = IF client[g].up THEN @ ELSE @ + 1]

\* Before its command a packet answers for the login that waits for g: the
\* old connection is alive.  The commands below start with no login waiting.
AnswerForPending(g) ==
    /\ HasPacket(g) /\ client[g].pending # Nil
    /\ LET call == [by |-> g, for |-> client[g].pending, clears |-> TRUE]
       IN  IF client[call.for].candidates = Nil
           THEN Abort(Received(g), list, call)
           ELSE CheckCandidates(Received(g), list, call)
    /\ UNCHANGED banned

Handles(g) == HasPacket(g) /\ client[g].pending = Nil

\* PONG, and every command that leaves the registry alone.
Pong(g) ==
    /\ Handles(g)
    /\ client' = Received(g)
    /\ UNCHANGED <<list, adding, banned>>

\* A critical error or an unknown command: the client stays listed.
CriticalError(g) ==
    /\ Handles(g)
    /\ client' = Disconnect(Received(g), g)
    /\ UNCHANGED <<list, adding, banned>>

Knows(g, account) == account \in Account /\ Owner[account] = Peer[g]

\* The nonce in the packet.  BUILD19 sends its password when registered (a wrong
\* one is nobody's) and no nonce otherwise; the nonce of a newer client is his
\* own, or the one his password gives for a session that was downgraded.
NonceOf(g, r) ==
    IF r.ver < BUILD20
    THEN IF ~r.reg THEN <<"none">>
         ELSE IF Knows(g, r.name) THEN <<"password", r.name>> ELSE <<"own", Peer[g]>>
    ELSE IF r.owns = Nil THEN <<"own", Peer[g]>> ELSE Downgraded(r.owns, r.name)

MaySend(g, r) == ~client[g].asked /\ (r.owns # Nil => Knows(g, r.owns))

\* A peer logs in once on a connection.
Login(g, r) ==
    LET asked == [Received(g) EXCEPT
            ![g].asked = TRUE, ![g].ver = r.ver, ![g].userName = r.name,
            ![g].nonce = IF r.reg \/ r.ver >= BUILD20 THEN NonceOf(g, r) ELSE @]
        legacy == [asked EXCEPT ![g].permissions = UserPerm[r.name]]
        refused == \/ Peer[g] \in banned
                   \/ r.reg /\ r.name \notin Account
                   \/ r.reg /\ r.ver < BUILD20 /\ ~Knows(g, r.name)
    IN  /\ Handles(g) /\ MaySend(g, r)
        /\ IF refused
           THEN client' = Disconnect(asked, g) /\ UNCHANGED <<list, adding>>
           ELSE \/ /\ r.reg /\ r.ver >= BUILD20
                   /\ client' = [asked EXCEPT ![g].challenge = r.name]
                   /\ UNCHANGED <<list, adding>>
                \/ /\ r.reg /\ r.ver < BUILD20
                   /\ FindReplaceCandidates(legacy, list, g, TRUE)
                \/ /\ ~r.reg
                   /\ FindReplaceCandidates(asked, list, g, FALSE)
        /\ UNCHANGED banned

\* Mutant: the account is not looked up.
CheckPwdOfAnyone(g, n) ==
    /\ Handles(g) /\ ~client[g].asked /\ client[g].challenge = Nil
    /\ client' = [Received(g) EXCEPT ![g].ver = BUILD21, ![g].userName = n,
                                     ![g].challenge = n, ![g].state = "CHECK_PWD"]
    /\ UNCHANGED <<list, adding, banned>>

\* A BUILD21 client has his password verified without logging in.
CheckPwd(g, n) ==
    LET checking == [Received(g) EXCEPT ![g].ver = BUILD21, ![g].userName = n]
    IN  /\ Handles(g) /\ ~client[g].asked /\ client[g].challenge = Nil
        /\ client' = IF n \in Account
                     THEN [checking EXCEPT ![g].challenge = n, ![g].state = "CHECK_PWD"]
                     ELSE Disconnect(checking, g)
        /\ UNCHANGED <<list, adding, banned>>

\* A peer answers every challenge once.
PwdChallenge(g) ==
    LET account == client[g].challenge
        answered == [Received(g) EXCEPT ![g].challenge = Nil]
        proven == [answered EXCEPT
            ![g].permissions = UserPerm[account],
            ![g].nonce = Downgraded(account, account)]
    IN  /\ Handles(g) /\ account # Nil
        /\ \/ /\ Knows(g, account) /\ client[g].state = "HANDSHAKE"
              /\ FindReplaceCandidates(proven, list, g, TRUE)
           \/ /\ Knows(g, account) /\ client[g].state = "CHECK_PWD"
              /\ client' = [answered EXCEPT ![g].state = "HANDSHAKE"]
              /\ UNCHANGED <<list, adding>>
           \/ /\ ~(Knows(g, account) /\ client[g].state # "RECENTLY_DISCONNECTED")
              /\ client' = Disconnect(answered, g)
              /\ UNCHANGED <<list, adding>>
        /\ UNCHANGED banned

\* Mutant: the nonce is not compared.
InformationMatchesButNonce(old, r, nonce) == client[old].ver = r.ver

InformationMatches(old, r, nonce) ==
    client[old].ver = r.ver /\ client[old].nonce = nonce

\* Only legacy clients: name the session to continue.
Relogin(g, r) ==
    LET old == HasClient(client, list, r.name)
        asked == [Received(g) EXCEPT ![g].asked = TRUE]
        refused == \/ Peer[g] \in banned
                   \/ client[g].state # "HANDSHAKE"
                   \/ old = Nil
                   \/ ~InformationMatches(old, r, NonceOf(g, r))
        identified == [asked EXCEPT
            ![g].ver = client[old].ver,
            ![g].permissions = client[old].permissions,
            ![g].userName = client[old].userName,
            ![g].nonce = client[old].nonce]
    IN  /\ Handles(g) /\ MaySend(g, r) /\ r.ver < BUILD20
        /\ IF refused
           THEN client' = Disconnect(asked, g) /\ UNCHANGED <<list, adding>>
           ELSE IF client[old].state = "RECENTLY_DISCONNECTED"
           THEN SuccessfulRelogin(identified, list, old,
                                  [by |-> g, for |-> g, clears |-> FALSE])
           ELSE /\ client' = [RestartPingLoop(identified, old) EXCEPT ![old].pending = g]
                /\ UNCHANGED <<list, adding>>
        /\ UNCHANGED banned

\* DISCONNECT: the peer leaves for good.
DisconnectCmd(g) ==
    /\ Handles(g)
    /\ client' = Disconnect(Received(g), g)
    /\ list' = RemoveClient(list, g)
    /\ UNCHANGED <<adding, banned>>

\* CMD kick and CMD ban: a superuser throws out the client of some name.
Kick(g, t) ==
    /\ Handles(g) /\ client[g].permissions = "SUPERUSER"
    /\ Listed(t) /\ t = HasClient(client, list, client[t].userName)
    /\ client[t].permissions # "SUPERUSER"
    /\ client' = Disconnect(Received(g), t)
    /\ list' = RemoveClient(list, t)
    /\ banned' = banned \cup {Peer[t]}
    /\ UNCHANGED adding

BanExpires(p) ==
    /\ p \in banned
    /\ banned' = banned \ {p}
    /\ UNCHANGED <<client, list, adding>>

\* The sends are over: AddClient, CONNECTED, no candidates left.
FinishLogin(call) ==
    /\ call \in adding
    /\ adding' = adding \ {call}
    /\ list' = Append(list, call.for)
    /\ client' = Return([client EXCEPT ![call.for].state = "CONNECTED",
                                       ![call.for].candidates = Nil], call)
    /\ UNCHANGED banned

\* The connection of g is given up.  A login that waits for g takes over.
\* pendingLogin is not reset; the ping timer is not armed again.
FailedPong(cl, g) ==
    LET gone == [Disconnect(cl, g) EXCEPT ![g].waiting = FALSE]
        c == client[g].pending
        call == [by |-> g, for |-> c, clears |-> FALSE]
    IN  \/ /\ c = Nil
           /\ client' = gone /\ UNCHANGED <<list, adding>>
        \/ /\ c # Nil /\ client[c].candidates = Nil
           /\ SuccessfulRelogin(gone, list, g, call)
        \/ /\ c # Nil /\ client[c].candidates # Nil
           /\ LoginDone([gone EXCEPT ![c].userName = client[g].userName],
                        RemoveClient(list, g), call)

\* The ping timer fires: PING a client that owes no PONG, give up the others.
PingTimer(g) ==
    /\ Selecting(g)
    /\ \/ /\ ~client[g].waiting /\ client[g].state = "CONNECTED"
          /\ client' = RestartPingLoop(client, g)
          /\ UNCHANGED <<list, adding>>
       \/ /\ client[g].waiting
          /\ FailedPong(client, g)
    /\ UNCHANGED banned

\* Two minutes without a packet.  A client that is logged in fails its PONG
\* long before, and a login waits for a running goroutine only a ping cycle.
Timeout(g) ==
    /\ Selecting(g) /\ client[g].state \in {"HANDSHAKE", "CHECK_PWD"}
    /\ \A call \in adding : call.for # g
    /\ \A h \in Conn : client[h].pending = g => client[h].loop # "running"
    /\ client' = Disconnect(client, g)
    /\ UNCHANGED <<list, adding, banned>>

\* The peer or the network closes the connection.
PeerCloses(g) ==
    /\ client[g].up
    /\ client' = [client EXCEPT ![g].up = FALSE]
    /\ UNCHANGED <<list, adding, banned>>

\* Mutant: a connection already given up is given up again.
EofAlwaysFails(g) ==
    /\ Selecting(g) /\ ~client[g].up
    /\ FailedPong([client EXCEPT ![g].loop = "returned"], g)
    /\ UNCHANGED banned

\* The stream has ended: the goroutine returns, and the deferred timer starts.
Eof(g) ==
    /\ Selecting(g) /\ ~client[g].up
    /\ LET returned == [client EXCEPT ![g].loop = "returned"]
       IN  IF client[g].state = "RECENTLY_DISCONNECTED"
           THEN client' = returned /\ UNCHANGED <<list, adding>>
           ELSE FailedPong(returned, g)
    /\ UNCHANGED banned

\* Five minutes later the client is forgotten, if it is found by its name.
Forget(g) ==
    /\ client[g].loop = "returned" /\ Idle(g)
    /\ \A call \in adding : call.for # g
    /\ client' = [client EXCEPT ![g].loop = "forgotten"]
    /\ list' = IF HasClient(client, list, client[g].userName) = g
               THEN RemoveClient(list, g) ELSE list
    /\ UNCHANGED <<adding, banned>>

\* The weekly ticker of mainLoop: only a client nobody serves is that silent.
WeeklyCleanup(g) ==
    /\ client[g].loop = "forgotten" /\ Listed(g)
    /\ client' = Disconnect(client, g)
    /\ UNCHANGED <<list, adding, banned>>

Next ==
    \/ \E g \in Conn :
        \/ Accept(g) \/ AnswerForPending(g) \/ Pong(g) \/ CriticalError(g)
        \/ \E r \in Request : Login(g, r) \/ Relogin(g, r)
        \/ \E n \in {r.name : r \in Request} : CheckPwd(g, n)
        \/ PwdChallenge(g) \/ DisconnectCmd(g)
        \/ \E t \in Conn : Kick(g, t)
        \/ PingTimer(g) \/ Timeout(g) \/ PeerCloses(g) \/ Eof(g)
        \/ Forget(g) \/ WeeklyCleanup(g)
    \/ \E call \in adding : FinishLogin(call)
    \/ \E p \in Player : BanExpires(p)

Spec == Init /\ [][Next]_vars

\* The runtime schedules every goroutine and its timers fire: a ping cycle
\* ends, the end of a stream is noticed, a login in hand is finished.  Nothing
\* is assumed of the peers, and nothing of the two minute timer.
Fairness ==
    \A g \in Conn :
        /\ WF_vars(PingTimer(g))
        /\ WF_vars(Eof(g))
        /\ WF_vars(\E call \in adding : call.by = g /\ FinishLogin(call))

FairSpec == Spec /\ Fairness
-----------------------------------------------------------------------------
(* Properties *)

\* Every field has its type: the candidates of a login are connections, a login
\* waits for a connection, a name is a word with numbers after it.
TypeOK ==
    /\ client \in [Conn -> Client]
    /\ list \in Seq(Conn)
    /\ adding \subseteq Call
    /\ banned \subseteq Player

\* AddClient is called by several goroutines and checks nothing: whoever finishes
\* a login, and however often, a client is entered once (RemoveClient would
\* leave the second entry behind).
ListedOnce == \A i, j \in DOMAIN list : list[i] = list[j] => i = j

\* An account is never borrowed.  Names, nonces and permissions are copied,
\* dropped and recomputed while a login goes from candidate to candidate; a
\* listed client with the name of an account is its owner's, and permissions
\* are held only under the name they were granted to.
AccountIntegrity ==
    \A c \in Conn : Listed(c) =>
        LET n == client[c].userName IN
        /\ n \in Account => Owner[n] = Peer[c]
        /\ client[c].permissions # "UNREGISTERED" =>
              n \in Account /\ client[c].permissions = UserPerm[n]

\* A new connection only waits for, and only takes over, older connections of
\* the same player.  That is what the nonce is compared for: "Nonce is the same so
\* at least it is one connection of this player".  It cannot be said of BUILD19
\* clients without an account, who all have the empty nonce.
ReplaceOwnOnly ==
    \A c, d \in Conn :
        /\ client[c].nonce # <<"none">>
        /\ \/ client[d].pending = c
           \/ client[c].candidates # Nil /\ d \in ToSet(client[c].candidates)
        => Peer[c] = Peer[d]

\* While an open connection has a login waiting for it, that login is nobody
\* else's business: it is not finished, and it waits for one connection only.
WaitsForOne ==
    \A g, h \in Conn : LET c == client[g].pending IN
        client[g].up /\ c # Nil =>
            /\ client[c].state # "CONNECTED" /\ ~Listed(c)
            /\ client[h].up /\ client[h].pending = c => g = h

\* Whoever removes a client from the list, its connection is closed: a client
\* that is still served is never dropped from the lobby.
EvictOnlyDead ==
    [][\A c \in Conn : Listed(c) /\ ~Listed(c)' => ~client'[c].up]_vars

\* The login of c is decided, or was lost: nobody has it in hand, and a connection
\* that still has it in its pendingLogin will not finish it.
Over(c) ==
    /\ client[c].asked /\ client[c].challenge = Nil
    /\ \A call \in adding : call.for # c
    /\ \A g \in Conn : client[g].pending = c =>
          /\ client[g].state = "RECENTLY_DISCONNECTED" /\ ~client[g].waiting
          /\ client[c].candidates = Nil \/ client[c].state = "RECENTLY_DISCONNECTED"

\* The lobby keeps its promises to everybody in it: whichever goroutine finishes a
\* login, and with whatever is left of it in other clients, a connection is in the
\* lobby once, as who it came, and until it is closed.
InLobby == INSTANCE Presence WITH
    place <- [c \in Conn |-> IF Listed(c) THEN "inside" ELSE IF Over(c) THEN "gone" ELSE "outside"],
    name  <- [c \in Conn |-> IF Listed(c) THEN client[c].userName ELSE <<>>],
    rank  <- [c \in Conn |-> IF Listed(c) THEN client[c].permissions ELSE "UNREGISTERED"],
    open  <- [c \in Conn |-> client[c].up]
IsPresence == InLobby!Spec

\* A login that waits for a connection with a running goroutine is answered:
\* it enters the lobby, or is refused, however the older connections behave
\* and whichever of the candidates it is handed on to.  (A kick takes the
\* running goroutine away and leaves the login to its own timeout.)
LoginAnswered ==
    \A c \in Conn :
        (/\ client[c].state = "HANDSHAKE"
         /\ \E g \in Conn : client[g].pending = c /\ client[g].loop = "running")
        ~> client[c].state \in {"CONNECTED", "RECENTLY_DISCONNECTED"}

\* "This is guaranteed to be unique on the Server", says the comment of the
\* field userName.
UniqueNames ==
    \A c, d \in Conn : Listed(c) /\ Listed(d) /\ c # d =>
        client[c].userName # client[d].userName

\* Once a login has replaced an old connection, the old one has no say: a
\* packet of a connection that is gone never closes its successor.
SuccessorSurvives ==
    [][\A g \in Conn : LET c == client[g].pending IN
        AnswerForPending(g) /\ ~client[g].up /\ client[c].state = "CONNECTED"
            => client'[c].state = "CONNECTED"]_vars
=============================================================================
