-------------------------------- MODULE Relay --------------------------------
(***************************************************************************)
(* One game of the relay: wlnr/game.go and wlnr/client.go, with the parts  *)
(* of wlnr/server.go that create, find and remove the game.                *)
(*                                                                         *)
(* Every connection has four goroutines: one that deals with its first     *)
(* message and adds it to the game, one that reads it, one that pings it   *)
(* and one that writes to it.  Whoever has a message for a connection      *)
(* hands it to the writer over an unbuffered channel, and waits until the  *)
(* writer takes it.  So a goroutine that disconnects a client, or shuts    *)
(* the game down, waits again and again while the others go on; and the    *)
(* writer ends when it finds the connection closed, after which whoever    *)
(* has a message for it waits forever.  Nothing is locked.                 *)
(*                                                                         *)
(* todo[g] is what goroutine g has still to do, its call stack written as  *)
(* the sequence of the operations it is going to perform; the first one is *)
(* the one it performs next, or waits in.  An operator named after a       *)
(* function is what that function does when it is called in the present    *)
(* state: the operations up to where it looks at the state again.          *)
(*                                                                         *)
(* A definition commented as a mutant is no part of the model: it is the   *)
(* definition after it with a plausible mistake.                           *)
(***************************************************************************)
EXTENDS Integers, Sequences, FiniteSets, SequencesExt

CONSTANTS
    Conn,       \* connections, one Client object each
    Password,   \* connections whose peer knows the password of the host
    Pinged,     \* connections that last until their first ping is due
    Talking,    \* connections whose peer sends packets and asks for RTTs
    Timed,      \* the game lasts until its timer fires, 30 s
    Caller,     \* goroutines that carry out a RemoveGame of the metaserver
    Nil,        \* Go's nil
    IdLimit,    \* the first id that is not given away (250 in the code)
    IdMod       \* the number of values of an id (a uint8: 256)

ID_HOST == 1

ASSUME ConnAssumption ==
    /\ IsFiniteSet(Conn) /\ Nil \notin Conn \cup Caller
    /\ Password \subseteq Conn /\ Pinged \subseteq Conn /\ Talking \subseteq Conn
    /\ Timed \in BOOLEAN
ASSUME IdAssumption ==
    /\ IdLimit \in Nat /\ IdMod \in Nat
    /\ ID_HOST + 1 < IdLimit /\ IdLimit < IdMod

Id == 0..IdMod - 1

\* A message is its command and the id it speaks of, 0 where there is none.
\* PING, RTT responses and the packets of the host are all `data'.
Message == {"welcome", "disconnect", "data", "connectClient",
            "disconnectClient", "fromClient"} \X Id
Control == {"welcome", "connectClient", "disconnectClient"}
Ready == <<"ready", 0>>    \* a writer that waits for a message
Gone  == <<"gone", 0>>     \* a writer that has ended

Deal(c) == <<"deal", c>>
Read(c) == <<"read", c>>
PingLoop(c) == <<"ping", c>>
RPC(r)  == <<"rpc", r>>
Timer   == <<"timer", Nil>>
Goroutine == ({"deal", "read", "ping"} \X Conn) \cup ({"rpc"} \X Caller) \cup {Timer}

Operation ==
    [do : {"send"}, c : Conn, m : Message]
    \cup [do : {"hello", "read", "readHost", "ping", "close", "disconnect", "unlist"},
          c : Conn, m : {Ready}]
    \cup [do : {"call", "timer", "hostGone", "drain", "dropHost", "removeObject",
                "removeGame", "loop"},
          c : {Nil}, m : {Ready}]
Do(what, c) == [do |-> what, c |-> c, m |-> Ready]
Send(c, m)  == [do |-> "send", c |-> c, m |-> m]

-----------------------------------------------------------------------------
VARIABLES
    conn,           \* conn[c]: "none" before it is accepted, "open", or "nil"
    id,             \* id[c]: Client.id
    waitingForPong,
    writer,         \* writer[c]: what the writer goroutine holds, Ready or Gone
    wrote,          \* wrote[c]: control messages the writer has put on the wire
    host,           \* game.host
    clients,        \* game.clients
    nextClientId,
    shuttingDown,   \* game.currentlyShuttingDown
    listed,         \* the game is on server.games
    told,           \* what the metaserver has been told of the game
    todo,           \* what each goroutine has still to do
    active,         \* the goroutine that is between two waits, or Nil
    panic           \* why the process has crashed, "no" while it runs

clientVars == <<conn, id, waitingForPong, writer, wrote>>
gameVars   == <<host, clients, nextClientId, shuttingDown>>
serverVars == <<listed, told>>
vars == <<clientVars, gameVars, serverVars, todo, active, panic>>

\* CreateGame has just been called: the game exists and its timer runs.
Init ==
    /\ conn = [c \in Conn |-> "none"]
    /\ id = [c \in Conn |-> 0]
    /\ waitingForPong = [c \in Conn |-> FALSE]
    /\ writer = [c \in Conn |-> Ready]
    /\ wrote = [c \in Conn |-> {}]
    /\ host = Nil
    /\ clients = <<>>
    /\ nextClientId = ID_HOST + 1
    /\ shuttingDown = FALSE
    /\ listed = TRUE
    /\ told = {}
    /\ todo = [g \in Goroutine |->
                 CASE g = Timer    -> IF Timed THEN <<Do("timer", Nil)>> ELSE <<>>
                   [] g[1] = "rpc" -> <<Do("call", Nil)>>
                   [] OTHER        -> <<>>]
    /\ active = Nil
    /\ panic = "no"

-----------------------------------------------------------------------------
(* The functions of the code                                               *)

\* Nobody is between two waits.
Idle == panic = "no" /\ active = Nil

\* g is at this operation, and may go on.
At(g, what) ==
    /\ panic = "no" /\ active \in {Nil, g}
    /\ todo[g] # <<>> /\ Head(todo[g]).do = what
Arg(g) == Head(todo[g]).c

\* What a goroutine does without waiting first.
Immediate == {"disconnect", "unlist", "hostGone", "drain", "dropHost",
              "removeObject", "loop"}

\* The first operation of g is done; it goes on with ops, at once if it can.
Then(g, ops) ==
    LET rest == ops \o Tail(todo[g]) IN
    /\ todo' = [todo EXCEPT ![g] = rest]
    /\ active' = IF rest # <<>> /\ Head(rest).do \in Immediate THEN g ELSE Nil

\* Client.Disconnect
Disconnect(c) ==
    IF conn[c] = "nil" THEN <<>>
    ELSE <<Send(c, <<"disconnect", 0>>), Do("close", c)>>

\* Mutants: nobody looks whether there is a host; the host is not told of a
\* client whose connection is closed already.
TellWhoever(c) == <<Send(host, <<"disconnectClient", id[c]>>)>>
TellUnlessClosed(c) ==
    IF host = Nil \/ conn[c] = "nil" THEN <<>>
    ELSE <<Send(host, <<"disconnectClient", id[c]>>)>>

TellHost(c) ==
    IF host = Nil THEN <<>> ELSE <<Send(host, <<"disconnectClient", id[c]>>)>>

\* Game.DisconnectClient
DisconnectClient(c) ==
    IF c = Nil THEN <<>>
    ELSE IF c = host THEN Disconnect(c) \o <<Do("hostGone", Nil)>>
    ELSE IF c \in ToSet(clients)
         THEN TellHost(c) \o <<Do("disconnect", c), Do("unlist", c)>>
    ELSE <<>>

\* Game.Shutdown; the caller sets currentlyShuttingDown.
Shutdown ==
    IF shuttingDown THEN <<>>
    ELSE <<Do("drain", Nil), Do("dropHost", Nil), Do("removeObject", Nil)>>

-----------------------------------------------------------------------------
(* What a goroutine does between two messages                              *)

\* SendCommand: sender and writer meet at the channel.
SendCommand(g) ==
    /\ At(g, "send")
    /\ writer[Arg(g)] = Ready
    /\ writer' = [writer EXCEPT ![Arg(g)] = Head(todo[g]).m]
    /\ Then(g, <<>>)
    /\ UNCHANGED <<conn, id, waitingForPong, wrote, gameVars, serverVars, panic>>

\* The writer goroutine: an open connection is written to, a closed one ends it.
Write(c) ==
    /\ Idle /\ writer[c] \notin {Ready, Gone}
    /\ \/ /\ conn[c] = "nil"
          /\ writer' = [writer EXCEPT ![c] = Gone]
          /\ UNCHANGED wrote
       \/ /\ conn[c] = "open"
          /\ writer' = [writer EXCEPT ![c] = Ready]
          /\ wrote' = [wrote EXCEPT ![c] = @ \cup {m \in {writer[c]} : m[1] \in Control}]
    /\ UNCHANGED <<conn, id, waitingForPong, gameVars, serverVars, todo, active, panic>>

\* The second half of Client.Disconnect.  Close of a nil connection panics.
Close(g) ==
    /\ At(g, "close")
    /\ \/ /\ conn[Arg(g)] = "nil"
          /\ panic' = "close"
          /\ UNCHANGED conn
       \/ /\ conn[Arg(g)] # "nil"
          /\ conn' = [conn EXCEPT ![Arg(g)] = "nil"]
          /\ UNCHANGED panic
    /\ Then(g, <<>>)
    /\ UNCHANGED <<id, waitingForPong, writer, wrote, gameVars, serverVars>>

\* DisconnectClient after the host has been told.
\* Mutant: the client is taken off the list, but stays connected.
DisconnectMemberLeavesOpen(g) ==
    /\ At(g, "disconnect")
    /\ Then(g, <<>>)
    /\ UNCHANGED <<clientVars, gameVars, serverVars, panic>>

DisconnectMember(g) ==
    /\ At(g, "disconnect")
    /\ Then(g, Disconnect(Arg(g)))
    /\ UNCHANGED <<clientVars, gameVars, serverVars, panic>>

\* Mutant: the client is not removed from the list when the game shuts down.
WithoutUnlessShutdown(c) ==
    IF c \in ToSet(clients) /\ ~shuttingDown
    THEN RemoveAt(clients, CHOOSE i \in DOMAIN clients : clients[i] = c)
    ELSE clients

Without(c) ==
    IF c \in ToSet(clients)
    THEN RemoveAt(clients, CHOOSE i \in DOMAIN clients : clients[i] = c)
    ELSE clients

Unlist(g) ==
    /\ At(g, "unlist")
    /\ clients' = Without(Arg(g))
    /\ Then(g, <<>>)
    /\ UNCHANGED <<clientVars, host, nextClientId, shuttingDown, serverVars, panic>>

\* DisconnectClient after the connection of the host has been closed.
HostGone(g) ==
    /\ At(g, "hostGone")
    /\ host' = Nil
    /\ shuttingDown' = TRUE
    /\ Then(g, Shutdown)
    /\ UNCHANGED <<clientVars, clients, nextClientId, serverVars, panic>>

\* The loop of Shutdown.
Drain(g) ==
    /\ At(g, "drain")
    /\ \/ clients = <<>> /\ Then(g, <<>>)
       \/ /\ clients # <<>>
          /\ Then(g, Append(DisconnectClient(Head(clients)), Do("drain", Nil)))
    /\ UNCHANGED <<clientVars, gameVars, serverVars, panic>>

DropHost(g) ==
    /\ At(g, "dropHost")
    /\ Then(g, DisconnectClient(host))
    /\ UNCHANGED <<clientVars, gameVars, serverVars, panic>>

\* RemoveGameObject: the call to the metaserver, then the removal.
RemoveGameObject(g) ==
    /\ At(g, "removeObject")
    /\ \/ ~listed /\ Then(g, <<>>) /\ UNCHANGED told
       \/ /\ listed
          /\ told' = told \cup {"GameClosed"}
          /\ Then(g, <<Do("removeGame", Nil)>>)
    /\ UNCHANGED <<clientVars, gameVars, listed, panic>>

RemoveFromGames(g) ==
    /\ At(g, "removeGame")
    /\ listed' = FALSE
    /\ Then(g, <<>>)
    /\ UNCHANGED <<clientVars, gameVars, told, panic>>

\* The host's reader looks at game.host before every message.
HostLoop(g) ==
    /\ At(g, "loop")
    /\ Then(g, IF host = Nil THEN <<>> ELSE <<Do("readHost", host)>>)
    /\ UNCHANGED <<clientVars, gameVars, serverVars, panic>>

Internal(g) ==
    \/ SendCommand(g) \/ Close(g) \/ DisconnectMember(g) \/ Unlist(g)
    \/ HostGone(g) \/ Drain(g) \/ DropHost(g)
    \/ RemoveGameObject(g) \/ RemoveFromGames(g) \/ HostLoop(g)

-----------------------------------------------------------------------------
(* Server: new connections, RemoveGame and the timer of the game           *)

\* mainLoop accepts, New starts the writer and the ping loop.
Accept(c) ==
    /\ Idle /\ conn[c] = "none"
    /\ conn' = [conn EXCEPT ![c] = "open"]
    /\ todo' = [todo EXCEPT ![Deal(c)] = <<Do("hello", c)>>,
                            ![PingLoop(c)] = <<Do("ping", c)>>]
    /\ active' = Nil
    /\ UNCHANGED <<id, waitingForPong, writer, wrote, gameVars, serverVars, panic>>

\* dealWithNewConnection without a game for c: no or a wrong HELLO, a wrong
\* version, a game that is not there, has no host or has had too many clients.
Refuse(c) ==
    /\ At(Deal(c), "hello")
    /\ Then(Deal(c), Disconnect(c))
    /\ UNCHANGED <<clientVars, gameVars, serverVars, panic>>

\* addClient.  Its version check never fails: everybody who gets here has
\* the one version the relay supports.  Mutant: the game was looked up earlier.
HadGame(c) == At(Deal(c), "hello")

HasGame(c) == At(Deal(c), "hello") /\ listed

AddHost(c) ==
    /\ HasGame(c) /\ host = Nil /\ c \in Password
    /\ host' = c
    /\ id' = [id EXCEPT ![c] = ID_HOST]
    /\ told' = told \cup {"GameConnected"}
    /\ todo' = [todo EXCEPT ![Read(c)] = <<Do("loop", Nil)>>,
                            ![Deal(c)] = <<Send(c, <<"welcome", 0>>)>>]
    /\ active' = Nil
    /\ UNCHANGED <<conn, waitingForPong, writer, wrote, clients, nextClientId,
                   shuttingDown, listed, panic>>

Announcement == Send(host, <<"connectClient", nextClientId>>)
Welcome(c)   == Send(c, <<"welcome", 0>>)

\* c becomes a client of the game; greeting is what is sent next.
Join(c, next, greeting) ==
    /\ HasGame(c) /\ host # Nil /\ nextClientId < IdLimit
    /\ id' = [id EXCEPT ![c] = nextClientId]
    /\ nextClientId' = next
    /\ clients' = Append(clients, c)
    /\ todo' = [todo EXCEPT ![Read(c)] = <<Do("read", c)>>, ![Deal(c)] = greeting]
    /\ active' = Nil
    /\ UNCHANGED <<conn, waitingForPong, writer, wrote, host, shuttingDown,
                   serverVars, panic>>

\* Mutants: an id is used twice; the client is welcomed before the host is told.
AddClientSameId(c) ==
    Join(c, Len(clients) + ID_HOST + 1, <<Announcement, Welcome(c)>>)
AddClientWelcomeFirst(c) ==
    Join(c, (nextClientId + 1) % IdMod, <<Welcome(c), Announcement>>)

AddClient(c) ==
    Join(c, (nextClientId + 1) % IdMod, <<Announcement, Welcome(c)>>)

\* The next three are not taken where the code finds nothing to do.
\* RemoveGame, called by the metaserver.
RemoveGame(r) ==
    /\ At(RPC(r), "call") /\ listed
    /\ shuttingDown' = TRUE
    /\ Then(RPC(r), Shutdown)
    /\ UNCHANGED <<clientVars, host, clients, nextClientId, serverVars, panic>>

\* RemoveGameIfNoHostIsConnected, 30 s after the game was created.  Mutant: the
\* metaserver is told only of a game that had a host.
RemoveSilently ==
    /\ At(Timer, "timer") /\ listed /\ host = Nil
    /\ Then(Timer, <<Do("removeGame", Nil)>>)
    /\ UNCHANGED <<clientVars, gameVars, serverVars, panic>>

RemoveGameIfNoHostIsConnected ==
    /\ At(Timer, "timer") /\ listed /\ host = Nil
    /\ told' = told \cup {"GameClosed"}
    /\ Then(Timer, <<Do("removeGame", Nil)>>)
    /\ UNCHANGED <<clientVars, gameVars, listed, panic>>

-----------------------------------------------------------------------------
(* Client and Game: messages of the peers, and pings                       *)

\* One turn of pingLoop.
Ping(c) ==
    /\ c \in Pinged /\ At(PingLoop(c), "ping") /\ conn[c] = "open"
    /\ \/ /\ ~waitingForPong[c]
          /\ waitingForPong' = [waitingForPong EXCEPT ![c] = TRUE]
          /\ Then(PingLoop(c), <<Send(c, <<"data", 0>>), Do("ping", c)>>)
       \/ /\ waitingForPong[c]
          /\ Then(PingLoop(c), Disconnect(c))
          /\ UNCHANGED waitingForPong
    /\ UNCHANGED <<conn, id, writer, wrote, gameVars, serverVars, panic>>

\* A client's reader meets DISCONNECT, the end of the stream or an error.  What
\* has been received can be read after the connection was closed, too.
ClientLeaves(c) ==
    /\ At(Read(c), "read")
    /\ Then(Read(c), DisconnectClient(c))
    /\ UNCHANGED <<clientVars, gameVars, serverVars, panic>>

Welcomed(c) == <<"welcome", 0>> \in wrote[c]

\* A client's packet for the host.  Without a host the process crashes.
ToHost(c) ==
    /\ c \in Talking /\ At(Read(c), "read") /\ Welcomed(c)
    /\ \/ host = Nil /\ panic' = "host" /\ UNCHANGED <<todo, active>>
       \/ /\ host # Nil
          /\ Then(Read(c), <<Send(host, <<"fromClient", id[c]>>), Do("read", c)>>)
          /\ UNCHANGED panic
    /\ UNCHANGED <<clientVars, gameVars, serverVars>>

ClientPong(c) ==
    /\ At(Read(c), "read") /\ waitingForPong[c]
    /\ waitingForPong' = [waitingForPong EXCEPT ![c] = FALSE]
    /\ UNCHANGED <<conn, id, writer, wrote, gameVars, serverVars, todo, active, panic>>

ClientRTT(c) ==
    /\ c \in Talking /\ At(Read(c), "read") /\ Welcomed(c)
    /\ Then(Read(c), <<Send(c, <<"data", 0>>), Do("read", c)>>)
    /\ UNCHANGED <<clientVars, gameVars, serverVars, panic>>

\* The host's reader ends likewise, and takes down whoever is the host by then.
HostLeaves(c) ==
    /\ At(Read(c), "readHost")
    /\ Then(Read(c), DisconnectClient(host))
    /\ UNCHANGED <<clientVars, gameVars, serverVars, panic>>

\* Every command of the host uses game.host again.
HostCommandWithoutHost(c) ==
    /\ At(Read(c), "readHost") /\ host = Nil
    /\ panic' = "host"
    /\ UNCHANGED <<clientVars, gameVars, serverVars, todo, active>>

\* A packet for a client the host knows of; one for several is sent to each in
\* turn.  The client may leave while the goroutine waits for its writer.
ToClients(c) ==
    /\ At(Read(c), "readHost") /\ host \in Talking /\ Welcomed(host)
    /\ \E d \in ToSet(clients) :
          /\ <<"connectClient", id[d]>> \in wrote[host]
          /\ Then(Read(c), <<Send(d, <<"data", 0>>), Do("loop", Nil)>>)
    /\ UNCHANGED <<clientVars, gameVars, serverVars, panic>>

HostPong(c) ==
    /\ At(Read(c), "readHost") /\ host # Nil /\ waitingForPong[host]
    /\ waitingForPong' = [waitingForPong EXCEPT ![host] = FALSE]
    /\ Then(Read(c), <<Do("loop", Nil)>>)
    /\ UNCHANGED <<conn, id, writer, wrote, gameVars, serverVars, panic>>

HostRTT(c) ==
    /\ At(Read(c), "readHost") /\ host \in Talking /\ Welcomed(host)
    /\ Then(Read(c), <<Send(host, <<"data", 0>>), Do("loop", Nil)>>)
    /\ UNCHANGED <<clientVars, gameVars, serverVars, panic>>

Next ==
    \/ \E g \in Goroutine : Internal(g)
    \/ \E c \in Conn :
          \/ Write(c) \/ Accept(c) \/ Refuse(c) \/ AddHost(c) \/ AddClient(c)
          \/ Ping(c) \/ ClientLeaves(c) \/ ToHost(c) \/ ClientPong(c)
          \/ ClientRTT(c) \/ HostLeaves(c) \/ HostCommandWithoutHost(c)
          \/ ToClients(c) \/ HostPong(c) \/ HostRTT(c)
    \/ \E r \in Caller : RemoveGame(r)
    \/ RemoveGameIfNoHostIsConnected

Spec == Init /\ [][Next]_vars

\* The scheduler runs readers and writers that can run, and lets a goroutine go
\* on that has begun; a channel serves its senders in the order in which they
\* came, so none of them is passed over for ever.  A write to a socket returns:
\* the peers read.  Nothing else is assumed of them, nor of the timers.
Fairness ==
    /\ WF_vars(\E g \in Goroutine : active = g /\ Internal(g))
    /\ \A c \in Conn : SF_vars(Internal(Read(c))) /\ SF_vars(Write(c))

FairSpec == Spec /\ Fairness

-----------------------------------------------------------------------------
(* Properties                                                              *)

\* The relay keeps its promises to the metaserver: whatever its goroutines
\* interleave, a host is taken only by a game that is listed, the metaserver has
\* been told before a game goes, and a game that is gone stays gone.
Game == INSTANCE RelayGame WITH hosted <- host # Nil
IsRelayGame == Game!Spec

\* Every variable holds what the code can put into it, and everybody waits in
\* a place that exists.
TypeOK ==
    /\ conn \in [Conn -> {"none", "open", "nil"}]
    /\ id \in [Conn -> Id]
    /\ waitingForPong \in [Conn -> BOOLEAN]
    /\ writer \in [Conn -> Message \cup {Ready, Gone}]
    /\ wrote \in [Conn -> SUBSET Message]
    /\ host \in Conn \cup {Nil}
    /\ clients \in Seq(Conn)
    /\ nextClientId \in Id
    /\ shuttingDown \in BOOLEAN
    /\ listed \in BOOLEAN
    /\ told \subseteq {"GameConnected", "GameClosed"}
    /\ todo \in [Goroutine -> Seq(Operation)]
    /\ active \in Goroutine \cup {Nil}
    /\ panic \in {"no", "close", "host"}

\* The ids of the clients of a game differ, from each other and from those of
\* the host and of nobody (0 ends the list of receivers of a host's packet),
\* though they are counted by a uint8 and clients come and go.
IdsDistinct ==
    /\ \A i, j \in 1..Len(clients) : i # j => id[clients[i]] # id[clients[j]]
    /\ \A c \in ToSet(clients) : id[c] \notin {0, ID_HOST}

\* Whoever is in the game has a goroutine that reads, or is about to remove,
\* its connection: nobody stays in the list of clients unattended.
Attended ==
    \A c \in ToSet(clients) \cup ({host} \ {Nil}) : todo[Read(c)] # <<>>

\* The host gets packets only of clients it has been told of, although the
\* goroutine that reads them starts before the one that announces them sends.
HostKnowsSender ==
    \A c \in Conn, i \in Id :
        writer[c] = <<"fromClient", i>> => <<"connectClient", i>> \in wrote[c]

\* A client that is gone from the list while the host is there has been
\* reported to the host, whichever goroutine removed it.
HostHearsOfLeavers ==
    \A c \in Conn :
        /\ host # Nil /\ conn[host] = "open"
        /\ id[c] > ID_HOST /\ c \notin ToSet(clients)
        => <<"disconnectClient", id[c]>> \in wrote[host] \cup {writer[host]}

\* A game disappears from the relay only after the metaserver has been told.
ToldBeforeRemoved == ~listed => "GameClosed" \in told

\* The goroutines that serve a client wait for each other's writers, but not in
\* a circle: as long as the host stays, a client who leaves is let go.
Leaving(c) == c \in ToSet(clients) /\ Do("unlist", c) \in ToSet(todo[Read(c)])
LeaverIsLetGo ==
    \A c \in Conn :
        Leaving(c) ~> \/ conn[c] = "nil"
                      \/ host = Nil \/ conn[host] = "nil" \/ panic # "no"
=============================================================================
