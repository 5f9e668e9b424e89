--------------------------------- MODULE Games ---------------------------------
(***************************************************************************)
(* The games of the metaserver and the relay together: wlms/game.go, the   *)
(* GAME_* handlers of wlms/client.go, the list of games of wlms/server.go, *)
(* and the relay's list of games in wlnr/server.go.                        *)
(*                                                                         *)
(* A player with an old client (BUILD19) hosts a game on his own computer; *)
(* the metaserver pings it.  A game of a newer client is hosted by the     *)
(* relay: the metaserver asks for it with a call and learns of its host    *)
(* and of its end by calls of the relay.  The two programs know a game by  *)
(* its name only.  Game g of the model is one object in each of them, made *)
(* by the same GAME_OPEN.                                                  *)
(*                                                                         *)
(* A call between the programs is that of RemoteCall: executed at most     *)
(* once, at any time, by a goroutine of its own; and when the connection   *)
(* is lost it is reported as failed, whether it has been executed, will be *)
(* or never is.  A game of the relay is that of RelayGame.  A step of the  *)
(* model ends where the code calls the other program, starts a goroutine   *)
(* or waits; what clients are sent is left out.  A mutant is no part of    *)
(* the model.                                                              *)
(***************************************************************************)
EXTENDS Integers, Sequences, FiniteSets, SequencesExt

CONSTANTS
    Player,     \* players; the name of one is held by one client at a time
    Legacy,     \* the players whose clients speak the protocol of BUILD19
    Name,       \* names of games
    MaxGames,   \* bounds the games that are opened
    MaxTrouble, \* bounds the kicks, lost connections and cleanups
    Nil         \* Go's nil

Game == 1..MaxGames

\* nil is no player, no name, no game and no work of a goroutine.
ASSUME GamesAssumption ==
    /\ Legacy \subseteq Player
    /\ Nil \notin Player \cup Name \cup Game \cup {"create", "enter"} \X Game
    /\ MaxGames \in Nat /\ MaxTrouble \in Nat

State == {"INITIAL_SETUP", "NOT_CONNECTABLE", "CONNECTABLE", "RUNNING"}

GameObject == [name : Name \cup {Nil}, host : Player \cup {Nil}, usesRelay : BOOLEAN,
               state : State, joined : BOOLEAN]

\* A call of the relay is made by the goroutine that ends the game, 0, or by the
\* timer of some game.
Call == {"GameConnected", "GameClosed"} \X (Game \cup {0}) \X Game

VARIABLES
    games,      \* metaserver: server.games
    game,       \* game[g]: the Game object
    opened,     \* how many games have been opened
    presence,   \* presence[p]: "in", "cut" (listed but disconnected), "swap"
                \* (between a client and the one that replaces it) or "gone"
    gameOf,     \* gameOf[p]: Client.game
    busy,       \* busy[p]: the GAME_OPEN that the goroutine of p is in
    pinger,     \* pinger[g]: the pingCycle of g
    kicking,    \* the game that a kick waits to remove
    kicked,     \* players that have been kicked
    panic       \* the metaserver has crashed

VARIABLES
    listed,     \* relay: g is on server.games
    hosted,     \* game.host is not nil
    told,       \* what the relay has begun to tell the metaserver of g
    ending,     \* ending[g]: how far Game.Shutdown is
    timer,      \* timer[g]: the timer of 30 s
    closing     \* <<by, g>>: goroutines that wait for GameClosed to return

VARIABLES
    create,     \* create[g]: the call CreateGame
    orders,     \* names with a call RemoveGame on its way
    news,       \* calls of the relay on their way, with the relay waiting
    late,       \* the same, given up by the relay
    lost,       \* a call has been given up
    trouble     \* how many kicks, lost connections and cleanups there were

listVars   == <<games, game, opened>>
clientVars == <<presence, gameOf, busy, kicked>>
kickVars   == <<kicking, orders>>
relayVars  == <<listed, hosted, told, ending, timer, closing>>
callVars   == <<news, late, lost>>
vars == <<listVars, clientVars, pinger, kickVars, panic, relayVars, create, callVars, trouble>>

Init ==
    /\ games = <<>> /\ opened = 0
    /\ game = [g \in Game |-> [name |-> Nil, host |-> Nil, usesRelay |-> FALSE,
                               state |-> "INITIAL_SETUP", joined |-> FALSE]]
    /\ presence = [p \in Player |-> "in"]
    /\ gameOf = [p \in Player |-> Nil]
    /\ busy = [p \in Player |-> Nil]
    /\ pinger = [g \in Game |-> "none"]
    /\ kicking = Nil /\ kicked = {} /\ panic = FALSE
    /\ listed = [g \in Game |-> FALSE]
    /\ hosted = [g \in Game |-> FALSE]
    /\ told = [g \in Game |-> {}]
    /\ ending = [g \in Game |-> "no"]
    /\ timer = [g \in Game |-> "off"]
    /\ closing = {}
    /\ create = [g \in Game |-> "none"]
    /\ orders = {} /\ news = {} /\ late = {} /\ lost = FALSE /\ trouble = 0

-----------------------------------------------------------------------------
(* Functions of the metaserver                                             *)

Listed(g) == g \in ToSet(games)

\* Server.HasGame: the first game of the name.
HasGame(n) ==
    LET named(i) == game[games[i]].name = n
        first == {i \in DOMAIN games : named(i) /\ \A j \in 1..(i - 1) : ~named(j)}
    IN  IF first = {} THEN Nil ELSE games[CHOOSE i \in first : TRUE]

\* Server.RemoveGame: the game itself, not its name.
Without(g) ==
    LET at == {i \in DOMAIN games : games[i] = g}
    IN  IF at = {} THEN games ELSE RemoveAt(games, CHOOSE i \in at : TRUE)

\* Server.HasClient(name) is not nil.
HasClient(p) == presence[p] \in {"in", "cut"}

\* Game.RemovePlayer of p from its game.
RemovePlayer(p) ==
    IF gameOf[p] # Nil /\ game[gameOf[p]].host = p /\ ~game[gameOf[p]].usesRelay
    THEN Without(gameOf[p])
    ELSE games

\* Client.setGame(nil) and, for another game g, Client.setGame(g).
LeaveGame(p) ==
    /\ games' = RemovePlayer(p)
    /\ gameOf' = [gameOf EXCEPT ![p] = Nil]
    /\ UNCHANGED <<game, opened>>
EnterGame(p, g) ==
    \/ gameOf[p] = g /\ UNCHANGED <<listVars, gameOf>>
    \/ /\ gameOf[p] # g
       /\ games' = RemovePlayer(p)
       /\ gameOf' = [gameOf EXCEPT ![p] = g]
       /\ game' = [game EXCEPT ![g].joined = TRUE]
       /\ UNCHANGED opened

SetState(g, s) == game' = [game EXCEPT ![g].state = s]

Runs == ~panic

\* Something goes wrong, which happens MaxTrouble times.
Trouble == trouble < MaxTrouble /\ trouble' = trouble + 1
LoseCall == Trouble /\ lost' = TRUE
Handles(p) == Runs /\ presence[p] = "in" /\ busy[p] = Nil

-----------------------------------------------------------------------------
(* The GAME_* handlers                                                     *)

\* Mutant: a game of the relay can be joined from the start.
NewGameOpen(p, n) == [name |-> n, host |-> p, usesRelay |-> p \notin Legacy,
                      state |-> IF p \in Legacy THEN "INITIAL_SETUP" ELSE "CONNECTABLE",
                      joined |-> FALSE]
NewGame(p, n) == [name |-> n, host |-> p, usesRelay |-> p \notin Legacy,
                  state |-> "INITIAL_SETUP", joined |-> FALSE]

\* GAME_OPEN of an old client: the game is listed and its pingCycle starts.
OpenOwn(p, n) ==
    /\ Handles(p) /\ p \in Legacy /\ HasGame(n) = Nil /\ opened < MaxGames
    /\ LET g == opened + 1 IN
          /\ opened' = g
          /\ game' = [game EXCEPT ![g] = NewGame(p, n)]
          /\ games' = Append(games, g)
          /\ busy' = [busy EXCEPT ![p] = <<"enter", g>>]
          /\ pinger' = [pinger EXCEPT ![g] = "look"]
    /\ UNCHANGED <<presence, gameOf, kicked, kickVars, panic, relayVars, create, callVars, trouble>>

\* GAME_OPEN of a newer client: the relay is asked for the game.
OpenOnRelay(p, n) ==
    /\ Handles(p) /\ p \notin Legacy /\ HasGame(n) = Nil /\ opened < MaxGames
    /\ LET g == opened + 1 IN
          /\ opened' = g
          /\ game' = [game EXCEPT ![g] = NewGame(p, n)]
          /\ busy' = [busy EXCEPT ![p] = <<"create", g>>]
          /\ create' = [create EXCEPT ![g] = "sent"]
    /\ UNCHANGED <<games, presence, gameOf, kicked, pinger, kickVars, panic, relayVars,
                   callVars, trouble>>

\* RelayCreateGame returns: NewGame and GAME_OPEN with the challenge, or an error.
\* Mutant: the game is pinged like one of an old client.
CreatedAndPinged(p, g) ==
    /\ Runs /\ busy[p] = <<"create", g>>
    /\ \/ /\ create[g] = "yes"
          /\ create' = [create EXCEPT ![g] = "answered"]
          /\ pinger' = [pinger EXCEPT ![g] = "look"]
          /\ games' = Append(games, g)
          /\ busy' = [busy EXCEPT ![p] = <<"enter", g>>]
          /\ UNCHANGED <<lost, trouble>>
       \/ /\ create[g] = "no"
          /\ busy' = [busy EXCEPT ![p] = Nil]
          /\ UNCHANGED <<create, games, pinger, lost, trouble>>
       \/ /\ LoseCall
          /\ busy' = [busy EXCEPT ![p] = Nil]
          /\ UNCHANGED <<create, games, pinger>>
    /\ UNCHANGED <<game, opened, presence, gameOf, kicked, kickVars, panic,
                   relayVars, news, late>>

Created(p, g) ==
    /\ Runs /\ busy[p] = <<"create", g>>
    /\ \/ /\ create[g] = "yes"
          /\ create' = [create EXCEPT ![g] = "answered"]
          /\ games' = Append(games, g)
          /\ busy' = [busy EXCEPT ![p] = <<"enter", g>>]
          /\ UNCHANGED <<lost, trouble>>
       \/ /\ create[g] = "no"
          /\ busy' = [busy EXCEPT ![p] = Nil]
          /\ UNCHANGED <<create, games, lost, trouble>>
       \/ /\ LoseCall
          /\ busy' = [busy EXCEPT ![p] = Nil]
          /\ UNCHANGED <<create, games>>
    /\ UNCHANGED <<game, opened, presence, gameOf, kicked, pinger, kickVars, panic,
                   relayVars, news, late>>

\* The end of GAME_OPEN, setGame.
Enter(p, g) ==
    /\ Runs /\ busy[p] = <<"enter", g>>
    /\ EnterGame(p, g)
    /\ busy' = [busy EXCEPT ![p] = Nil]
    /\ UNCHANGED <<presence, kicked, pinger, kickVars, panic, relayVars, create, callVars, trouble>>

\* GAME_CONNECT.  An old client gets the address of the host, whoever that is.
Connect(p, n) ==
    /\ Handles(p) /\ HasGame(n) # Nil
    /\ LET g == HasGame(n) IN
          \/ /\ p \in Legacy /\ ~game[g].usesRelay /\ ~HasClient(game[g].host)
             /\ panic' = TRUE
             /\ UNCHANGED <<listVars, gameOf>>
          \/ /\ p \in Legacy => ~game[g].usesRelay /\ HasClient(game[g].host)
             /\ EnterGame(p, g)
             /\ UNCHANGED panic
    /\ UNCHANGED <<presence, busy, kicked, pinger, kickVars, relayVars, create, callVars, trouble>>

\* GAME_START by the host of a game, which may be off the list already.
Start(p) ==
    /\ Handles(p) /\ gameOf[p] # Nil /\ game[gameOf[p]].host = p
    /\ SetState(gameOf[p], "RUNNING")
    /\ UNCHANGED <<games, opened, clientVars, pinger, kickVars, panic, relayVars, create,
                   callVars, trouble>>

\* GAME_DISCONNECT
Disconnect(p) ==
    /\ Handles(p)
    /\ LeaveGame(p)
    /\ UNCHANGED <<presence, busy, kicked, pinger, kickVars, panic, relayVars, create,
                   callVars, trouble>>

-----------------------------------------------------------------------------
(* Clients come and go                                                     *)

\* DISCONNECT, and the forget timer of a client that has been disconnected.
\* Mutant: the timer removes the client only.
Quit(p) ==
    /\ Handles(p) /\ Trouble
    /\ LeaveGame(p)
    /\ presence' = [presence EXCEPT ![p] = "gone"]
    /\ UNCHANGED <<busy, kicked, pinger, kickVars, panic, relayVars, create, callVars>>

ForgetClientOnly(p) ==
    /\ Runs /\ presence[p] = "cut"
    /\ presence' = [presence EXCEPT ![p] = "gone"]
    /\ UNCHANGED <<listVars, gameOf, busy, kicked, pinger, kickVars, panic, relayVars,
                   create, callVars, trouble>>
Forget(p) ==
    /\ Runs /\ presence[p] = "cut"
    /\ LeaveGame(p)
    /\ presence' = [presence EXCEPT ![p] = "gone"]
    /\ UNCHANGED <<busy, kicked, pinger, kickVars, panic, relayVars, create, callVars, trouble>>

\* The connection ends; the goroutine of the client finds out between two packets.
Cut(p) ==
    /\ Handles(p) /\ Trouble
    /\ presence' = [presence EXCEPT ![p] = "cut"]
    /\ UNCHANGED <<listVars, gameOf, busy, kicked, pinger, kickVars, panic, relayVars,
                   create, callVars>>

\* A new connection takes over name and game: RemoveClient, then AddClient; or it
\* is the first of the name.  One that was kicked can be back in five minutes.
Replace(p) ==
    /\ Runs /\ presence[p] \in {"cut", "swap"}
    /\ presence' = [presence EXCEPT ![p] = IF @ = "cut" THEN "swap" ELSE "in"]
    /\ UNCHANGED <<listVars, gameOf, busy, kicked, pinger, kickVars, panic, relayVars,
                   create, callVars, trouble>>
Login(p) ==
    /\ Runs /\ presence[p] = "gone" /\ busy[p] = Nil
    /\ presence' = [presence EXCEPT ![p] = "in"]
    /\ gameOf' = [gameOf EXCEPT ![p] = Nil]
    /\ UNCHANGED <<listVars, busy, kicked, pinger, kickVars, panic, relayVars, create,
                   callVars, trouble>>

\* CMD kick with the name of a player: his game is not looked at, and what his
\* goroutine is doing goes on.
KickPlayer(p) ==
    /\ Runs /\ HasClient(p) /\ Trouble
    /\ presence' = [presence EXCEPT ![p] = "gone"]
    /\ kicked' = kicked \cup {p}
    /\ UNCHANGED <<listVars, gameOf, busy, pinger, kickVars, panic, relayVars, create,
                   callVars>>

\* CMD kick with the name of a game: RelayRemoveGame first, if it is on the relay.
KickGame(n) ==
    /\ Runs /\ kicking = Nil /\ HasGame(n) # Nil /\ Trouble
    /\ \/ /\ game[HasGame(n)].usesRelay /\ n \notin orders
          /\ kicking' = HasGame(n)
          /\ orders' = orders \cup {n}
          /\ UNCHANGED games
       \/ /\ ~game[HasGame(n)].usesRelay
          /\ games' = Without(HasGame(n))
          /\ UNCHANGED kickVars
    /\ UNCHANGED <<game, opened, clientVars, pinger, panic, relayVars, create, callVars>>

KickReturns ==
    /\ Runs /\ kicking # Nil
    /\ \/ game[kicking].name \notin orders /\ UNCHANGED <<lost, trouble>>
       \/ game[kicking].name \in orders /\ LoseCall
    /\ games' = Without(kicking)
    /\ kicking' = Nil
    /\ UNCHANGED <<game, opened, clientVars, pinger, orders, panic, relayVars, create,
                   news, late>>

\* The weekly cleanup ends one game that nothing has happened to: removing it from
\* the list also ends the walk through the list.
WeeklyCleanup(g) ==
    /\ Runs /\ Listed(g) /\ timer[g] # "on" /\ busy[game[g].host] = Nil /\ Trouble
    /\ games' = Without(g)
    /\ UNCHANGED <<game, opened, clientVars, pinger, kickVars, panic, relayVars, create,
                   callVars>>

-----------------------------------------------------------------------------
(* Game.pingCycle                                                          *)

\* The beginning of a turn.
PingLook(g) ==
    /\ Runs /\ pinger[g] = "look"
    /\ LET given_up == \/ HasGame(game[g].name) # g \/ ~game[g].joined
                       \/ ~HasClient(game[g].host)
       IN pinger' = [pinger EXCEPT ![g] = IF given_up THEN "ended" ELSE "ping"]
    /\ UNCHANGED <<listVars, clientVars, kickVars, panic, relayVars, create, callVars, trouble>>

\* doPing.  A failed ping ends the game of a host that is gone or elsewhere.
PingDone(g) ==
    /\ Runs /\ pinger[g] = "ping"
    /\ LET s == game[g].state
           h == game[g].host
       IN \/ /\ SetState(g, IF s = "RUNNING" THEN s ELSE "CONNECTABLE")
             /\ UNCHANGED games
          \/ /\ SetState(g, IF s = "RUNNING" THEN s ELSE "NOT_CONNECTABLE")
             /\ games' = IF HasClient(h) /\ gameOf[h] = g THEN games ELSE Without(g)
    /\ pinger' = [pinger EXCEPT ![g] = "look"]
    /\ UNCHANGED <<opened, clientVars, kickVars, panic, relayVars, create, callVars, trouble>>

-----------------------------------------------------------------------------
(* The relay                                                               *)

Named(n) == {g \in Game : listed[g] /\ game[g].name = n}

\* Server.CreateGame
CreateGame(g) ==
    /\ create[g] = "sent"
    /\ \/ /\ Named(game[g].name) # {}
          /\ create' = [create EXCEPT ![g] = "no"]
          /\ UNCHANGED <<listed, timer>>
       \/ /\ Named(game[g].name) = {}
          /\ create' = [create EXCEPT ![g] = "yes"]
          /\ listed' = [listed EXCEPT ![g] = TRUE]
          /\ timer' = [timer EXCEPT ![g] = "on"]
    /\ UNCHANGED <<listVars, clientVars, pinger, kickVars, panic, hosted, told, ending,
                   closing, callVars, trouble>>

\* Server.RemoveGame: the game of that name is shut down, whichever it is.
RemoveGame(n) ==
    /\ n \in orders
    /\ orders' = orders \ {n}
    /\ ending' = [g \in Game |-> IF g \in Named(n) /\ ending[g] = "no" THEN "begun"
                                 ELSE ending[g]]
    /\ UNCHANGED <<listVars, clientVars, pinger, kicking, panic, listed, hosted, told,
                   timer, closing, create, callVars, trouble>>

\* The host knows the password from GAME_OPEN, and comes once.
HostArrives(g) ==
    /\ listed[g] /\ ~hosted[g] /\ create[g] = "answered" /\ "GameConnected" \notin told[g]
    /\ hosted' = [hosted EXCEPT ![g] = TRUE]
    /\ told' = [told EXCEPT ![g] = @ \cup {"GameConnected"}]
    /\ news' = news \cup {<<"GameConnected", 0, g>>}
    /\ UNCHANGED <<listVars, clientVars, pinger, kickVars, panic, listed, ending, timer,
                   closing, create, late, lost, trouble>>

\* Game.DisconnectClient of the host starts Game.Shutdown, which disconnects a
\* host in turn.  Mutant: the game waits for its host to come back.
HostJustLeaves(g) ==
    /\ hosted[g]
    /\ hosted' = [hosted EXCEPT ![g] = FALSE]
    /\ UNCHANGED <<listVars, clientVars, pinger, kickVars, panic, listed, told, ending,
                   timer, closing, create, callVars, trouble>>
HostLeaves(g) ==
    /\ hosted[g]
    /\ hosted' = [hosted EXCEPT ![g] = FALSE]
    /\ ending' = [ending EXCEPT ![g] = IF @ = "no" THEN "dropped" ELSE @]
    /\ UNCHANGED <<listVars, clientVars, pinger, kickVars, panic, listed, told, timer,
                   closing, create, callVars, trouble>>
DropHost(g) ==
    /\ ending[g] = "begun"
    /\ ending' = [ending EXCEPT ![g] = "dropped"]
    /\ hosted' = [hosted EXCEPT ![g] = FALSE]
    /\ UNCHANGED <<listVars, clientVars, pinger, kickVars, panic, listed, told, timer,
                   closing, create, callVars, trouble>>

\* A goroutine calls GameClosed for g.
TellClosed(by, g) ==
    /\ told' = [told EXCEPT ![g] = @ \cup {"GameClosed"}]
    /\ news' = news \cup {<<"GameClosed", by, g>>}
    /\ closing' = closing \cup {<<by, g>>}

\* RemoveGameObject, at the end of Shutdown.
EndGame(g) ==
    /\ ending[g] = "dropped"
    /\ ending' = [ending EXCEPT ![g] = "ended"]
    /\ \/ listed[g] /\ TellClosed(0, g)
       \/ ~listed[g] /\ UNCHANGED <<told, news, closing>>
    /\ UNCHANGED <<listVars, clientVars, pinger, kickVars, panic, listed, hosted, timer,
                   create, late, lost, trouble>>

\* RemoveGameIfNoHostIsConnected: the timer of t looks for the name of t.  Thirty
\* seconds are longer than the metaserver needs to take the answer to CreateGame.
\* Mutant: the metaserver is not told.
TimerRemovesSilently(t) ==
    /\ timer[t] = "on" /\ busy[game[t].host] # <<"create", t>>
    /\ timer' = [timer EXCEPT ![t] = "off"]
    /\ listed' = [g \in Game |-> listed[g] /\ (g \notin Named(game[t].name) \/ hosted[g])]
    /\ UNCHANGED <<listVars, clientVars, pinger, kickVars, panic, hosted, told, ending,
                   closing, create, callVars, trouble>>
Timer(t) ==
    /\ timer[t] = "on" /\ busy[game[t].host] # <<"create", t>>
    /\ timer' = [timer EXCEPT ![t] = "off"]
    /\ \/ \E g \in Named(game[t].name) : ~hosted[g] /\ TellClosed(t, g)
       \/ /\ \A g \in Named(game[t].name) : hosted[g]
          /\ UNCHANGED <<told, news, closing>>
    /\ UNCHANGED <<listVars, clientVars, pinger, kickVars, panic, listed, hosted, ending,
                   create, late, lost, trouble>>

\* GameClosed has returned: the game leaves the list of the relay.
RemoveGameObject(by, g) ==
    /\ <<by, g>> \in closing /\ <<"GameClosed", by, g>> \notin news
    /\ closing' = closing \ {<<by, g>>}
    /\ listed' = [listed EXCEPT ![g] = FALSE]
    /\ UNCHANGED <<listVars, clientVars, pinger, kickVars, panic, hosted, told, ending,
                   timer, create, callVars, trouble>>

-----------------------------------------------------------------------------
(* The calls of the relay                                                  *)

Arrived(c) ==
    /\ Runs /\ c \in news \cup late
    /\ news' = news \ {c} /\ late' = late \ {c}
    /\ UNCHANGED <<opened, clientVars, pinger, kickVars, panic, relayVars, create, lost, trouble>>

\* The metaserver executes GameConnected or GameClosed, with the first game of that
\* name.  Mutant: a game that runs is kept.
GameConnected(c) ==
    /\ c[1] = "GameConnected" /\ Arrived(c)
    /\ LET g == HasGame(game[c[3]].name) IN
          \/ g = Nil /\ UNCHANGED game
          \/ g # Nil /\ SetState(g, "CONNECTABLE")
    /\ UNCHANGED games
GameClosedUnlessRunning(c) ==
    /\ c[1] = "GameClosed" /\ Arrived(c)
    /\ LET g == HasGame(game[c[3]].name) IN
       games' = IF g # Nil /\ game[g].state # "RUNNING" THEN Without(g) ELSE games
    /\ UNCHANGED game
GameClosed(c) ==
    /\ c[1] = "GameClosed" /\ Arrived(c)
    /\ games' = Without(HasGame(game[c[3]].name))
    /\ UNCHANGED game

\* The connection is lost while a call waits: the relay goes on, and the call is
\* executed later or never.
Lose(c) ==
    /\ c \in news /\ LoseCall
    /\ news' = news \ {c}
    /\ late' \in {late, late \cup {c}}
    /\ UNCHANGED <<listVars, clientVars, pinger, kickVars, panic, relayVars, create>>

Next ==
    \/ \E p \in Player :
          \/ \E n \in Name : OpenOwn(p, n) \/ OpenOnRelay(p, n) \/ Connect(p, n)
          \/ \E g \in Game : Created(p, g) \/ Enter(p, g)
          \/ Start(p) \/ Disconnect(p) \/ Quit(p) \/ Forget(p) \/ Cut(p)
          \/ Replace(p) \/ Login(p) \/ KickPlayer(p)
    \/ \E n \in Name : KickGame(n) \/ RemoveGame(n)
    \/ KickReturns
    \/ \E g \in Game :
          \/ WeeklyCleanup(g) \/ PingLook(g) \/ PingDone(g)
          \/ CreateGame(g) \/ HostArrives(g) \/ HostLeaves(g) \/ DropHost(g)
          \/ EndGame(g) \/ Timer(g)
    \/ \E by \in Game \cup {0}, g \in Game : RemoveGameObject(by, g)
    \/ \E c \in Call : GameConnected(c) \/ GameClosed(c) \/ Lose(c)

Spec == Init /\ [][Next]_vars

-----------------------------------------------------------------------------
(* Properties                                                              *)

\* Lists, clients, goroutines and calls hold what the code can put into them; no
\* game of the relay has a pingCycle, which would end the metaserver.
TypeOK ==
    /\ games \in Seq(Game) /\ opened \in 0..MaxGames
    /\ game \in [Game -> GameObject]
    /\ presence \in [Player -> {"in", "cut", "swap", "gone"}]
    /\ gameOf \in [Player -> Game \cup {Nil}]
    /\ busy \in [Player -> {"create", "enter"} \X Game \cup {Nil}]
    /\ pinger \in [Game -> {"none", "look", "ping", "ended"}]
    /\ kicking \in Game \cup {Nil} /\ kicked \subseteq Player /\ panic \in BOOLEAN
    /\ listed \in [Game -> BOOLEAN] /\ hosted \in [Game -> BOOLEAN]
    /\ told \in [Game -> SUBSET {"GameConnected", "GameClosed"}]
    /\ ending \in [Game -> {"no", "begun", "dropped", "ended"}]
    /\ timer \in [Game -> {"off", "on"}]
    /\ closing \subseteq (Game \cup {0}) \X Game
    /\ create \in [Game -> {"none", "sent", "yes", "no", "answered"}]
    /\ orders \subseteq Name /\ news \subseteq Call /\ late \subseteq Call
    /\ lost \in BOOLEAN /\ trouble \in 0..MaxTrouble
    /\ IsInjective(games)
    /\ \A g \in Game : game[g].usesRelay => pinger[g] = "none"

\* A self-hosted game on the list is that of a player the metaserver knows, who is
\* in it: GAME_CONNECT dereferences this client.  Only a kick breaks the rule.
SelfHostedHasHost ==
    \A g \in ToSet(games) :
        LET p == game[g].host IN
        ~game[g].usesRelay /\ p \notin kicked =>
            /\ presence[p] # "gone"
            /\ gameOf[p] = g \/ busy[p] = <<"enter", g>>

\* Whether another game ever had the name of g.
NameReused(g) == \E h \in Game \ {g} : game[h].name = game[g].name

\* A game that has ended on the relay does not haunt the list of the metaserver,
\* unless a call was lost or the name has been used for another game.
NoGhosts ==
    \A g \in ToSet(games) :
        game[g].usesRelay /\ ~listed[g] => lost \/ NameReused(g)

\* A game of the relay is offered to players only if its host has come to the
\* relay, or the metaserver could not know better because of its name.
OfferedIsHosted ==
    \A g \in ToSet(games) :
        /\ game[g].usesRelay /\ game[g].state = "CONNECTABLE"
        => "GameConnected" \in told[g] \/ NameReused(g)

\* A game without a host does not stay on the relay: its own timer is still to
\* come, or the shutdown its host has left behind or a kick has begun goes on, or
\* somebody waits to remove it.
UnhostedIsEnding ==
    \A g \in Game :
        listed[g] /\ ~hosted[g] => \/ timer[g] = "on"
                                  \/ ending[g] \in {"begun", "dropped"}
                                  \/ \E by \in Game \cup {0} : <<by, g>> \in closing

\* Timers that go by names included, every game of the relay behaves as RelayGame
\* says, which is what Relay implements.
OnRelay(g) == INSTANCE RelayGame WITH
    hosted <- hosted[g], told <- told[g],
    listed <- listed[g] \/ create[g] \in {"none", "sent", "no"}
IsRelay ==
    /\ \A g \in Game : OnRelay(g)!Init
    /\ [][\A g \in Game : [OnRelay(g)!Next]_(OnRelay(g)!gvars)]_vars
================================================================================
