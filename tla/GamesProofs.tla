------------------------------ MODULE GamesProofs ------------------------------
(***************************************************************************)
(* Theorems about the games of the metaserver and the relay, for any       *)
(* number of players, names, games and mishaps.  The first part is about   *)
(* the relay: every game behaves as RelayGame says, and none is left there *)
(* without a host and without somebody who will end it.  The second part,  *)
(* which rests on the first, is about the list of the metaserver: what is  *)
(* on it has a host, has not ended on the relay and is offered only when   *)
(* its host has come.                                                      *)
(***************************************************************************)
EXTENDS Games, ListLemmas

\* Of a game that the relay has not made there is no trace on the relay.
Unmade(g) == create[g] \in {"none", "sent", "no"}
NoTrace(g) ==
    /\ ~listed[g] /\ ~hosted[g] /\ told[g] = {} /\ ending[g] = "no" /\ timer[g] = "off"
    /\ \A by \in Game \cup {0} : <<by, g>> \notin closing

TypesOK ==
    /\ game \in [Game -> GameObject] /\ opened \in 0..MaxGames
    /\ create \in [Game -> {"none", "sent", "yes", "no", "answered"}]
    /\ listed \in [Game -> BOOLEAN] /\ hosted \in [Game -> BOOLEAN]
    /\ told \in [Game -> SUBSET {"GameConnected", "GameClosed"}]
    /\ ending \in [Game -> {"no", "begun", "dropped", "ended"}]
    /\ timer \in [Game -> {"off", "on"}]
    /\ closing \subseteq (Game \cup {0}) \X Game

\* The relay lists one game of a name, and it has told of a game that it is about
\* to remove.  A shutdown that is over has left somebody who removes the game.
IInv ==
    /\ TypesOK
    /\ \A g \in Game : /\ g > opened => create[g] = "none"
                       /\ Unmade(g) => NoTrace(g)
                       /\ ending[g] = "ended" /\ listed[g] => <<0, g>> \in closing
    /\ \A g, h \in Game : listed[g] /\ listed[h] /\ game[g].name = game[h].name => g = h
    /\ \A by \in Game \cup {0}, g \in Game : <<by, g>> \in closing => "GameClosed" \in told[g]
    /\ UnhostedIsEnding

Relays == [\A g \in Game : [OnRelay(g)!Next]_(OnRelay(g)!gvars)]_vars

LEMMA InitIInv == Init => IInv
BY GamesAssumption
DEF Init, IInv, TypesOK, GameObject, State, Game, Unmade, NoTrace, UnhostedIsEnding

-----------------------------------------------------------------------------
(* Steps that the relay takes no part in                                   *)

\* As long as the games keep their names, the metaserver may do what it likes.
LEMMA Elsewhere ==
    ASSUME IInv, game' \in [Game -> GameObject],
           \A g \in Game : game'[g].name = game[g].name,
           UNCHANGED <<opened, relayVars, create>>
    PROVE  IInv' /\ Relays
<1>1. IInv'
    BY DEF IInv, TypesOK, Unmade, NoTrace, UnhostedIsEnding, relayVars
<1>2. \A g \in Game : UNCHANGED OnRelay(g)!gvars
    BY DEF OnRelay!gvars, relayVars
<1> QED  BY <1>1, <1>2 DEF Relays

\* A field of one game changes that is not its name.
LEMMA FieldsTyped ==
    ASSUME game \in [Game -> GameObject], NEW g, NEW s \in State
    PROVE  /\ [game EXCEPT ![g].state = s] \in [Game -> GameObject]
           /\ \A h \in Game : [game EXCEPT ![g].state = s][h].name = game[h].name
           /\ [game EXCEPT ![g].joined = TRUE] \in [Game -> GameObject]
           /\ \A h \in Game : [game EXCEPT ![g].joined = TRUE][h].name = game[h].name
BY DEF GameObject

LEMMA EnterTyped ==
    ASSUME IInv, NEW p, NEW g, EnterGame(p, g)
    PROVE  /\ game' \in [Game -> GameObject] /\ opened' = opened
           /\ \A h \in Game : game'[h].name = game[h].name
<1>1. CASE UNCHANGED <<listVars, gameOf>>
    BY <1>1 DEF IInv, TypesOK, listVars
<1>2. CASE game' = [game EXCEPT ![g].joined = TRUE] /\ UNCHANGED opened
    <2>1. "RUNNING" \in State
        BY DEF State
    <2> QED  BY <1>2, <2>1, FieldsTyped DEF IInv, TypesOK
<1> QED  BY <1>1, <1>2 DEF EnterGame

LEMMA MetaserverSteps ==
    ASSUME IInv, NEW p, NEW n, NEW g, NEW c,
           \/ Connect(p, n) \/ Enter(p, g) \/ Start(p) \/ Disconnect(p) \/ Quit(p)
           \/ Forget(p) \/ Cut(p) \/ Replace(p) \/ Login(p) \/ KickPlayer(p)
           \/ KickGame(n) \/ KickReturns \/ WeeklyCleanup(g) \/ PingLook(g)
           \/ PingDone(g) \/ GameConnected(c) \/ GameClosed(c) \/ Lose(c)
    PROVE  IInv' /\ Relays
<1>1. CASE \/ Disconnect(p) \/ Quit(p) \/ Forget(p) \/ Cut(p) \/ Replace(p) \/ Login(p)
           \/ KickPlayer(p) \/ KickGame(n) \/ KickReturns \/ WeeklyCleanup(g)
           \/ PingLook(g) \/ GameClosed(c) \/ Lose(c)
    <2>1. UNCHANGED <<game, opened, relayVars, create>>
        BY <1>1
        DEF Disconnect, Quit, Forget, Cut, Replace, Login, KickPlayer, KickGame, KickReturns,
            WeeklyCleanup, PingLook, GameClosed, Lose, LeaveGame, Arrived, listVars
    <2> QED  BY <2>1, Elsewhere DEF IInv, TypesOK
<1>2. CASE Connect(p, n) \/ Enter(p, g)
    <2>1. /\ UNCHANGED <<relayVars, create>>
          /\ \/ UNCHANGED listVars
             \/ \E h : EnterGame(p, h)
        BY <1>2 DEF Connect, Enter
    <2>2. CASE UNCHANGED listVars
        BY <2>1, <2>2, Elsewhere DEF IInv, TypesOK, listVars
    <2>3. CASE \E h : EnterGame(p, h)
        BY <2>1, <2>3, EnterTyped, Elsewhere
    <2> QED  BY <2>1, <2>2, <2>3
<1>3. CASE Start(p) \/ PingDone(g) \/ GameConnected(c)
    <2>1. /\ UNCHANGED <<opened, relayVars, create>>
          /\ \/ UNCHANGED game
             \/ \E h : \E s \in State : game' = [game EXCEPT ![h].state = s]
        <3>1. /\ "RUNNING" \in State /\ "CONNECTABLE" \in State /\ "NOT_CONNECTABLE" \in State
            BY DEF State
        <3>2. CASE Start(p)
            BY <3>1, <3>2 DEF Start, SetState
        <3>3. CASE PingDone(g)
            BY <3>1, <3>3 DEF PingDone, SetState
        <3>4. CASE GameConnected(c)
            BY <3>1, <3>4 DEF GameConnected, SetState, Arrived
        <3> QED  BY <1>3, <3>2, <3>3, <3>4
    <2>2. CASE UNCHANGED game
        BY <2>1, <2>2, Elsewhere DEF IInv, TypesOK
    <2>3. CASE \E h : \E s \in State : game' = [game EXCEPT ![h].state = s]
        <3>1. PICK h : \E s \in State : game' = [game EXCEPT ![h].state = s]
            BY <2>3
        <3>3. PICK s \in State : game' = [game EXCEPT ![h].state = s]
            BY <3>1
        <3>2. game \in [Game -> GameObject]
            BY DEF IInv, TypesOK
        <3>4. /\ game' \in [Game -> GameObject]
              /\ \A k \in Game : game'[k].name = game[k].name
            BY <3>2, <3>3 DEF GameObject
        <3> QED  BY <2>1, <3>4, Elsewhere
    <2> QED  BY <2>1, <2>2, <2>3
<1> QED  BY <1>1, <1>2, <1>3

\* A game that is opened is none of the relay's yet.
LEMMA OpenSteps ==
    ASSUME IInv, NEW p \in Player, NEW n \in Name, OpenOwn(p, n) \/ OpenOnRelay(p, n)
    PROVE  IInv' /\ Relays
<1> DEFINE g == opened + 1
<1>1. /\ opened < MaxGames /\ opened' = g
      /\ game' = [game EXCEPT ![g] = NewGame(p, n)]
      /\ create' = create \/ create' = [create EXCEPT ![g] = "sent"]
      /\ UNCHANGED relayVars
    BY DEF OpenOwn, OpenOnRelay
<1>2. g \in Game /\ opened' \in 0..MaxGames /\ create[g] = "none"
    <2>1. opened \in 0..MaxGames /\ MaxGames \in Nat
        BY GamesAssumption DEF IInv, TypesOK
    <2>2. g \in Game /\ opened' \in 0..MaxGames /\ g > opened
        BY <1>1, <2>1 DEF Game
    <2> QED  BY <2>2 DEF IInv
<1>3. NewGame(p, n) \in GameObject
    BY DEF NewGame, GameObject, State
<1>4. TypesOK'
    BY <1>1, <1>2, <1>3 DEF IInv, TypesOK, relayVars
<1>5. Unmade(g) /\ NoTrace(g)
    BY <1>2 DEF IInv, Unmade
<1>6. \A h \in Game : h # g => game'[h] = game[h] /\ create'[h] = create[h]
    BY <1>1, <1>2 DEF IInv, TypesOK
<1>7. \A h \in Game : /\ h > opened' => create'[h] = "none"
                      /\ Unmade(h)' => Unmade(h)
                      /\ Unmade(h) => Unmade(h)'
    <2> SUFFICES ASSUME NEW h \in Game PROVE /\ h > opened' => create'[h] = "none"
                                             /\ Unmade(h)' <=> Unmade(h)
        OBVIOUS
    <2>3. create \in [Game -> {"none", "sent", "yes", "no", "answered"}]
        BY DEF IInv, TypesOK
    <2>4. opened \in Nat /\ h \in Nat
        BY GamesAssumption DEF IInv, TypesOK, Game
    <2>1. CASE h = g
        <3>1. create'[h] \in {"none", "sent"} /\ create[h] = "none"
            BY <2>1, <2>3, <1>1, <1>2
        <3> QED  BY <2>1, <2>4, <3>1, <1>1 DEF Unmade
    <2>2. CASE h # g
        <3>1. create'[h] = create[h]
            BY <2>2, <1>6
        <3>2. h > opened' => h > opened
            BY <2>4, <1>1
        <3> QED  BY <3>1, <3>2 DEF IInv, Unmade
    <2> QED  BY <2>1, <2>2
<1>8. IInv'
    <2>1. \A h, k \in Game : listed'[h] /\ listed'[k] /\ game'[h].name = game'[k].name => h = k
        BY <1>1, <1>5, <1>6 DEF IInv, NoTrace, relayVars
    <2> QED  BY <1>1, <1>4, <1>7, <2>1 DEF IInv, NoTrace, UnhostedIsEnding, relayVars
<1>9. Relays
    BY <1>1, <1>7 DEF Relays, OnRelay!gvars, relayVars, Unmade
<1> QED  BY <1>8, <1>9

\* The metaserver takes the answer of the relay.
LEMMA CreatedSteps ==
    ASSUME IInv, NEW p \in Player, NEW g \in Game, Created(p, g)
    PROVE  IInv' /\ Relays
<1>1. /\ UNCHANGED <<game, opened, relayVars>>
      /\ \/ UNCHANGED create
         \/ create[g] = "yes" /\ create' = [create EXCEPT ![g] = "answered"]
    BY DEF Created
<1>2. create' \in [Game -> {"none", "sent", "yes", "no", "answered"}]
    BY <1>1 DEF IInv, TypesOK
<1>3. \A h \in Game : /\ Unmade(h)' <=> Unmade(h)
                      /\ create[h] = "none" => create'[h] = "none"
    BY <1>1 DEF IInv, TypesOK, Unmade
<1>4. IInv'
    BY <1>1, <1>2, <1>3 DEF IInv, TypesOK, NoTrace, UnhostedIsEnding, relayVars
<1>5. Relays
    BY <1>1, <1>3 DEF Relays, OnRelay!gvars, relayVars, Unmade
<1> QED  BY <1>4, <1>5

-----------------------------------------------------------------------------
(* Steps of the relay                                                      *)

\* What a step of the relay does for one game to preserve the invariant.
Keeps(g) ==
    /\ Unmade(g) => NoTrace(g)'
    /\ listed'[g] => listed[g]
    /\ ending'[g] = "ended" /\ listed'[g] => <<0, g>> \in closing'
    /\ listed'[g] /\ ~hosted'[g] => \/ timer'[g] = "on"
                                    \/ ending'[g] \in {"begun", "dropped"}
                                    \/ \E by \in Game \cup {0} : <<by, g>> \in closing'
    /\ \A by \in Game \cup {0} : <<by, g>> \in closing' => "GameClosed" \in told'[g]

\* All steps but CreateGame leave the list of games and the creations alone.
LEMMA RelaySteps ==
    ASSUME IInv, UNCHANGED <<listVars, create>>, TypesOK', \A g \in Game : Keeps(g),
           \A g \in Game : [OnRelay(g)!Next]_(OnRelay(g)!gvars)
    PROVE  IInv' /\ Relays
<1>1. IInv'
    BY DEF IInv, listVars, Unmade, UnhostedIsEnding, Keeps
<1> QED  BY <1>1 DEF Relays

\* A game that the step has nothing to do with.
Untouched(g) ==
    /\ UNCHANGED <<listed[g], hosted[g], told[g], ending[g], timer[g]>>
    /\ \A by \in Game \cup {0} : <<by, g>> \in closing' <=> <<by, g>> \in closing

LEMMA UntouchedKeeps ==
    ASSUME IInv, NEW g \in Game, Untouched(g)
    PROVE  Keeps(g)
<1>1. Unmade(g) => NoTrace(g)'
    BY DEF IInv, NoTrace, Untouched
<1> QED  BY <1>1 DEF IInv, UnhostedIsEnding, Keeps, Untouched

LEMMA HostSteps ==
    ASSUME IInv, NEW g \in Game,
           HostArrives(g) \/ HostLeaves(g) \/ DropHost(g)
    PROVE  IInv' /\ Relays
<1>1. UNCHANGED <<listVars, create, listed, timer, closing>>
    BY DEF HostArrives, HostLeaves, DropHost
<1>2. CASE HostArrives(g)
    <2>1. /\ listed[g] /\ ~hosted[g] /\ create[g] = "answered"
          /\ hosted' = [hosted EXCEPT ![g] = TRUE]
          /\ told' = [told EXCEPT ![g] = @ \cup {"GameConnected"}]
          /\ ending' = ending
        BY <1>2 DEF HostArrives
    <2>2. TypesOK'
        BY <1>1, <2>1 DEF IInv, TypesOK, listVars
    <2>3. \A h \in Game : [OnRelay(h)!Next]_(OnRelay(h)!gvars)
        BY <1>1, <2>1
        DEF IInv, TypesOK, OnRelay!Next, OnRelay!HostArrives, OnRelay!gvars
    <2>4. \A h \in Game : h # g => Untouched(h)
        BY <1>1, <2>1 DEF IInv, TypesOK, Untouched
    <2>5. hosted'[g] /\ told[g] \subseteq told'[g] /\ ~Unmade(g)
        BY <2>1 DEF IInv, TypesOK, Unmade
    <2>6. Keeps(g)
        BY <1>1, <2>1, <2>5 DEF IInv, Keeps
    <2> QED  BY <1>1, <2>2, <2>3, <2>4, <2>6, UntouchedKeeps, RelaySteps
<1>3. CASE HostLeaves(g) \/ DropHost(g)
    <2>1. /\ hosted' = [hosted EXCEPT ![g] = FALSE]
          /\ \/ hosted[g] /\ ending' = [ending EXCEPT ![g] = IF @ = "no" THEN "dropped" ELSE @]
             \/ ending[g] = "begun" /\ ending' = [ending EXCEPT ![g] = "dropped"]
          /\ told' = told
        BY <1>3 DEF HostLeaves, DropHost
    <2>2. TypesOK'
        BY <1>1, <2>1 DEF IInv, TypesOK, listVars
    <2>3. \A h \in Game : [OnRelay(h)!Next]_(OnRelay(h)!gvars)
        BY <1>1, <2>1 DEF IInv, TypesOK, OnRelay!Next, OnRelay!HostGoes, OnRelay!gvars
    <2>4. \A h \in Game : h # g => Untouched(h)
        BY <1>1, <2>1 DEF IInv, TypesOK, Untouched
    <2>5. /\ ~Unmade(g)
          /\ \/ ending'[g] \in {"dropped", "begun"}
             \/ ending'[g] = "ended" /\ ending[g] = "ended"
        <3>1. ~NoTrace(g)
            BY <2>1 DEF NoTrace
        <3>2. ending \in [Game -> {"no", "begun", "dropped", "ended"}]
            BY DEF IInv, TypesOK
        <3>3. ~Unmade(g)
            BY <3>1 DEF IInv
        <3>4. ending'[g] = "dropped" \/ (ending'[g] = ending[g] /\ ending[g] # "no")
            BY <2>1, <3>2
        <3> QED  BY <3>2, <3>3, <3>4
    <2>6. Keeps(g)
        BY <1>1, <2>1, <2>5 DEF IInv, Keeps
    <2> QED  BY <1>1, <2>2, <2>3, <2>4, <2>6, UntouchedKeeps, RelaySteps
<1> QED  BY <1>2, <1>3

LEMMA OrderSteps ==
    ASSUME IInv, NEW n, RemoveGame(n)
    PROVE  IInv' /\ Relays
<1>1. /\ UNCHANGED <<listVars, create, listed, timer, closing, hosted, told>>
      /\ ending' = [h \in Game |-> IF h \in Named(n) /\ ending[h] = "no" THEN "begun"
                                   ELSE ending[h]]
    BY DEF RemoveGame
<1>2. TypesOK'
    BY <1>1 DEF IInv, TypesOK, listVars
<1>3. \A h \in Game : [OnRelay(h)!Next]_(OnRelay(h)!gvars)
    BY <1>1 DEF OnRelay!gvars
<1>4. ASSUME NEW h \in Game, ~Untouched(h)
      PROVE  listed[h] /\ ending'[h] = "begun"
    BY <1>1, <1>4 DEF Named, Untouched
<1>5. \A h \in Game : Keeps(h)
    <2> SUFFICES ASSUME NEW h \in Game, ~Untouched(h) PROVE Keeps(h)
        BY UntouchedKeeps
    <2>1. ~Unmade(h)
        BY <1>4 DEF IInv, NoTrace
    <2> QED  BY <1>1, <1>4, <2>1 DEF IInv, Keeps
<1> QED  BY <1>1, <1>2, <1>3, <1>5, RelaySteps

\* TellClosed, for a game on the list, whether a timer or a shutdown does it.
LEMMA TellSteps ==
    ASSUME IInv, NEW by \in Game \cup {0}, NEW g \in Game, listed[g], TellClosed(by, g),
           UNCHANGED <<hosted, listed, create>>
    PROVE  /\ told' \in [Game -> SUBSET {"GameConnected", "GameClosed"}]
           /\ closing' \subseteq (Game \cup {0}) \X Game
           /\ ~Unmade(g) /\ "GameClosed" \in told'[g] /\ <<by, g>> \in closing'
           /\ \A h \in Game : h # g => UNCHANGED told[h]
           /\ \A b \in Game \cup {0}, h \in Game :
                 h # g => (<<b, h>> \in closing' <=> <<b, h>> \in closing)
           /\ \A h \in Game : [OnRelay(h)!Next]_(OnRelay(h)!gvars)
<1>1. /\ told' = [told EXCEPT ![g] = @ \cup {"GameClosed"}]
      /\ closing' = closing \cup {<<by, g>>}
    BY DEF TellClosed
<1>2. \A h \in Game : [OnRelay(h)!Next]_(OnRelay(h)!gvars)
    BY <1>1 DEF IInv, TypesOK, OnRelay!Next, OnRelay!TellClosed, OnRelay!gvars
<1>3. told' \in [Game -> SUBSET {"GameConnected", "GameClosed"}]
    BY <1>1 DEF IInv, TypesOK
<1>4. closing' \subseteq (Game \cup {0}) \X Game
    BY <1>1 DEF IInv, TypesOK
<1>5. "GameClosed" \in told'[g] /\ \A h \in Game : h # g => UNCHANGED told[h]
    BY <1>1 DEF IInv, TypesOK
<1>6. ~Unmade(g)
    BY DEF IInv, NoTrace
<1>7. \A b \in Game \cup {0}, h \in Game :
          h # g => (<<b, h>> \in closing' <=> <<b, h>> \in closing)
    BY <1>1
<1> QED  BY <1>1, <1>2, <1>3, <1>4, <1>5, <1>6, <1>7

LEMMA EndSteps ==
    ASSUME IInv, NEW g \in Game, EndGame(g) \/ Timer(g)
    PROVE  IInv' /\ Relays
<1>1. UNCHANGED <<listVars, create, listed, hosted>>
    BY DEF EndGame, Timer
<1>2. CASE EndGame(g)
    <2>1. /\ ending[g] = "dropped" /\ ending' = [ending EXCEPT ![g] = "ended"]
          /\ \/ listed[g] /\ TellClosed(0, g)
             \/ ~listed[g] /\ UNCHANGED <<told, closing>>
          /\ timer' = timer
        BY <1>2 DEF EndGame
    <2>2. ~Unmade(g)
        BY <2>1 DEF IInv, NoTrace
    <2>3. CASE listed[g] /\ TellClosed(0, g)
        <3>1. TypesOK'
            BY <1>1, <2>1, <2>3, TellSteps DEF IInv, TypesOK, listVars
        <3>2. ASSUME NEW h \in Game, h # g PROVE Untouched(h)
            <4>1. UNCHANGED <<told[h], listed[h], hosted[h], timer[h]>>
                BY <1>1, <2>1, <2>3, <3>2, TellSteps DEF listVars
            <4>2. UNCHANGED ending[h]
                BY <2>1, <3>2 DEF IInv, TypesOK
            <4>3. \A b \in Game \cup {0} : <<b, h>> \in closing' <=> <<b, h>> \in closing
                BY <1>1, <2>3, <3>2, TellSteps DEF listVars
            <4> QED  BY <4>1, <4>2, <4>3 DEF Untouched
        <3>3. closing \subseteq closing' /\ <<0, g>> \in closing' /\ "GameClosed" \in told'[g]
            BY <1>1, <2>3, TellSteps DEF TellClosed
        <3>4. Keeps(g)
            BY <1>1, <2>2, <3>3 DEF Keeps
        <3> QED  BY <1>1, <2>3, <3>1, <3>2, <3>4, TellSteps, UntouchedKeeps, RelaySteps
    <2>4. CASE ~listed[g] /\ UNCHANGED <<told, closing>>
        <3>1. TypesOK'
            BY <1>1, <2>1, <2>4 DEF IInv, TypesOK, listVars
        <3>2. \A h \in Game : [OnRelay(h)!Next]_(OnRelay(h)!gvars)
            BY <1>1, <2>4 DEF OnRelay!gvars
        <3>3. \A h \in Game : h # g => Untouched(h)
            BY <1>1, <2>1, <2>4 DEF IInv, TypesOK, Untouched
        <3>4. Keeps(g)
            BY <1>1, <2>2, <2>4 DEF IInv, Keeps
        <3> QED  BY <1>1, <3>1, <3>2, <3>3, <3>4, UntouchedKeeps, RelaySteps
    <2> QED  BY <2>1, <2>3, <2>4
<1>3. CASE Timer(g)
    <2>1. /\ timer[g] = "on" /\ timer' = [timer EXCEPT ![g] = "off"]
          /\ \/ \E h \in Named(game[g].name) : ~hosted[h] /\ TellClosed(g, h)
             \/ (\A h \in Named(game[g].name) : hosted[h]) /\ UNCHANGED <<told, closing>>
          /\ ending' = ending
        BY <1>3 DEF Timer
    <2>2. ~Unmade(g)
        BY <2>1 DEF IInv, NoTrace
    <2>3. CASE \E h \in Named(game[g].name) : ~hosted[h] /\ TellClosed(g, h)
        <3>1. PICK h \in Named(game[g].name) : ~hosted[h] /\ TellClosed(g, h)
            BY <2>3
        <3>2. h \in Game /\ listed[h] /\ game[h].name = game[g].name
            BY <3>1 DEF Named
        <3>3. listed[g] => h = g
            BY <3>2 DEF IInv
        <3>4. TypesOK'
            BY <1>1, <2>1, <3>1, <3>2, TellSteps DEF IInv, TypesOK, listVars
        <3>5. ASSUME NEW k \in Game, k # h, k # g PROVE Untouched(k)
            <4>1. UNCHANGED <<told[k], listed[k], hosted[k], ending[k]>>
                BY <1>1, <2>1, <3>1, <3>2, <3>5, TellSteps DEF listVars
            <4>2. UNCHANGED timer[k]
                BY <2>1, <3>5 DEF IInv, TypesOK
            <4>3. \A b \in Game \cup {0} : <<b, k>> \in closing' <=> <<b, k>> \in closing
                BY <1>1, <3>1, <3>2, <3>5, TellSteps DEF listVars
            <4> QED  BY <4>1, <4>2, <4>3 DEF Untouched
        <3>6. /\ closing \subseteq closing' /\ <<g, h>> \in closing'
              /\ "GameClosed" \in told'[h] /\ ~Unmade(h)
            BY <1>1, <3>1, <3>2, TellSteps DEF TellClosed
        <3>7. Keeps(h)
            <4>1. ending[h] = "ended" /\ listed[h] => <<0, h>> \in closing
                BY <3>2 DEF IInv
            <4> QED  BY <1>1, <2>1, <3>6, <4>1 DEF Keeps
        <3>8. h # g => Keeps(g)
            <4> SUFFICES ASSUME h # g PROVE Keeps(g)
                OBVIOUS
            <4>1. \A by \in Game \cup {0} : <<by, g>> \in closing' <=> <<by, g>> \in closing
                BY <1>1, <3>1, <3>2, TellSteps
            <4>2. told'[g] = told[g]
                BY <1>1, <3>1, <3>2, TellSteps
            <4> QED  BY <1>1, <2>2, <3>3, <4>1, <4>2 DEF IInv, Keeps
        <3>9. \A k \in Game : Keeps(k)
            BY <3>5, <3>7, <3>8, UntouchedKeeps
        <3> QED  BY <1>1, <3>1, <3>2, <3>4, <3>9, TellSteps, RelaySteps
    <2>4. CASE (\A h \in Named(game[g].name) : hosted[h]) /\ UNCHANGED <<told, closing>>
        <3>1. TypesOK'
            BY <1>1, <2>1, <2>4 DEF IInv, TypesOK, listVars
        <3>2. \A h \in Game : [OnRelay(h)!Next]_(OnRelay(h)!gvars)
            BY <1>1, <2>4 DEF OnRelay!gvars
        <3>3. \A h \in Game : h # g => Untouched(h)
            BY <1>1, <2>1, <2>4 DEF IInv, TypesOK, Untouched
        <3>4. listed[g] => hosted[g]
            BY <2>4 DEF Named
        <3>5. Keeps(g)
            BY <1>1, <2>1, <2>2, <2>4, <3>4 DEF IInv, Keeps
        <3> QED  BY <1>1, <3>1, <3>2, <3>3, <3>5, UntouchedKeeps, RelaySteps
    <2> QED  BY <2>1, <2>3, <2>4
<1> QED  BY <1>2, <1>3

LEMMA RemoveSteps ==
    ASSUME IInv, NEW by \in Game \cup {0}, NEW g \in Game, RemoveGameObject(by, g)
    PROVE  IInv' /\ Relays
<1>1. /\ <<by, g>> \in closing
      /\ closing' = closing \ {<<by, g>>}
      /\ listed' = [listed EXCEPT ![g] = FALSE]
      /\ UNCHANGED <<listVars, create, hosted, told, ending, timer>>
    BY DEF RemoveGameObject
<1>2. TypesOK'
    BY <1>1 DEF IInv, TypesOK, listVars
<1>3. "GameClosed" \in told[g] /\ ~Unmade(g)
    BY <1>1 DEF IInv, NoTrace
<1>4. \A h \in Game : [OnRelay(h)!Next]_(OnRelay(h)!gvars)
    BY <1>1, <1>3
    DEF IInv, TypesOK, Unmade, OnRelay!Next, OnRelay!Remove, OnRelay!gvars
<1>5. \A h \in Game : h # g => Untouched(h)
    BY <1>1 DEF IInv, TypesOK, Untouched
<1>6. ~listed'[g]
    BY <1>1 DEF IInv, TypesOK
<1>7. Keeps(g)
    BY <1>1, <1>3, <1>6 DEF IInv, Keeps
<1> QED  BY <1>1, <1>2, <1>4, <1>5, <1>7, UntouchedKeeps, RelaySteps

LEMMA CreateSteps ==
    ASSUME IInv, NEW g \in Game, CreateGame(g)
    PROVE  IInv' /\ Relays
<1>1. /\ create[g] = "sent" /\ NoTrace(g)
      /\ UNCHANGED <<listVars, hosted, told, ending, closing>>
    BY DEF CreateGame, IInv, Unmade
<1>2. CASE create' = [create EXCEPT ![g] = "no"] /\ UNCHANGED <<listed, timer>>
    <2>1. create' \in [Game -> {"none", "sent", "yes", "no", "answered"}]
        BY <1>2 DEF IInv, TypesOK
    <2>2. \A h \in Game : /\ Unmade(h)' <=> Unmade(h)
                          /\ create[h] = "none" => create'[h] = "none"
        BY <1>1, <1>2 DEF IInv, TypesOK, Unmade
    <2>3. IInv'
        BY <1>1, <1>2, <2>1, <2>2 DEF IInv, TypesOK, NoTrace, UnhostedIsEnding, listVars
    <2>4. Relays
        BY <1>1, <1>2, <2>2 DEF Relays, OnRelay!gvars, Unmade
    <2> QED  BY <2>3, <2>4
<1>3. CASE /\ Named(game[g].name) = {}
           /\ create' = [create EXCEPT ![g] = "yes"]
           /\ listed' = [listed EXCEPT ![g] = TRUE]
           /\ timer' = [timer EXCEPT ![g] = "on"]
    <2>1. TypesOK'
        BY <1>1, <1>3 DEF IInv, TypesOK, listVars
    <2>2. \A h \in Game : h # g => /\ Unmade(h)' <=> Unmade(h)
                                   /\ create'[h] = create[h]
                                   /\ listed'[h] = listed[h] /\ timer'[h] = timer[h]
        BY <1>3 DEF IInv, TypesOK, Unmade
    <2>3. ~Unmade(g)' /\ Unmade(g) /\ listed'[g] /\ timer'[g] = "on" /\ create'[g] = "yes"
        BY <1>1, <1>3 DEF IInv, TypesOK, Unmade
    <2>4. \A h \in Game : listed[h] => game[h].name # game[g].name
        BY <1>3 DEF Named
    <2>5. \A h \in Game : /\ h > opened => create'[h] = "none"
                          /\ Unmade(h)' => NoTrace(h)'
        BY <1>1, <2>2, <2>3 DEF IInv, NoTrace
    <2>6. IInv'
        BY SMTT(30), <1>1, <2>1, <2>2, <2>3, <2>4, <2>5
        DEF IInv, NoTrace, UnhostedIsEnding, listVars
    <2>7. \A h \in Game : UNCHANGED OnRelay(h)!gvars
        BY <1>1, <2>2, <2>3 DEF OnRelay!gvars, Unmade, IInv, TypesOK
    <2> QED  BY <2>6, <2>7 DEF Relays
<1> QED  BY <1>2, <1>3 DEF CreateGame

-----------------------------------------------------------------------------
LEMMA NextSteps ==
    ASSUME IInv, [Next]_vars
    PROVE  IInv' /\ Relays
<1>1. CASE Next
    <2>1. CASE \E p \in Player, n \in Name : OpenOwn(p, n) \/ OpenOnRelay(p, n)
        BY <2>1, OpenSteps
    <2>2. CASE \E p \in Player, g \in Game : Created(p, g)
        BY <2>2, CreatedSteps
    <2>3. CASE \E p, n, g, c :
                  \/ Connect(p, n) \/ Enter(p, g) \/ Start(p) \/ Disconnect(p) \/ Quit(p)
                  \/ Forget(p) \/ Cut(p) \/ Replace(p) \/ Login(p) \/ KickPlayer(p)
                  \/ KickGame(n) \/ KickReturns \/ WeeklyCleanup(g) \/ PingLook(g)
                  \/ PingDone(g) \/ GameConnected(c) \/ GameClosed(c) \/ Lose(c)
        BY <2>3, MetaserverSteps
    <2>4. CASE \E g \in Game : HostArrives(g) \/ HostLeaves(g) \/ DropHost(g)
        BY <2>4, HostSteps
    <2>5. CASE \E n : RemoveGame(n)
        BY <2>5, OrderSteps
    <2>6. CASE \E g \in Game : EndGame(g) \/ Timer(g) \/ CreateGame(g)
        BY <2>6, EndSteps, CreateSteps
    <2>7. CASE \E by \in Game \cup {0}, g \in Game : RemoveGameObject(by, g)
        BY <2>7, RemoveSteps
    <2> QED  BY <1>1, <2>1, <2>2, <2>3, <2>4, <2>5, <2>6, <2>7 DEF Next
<1>2. CASE UNCHANGED vars
    <2>1. UNCHANGED <<game, opened, relayVars, create>>
        BY <1>2 DEF vars, listVars
    <2> QED  BY <2>1, Elsewhere DEF IInv, TypesOK
<1> QED  BY <1>1, <1>2

LEMMA Invariant == Spec => []IInv
<1>1. Init => IInv
    BY InitIInv
<1>2. IInv /\ [Next]_vars => IInv'
    BY NextSteps
<1> QED  BY <1>1, <1>2, PTL DEF Spec

\* No game stays on the relay without a host and without somebody who will end it,
\* whatever calls are lost or late and however names are used again
\* (RemoveGameIfNoHostIsConnected, Shutdown and RemoveGameObject of the relay).
THEOREM NoneLeftBehind == Spec => []UnhostedIsEnding
<1>1. IInv => UnhostedIsEnding
    BY DEF IInv
<1> QED  BY <1>1, Invariant, PTL

\* Every game of the relay is a RelayGame, timers that go by names included.
THEOREM EveryGameIsRelay == Spec => IsRelay
<1>1. Init => \A g \in Game : OnRelay(g)!Init
    BY DEF Init, OnRelay!Init
<1>2. IInv /\ [Next]_vars => [\A g \in Game : [OnRelay(g)!Next]_(OnRelay(g)!gvars)]_vars
    BY NextSteps DEF Relays
<1> QED  BY <1>1, <1>2, Invariant, PTL DEF Spec, IsRelay

-----------------------------------------------------------------------------
(* The list of the metaserver                                              *)

\* A game that is made belongs to one who opens it with GAME_OPEN; on the list
\* are games that are made.
Objects ==
    /\ \A g \in Game :
          /\ g > opened => pinger[g] = "none" /\ game[g].name = Nil
          /\ g <= opened => game[g].name \in Name /\ game[g].host \in Player
          /\ create[g] # "none" => game[g].usesRelay
    /\ \A g \in ToSet(games) :
          /\ g <= opened
          /\ game[g].usesRelay => create[g] = "answered"

\* Who is disconnected has finished its GAME_OPEN, and a GAME_OPEN waits for the
\* answer of the relay as long as there can be one.
Goroutines ==
    /\ \A p \in Player :
          /\ presence[p] \in {"cut", "swap"} => busy[p] = Nil
          /\ \A g \in Game : busy[p] \in {<<"create", g>>, <<"enter", g>>} =>
                g <= opened /\ game[g].host = p
    /\ \A g \in Game :
          create[g] \in {"sent", "yes"} => lost \/ busy[game[g].host] = <<"create", g>>

\* The orders to remove a name stem from a game that was made; a host that the
\* metaserver is told of has come.
Orders == \A n \in orders : \E g \in Game : game[g].name = n /\ create[g] = "answered"
Reports == \A c \in news \cup late : c[1] = "GameConnected" => "GameConnected" \in told[c[3]]

\* What is true of a game whose name is its own, and of its end as long as no
\* call is lost: nothing ends it before the metaserver lists it, and then it is
\* not removed from the relay before the metaserver has executed GameClosed.
Unmistaken(g) == g <= opened /\ ~NameReused(g)
Offer(g) ==
    game[g].usesRelay /\ game[g].state = "CONNECTABLE" => "GameConnected" \in told[g]
End(g) ==
    /\ create[g] = "yes" =>
          listed[g] /\ ~hosted[g] /\ told[g] = {} /\ ending[g] = "no"
    /\ g \in ToSet(games) /\ game[g].usesRelay =>
          /\ listed[g]
          /\ \A by \in Game \cup {0} :
                <<by, g>> \in closing => <<"GameClosed", by, g>> \in news
Unmixed == \A g \in Game : Unmistaken(g) => Offer(g) /\ (~lost => End(g))

MInv ==
    /\ TypeOK /\ Objects /\ Goroutines /\ SelfHostedHasHost
    /\ Orders /\ Reports /\ Unmixed

LEMMA InitMInv == Init => MInv
<1> SUFFICES ASSUME Init PROVE MInv
    OBVIOUS
<1>1. ToSet(games) = {} /\ IsInjective(games) /\ games \in Seq(Game)
    BY EmptyHasNoElements DEF Init
<1>2. TypeOK
    <2>1. game \in [Game -> GameObject] /\ \A g \in Game : ~game[g].usesRelay
        BY DEF Init, State, GameObject
    <2>2. opened \in 0..MaxGames /\ trouble \in 0..MaxTrouble
        BY GamesAssumption DEF Init
    <2> QED  BY <1>1, <2>1, <2>2 DEF Init, TypeOK
<1>3. Objects /\ Goroutines /\ SelfHostedHasHost
    BY <1>1, GamesAssumption DEF Init, Objects, Goroutines, SelfHostedHasHost, Game
<1>4. Orders /\ Reports /\ Unmixed
    BY <1>1, GamesAssumption DEF Init, Orders, Reports, Unmixed, Unmistaken, Game
<1> QED  BY <1>2, <1>3, <1>4 DEF MInv

\* Server.RemoveGame and Server.HasGame.
LEMMA WithoutElements ==
    ASSUME games \in Seq(Game), IsInjective(games), NEW g
    PROVE  /\ Without(g) \in Seq(Game) /\ IsInjective(Without(g))
           /\ ToSet(Without(g)) = ToSet(games) \ {g}
<1> DEFINE at == {i \in DOMAIN games : games[i] = g}
<1>1. CASE at = {}
    <2>1. Without(g) = games
        BY <1>1 DEF Without
    <2>2. g \notin ToSet(games)
        BY <1>1 DEF ToSet
    <2> QED  BY <2>1, <2>2
<1>2. CASE at # {}
    <2>1. PICK i \in at : i = CHOOSE j \in at : TRUE
        BY <1>2
    <2>2. Without(g) = RemoveAt(games, i) /\ games[i] = g /\ i \in DOMAIN games
        BY <1>2, <2>1 DEF Without
    <2> QED  BY <2>2, RemoveAtProperties, RemoveAtInjective
<1> QED  BY <1>1, <1>2

LEMMA HasGameFinds ==
    ASSUME games \in Seq(Game), NEW n
    PROVE  HasGame(n) # Nil => HasGame(n) \in ToSet(games) /\ game[HasGame(n)].name = n
<1> DEFINE named(i) == game[games[i]].name = n
           first == {i \in DOMAIN games : named(i) /\ \A j \in 1..(i - 1) : ~named(j)}
<1>1. HasGame(n) = IF first = {} THEN Nil ELSE games[CHOOSE i \in first : TRUE]
    BY DEF HasGame
<1>2. CASE first # {}
    <2>1. PICK i \in first : i = CHOOSE j \in first : TRUE
        BY <1>2
    <2>2. HasGame(n) = games[i]
        BY <1>1, <1>2, <2>1
    <2> QED  BY <2>1, <2>2 DEF ToSet
<1> QED  BY <1>1, <1>2

\* A game that has its name to itself is found.
LEMMA HasGameOfOwnName ==
    ASSUME games \in Seq(Game), IsInjective(games), NEW g \in ToSet(games), ~NameReused(g)
    PROVE  HasGame(game[g].name) = g
<1> DEFINE named(i) == game[games[i]].name = game[g].name
           first == {i \in DOMAIN games : named(i) /\ \A j \in 1..(i - 1) : ~named(j)}
<1>1. HasGame(game[g].name) = IF first = {} THEN Nil ELSE games[CHOOSE i \in first : TRUE]
    BY DEF HasGame
<1>2. DOMAIN games = 1..Len(games) /\ Len(games) \in Nat
    BY LenProperties
<1>3. \A i \in DOMAIN games : games[i] \in Game /\ (named(i) => games[i] = g)
    BY <1>2, ElementOfSeq DEF NameReused
<1>4. PICK i \in DOMAIN games : games[i] = g
    BY DEF ToSet
<1>5. \A j \in 1..(i - 1) : j \in DOMAIN games /\ j # i
    BY <1>2, <1>4
<1>6. \A j \in 1..(i - 1) : ~named(j)
    BY <1>3, <1>4, <1>5 DEF IsInjective
<1>7. i \in first
    BY <1>4, <1>6
<1>8. (CHOOSE k \in first : TRUE) \in first
    BY <1>7
<1> QED  BY <1>1, <1>3, <1>7, <1>8

-----------------------------------------------------------------------------
(* What becomes of the list, game by game                                  *)

\* Games can be taken off the list.
Shrinks == /\ games' \in Seq(Game) /\ IsInjective(games')
           /\ ToSet(games') \subseteq ToSet(games)

LEMMA RemovingShrinks ==
    ASSUME MInv
    PROVE  /\ \A g : games' = Without(g) => Shrinks
           /\ \A p : games' = RemovePlayer(p) => Shrinks
           /\ games' = games => Shrinks
           /\ \A p, g : EnterGame(p, g) => Shrinks
<1>1. games \in Seq(Game) /\ IsInjective(games)
    BY DEF MInv, TypeOK
<1>2. \A g : games' = Without(g) => Shrinks
    BY <1>1, WithoutElements DEF Shrinks
<1>3. games' = games => Shrinks
    BY <1>1 DEF Shrinks
<1>4. \A p : games' = RemovePlayer(p) => Shrinks
    BY <1>2, <1>3 DEF RemovePlayer
<1> QED  BY <1>2, <1>3, <1>4 DEF EnterGame, listVars

\* Who and what a game is does not change after GAME_OPEN.
SameGames == \A g \in Game : /\ game'[g].name = game[g].name
                             /\ game'[g].host = game[g].host
                             /\ game'[g].usesRelay = game[g].usesRelay

ClientStep(p, n, g) ==
    /\ p \in Player
    /\ \/ g \in Game /\ Enter(p, g)
       \/ Connect(p, n) \/ Start(p) \/ Disconnect(p) \/ Quit(p) \/ Forget(p)
       \/ Cut(p) \/ Replace(p) \/ Login(p) \/ KickPlayer(p)
MetaserverStep(p, n, g, c) ==
    \/ ClientStep(p, n, g)
    \/ KickGame(n) \/ KickReturns
    \/ g \in Game /\ (WeeklyCleanup(g) \/ PingLook(g) \/ PingDone(g))
    \/ c \in Call /\ (GameConnected(c) \/ GameClosed(c) \/ Lose(c))

\* A step of the metaserver that opens no game leaves the relay alone, takes
\* games off the list at most, and changes the state of one at most.
LEMMA MetaserverLists ==
    ASSUME IInv, MInv, NEW p, NEW n, NEW g, NEW c, MetaserverStep(p, n, g, c)
    PROVE  Shrinks /\ SameGames /\ UNCHANGED <<opened, relayVars, create>>
<1> USE RemovingShrinks
<1>0. game \in [Game -> GameObject]
    BY DEF IInv, TypesOK
<1>1. ASSUME NEW h, NEW s, game' = game \/ game' = [game EXCEPT ![h].state = s]
                           \/ game' = [game EXCEPT ![h].joined = TRUE]
      PROVE  SameGames
    BY <1>0, <1>1 DEF SameGames, GameObject
<1>2. \A q, h : EnterGame(q, h) => SameGames /\ opened' = opened
    BY <1>1 DEF EnterGame, listVars
<1>3. CASE p \in Player /\ (Connect(p, n) \/ (g \in Game /\ Enter(p, g)))
    BY <1>1, <1>2, <1>3 DEF Connect, Enter, listVars
<1>4. CASE p \in Player /\ (Disconnect(p) \/ Quit(p) \/ Forget(p))
    BY <1>1, <1>4 DEF Disconnect, Quit, Forget, LeaveGame
<1>5. CASE Cut(p) \/ Replace(p) \/ Login(p) \/ KickPlayer(p) \/ PingLook(g) \/ Lose(c)
    BY <1>1, <1>5 DEF Cut, Replace, Login, KickPlayer, PingLook, Lose, listVars
<1>6. CASE KickGame(n) \/ KickReturns \/ WeeklyCleanup(g) \/ GameClosed(c)
    BY <1>1, <1>6 DEF KickGame, KickReturns, WeeklyCleanup, GameClosed, Arrived
<1>7. CASE Start(p) \/ PingDone(g) \/ GameConnected(c)
    BY <1>1, <1>7 DEF Start, PingDone, GameConnected, SetState, Arrived
<1> QED  BY <1>3, <1>4, <1>5, <1>6, <1>7 DEF MetaserverStep, ClientStep

LEMMA NamesKept ==
    ASSUME SameGames, UNCHANGED opened, NEW g \in Game
    PROVE  Unmistaken(g)' <=> Unmistaken(g)
BY DEF SameGames, Unmistaken, NameReused

-----------------------------------------------------------------------------
(* Types                                                                   *)

\* What TypeOK says and TypesOK does not.
ClientTypes ==
    /\ presence \in [Player -> {"in", "cut", "swap", "gone"}]
    /\ gameOf \in [Player -> Game \cup {Nil}]
    /\ busy \in [Player -> {"create", "enter"} \X Game \cup {Nil}]
    /\ kicked \subseteq Player
RestTypes ==
    /\ pinger \in [Game -> {"none", "look", "ping", "ended"}]
    /\ kicking \in Game \cup {Nil} /\ panic \in BOOLEAN
    /\ orders \subseteq Name /\ news \subseteq Call /\ late \subseteq Call
    /\ lost \in BOOLEAN /\ trouble \in 0..MaxTrouble

LEMMA TypesSplit ==
    ASSUME IInv
    PROVE  TypeOK <=> /\ ClientTypes /\ RestTypes
                      /\ games \in Seq(Game) /\ IsInjective(games)
                      /\ \A g \in Game : game[g].usesRelay => pinger[g] = "none"
BY DEF IInv, TypesOK, TypeOK, ClientTypes, RestTypes

LEMMA TroubleTyped ==
    ASSUME trouble \in 0..MaxTrouble, Trouble
    PROVE  trouble' \in 0..MaxTrouble
BY GamesAssumption DEF Trouble

\* A pingCycle goes on and ends; it never starts here.
LEMMA MetaserverTypes ==
    ASSUME IInv, MInv, NEW p, NEW n, NEW g, NEW c, MetaserverStep(p, n, g, c)
    PROVE  /\ ClientTypes' /\ RestTypes'
           /\ \A h \in Game : pinger[h] = "none" => pinger'[h] = "none"
<1>0. ClientTypes /\ RestTypes
    BY TypesSplit DEF MInv
<1>1. ToSet(games) \subseteq Game
    BY ElementsOfSeq DEF MInv, TypeOK
<1>2. HasGame(n) # Nil => HasGame(n) \in Game
    BY <1>1, HasGameFinds DEF MInv, TypeOK
<1>3. Trouble => trouble' \in 0..MaxTrouble
    BY <1>0, TroubleTyped DEF RestTypes
<1>4. CASE p \in Player /\ (Connect(p, n) \/ (g \in Game /\ Enter(p, g)))
    <2>1. gameOf' = gameOf \/ \E h \in Game : gameOf' = [gameOf EXCEPT ![p] = h]
        BY <1>2, <1>4 DEF Connect, Enter, EnterGame
    <2>2. /\ UNCHANGED <<presence, kicked, pinger, kickVars, callVars, trouble>>
          /\ busy' = busy \/ busy' = [busy EXCEPT ![p] = Nil]
          /\ panic' = panic \/ panic' = TRUE
        BY <1>4 DEF Connect, Enter
    <2> QED  BY <1>0, <2>1, <2>2 DEF ClientTypes, RestTypes, kickVars, callVars
<1>5. CASE p \in Player /\ (Disconnect(p) \/ Quit(p) \/ Forget(p) \/ Login(p))
    BY <1>0, <1>3, <1>5
    DEF Disconnect, Quit, Forget, Login, LeaveGame, ClientTypes, RestTypes, kickVars, callVars
<1>6. CASE p \in Player /\ (Cut(p) \/ Replace(p) \/ KickPlayer(p))
    BY <1>0, <1>3, <1>6
    DEF Cut, Replace, KickPlayer, ClientTypes, RestTypes, kickVars, callVars
<1>7. CASE KickGame(n) \/ KickReturns \/ WeeklyCleanup(g)
    <2>1. KickGame(n) => n \in Name
        BY <1>2, HasGameFinds DEF KickGame, MInv, TypeOK, Objects
    <2> QED
        BY <1>0, <1>2, <1>3, <1>7, <2>1
        DEF KickGame, KickReturns, WeeklyCleanup, LoseCall, ClientTypes, RestTypes, kickVars,
            callVars, clientVars
<1>8. CASE Start(p) \/ (g \in Game /\ (PingLook(g) \/ PingDone(g)))
    BY <1>0, <1>8
    DEF Start, PingLook, PingDone, ClientTypes, RestTypes, kickVars, callVars, clientVars
<1>9. CASE GameConnected(c) \/ GameClosed(c) \/ Lose(c)
    BY <1>0, <1>3, <1>9
    DEF GameConnected, GameClosed, Lose, LoseCall, Arrived, ClientTypes, RestTypes,
        kickVars, callVars, clientVars
<1> QED  BY <1>4, <1>5, <1>6, <1>7, <1>8, <1>9 DEF MetaserverStep, ClientStep

-----------------------------------------------------------------------------
(* Hosts                                                                   *)

HostThere(g) ==
    LET p == game[g].host IN
    ~game[g].usesRelay /\ p \notin kicked =>
        /\ presence[p] # "gone"
        /\ gameOf[p] = g \/ busy[p] = <<"enter", g>>

\* Who is in no other game and has finished his GAME_OPEN has no game on the list
\* when he has left, or none but the one he enters.
LEMMA NoneLeft ==
    ASSUME MInv, NEW p \in Player, NEW g \in ToSet(games),
           game[g].host = p, ~game[g].usesRelay, p \notin kicked
    PROVE  /\ busy[p] = Nil => g \notin ToSet(RemovePlayer(p))
           /\ \A h \in Game :
                 /\ busy[p] \in {Nil, <<"enter", h>>} /\ g # h
                 /\ EnterGame(p, h)
                 => g \notin ToSet(games')
<1>1. games \in Seq(Game) /\ IsInjective(games) /\ ToSet(games) \subseteq Game
    BY ElementsOfSeq DEF MInv, TypeOK
<1>2. gameOf[p] = g \/ busy[p] = <<"enter", g>>
    BY DEF MInv, SelfHostedHasHost
<1>3. Nil # <<"enter", g>> /\ Nil # g
    BY <1>1, GamesAssumption
<1>4. gameOf[p] = g => g \notin ToSet(RemovePlayer(p))
    BY <1>1, <1>3, WithoutElements DEF RemovePlayer
<1>5. busy[p] = Nil => gameOf[p] = g
    BY <1>2, <1>3
<1>6. ASSUME NEW h \in Game, busy[p] \in {Nil, <<"enter", h>>}, g # h, EnterGame(p, h)
      PROVE  g \notin ToSet(games')
    <2>1. gameOf[p] = g
        BY <1>2, <1>3, <1>6
    <2>2. games' = RemovePlayer(p)
        BY <1>6, <2>1 DEF EnterGame
    <2> QED  BY <1>4, <2>1, <2>2
<1> QED  BY <1>4, <1>5, <1>6

LEMMA HostIsThere ==
    ASSUME IInv, MInv, NEW p, NEW n, NEW g, NEW c, MetaserverStep(p, n, g, c)
    PROVE  SelfHostedHasHost'
<1>1. Shrinks /\ SameGames
    BY MetaserverLists
<1>2. ToSet(games) \subseteq Game /\ ClientTypes
    BY ElementsOfSeq, TypesSplit DEF MInv, TypeOK
<1>3. SUFFICES ASSUME NEW h \in ToSet(games), h \in ToSet(games'), ~game[h].usesRelay,
                      game[h].host \notin kicked'
               PROVE  /\ presence'[game[h].host] # "gone"
                      /\ \/ gameOf'[game[h].host] = h
                         \/ busy'[game[h].host] = <<"enter", h>>
    BY <1>1, <1>2 DEF SelfHostedHasHost, Shrinks, SameGames
<1> DEFINE q == game[h].host
<1>4. q \in Player /\ h \in Game
    BY <1>2 DEF MInv, Objects
<1>5. kicked \subseteq kicked'
    BY DEF MetaserverStep, ClientStep, Connect, Enter, Start, Disconnect, Quit, Forget, Cut,
           Replace, Login, KickPlayer, KickGame, KickReturns, WeeklyCleanup, PingLook, PingDone, GameConnected,
           GameClosed, Lose, Arrived, clientVars
<1>6. /\ q \notin kicked /\ presence[q] # "gone"
      /\ gameOf[q] = h \/ busy[q] = <<"enter", h>>
    BY <1>3, <1>5 DEF MInv, SelfHostedHasHost
<1>7. CASE UNCHANGED clientVars
    BY <1>6, <1>7 DEF clientVars
<1>8. CASE p \in Player /\ (Connect(p, n) \/ (g \in Game /\ Enter(p, g)))
    <2>1. CASE UNCHANGED <<gameOf, busy, presence>>
        BY <1>6, <2>1
    <2>2. CASE /\ p \in Player
               /\ \E k \in Game : /\ busy[p] \in {Nil, <<"enter", k>>} /\ EnterGame(p, k)
                                  /\ busy' = [busy EXCEPT ![p] = Nil]
                                  /\ presence' = presence
        <3>1. PICK k \in Game : /\ busy[p] \in {Nil, <<"enter", k>>} /\ EnterGame(p, k)
            BY <2>2
        <3>2. gameOf' = [gameOf EXCEPT ![p] = k]
            BY <1>2, <3>1 DEF EnterGame, ClientTypes
        <3>3. q = p => h = k
            BY <1>3, <1>6, <2>2, <3>1, NoneLeft
        <3> QED  BY <1>2, <1>4, <1>6, <2>2, <3>2, <3>3 DEF ClientTypes
    <2>3. HasGame(n) # Nil => HasGame(n) \in Game
        BY <1>2, HasGameFinds DEF MInv, TypeOK
    <2>4. busy[p] = Nil => busy = [busy EXCEPT ![p] = Nil]
        BY <1>2 DEF ClientTypes
    <2>5. CASE Connect(p, n)
        BY <1>8, <2>1, <2>2, <2>3, <2>4, <2>5 DEF Connect, Handles
    <2>6. CASE g \in Game /\ Enter(p, g)
        BY <1>8, <2>2, <2>6 DEF Enter
    <2> QED  BY <1>8, <2>5, <2>6
<1>9. CASE p \in Player /\ (Disconnect(p) \/ Quit(p) \/ Forget(p))
    <2>1. busy[p] = Nil
        BY <1>9 DEF Disconnect, Quit, Forget, Handles, MInv, Goroutines
    <2>2. games' = RemovePlayer(p) /\ gameOf' = [gameOf EXCEPT ![p] = Nil] /\ busy' = busy
        BY <1>9 DEF Disconnect, Quit, Forget, LeaveGame
    <2>3. q # p
        BY <1>3, <1>6, <1>9, <2>1, <2>2, NoneLeft
    <2>4. presence'[q] = presence[q]
        BY <1>2, <1>4, <1>9, <2>3 DEF Disconnect, Quit, Forget, ClientTypes
    <2> QED  BY <1>6, <2>2, <2>3, <2>4
<1>10. CASE p \in Player /\ Login(p)
    <2>1. q # p
        BY <1>6, <1>10 DEF Login
    <2> QED  BY <1>6, <1>10, <2>1 DEF Login
<1>11. CASE p \in Player /\ (Cut(p) \/ Replace(p) \/ KickPlayer(p))
    <2>1. gameOf' = gameOf /\ busy' = busy
        BY <1>11 DEF Cut, Replace, KickPlayer
    <2>2. presence'[q] # "gone"
        BY <1>2, <1>3, <1>4, <1>6, <1>11 DEF Cut, Replace, KickPlayer, ClientTypes
    <2> QED  BY <1>6, <2>1, <2>2
<1> QED  BY <1>7, <1>8, <1>9, <1>10, <1>11
         DEF MetaserverStep, ClientStep, Start, KickGame, KickReturns, WeeklyCleanup, PingLook, PingDone,
             GameConnected, GameClosed, Lose, Arrived

LEMMA MadeIsOpened ==
    ASSUME IInv, MInv, NEW g \in Game, create[g] # "none"
    PROVE  g <= opened /\ game[g].name \in Name /\ game[g].host \in Player
<1>1. opened \in Int /\ g \in Int
    BY GamesAssumption DEF IInv, TypesOK, Game
<1>2. ~(g > opened)
    BY DEF IInv
<1> QED  BY <1>1, <1>2 DEF MInv, Objects

-----------------------------------------------------------------------------
(* A step of the metaserver that opens no game                             *)

LEMMA GoroutineSteps ==
    ASSUME IInv, MInv, NEW p, NEW n, NEW g, NEW c, MetaserverStep(p, n, g, c)
    PROVE  Goroutines'
<1>1. SameGames /\ UNCHANGED <<opened, create>>
    BY MetaserverLists
<1>2. ClientTypes /\ RestTypes /\ Goroutines
    BY TypesSplit DEF MInv
<1>3. lost => lost'
    BY DEF MetaserverStep, ClientStep, Connect, Enter, Start, Disconnect, Quit, Forget, Cut,
           Replace, Login, KickPlayer, KickGame, KickReturns, WeeklyCleanup, PingLook, PingDone, GameConnected,
           GameClosed, Lose, LoseCall, Arrived, callVars
<1>4. CASE UNCHANGED <<presence, busy>>
    BY <1>1, <1>2, <1>3, <1>4 DEF Goroutines, SameGames, ClientTypes
<1>5. CASE p \in Player /\ (Quit(p) \/ Forget(p) \/ Login(p) \/ KickPlayer(p))
    <2>1. busy' = busy /\ \E s \in {"gone", "in"} : presence' = [presence EXCEPT ![p] = s]
        BY <1>5 DEF Quit, Forget, Login, KickPlayer
    <2>2. \A q \in Player : presence'[q] \in {"cut", "swap"} => presence[q] \in {"cut", "swap"}
        BY <1>2, <2>1 DEF ClientTypes
    <2> QED  BY <1>1, <1>2, <1>3, <2>1, <2>2 DEF Goroutines, SameGames, ClientTypes
<1>6. CASE p \in Player /\ (Cut(p) \/ Replace(p))
    <2>1. busy[p] = Nil /\ busy' = busy /\ \E s : presence' = [presence EXCEPT ![p] = s]
        BY <1>2, <1>6 DEF Cut, Replace, Handles, Goroutines
    <2>2. \A q \in Player : q # p => presence'[q] = presence[q]
        BY <1>2, <2>1 DEF ClientTypes
    <2> QED  BY <1>1, <1>2, <1>3, <2>1, <2>2 DEF Goroutines, SameGames, ClientTypes
<1>7. CASE p \in Player /\ Enter(p, g)
    <2>1. /\ busy[p] = <<"enter", g>> /\ busy' = [busy EXCEPT ![p] = Nil]
          /\ presence' = presence
        BY <1>7 DEF Enter
    <2>2. /\ \A h \in Game : busy[p] # <<"create", h>>
          /\ busy'[p] = Nil /\ \A q \in Player : q # p => busy'[q] = busy[q]
        BY <1>2, <1>7, <2>1 DEF ClientTypes
    <2>3. \A h \in Game : create'[h] \in {"sent", "yes"} =>
                              lost' \/ busy'[game'[h].host] = <<"create", h>>
        <3> SUFFICES ASSUME NEW h \in Game, create[h] \in {"sent", "yes"}, ~lost
                     PROVE  busy'[game[h].host] = <<"create", h>>
            BY <1>1, <1>3 DEF SameGames
        <3>1. busy[game[h].host] = <<"create", h>>
            BY <1>2 DEF Goroutines
        <3>2. game[h].host \in Player
            BY MadeIsOpened
        <3> QED  BY <2>2, <3>1, <3>2
    <2>4. \A h \in Game : Nil \notin {<<"create", h>>, <<"enter", h>>}
        BY GamesAssumption
    <2>5. \A q \in Player : \A h \in Game :
              busy'[q] \in {<<"create", h>>, <<"enter", h>>} => q # p
        BY <2>2, <2>4
    <2> QED  BY <1>1, <1>2, <2>1, <2>2, <2>3, <2>5 DEF Goroutines, SameGames
<1> QED  BY <1>4, <1>5, <1>6, <1>7
         DEF MetaserverStep, ClientStep, Connect, Start, Disconnect, KickGame, KickReturns, WeeklyCleanup, PingLook,
             PingDone, GameConnected, GameClosed, Lose, Arrived, clientVars

LEMMA MessageSteps ==
    ASSUME IInv, MInv, NEW p, NEW n, NEW g, NEW c, MetaserverStep(p, n, g, c)
    PROVE  Orders' /\ Reports'
<1>1. SameGames /\ UNCHANGED <<opened, create, told>>
    BY MetaserverLists DEF relayVars
<1>2. \/ orders' = orders
      \/ /\ HasGame(n) # Nil /\ game[HasGame(n)].usesRelay
         /\ orders' = orders \cup {n}
    BY DEF MetaserverStep, ClientStep, Connect, Enter, Start, Disconnect, Quit, Forget, Cut,
           Replace, Login, KickPlayer, KickGame, KickReturns, WeeklyCleanup, PingLook, PingDone, GameConnected,
           GameClosed, Lose, LoseCall, Arrived, kickVars
<1>3. HasGame(n) # Nil /\ game[HasGame(n)].usesRelay =>
          /\ HasGame(n) \in Game /\ game[HasGame(n)].name = n
          /\ create[HasGame(n)] = "answered"
    BY HasGameFinds, ElementsOfSeq DEF MInv, TypeOK, Objects
<1>4. Orders'
    BY <1>1, <1>2, <1>3 DEF MInv, Orders, SameGames
<1>5. news' \cup late' \subseteq news \cup late
    BY DEF MetaserverStep, ClientStep, Connect, Enter, Start, Disconnect, Quit, Forget, Cut,
           Replace, Login, KickPlayer, KickGame, KickReturns, WeeklyCleanup, PingLook, PingDone, GameConnected,
           GameClosed, Lose, Arrived, callVars
<1>6. Reports'
    BY <1>1, <1>5 DEF MInv, Reports
<1> QED  BY <1>4, <1>6

\* A name that is no other game's is told of this game only.
LEMMA OfferSteps ==
    ASSUME IInv, MInv, NEW p, NEW n, NEW g, NEW c, MetaserverStep(p, n, g, c),
           NEW h \in Game, Unmistaken(h)
    PROVE  Offer(h)'
<1>1. SameGames /\ told' = told
    BY MetaserverLists DEF relayVars
<1>2. Offer(h) /\ game \in [Game -> GameObject]
    BY DEF MInv, Unmixed, IInv, TypesOK
<1>3. CASE game'[h].state = game[h].state \/ game'[h].state # "CONNECTABLE"
    BY <1>1, <1>2, <1>3 DEF Offer, SameGames
<1>4. CASE game' = game \/ \E k : game' = [game EXCEPT ![k].joined = TRUE]
    BY <1>2, <1>3, <1>4 DEF GameObject
<1>5. CASE p \in Player /\ (Connect(p, n) \/ (g \in Game /\ Enter(p, g)))
    BY <1>4, <1>5 DEF Connect, Enter, EnterGame, listVars
<1>6. CASE p \in Player /\ Start(p)
    BY <1>2, <1>3, <1>6 DEF Start, SetState, GameObject
<1>7. CASE g \in Game /\ PingDone(g)
    <2>1. ~game[g].usesRelay
        BY <1>7 DEF PingDone, MInv, TypeOK
    <2>2. h # g => game'[h] = game[h]
        BY <1>2, <1>7 DEF PingDone, SetState
    <2> QED  BY <1>1, <1>3, <2>1, <2>2 DEF Offer, SameGames
<1>8. CASE GameConnected(c)
    <2> DEFINE k == HasGame(game[c[3]].name)
    <2>1. CASE k = Nil
        BY <1>4, <1>8, <2>1 DEF GameConnected
    <2>2. CASE k # Nil
        <3>1. game' = [game EXCEPT ![k].state = "CONNECTABLE"]
            BY <1>8, <2>2 DEF GameConnected, SetState
        <3>2. k \in Game /\ game[k].name = game[c[3]].name
            BY <2>2, HasGameFinds, ElementsOfSeq DEF MInv, TypeOK
        <3>3. CASE k # h
            BY <1>2, <1>3, <3>1, <3>2, <3>3
        <3>4. CASE k = h
            <4>1. c[3] \in Game
                BY <1>8 DEF GameConnected, Arrived, MInv, TypeOK, Call
            <4>2. c[3] = h
                BY <3>2, <3>4, <4>1 DEF Unmistaken, NameReused
            <4>3. "GameConnected" \in told[h]
                BY <1>8, <4>2 DEF GameConnected, Arrived, MInv, Reports
            <4> QED  BY <1>1, <4>3 DEF Offer
        <3> QED  BY <3>3, <3>4
    <2> QED  BY <2>1, <2>2
<1> QED  BY <1>4, <1>5, <1>6, <1>7, <1>8
         DEF MetaserverStep, ClientStep, Disconnect, Quit, Forget, LeaveGame, Cut, Replace, Login, KickPlayer, KickGame,
             KickReturns, WeeklyCleanup, PingLook, GameClosed, Lose, listVars

\* GameClosed takes off the list the game that the relay waits to remove.
LEMMA EndOfListed ==
    ASSUME IInv, MInv, NEW p, NEW n, NEW g, NEW c, MetaserverStep(p, n, g, c),
           NEW h \in Game, Unmistaken(h), ~lost'
    PROVE  End(h)'
<1>1. Shrinks /\ SameGames /\ UNCHANGED <<opened, relayVars, create>>
    BY MetaserverLists
<1>2. ~lost /\ ~Lose(c)
    BY DEF MetaserverStep, ClientStep, Connect, Enter, Start, Disconnect, Quit, Forget, Cut,
           Replace, Login, KickPlayer, KickGame, KickReturns, WeeklyCleanup, PingLook, PingDone, GameConnected,
           GameClosed, Lose, LoseCall, Arrived, callVars
<1>3. End(h)
    BY <1>2 DEF MInv, Unmixed
<1>4. CASE news' = news
    BY <1>1, <1>3, <1>4 DEF End, Shrinks, SameGames, relayVars
<1>5. CASE c[1] = "GameConnected" /\ news' = news \ {c}
    BY <1>1, <1>3, <1>5 DEF End, Shrinks, SameGames, relayVars
<1>6. CASE GameClosed(c)
    <2>1. news' = news \ {c} /\ c \in Call
        BY <1>6 DEF GameClosed, Arrived, MInv, TypeOK
    <2>2. CASE c[3] # h
        BY <1>1, <1>3, <2>1, <2>2 DEF End, Shrinks, SameGames, relayVars
    <2>3. CASE c[3] = h
        <3>1. h \in ToSet(games) => HasGame(game[h].name) = h
            BY HasGameOfOwnName DEF MInv, TypeOK, Unmistaken
        <3>2. h \notin ToSet(games')
            BY <1>1, <1>6, <2>3, <3>1, WithoutElements
            DEF GameClosed, Shrinks, MInv, TypeOK
        <3> QED  BY <1>1, <1>3, <3>2 DEF End, relayVars
    <2> QED  BY <2>2, <2>3
<1> QED  BY <1>2, <1>4, <1>5, <1>6
         DEF MetaserverStep, ClientStep, Connect, Enter, Start, Disconnect, Quit, Forget, Cut,
             Replace, Login, KickPlayer, KickGame, KickReturns, WeeklyCleanup, PingLook, PingDone, GameConnected,
             Arrived, callVars

LEMMA MetaserverKeeps ==
    ASSUME IInv, IInv', MInv, NEW p, NEW n, NEW g, NEW c, MetaserverStep(p, n, g, c)
    PROVE  MInv'
<1>1. Shrinks /\ SameGames /\ UNCHANGED <<opened, relayVars, create>>
    BY MetaserverLists
<1>2. ClientTypes' /\ RestTypes' /\ \A h \in Game : pinger[h] = "none" => pinger'[h] = "none"
    BY MetaserverTypes
<1>3. ToSet(games) \subseteq Game
    BY ElementsOfSeq DEF MInv, TypeOK
<1>4. Objects'
    BY <1>1, <1>2, <1>3 DEF MInv, Objects, Shrinks, SameGames
<1>5. TypeOK'
    <2>1. \A h \in Game : game'[h].usesRelay => pinger'[h] = "none"
        BY <1>1, <1>2 DEF MInv, TypeOK, SameGames
    <2> QED  BY <1>1, <1>2, <2>1 DEF IInv, TypesOK, TypeOK, ClientTypes, RestTypes, Shrinks
<1>6. \A h \in Game : Unmistaken(h)' <=> Unmistaken(h)
    BY <1>1, NamesKept
<1>7. Unmixed'
    BY <1>6, OfferSteps, EndOfListed DEF Unmixed
<1> QED  BY <1>4, <1>5, <1>7, HostIsThere, GoroutineSteps, MessageSteps DEF MInv

-----------------------------------------------------------------------------
(* A step of the relay                                                     *)

RelayStep(by, g, n) ==
    \/ RemoveGame(n)
    \/ /\ g \in Game
       /\ \/ CreateGame(g) \/ HostArrives(g) \/ HostLeaves(g) \/ DropHost(g)
          \/ EndGame(g) \/ Timer(g)
          \/ by \in Game \cup {0} /\ RemoveGameObject(by, g)

\* The relay knows nothing of the list of the metaserver and of its goroutines.
LEMMA RelayFrame ==
    ASSUME NEW by, NEW g, NEW n, RelayStep(by, g, n)
    PROVE  UNCHANGED <<listVars, clientVars, pinger, kicking, panic, late, lost, trouble>>
BY DEF RelayStep, CreateGame, RemoveGame, HostArrives, HostLeaves, DropHost, EndGame, Timer,
       RemoveGameObject, kickVars, callVars

LEMMA RelayMessages ==
    ASSUME IInv, MInv, NEW by, NEW g, NEW n, RelayStep(by, g, n)
    PROVE  /\ orders' \subseteq orders /\ news \subseteq news' /\ news' \subseteq Call
           /\ \A h \in Game : told[h] \subseteq told'[h]
           /\ Reports'
<1>1. late' = late /\ told \in [Game -> SUBSET {"GameConnected", "GameClosed"}] /\ news \subseteq Call
    BY RelayFrame DEF MInv, TypeOK
<1>2. CASE UNCHANGED <<told, news>>
    <2>1. orders' \subseteq orders
        BY DEF RelayStep, CreateGame, RemoveGame, HostArrives, HostLeaves, DropHost, EndGame, Timer,
               RemoveGameObject, kickVars
    <2> QED  BY <1>1, <1>2, <2>1 DEF MInv, Reports
<1>3. CASE g \in Game /\ HostArrives(g)
    <2>1. /\ told' = [told EXCEPT ![g] = @ \cup {"GameConnected"}]
          /\ news' = news \cup {<<"GameConnected", 0, g>>}
          /\ orders' = orders
        BY <1>3 DEF HostArrives, kickVars
    <2>2. <<"GameConnected", 0, g>> \in Call
        BY <1>3 DEF Call
    <2>3. "GameConnected" \in told'[g] /\ \A h \in Game : told[h] \subseteq told'[h]
        BY <1>1, <1>3, <2>1
    <2>4. \A c \in Call : c[3] \in Game
        BY DEF Call
    <2>5. Reports'
        BY <1>1, <2>1, <2>3, <2>4 DEF MInv, TypeOK, Reports
    <2> QED  BY <1>1, <2>1, <2>2, <2>3, <2>5
<1>4. CASE orders' = orders /\ \E b \in Game \cup {0}, h \in Game : TellClosed(b, h)
    <2>1. PICK b \in Game \cup {0}, h \in Game : TellClosed(b, h)
        BY <1>4
    <2>2. /\ told' = [told EXCEPT ![h] = @ \cup {"GameClosed"}]
          /\ news' = news \cup {<<"GameClosed", b, h>>}
        BY <2>1 DEF TellClosed
    <2>3. <<"GameClosed", b, h>> \in Call
        BY DEF Call
    <2>4. \A k \in Game : told[k] \subseteq told'[k]
        BY <1>1, <2>2
    <2>5. \A c \in Call : c[3] \in Game
        BY DEF Call
    <2>6. Reports'
        BY <1>1, <2>2, <2>4, <2>5 DEF MInv, TypeOK, Reports
    <2> QED  BY <1>1, <1>4, <2>2, <2>3, <2>4, <2>6
<1> QED  BY <1>2, <1>3, <1>4
         DEF RelayStep, CreateGame, RemoveGame, HostLeaves, DropHost, EndGame, Timer, RemoveGameObject,
             Named, kickVars, callVars

LEMMA RelayCreations ==
    ASSUME IInv, NEW by, NEW g, NEW n, RelayStep(by, g, n)
    PROVE  \A h \in Game : \/ create'[h] = create[h]
                           \/ create[h] = "sent" /\ create'[h] \in {"yes", "no"}
<1>1. \/ create' = create
      \/ create[g] = "sent" /\ \E s \in {"yes", "no"} : create' = [create EXCEPT ![g] = s]
    BY DEF RelayStep, CreateGame, RemoveGame, HostArrives, HostLeaves, DropHost, EndGame, Timer,
           RemoveGameObject
<1> QED  BY <1>1 DEF IInv, TypesOK

\* What the relay does to a game that has its name to itself: nobody but its own
\* timer, its own host or an order that was given for it ends it.
LEMMA EndOnRelay ==
    ASSUME IInv, MInv, NEW by, NEW g, NEW n, RelayStep(by, g, n),
           NEW h \in Game, Unmistaken(h), ~lost
    PROVE  End(h)'
<1>1. End(h) /\ UNCHANGED listVars
    BY RelayFrame DEF MInv, Unmixed
<1>2. TypesOK
    BY DEF IInv
<1>3. news \subseteq news'
    BY RelayMessages
<1>4. h \in ToSet(games) /\ game[h].usesRelay => create[h] = "answered"
    BY DEF MInv, Objects
<1>5. CASE g \in Game /\ CreateGame(g)
    <2>1. create[g] = "sent" /\ NoTrace(g)
        BY <1>5 DEF CreateGame, IInv, Unmade
    <2>2. /\ UNCHANGED <<hosted, told, ending, closing, news>>
          /\ \A k \in Game : k # g => create'[k] = create[k] /\ listed'[k] = listed[k]
          /\ create'[g] = "yes" => listed'[g]
        BY <1>2, <1>5 DEF CreateGame, callVars, TypesOK
    <2> QED  BY <1>1, <1>4, <2>1, <2>2 DEF End, NoTrace, listVars
<1>6. CASE RemoveGame(n)
    <2>1. /\ UNCHANGED <<listed, hosted, told, closing, create, news>>
          /\ ending' = [k \in Game |-> IF k \in Named(n) /\ ending[k] = "no" THEN "begun"
                                       ELSE ending[k]]
          /\ n \in orders
        BY <1>6 DEF RemoveGame, callVars
    <2>2. game[h].name = n => create[h] = "answered"
        BY <2>1 DEF MInv, Orders, Unmistaken, NameReused
    <2>3. create[h] = "yes" => ending'[h] = ending[h]
        BY <2>1, <2>2 DEF Named
    <2> QED  BY <1>1, <2>1, <2>3 DEF End, listVars
<1>7. CASE g \in Game /\ HostArrives(g)
    <2>1. /\ create[g] = "answered"
          /\ UNCHANGED <<listed, ending, closing, create>>
          /\ \A k \in Game : k # g => told'[k] = told[k] /\ hosted'[k] = hosted[k]
        BY <1>2, <1>7 DEF HostArrives, TypesOK
    <2> QED  BY <1>1, <1>3, <2>1 DEF End, listVars
<1>8. CASE g \in Game /\ (HostLeaves(g) \/ DropHost(g))
    <2>1. /\ hosted[g] \/ ending[g] = "begun"
          /\ UNCHANGED <<listed, told, closing, create, news>>
          /\ \A k \in Game : k # g => ending'[k] = ending[k] /\ hosted'[k] = hosted[k]
        BY <1>2, <1>8 DEF HostLeaves, DropHost, TypesOK, callVars
    <2> QED  BY <1>1, <2>1 DEF End, listVars
<1>9. ASSUME NEW b \in Game \cup {0}, NEW k \in Game, TellClosed(b, k),
             k = h => create[h] # "yes", UNCHANGED <<listed, hosted, create>>,
             create[h] = "yes" => ending'[h] = ending[h]
      PROVE  End(h)'
    <2>1. /\ told' = [told EXCEPT ![k] = @ \cup {"GameClosed"}]
          /\ news' = news \cup {<<"GameClosed", b, k>>}
          /\ closing' = closing \cup {<<b, k>>}
        BY <1>9 DEF TellClosed
    <2>2. create[h] = "yes" => told'[h] = told[h]
        BY <1>2, <1>9, <2>1 DEF TypesOK
    <2> QED  BY <1>1, <1>9, <2>1, <2>2 DEF End, listVars
<1>10. CASE g \in Game /\ EndGame(g)
    <2>1. /\ ending[g] = "dropped" /\ UNCHANGED <<listed, hosted, create>>
          /\ \A k \in Game : k # g => ending'[k] = ending[k]
          /\ TellClosed(0, g) \/ UNCHANGED <<told, news, closing>>
        BY <1>2, <1>10 DEF EndGame, TypesOK
    <2>2. h = g => create[h] # "yes"
        BY <1>1, <2>1 DEF End
    <2>3. create[h] = "yes" => ending'[h] = ending[h]
        BY <2>1, <2>2
    <2>4. CASE TellClosed(0, g)
        BY <1>9, <1>10, <2>1, <2>2, <2>3, <2>4
    <2>5. CASE UNCHANGED <<told, news, closing>>
        BY <1>1, <2>1, <2>3, <2>5 DEF End, listVars
    <2> QED  BY <2>1, <2>4, <2>5
<1>11. CASE g \in Game /\ Timer(g)
    <2>1. /\ busy[game[g].host] # <<"create", g>>
          /\ UNCHANGED <<listed, hosted, create, ending>>
          /\ \/ \E k \in Named(game[g].name) : TellClosed(g, k)
             \/ UNCHANGED <<told, news, closing>>
        BY <1>11 DEF Timer
    <2>2. CASE \E k \in Named(game[g].name) : TellClosed(g, k)
        <3>1. PICK k \in Named(game[g].name) : TellClosed(g, k)
            BY <2>2
        <3>2. k \in Game /\ game[k].name = game[g].name
            BY <3>1 DEF Named
        <3>3. k = h => g = h
            BY <1>11, <3>2 DEF Unmistaken, NameReused
        <3>4. create[g] # "yes"
            BY <1>11, <2>1 DEF MInv, Goroutines
        <3> QED  BY <1>9, <1>11, <2>1, <3>1, <3>2, <3>3, <3>4
    <2>3. CASE UNCHANGED <<told, news, closing>>
        BY <1>1, <2>1, <2>3 DEF End, listVars
    <2> QED  BY <2>1, <2>2, <2>3
<1>12. CASE g \in Game /\ by \in Game \cup {0} /\ RemoveGameObject(by, g)
    <2>1. /\ <<by, g>> \in closing /\ <<"GameClosed", by, g>> \notin news
          /\ closing' \subseteq closing /\ UNCHANGED <<hosted, told, ending, create, news>>
          /\ \A k \in Game : k # g => listed'[k] = listed[k]
        BY <1>2, <1>12 DEF RemoveGameObject, TypesOK, callVars
    <2>2. "GameClosed" \in told[g]
        BY <1>12, <2>1 DEF IInv
    <2> QED  BY <1>1, <1>12, <2>1, <2>2 DEF End, listVars
<1> QED  BY <1>5, <1>6, <1>7, <1>8, <1>10, <1>11, <1>12 DEF RelayStep

LEMMA RelayKeeps ==
    ASSUME IInv, IInv', MInv, NEW by, NEW g, NEW n, RelayStep(by, g, n)
    PROVE  MInv'
<1>1. UNCHANGED <<listVars, clientVars, pinger, kicking, panic, late, lost, trouble>>
    BY RelayFrame
<1>2. /\ orders' \subseteq orders /\ news \subseteq news' /\ news' \subseteq Call
      /\ \A h \in Game : told[h] \subseteq told'[h]
      /\ Reports'
    BY RelayMessages
<1>3. \A h \in Game : \/ create'[h] = create[h]
                      \/ create[h] = "sent" /\ create'[h] \in {"yes", "no"}
    BY RelayCreations
<1>4. TypeOK'
    BY <1>1, <1>2 DEF IInv, TypesOK, TypeOK, MInv, listVars, clientVars
<1>5. ToSet(games) \subseteq Game
    BY ElementsOfSeq DEF MInv, TypeOK
<1>6. Objects'
    BY <1>1, <1>3, <1>5 DEF MInv, Objects, listVars
<1>7. Goroutines'
    BY <1>1, <1>3 DEF MInv, Goroutines, listVars, clientVars
<1>8. Orders'
    BY <1>1, <1>2, <1>3 DEF MInv, Orders, listVars
<1>9. SelfHostedHasHost'
    BY <1>1 DEF MInv, SelfHostedHasHost, listVars, clientVars
<1>10. \A h \in Game : Unmistaken(h) => Unmistaken(h)' /\ Offer(h)'
    BY <1>1, <1>2 DEF MInv, Unmixed, Offer, Unmistaken, NameReused, listVars
<1>11. \A h \in Game : Unmistaken(h)' => Unmistaken(h)
    BY <1>1 DEF Unmistaken, NameReused, listVars
<1>12. Unmixed'
    BY <1>1, <1>10, <1>11, EndOnRelay DEF Unmixed
<1> QED  BY <1>2, <1>4, <1>6, <1>7, <1>8, <1>9, <1>12 DEF MInv

-----------------------------------------------------------------------------
(* GAME_OPEN                                                               *)

\* Two games of one name are told apart again by their names as soon as the second
\* one is opened; games with different names are not affected.
LEMMA OpenKeeps ==
    ASSUME IInv, IInv', MInv, NEW p \in Player, NEW n \in Name,
           OpenOwn(p, n) \/ OpenOnRelay(p, n)
    PROVE  MInv'
<1> DEFINE g == opened + 1
<1>1. /\ presence[p] = "in" /\ busy[p] = Nil
      /\ opened < MaxGames /\ opened' = g
      /\ game' = [game EXCEPT ![g] = NewGame(p, n)]
      /\ UNCHANGED <<presence, gameOf, kicked, kickVars, panic, relayVars, callVars, trouble>>
    BY DEF OpenOwn, OpenOnRelay, Handles
<1>2. \/ /\ games' = Append(games, g) /\ create' = create
         /\ busy' = [busy EXCEPT ![p] = <<"enter", g>>]
         /\ pinger' = [pinger EXCEPT ![g] = "look"] /\ ~NewGame(p, n).usesRelay
      \/ /\ games' = games /\ create' = [create EXCEPT ![g] = "sent"]
         /\ busy' = [busy EXCEPT ![p] = <<"create", g>>]
         /\ pinger' = pinger /\ NewGame(p, n).usesRelay
    BY DEF OpenOwn, OpenOnRelay, NewGame
<1>3. TypesOK /\ ClientTypes /\ RestTypes /\ games \in Seq(Game) /\ IsInjective(games)
    BY TypesSplit DEF MInv, TypeOK, IInv
<1>4. opened \in Nat /\ g \in Game /\ \A h \in Game : h \in Int
    <2>1. opened \in 0..MaxGames
        BY <1>3 DEF TypesOK
    <2> QED  BY <1>1, <2>1, GamesAssumption DEF Game
<1>5. /\ create[g] = "none" /\ pinger[g] = "none" /\ g \notin ToSet(games)
      /\ ToSet(games) \subseteq Game
    <2>1. g > opened /\ ~(g <= opened)
        BY <1>4
    <2>2. create[g] = "none"
        BY <1>4, <2>1 DEF IInv
    <2> QED  BY <1>3, <1>4, <2>1, <2>2, ElementsOfSeq DEF MInv, Objects
<1>6. /\ game'[g] = NewGame(p, n)
      /\ \A h \in Game : h # g => game'[h] = game[h]
    BY <1>1, <1>3, <1>4 DEF TypesOK
<1>7. /\ busy'[p] \in {<<"create", g>>, <<"enter", g>>}
      /\ \A q \in Player : q # p => busy'[q] = busy[q]
      /\ \A h \in Game : h # g => create'[h] = create[h] /\ pinger'[h] = pinger[h]
      /\ create'[g] \in {"none", "sent"}
      /\ create'[g] = "sent" => busy'[p] = <<"create", g>> /\ NewGame(p, n).usesRelay
      /\ NewGame(p, n).usesRelay => pinger'[g] = "none"
    BY <1>2, <1>3, <1>4, <1>5 DEF ClientTypes, RestTypes, TypesOK
<1>8. /\ games' \in Seq(Game) /\ IsInjective(games')
      /\ ToSet(games') \subseteq ToSet(games) \cup {g}
      /\ g \in ToSet(games') => ~NewGame(p, n).usesRelay /\ busy'[p] = <<"enter", g>>
    <2>1. CASE games' = games
        BY <1>3, <1>5, <2>1
    <2>2. CASE games' = Append(games, g)
        <3>1. /\ games' \in Seq(Game) /\ IsInjective(games')
              /\ ToSet(games') = ToSet(games) \cup {g}
            BY <1>3, <1>4, <1>5, <2>2, AppendElements
        <3>2. games' # games
            BY <1>5, <3>1
        <3> QED  BY <1>2, <1>3, <3>1, <3>2 DEF ClientTypes
    <2> QED  BY <1>2, <2>1, <2>2
<1>9. \A h \in Game : h <= opened => h # g
    BY <1>4
<1>10. \A h \in Game : /\ h <= opened' => h <= opened \/ h = g
                       /\ h <= opened => h <= opened'
                       /\ h > opened' => h > opened /\ h # g
    BY <1>1, <1>4
<1>11. NewGame(p, n).name = n /\ NewGame(p, n).host = p
       /\ NewGame(p, n).state = "INITIAL_SETUP"
    BY DEF NewGame
<1>12. TypeOK'
    <2>1. ClientTypes'
        <3>1. \E k \in {"create", "enter"} : busy' = [busy EXCEPT ![p] = <<k, g>>]
            BY <1>2
        <3>2. busy' \in [Player -> {"create", "enter"} \X Game \cup {Nil}]
            BY <1>3, <1>4, <3>1 DEF ClientTypes
        <3> QED  BY <1>1, <1>3, <3>2 DEF ClientTypes
    <2>2. RestTypes'
        BY <1>1, <1>2, <1>3 DEF RestTypes, kickVars, callVars
    <2>3. \A h \in Game : game'[h].usesRelay => pinger'[h] = "none"
        BY <1>6, <1>7 DEF MInv, TypeOK
    <2> QED  BY <1>8, <2>1, <2>2, <2>3 DEF IInv, TypesOK, TypeOK, ClientTypes, RestTypes
<1>13. Objects'
    <2>1. \A h \in Game : /\ h > opened' => pinger'[h] = "none" /\ game'[h].name = Nil
                          /\ h <= opened' => game'[h].name \in Name /\ game'[h].host \in Player
                          /\ create'[h] # "none" => game'[h].usesRelay
        BY <1>6, <1>7, <1>10, <1>11 DEF MInv, Objects
    <2>2. \A h \in ToSet(games') : h <= opened' /\ (game'[h].usesRelay => create'[h] = "answered")
        BY <1>1, <1>5, <1>6, <1>7, <1>8, <1>10 DEF MInv, Objects
    <2> QED  BY <2>1, <2>2 DEF Objects
<1>14. \A h \in Game : create'[h] \in {"sent", "yes"} =>
                           lost' \/ busy'[game'[h].host] = <<"create", h>>
    <2> SUFFICES ASSUME NEW h \in Game, create'[h] \in {"sent", "yes"}, ~lost'
                 PROVE  busy'[game'[h].host] = <<"create", h>>
        OBVIOUS
    <2>1. CASE h = g
        BY <1>6, <1>7, <1>11, <2>1
    <2>2. CASE h # g
        <3>1. busy[game[h].host] = <<"create", h>> /\ game[h].host \in Player
            <4>1. create[h] \in {"sent", "yes"} /\ ~lost
                BY <1>1, <1>7, <2>2 DEF callVars
            <4> QED  BY <4>1, MadeIsOpened DEF MInv, Goroutines
        <3>2. game[h].host # p
            <4>1. Nil # <<"create", h>>
                BY GamesAssumption
            <4> QED  BY <1>1, <3>1, <4>1
        <3> QED  BY <1>6, <1>7, <2>2, <3>1, <3>2
    <2> QED  BY <2>1, <2>2
<1>15. Goroutines'
    <2>1. \A q \in Player : presence'[q] \in {"cut", "swap"} => busy'[q] = Nil
        BY <1>1, <1>7 DEF MInv, Goroutines
    <2>2. \A q \in Player, h \in Game : busy'[q] \in {<<"create", h>>, <<"enter", h>>} =>
              h <= opened' /\ game'[h].host = q
        <3> SUFFICES ASSUME NEW q \in Player, NEW h \in Game,
                            busy'[q] \in {<<"create", h>>, <<"enter", h>>}
                     PROVE  h <= opened' /\ game'[h].host = q
            OBVIOUS
        <3>1. CASE q = p
            <4>1. h = g
                BY <1>7, <3>1
            <4> QED  BY <1>1, <1>4, <1>6, <1>11, <3>1, <4>1
        <3>2. CASE q # p
            <4>1. h <= opened /\ game[h].host = q
                BY <1>7, <3>2 DEF MInv, Goroutines
            <4> QED  BY <1>6, <1>9, <1>10, <4>1
        <3> QED  BY <3>1, <3>2
    <2> QED  BY <1>14, <2>1, <2>2 DEF Goroutines
<1>16. SelfHostedHasHost'
    <2> SUFFICES ASSUME NEW h \in ToSet(games'), ~game'[h].usesRelay,
                        game'[h].host \notin kicked'
                 PROVE  /\ presence'[game'[h].host] # "gone"
                        /\ \/ gameOf'[game'[h].host] = h
                           \/ busy'[game'[h].host] = <<"enter", h>>
        BY DEF SelfHostedHasHost
    <2>1. CASE h = g
        BY <1>1, <1>6, <1>8, <1>11, <2>1
    <2>2. CASE h # g
        <3>1. h \in ToSet(games) /\ game'[h] = game[h] /\ game[h].host \in Player
            BY <1>5, <1>6, <1>8, <2>2 DEF MInv, Objects
        <3>2. /\ presence[game[h].host] # "gone"
              /\ gameOf[game[h].host] = h \/ busy[game[h].host] = <<"enter", h>>
            BY <1>1, <3>1 DEF MInv, SelfHostedHasHost
        <3>3. game[h].host = p => gameOf[p] = h
            BY SMTT(30), <1>1, <1>5, <3>1, <3>2, GamesAssumption
        <3> QED  BY <1>1, <1>7, <3>1, <3>2, <3>3
    <2> QED  BY <2>1, <2>2
<1>17. Orders' /\ Reports'
    <2>1. Reports'
        BY <1>1 DEF MInv, Reports, callVars, relayVars
    <2>2. \A k \in Game : create[k] = "answered" => k # g
        BY <1>5
    <2> QED  BY <1>1, <1>6, <1>7, <2>1, <2>2 DEF MInv, Orders, kickVars
<1>18. Unmixed'
    <2> SUFFICES ASSUME NEW h \in Game, Unmistaken(h)'
                 PROVE  Offer(h)' /\ (~lost' => End(h)')
        BY DEF Unmixed
    <2>1. CASE h = g
        <3>1. Offer(h)'
            BY <1>6, <1>11, <2>1 DEF Offer
        <3>2. End(h)'
            BY <1>6, <1>7, <1>8, <2>1 DEF End
        <3> QED  BY <3>1, <3>2
    <2>2. CASE h # g
        <3>1. h <= opened
            BY <1>10, <2>2 DEF Unmistaken
        <3>2. \A k \in Game \ {h} : game[k].name # game[h].name \/ k = g
            BY <1>6, <2>2 DEF Unmistaken, NameReused
        <3>3. CASE Unmistaken(h)
            <4>1. Offer(h) /\ (~lost => End(h)) /\ lost' = lost
                BY <1>1, <3>3 DEF MInv, Unmixed, callVars
            <4>2. h \in ToSet(games') => h \in ToSet(games)
                BY <1>8, <2>2
            <4> QED  BY <1>1, <1>6, <1>7, <2>2, <4>1, <4>2 DEF Offer, End, relayVars, callVars
        <3>4. CASE ~Unmistaken(h)
            <4>1. game[g].name = game[h].name
                BY <3>1, <3>2, <3>4 DEF Unmistaken, NameReused
            <4>2. game[h].name \in Name /\ game[g].name = Nil
                <5>1. g > opened
                    BY <1>4
                <5> QED  BY <1>4, <3>1, <5>1 DEF MInv, Objects
            <4> QED  BY <4>1, <4>2, GamesAssumption
        <3> QED  BY <3>3, <3>4
    <2> QED  BY <2>1, <2>2
<1> QED  BY <1>12, <1>13, <1>15, <1>16, <1>17, <1>18 DEF MInv

\* The answer to CreateGame, or its loss.
LEMMA CreatedKeeps ==
    ASSUME IInv, IInv', MInv, NEW p \in Player, NEW g \in Game, Created(p, g)
    PROVE  MInv'
<1>1. /\ busy[p] = <<"create", g>>
      /\ UNCHANGED <<game, opened, presence, gameOf, kicked, pinger, kickVars, panic,
                     relayVars, news, late>>
      /\ lost => lost'
    BY DEF Created, LoseCall
<1>2. \/ /\ create[g] = "yes" /\ create' = [create EXCEPT ![g] = "answered"]
         /\ games' = Append(games, g) /\ busy' = [busy EXCEPT ![p] = <<"enter", g>>]
         /\ UNCHANGED <<lost, trouble>>
      \/ /\ create[g] = "no" /\ busy' = [busy EXCEPT ![p] = Nil]
         /\ UNCHANGED <<create, games, lost, trouble>>
      \/ /\ LoseCall /\ busy' = [busy EXCEPT ![p] = Nil]
         /\ UNCHANGED <<create, games>>
    BY DEF Created
<1>3. TypesOK /\ ClientTypes /\ RestTypes /\ games \in Seq(Game) /\ IsInjective(games)
    BY TypesSplit DEF MInv, TypeOK, IInv
<1>4. g <= opened /\ game[g].host = p
    BY <1>1 DEF MInv, Goroutines
<1>5. create[g] = "yes" => g \notin ToSet(games) /\ game[g].usesRelay
    BY DEF MInv, Objects
<1>6. /\ \A h \in Game : h # g => create'[h] = create[h]
      /\ \/ create'[g] = create[g]
         \/ create[g] = "yes" /\ create'[g] = "answered"
      /\ create'[g] = "yes" => lost'
    BY <1>2, <1>3 DEF TypesOK, LoseCall
<1>7. /\ games' \in Seq(Game) /\ IsInjective(games')
      /\ ToSet(games') \subseteq ToSet(games) \cup {g}
      /\ g \in ToSet(games') => \/ g \in ToSet(games)
                                \/ create[g] = "yes" /\ create'[g] = "answered"
    <2>1. CASE games' = games
        BY <1>3, <2>1
    <2>2. CASE create[g] = "yes" /\ games' = Append(games, g)
        <3>1. /\ games' \in Seq(Game) /\ IsInjective(games')
              /\ ToSet(games') = ToSet(games) \cup {g}
            BY <1>3, <1>5, <2>2, AppendElements
        <3>2. games' # games
            BY <1>5, <2>2, <3>1
        <3> QED  BY <1>2, <1>3, <2>2, <3>1, <3>2 DEF TypesOK
    <2> QED  BY <1>2, <2>1, <2>2
<1>8. ToSet(games) \subseteq Game
    BY <1>3, ElementsOfSeq
<1>9. /\ busy'[p] \in {Nil, <<"enter", g>>}
      /\ \A q \in Player : q # p => busy'[q] = busy[q]
    BY <1>2, <1>3 DEF ClientTypes
<1>10. TypeOK'
    <2>1. ClientTypes'
        <3>1. \E b \in {Nil, <<"enter", g>>} : busy' = [busy EXCEPT ![p] = b]
            BY <1>2
        <3>2. busy' \in [Player -> {"create", "enter"} \X Game \cup {Nil}]
            BY <1>3, <3>1 DEF ClientTypes
        <3> QED  BY <1>1, <1>3, <3>2 DEF ClientTypes
    <2>2. RestTypes'
        <3>1. trouble' \in 0..MaxTrouble /\ lost' \in BOOLEAN
            BY <1>2, <1>3, TroubleTyped DEF RestTypes, LoseCall
        <3> QED  BY <1>1, <1>3, <3>1 DEF RestTypes, kickVars
    <2> QED  BY <1>1, <1>7, <2>1, <2>2
             DEF IInv, TypesOK, TypeOK, ClientTypes, RestTypes, MInv
<1>11. Objects'
    BY <1>1, <1>3, <1>4, <1>5, <1>6, <1>7, <1>8 DEF MInv, Objects
<1>12. \A h \in Game : create'[h] \in {"sent", "yes"} =>
                           lost' \/ busy'[game'[h].host] = <<"create", h>>
    <2> SUFFICES ASSUME NEW h \in Game, create'[h] \in {"sent", "yes"}, ~lost'
                 PROVE  busy'[game'[h].host] = <<"create", h>>
        OBVIOUS
    <2>1. create[h] \in {"sent", "yes"} /\ ~lost
        BY <1>1, <1>6
    <2>2. busy[game[h].host] = <<"create", h>> /\ game[h].host \in Player
        BY <2>1, MadeIsOpened DEF MInv, Goroutines
    <2>3. CASE h = g
        BY <1>2, <1>6, <2>1, <2>3 DEF LoseCall
    <2>4. CASE h # g
        <3>1. game[h].host # p
            BY <1>1, <2>2, <2>4
        <3> QED  BY <1>1, <1>9, <2>2, <3>1
    <2> QED  BY <2>3, <2>4
<1>13. Goroutines'
    <2>1. \A q \in Player : presence'[q] \in {"cut", "swap"} => busy'[q] = Nil
        <3>1. presence[p] \notin {"cut", "swap"}
            <4>1. Nil # <<"create", g>>
                BY GamesAssumption
            <4> QED  BY <1>1, <4>1 DEF MInv, Goroutines
        <3> QED  BY <1>1, <1>9, <3>1 DEF MInv, Goroutines
    <2>2. \A q \in Player, h \in Game : busy'[q] \in {<<"create", h>>, <<"enter", h>>} =>
              h <= opened' /\ game'[h].host = q
        <3> SUFFICES ASSUME NEW q \in Player, NEW h \in Game,
                            busy'[q] \in {<<"create", h>>, <<"enter", h>>}
                     PROVE  h <= opened /\ game[h].host = q
            BY <1>1
        <3>1. Nil \notin {<<"create", h>>, <<"enter", h>>}
            BY GamesAssumption
        <3>2. CASE q = p
            <4>1. h = g
                BY <1>9, <3>1, <3>2
            <4> QED  BY <1>4, <3>2, <4>1
        <3>3. CASE q # p
            BY <1>9, <3>3 DEF MInv, Goroutines
        <3> QED  BY <3>2, <3>3
    <2> QED  BY <1>12, <2>1, <2>2 DEF Goroutines
<1>14. SelfHostedHasHost'
    <2> SUFFICES ASSUME NEW h \in ToSet(games'), ~game[h].usesRelay,
                        game[h].host \notin kicked
                 PROVE  /\ presence[game[h].host] # "gone"
                        /\ \/ gameOf[game[h].host] = h
                           \/ busy'[game[h].host] = <<"enter", h>>
        BY <1>1 DEF SelfHostedHasHost
    <2>1. h \in ToSet(games) /\ h \in Game /\ game[h].host \in Player
        BY <1>5, <1>7, <1>8 DEF MInv, Objects
    <2>2. /\ presence[game[h].host] # "gone"
          /\ gameOf[game[h].host] = h \/ busy[game[h].host] = <<"enter", h>>
        BY <2>1 DEF MInv, SelfHostedHasHost
    <2>3. game[h].host = p => gameOf[p] = h
        BY <1>1, <2>2
    <2> QED  BY <1>9, <2>1, <2>2, <2>3
<1>15. Orders' /\ Reports'
    <2>1. \A h \in Game : create[h] = "answered" => create'[h] = "answered"
        BY <1>6
    <2> QED  BY <1>1, <2>1 DEF MInv, Orders, Reports, kickVars, relayVars
<1>16. Unmixed'
    <2> SUFFICES ASSUME NEW h \in Game, Unmistaken(h)
                 PROVE  Offer(h)' /\ (~lost' => End(h)')
        BY <1>1 DEF Unmixed, Unmistaken, NameReused
    <2>1. Offer(h)'
        BY <1>1 DEF MInv, Unmixed, Offer, relayVars
    <2>2. ASSUME ~lost' PROVE End(h)'
        <3>1. End(h)
            BY <1>1, <2>2 DEF MInv, Unmixed
        <3>2. \A by \in Game \cup {0} : <<by, h>> \in closing => "GameClosed" \in told[h]
            BY DEF IInv
        <3>3. CASE h = g
            BY <1>1, <1>6, <1>7, <2>2, <3>1, <3>2, <3>3 DEF End, relayVars
        <3>4. CASE h # g
            BY <1>1, <1>6, <1>7, <3>1, <3>4 DEF End, relayVars
        <3> QED  BY <3>3, <3>4
    <2> QED  BY <2>1, <2>2
<1> QED  BY <1>10, <1>11, <1>13, <1>14, <1>15, <1>16 DEF MInv

-----------------------------------------------------------------------------
LEMMA ListStep ==
    ASSUME IInv, IInv', MInv, [Next]_vars
    PROVE  MInv'
<1>1. CASE UNCHANGED vars
    <2>1. TypeOK'
        BY <1>1 DEF MInv, TypeOK, vars, listVars, clientVars, kickVars, relayVars, callVars
    <2>2. Objects' /\ Goroutines' /\ SelfHostedHasHost' /\ Orders' /\ Reports'
        BY <1>1
        DEF MInv, Objects, Goroutines, SelfHostedHasHost, Orders, Reports,
            vars, listVars, clientVars, kickVars, relayVars, callVars
    <2>3. Unmixed'
        BY <1>1
        DEF MInv, Unmixed, Unmistaken, NameReused, Offer, End,
            vars, listVars, clientVars, kickVars, relayVars, callVars
    <2> QED  BY <2>1, <2>2, <2>3 DEF MInv
<1>2. CASE Next
    <2> SUFFICES ASSUME IInv, IInv', MInv, Next PROVE MInv'
        BY <1>2
    <2>1. CASE \E p \in Player, n \in Name : OpenOwn(p, n) \/ OpenOnRelay(p, n)
        BY <2>1, OpenKeeps
    <2>2. CASE \E p \in Player, g \in Game : Created(p, g)
        BY <2>2, CreatedKeeps
    <2>3. CASE \E p, n, g, c : MetaserverStep(p, n, g, c)
        BY <2>3, MetaserverKeeps
    <2>4. CASE \E by, g, n : RelayStep(by, g, n)
        BY <2>4, RelayKeeps
    <2> QED  BY <2>1, <2>2, <2>3, <2>4 DEF Next, MetaserverStep, ClientStep, RelayStep
<1> QED  BY <1>1, <1>2

LEMMA ListInvariant == Spec => []MInv
<1>1. Init => MInv
    BY InitMInv
<1>2. IInv /\ IInv' /\ MInv /\ [Next]_vars => MInv'
    BY ListStep
<1> QED  BY <1>1, <1>2, Invariant, PTL DEF Spec

\* Lists, clients, goroutines and calls hold what the code can put into them, no game
\* is on the list twice, and no game of the relay has a pingCycle (NewGame).
THEOREM TypeCorrect == Spec => []TypeOK
<1>1. MInv => TypeOK
    BY DEF MInv
<1> QED  BY <1>1, ListInvariant, PTL

\* The host of a self-hosted game on the list is known and in his game, unless he was
\* kicked: what GAME_CONNECT relies on when it dereferences HasClient(host).
THEOREM TheHostIsThere == Spec => []SelfHostedHasHost
<1>1. MInv => SelfHostedHasHost
    BY DEF MInv
<1> QED  BY <1>1, ListInvariant, PTL

\* A game that the relay has removed is not on the list of the metaserver, unless a
\* call was lost or its name is that of another game: the relay removes a game when
\* GameClosed has returned.
THEOREM NoGhostsStay == Spec => []NoGhosts
<1>1. MInv => NoGhosts
    BY ElementsOfSeq DEF MInv, TypeOK, Objects, Unmixed, Unmistaken, End, NoGhosts
<1> QED  BY <1>1, ListInvariant, PTL

\* A game of the relay that clients are told they can connect to has had its host on
\* the relay, unless its name is that of another game (GameConnected).
THEOREM NoneIsOfferedTooEarly == Spec => []OfferedIsHosted
<1>1. MInv => OfferedIsHosted
    BY ElementsOfSeq DEF MInv, TypeOK, Objects, Unmixed, Unmistaken, Offer, OfferedIsHosted
<1> QED  BY <1>1, ListInvariant, PTL
=============================================================================
