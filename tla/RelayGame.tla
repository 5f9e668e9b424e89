------------------------------ MODULE RelayGame ------------------------------
(***************************************************************************)
(* What a game of the relay promises the metaserver, whatever its many     *)
(* goroutines do: the abstract specification of Relay, and of the relay's  *)
(* half of Games.                                                          *)
(*                                                                         *)
(* A game is on the list of the relay from the start.  The metaserver is   *)
(* told when a host takes the game, and before the game leaves the list;   *)
(* a game that has left the list does not come back and gets no host.      *)
(***************************************************************************)
EXTENDS Integers

VARIABLES
    hosted,     \* game.host is not nil
    listed,     \* the game is on server.games of the relay
    told        \* what the relay has begun to tell the metaserver

gvars == <<hosted, listed, told>>

Init == hosted = FALSE /\ listed = TRUE /\ told = {}

\* addClient makes the first who knows the password the host.
HostArrives ==
    /\ listed /\ ~hosted
    /\ hosted' = TRUE
    /\ told' = told \cup {"GameConnected"}
    /\ UNCHANGED listed

\* The host has left, or is disconnected.
HostGoes == hosted /\ ~hosted' /\ UNCHANGED <<listed, told>>

\* The relay tells the metaserver that the game is over: at the end of a
\* shutdown, or when no host has come in time.
TellClosed ==
    /\ listed
    /\ told' = told \cup {"GameClosed"}
    /\ UNCHANGED <<hosted, listed>>

\* The game leaves the list.
Remove ==
    /\ "GameClosed" \in told
    /\ ~listed'
    /\ UNCHANGED <<hosted, told>>

Next == HostArrives \/ HostGoes \/ TellClosed \/ Remove

Spec == Init /\ [][Next]_gvars
==============================================================================
