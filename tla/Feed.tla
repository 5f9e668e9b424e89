---------------------------------- MODULE Feed ----------------------------------
(***************************************************************************)
(* What players and IRC are told of each other: the announcements and the  *)
(* list of clients (wlms/client.go, wlms/server.go) and the bridge to IRC  *)
(* (wlms/ircbridge.go).                                                    *)
(*                                                                         *)
(* A player that is entered into the client list or removed from it is     *)
(* announced three seconds later by a goroutine of its own, if it is still *)
(* there, or gone; one that chats is announced at once by the goroutine of *)
(* the connection.  Nothing keeps the three from meeting in AnnounceNow.   *)
(* The users of the IRC channel are on the same list: callbacks of the IRC *)
(* library put their names into two bounded queues, and one goroutine of   *)
(* the server serves the queues in any order.                              *)
(*                                                                         *)
(* A step ends where the code sends, waits or begins a second walk through *)
(* the list; a walk is one step, and texts are left out.  A mutant is no   *)
(* part of the model.                                                      *)
(***************************************************************************)
EXTENDS Integers, Sequences, FiniteSets, SequencesExt

CONSTANTS
    Client,     \* connections of players; each logs in at most once
    Old,        \* those with the protocol of BUILD19
    Viewer,     \* those that ask for the list
    Nick,       \* people on IRC
    Op,         \* those the IRC server lists with a prefix, as in "@nick"
    InSize,     \* capacity of the queues from IRC: 50
    OutSize,    \* capacity of the queue to IRC: 5
    MaxIrc      \* bounds what happens on IRC

\* Goroutines that call AnnounceNow: started by AddClient and RemoveClient, and
\* that of the connection.
Announcer == {"add", "remove", "chat"}

\* Names that the metaserver shows for people on IRC.
User == {"", "@"} \X Nick
Plain(n) == <<"", n>>

\* The entry of a user of IRC is a Client object of its own, without a connection.
ASSUME FeedAssumption ==
    /\ IsFiniteSet(Client) /\ IsFiniteSet(Nick) /\ Client \cap User = {}
    /\ Old \subseteq Client /\ Viewer \subseteq Client /\ Op \subseteq Nick
    /\ InSize \in Nat /\ OutSize \in Nat /\ MaxIrc \in Nat

VARIABLES
    clients,            \* server.clients: players, and IRC users by their names
    state,              \* state[c]: Client.state
    wasAnnounced,       \* players with Client.wasAnnounced
    announcer,          \* announcer[c][k]: where it is in Announce
    word,               \* word[c]: the last that IRC was to hear about c
    messagesToIRC,      \* the number of messages in this queue
    asked               \* asked[c]: what CLIENTS has counted for c, or -1

VARIABLES
    channel,            \* people in the IRC channel
    away,               \* the bridge has no connection to IRC
    clientsJoiningIRC,  \* queue of names
    clientsLeavingIRC,  \* queue of names
    muddled,            \* people of whom a message was dropped, not seen, overtaken
                        \* or misread
    events,             \* how much has happened on IRC
    end                 \* "no", or how the metaserver has ended

playerVars == <<state, wasAnnounced, announcer, word, asked>>
ircVars == <<channel, away, clientsJoiningIRC, clientsLeavingIRC, muddled, events>>
vars == <<clients, playerVars, messagesToIRC, ircVars, end>>

\* The bridge is connecting when the server starts.
Init ==
    /\ clients = <<>>
    /\ state = [c \in Client |-> "HANDSHAKE"]
    /\ wasAnnounced = {}
    /\ announcer = [c \in Client |-> [k \in Announcer |-> "no"]]
    /\ word = [c \in Client |-> "none"]
    /\ messagesToIRC = 0
    /\ asked = [c \in Client |-> -1]
    /\ channel \in SUBSET Nick /\ away = TRUE
    /\ clientsJoiningIRC = <<>> /\ clientsLeavingIRC = <<>>
    /\ muddled = {} /\ events = 0
    /\ end = "no"

Runs == end = "no"

-----------------------------------------------------------------------------
(* The list of clients                                                     *)

\* HasClientObject and, for a name of IRC, HasIRCClient.
HasClientObject(c) == c \in ToSet(clients)
HasIRCClient(u) == u \in ToSet(clients)

\* RemoveClient takes the first entry out, if there is one.
Without(x) ==
    IF x \in ToSet(clients)
    THEN RemoveAt(clients, CHOOSE i \in DOMAIN clients :
                               clients[i] = x /\ \A j \in 1..(i - 1) : clients[j] # x)
    ELSE clients

\* AddClient and RemoveClient of a player start the goroutine Announce.
\* Mutant: only an arrival is announced.
AddClient(c) ==
    /\ clients' = Append(clients, c)
    /\ announcer' = [announcer EXCEPT ![c]["add"] = "sleep"]
RemoveQuietly(c) ==
    /\ clients' = Without(c)
    /\ UNCHANGED announcer
RemoveClient(c) ==
    /\ clients' = Without(c)
    /\ announcer' = [announcer EXCEPT ![c]["remove"] = "sleep"]

\* BroadcastToIrc: a full queue drops the message.  Mutant: it is appended.
SendAnyway == messagesToIRC' = messagesToIRC + 1
BroadcastToIrc == messagesToIRC' = IF messagesToIRC < OutSize THEN messagesToIRC + 1
                                                              ELSE messagesToIRC

\* The end of loginDone, and of the legacy relogin.
Login(c) ==
    /\ Runs /\ state[c] = "HANDSHAKE" /\ ~HasClientObject(c)
    /\ AddClient(c)
    /\ state' = [state EXCEPT ![c] = "CONNECTED"]
    /\ UNCHANGED <<wasAnnounced, word, messagesToIRC, asked, ircVars, end>>

\* Client.Disconnect: the client stays on the list.
Disconnect(c) ==
    /\ Runs /\ state[c] = "CONNECTED" /\ HasClientObject(c)
    /\ state' = [state EXCEPT ![c] = "RECENTLY_DISCONNECTED"]
    /\ UNCHANGED <<clients, wasAnnounced, announcer, word, messagesToIRC, asked, ircVars, end>>

\* DISCONNECT, a kick, a successor or the forget timer removes the client.
Leave(c) ==
    /\ Runs /\ HasClientObject(c)
    /\ RemoveClient(c)
    /\ state' = [state EXCEPT ![c] = "RECENTLY_DISCONNECTED"]
    /\ UNCHANGED <<wasAnnounced, word, messagesToIRC, asked, ircVars, end>>

-----------------------------------------------------------------------------
(* Announcements                                                           *)

\* The conditions of AnnounceNow.  Mutant: it forgets that the client may be gone.
VerdictUnseen(c) == IF c \in wasAnnounced /\ ~HasClientObject(c) THEN "left"
                    ELSE IF c \notin wasAnnounced THEN "joined" ELSE "done"
Verdict(c) ==
    IF c \in wasAnnounced /\ ~HasClientObject(c) THEN "left"
    ELSE IF c \notin wasAnnounced /\ HasClientObject(c) THEN "joined"
    ELSE "done"

\* The goroutine Announce wakes up.  To send two messages takes less than the three
\* seconds between the removal of a client and this moment: what was decided when
\* the client was on the list has been said by then.
Wake(c, k) ==
    /\ Runs /\ announcer[c][k] = "sleep"
    /\ k = "remove" => \A j \in Announcer : announcer[c][j] \notin {"joined", "joined, told"}
    /\ announcer' = [announcer EXCEPT ![c][k] = Verdict(c)]
    /\ UNCHANGED <<clients, state, wasAnnounced, word, messagesToIRC, asked, ircVars, end>>

\* The message to IRC.
TellIrc(c, k) ==
    /\ Runs /\ announcer[c][k] \in {"joined", "left"}
    /\ BroadcastToIrc
    /\ word' = [word EXCEPT ![c] = announcer[c][k]]
    /\ announcer' = [announcer EXCEPT ![c][k] = IF @ = "joined" THEN "joined, told"
                                                               ELSE "left, told"]
    /\ UNCHANGED <<clients, state, wasAnnounced, asked, ircVars, end>>

\* CLIENTS_UPDATE has been sent to everybody, and wasAnnounced is set.  The chat
\* that was the reason goes to IRC, too.
Mark(c, k) ==
    /\ Runs /\ announcer[c][k] \in {"joined, told", "left, told"}
    /\ wasAnnounced' = IF announcer[c][k] = "joined, told" THEN wasAnnounced \cup {c}
                                                           ELSE wasAnnounced \ {c}
    /\ announcer' = [announcer EXCEPT ![c][k] = IF k = "chat" THEN "no" ELSE "done"]
    /\ IF k = "chat" THEN BroadcastToIrc ELSE UNCHANGED messagesToIRC
    /\ UNCHANGED <<clients, state, word, asked, ircVars, end>>

\* CHAT to everybody, which is not refused before the login, nor to a client that
\* has been removed and has packets left.
Chat(c) ==
    /\ Runs /\ announcer[c]["chat"] = "no" /\ asked[c] = -1
    /\ IF c \notin wasAnnounced /\ Verdict(c) # "done"
       THEN /\ announcer' = [announcer EXCEPT ![c]["chat"] = Verdict(c)]
            /\ UNCHANGED messagesToIRC
       ELSE /\ BroadcastToIrc
            /\ UNCHANGED announcer
    /\ UNCHANGED <<clients, state, wasAnnounced, word, asked, ircVars, end>>

-----------------------------------------------------------------------------
(* CLIENTS                                                                 *)

\* Where the clients are that are listed for p: those connected and announced, and p itself;
\* for an old client no IRC users.
ListedFor(p) ==
    LET Shows(x) == \/ x \in Client /\ state[x] = "CONNECTED" /\ (x \in wasAnnounced \/ x = p)
                    \/ x \in User /\ p \notin Old
    IN {i \in DOMAIN clients : Shows(clients[i])}

\* The first walk counts, to make an array of that size.
Count(p) ==
    /\ Runs /\ p \in Viewer /\ asked[p] = -1 /\ announcer[p]["chat"] = "no"
    /\ asked' = [asked EXCEPT ![p] = Cardinality(ListedFor(p))]
    /\ UNCHANGED <<clients, state, wasAnnounced, announcer, word, messagesToIRC, ircVars, end>>

\* The second walk fills the array: with more clients it runs over the end, with
\* fewer it leaves nils for packet.New.
Fill(p) ==
    /\ Runs /\ asked[p] # -1
    /\ asked' = [asked EXCEPT ![p] = -1]
    /\ end' = CASE Cardinality(ListedFor(p)) > asked[p] -> "index out of range"
                [] Cardinality(ListedFor(p)) < asked[p] -> "unknown type"
                [] OTHER -> "no"
    /\ UNCHANGED <<clients, state, wasAnnounced, announcer, word, messagesToIRC, ircVars>>

-----------------------------------------------------------------------------
(* The IRC bridge                                                          *)

Push(queue, u) == IF Len(queue) < InSize THEN Append(queue, u) ELSE queue

\* One name after the other, as long as there is room.
PushAll(queue, names) ==
    LET all == queue \o names
    IN SubSeq(all, 1, IF Len(all) < InSize THEN Len(all) ELSE InSize)

\* What becomes of our knowledge of n when its joining or leaving is queued.
Blurred(n, queue, other) == Len(queue) = InSize \/ Plain(n) \in ToSet(other)

Event == Runs /\ events < MaxIrc /\ events' = events + 1

\* Callback JOIN.
Join(n) ==
    /\ Event /\ ~away /\ n \notin channel
    /\ channel' = channel \cup {n}
    /\ clientsJoiningIRC' = Push(clientsJoiningIRC, Plain(n))
    /\ muddled' = IF Blurred(n, clientsJoiningIRC, clientsLeavingIRC)
                  THEN muddled \cup {n} ELSE muddled
    /\ UNCHANGED <<clients, playerVars, messagesToIRC, away, clientsLeavingIRC, end>>

\* Callbacks PART and QUIT.
Part(n) ==
    /\ Event /\ ~away /\ n \in channel
    /\ channel' = channel \ {n}
    /\ clientsLeavingIRC' = Push(clientsLeavingIRC, Plain(n))
    /\ muddled' = IF Blurred(n, clientsLeavingIRC, clientsJoiningIRC)
                  THEN muddled \cup {n} ELSE muddled
    /\ UNCHANGED <<clients, playerVars, messagesToIRC, away, clientsJoiningIRC, end>>

\* Callback NICK.  Mutant: the old name stays.
RenamedOnly(n, m) ==
    /\ Event /\ ~away /\ n \in channel /\ m \notin channel
    /\ channel' = (channel \ {n}) \cup {m}
    /\ clientsJoiningIRC' = Push(clientsJoiningIRC, Plain(m))
    /\ muddled' = muddled \cup
         {k \in {n} : Blurred(k, clientsLeavingIRC, clientsJoiningIRC)} \cup
         {k \in {m} : Blurred(k, clientsJoiningIRC, clientsLeavingIRC)}
    /\ UNCHANGED <<clients, playerVars, messagesToIRC, away, clientsLeavingIRC, end>>
Renamed(n, m) ==
    /\ Event /\ ~away /\ n \in channel /\ m \notin channel
    /\ channel' = (channel \ {n}) \cup {m}
    /\ clientsLeavingIRC' = Push(clientsLeavingIRC, Plain(n))
    /\ clientsJoiningIRC' = Push(clientsJoiningIRC, Plain(m))
    /\ muddled' = muddled \cup
         {k \in {n} : Blurred(k, clientsLeavingIRC, clientsJoiningIRC)} \cup
         {k \in {m} : Blurred(k, clientsJoiningIRC, clientsLeavingIRC)}
    /\ UNCHANGED <<clients, playerVars, messagesToIRC, away, end>>

\* The connection to IRC is lost; people come and go unseen.
LoseIrc ==
    /\ Event /\ ~away
    /\ away' = TRUE
    /\ UNCHANGED <<clients, playerVars, messagesToIRC, channel, clientsJoiningIRC,
                   clientsLeavingIRC, muddled, end>>
Unseen(n) ==
    /\ Event /\ away
    /\ channel' = IF n \in channel THEN channel \ {n} ELSE channel \cup {n}
    /\ muddled' = IF n \in channel THEN muddled \cup {n} ELSE muddled
    /\ UNCHANGED <<clients, playerVars, messagesToIRC, away, clientsJoiningIRC,
                   clientsLeavingIRC, end>>

\* Callback 353 lists who is there when the bridge has joined (callback 001), with
\* the prefix of those who have one.
NamReply ==
    /\ Runs /\ away
    /\ away' = FALSE
    /\ \E nicks \in SetToSeqs(channel) :
          LET names == [i \in DOMAIN nicks |->
                           <<IF nicks[i] \in Op THEN "@" ELSE "", nicks[i]>>]
              room == InSize - Len(clientsJoiningIRC)
          IN /\ clientsJoiningIRC' = PushAll(clientsJoiningIRC, names)
             /\ muddled' = muddled \cup
                  {nicks[i] : i \in {j \in DOMAIN nicks :
                      j > room \/ nicks[j] \in Op \/ Plain(nicks[j]) \in ToSet(clientsLeavingIRC)}}
    /\ UNCHANGED <<clients, playerVars, messagesToIRC, channel, clientsLeavingIRC, events, end>>

\* The goroutine that takes messages to IRC.
Privmsg ==
    /\ Runs /\ ~away /\ messagesToIRC > 0
    /\ messagesToIRC' = messagesToIRC - 1
    /\ UNCHANGED <<clients, playerVars, ircVars, end>>

-----------------------------------------------------------------------------
(* The goroutine of the server that serves the queues from IRC             *)

\* Mutant: whoever joins is added.
AddAnyIRCClient ==
    /\ Runs /\ clientsJoiningIRC # <<>>
    /\ clientsJoiningIRC' = Tail(clientsJoiningIRC)
    /\ clients' = Append(clients, Head(clientsJoiningIRC))
    /\ UNCHANGED <<playerVars, messagesToIRC, channel, away, clientsLeavingIRC, muddled, events, end>>
AddIRCClient ==
    /\ Runs /\ clientsJoiningIRC # <<>>
    /\ clientsJoiningIRC' = Tail(clientsJoiningIRC)
    /\ clients' = IF HasIRCClient(Head(clientsJoiningIRC)) THEN clients
                  ELSE Append(clients, Head(clientsJoiningIRC))
    /\ UNCHANGED <<playerVars, messagesToIRC, channel, away, clientsLeavingIRC, muddled, events, end>>

RemoveIRCClient ==
    /\ Runs /\ clientsLeavingIRC # <<>>
    /\ clientsLeavingIRC' = Tail(clientsLeavingIRC)
    /\ clients' = Without(Head(clientsLeavingIRC))
    /\ UNCHANGED <<playerVars, messagesToIRC, channel, away, clientsJoiningIRC, muddled, events, end>>

\* The shutdown in mainLoop disconnects all that are listed; an IRC user has no
\* connection to close.
Shutdown ==
    /\ Runs
    /\ end' = IF ToSet(clients) \cap User = {} THEN "shut down" ELSE "no connection"
    /\ clients' = <<>>
    /\ state' = [c \in Client |-> IF HasClientObject(c) THEN "RECENTLY_DISCONNECTED" ELSE state[c]]
    /\ UNCHANGED <<wasAnnounced, announcer, word, asked, messagesToIRC, ircVars>>

Announce == \E c \in Client, k \in Announcer : Wake(c, k) \/ TellIrc(c, k) \/ Mark(c, k)

Next ==
    \/ \E c \in Client :
          Login(c) \/ Disconnect(c) \/ Leave(c) \/ Chat(c) \/ Count(c) \/ Fill(c)
    \/ Announce
    \/ \E n \in Nick : Join(n) \/ Part(n) \/ Unseen(n) \/ \E m \in Nick : Renamed(n, m)
    \/ LoseIrc \/ NamReply \/ Privmsg
    \/ AddIRCClient \/ RemoveIRCClient \/ Shutdown

Spec == Init /\ [][Next]_vars

\* Goroutines that are not asleep or blocked run, and a select takes from each
\* channel that has something.
Fairness ==
    /\ \A c \in Client, k \in Announcer :
          WF_vars(Wake(c, k)) /\ WF_vars(TellIrc(c, k)) /\ WF_vars(Mark(c, k))
    /\ WF_vars(AddIRCClient) /\ WF_vars(RemoveIRCClient)

FairSpec == Spec /\ Fairness

-----------------------------------------------------------------------------
(* Properties                                                              *)

\* Variables hold what the code can put into them; no queue outgrows its channel.
TypeOK ==
    /\ ToSet(clients) \subseteq Client \cup User
    /\ state \in [Client -> {"HANDSHAKE", "CONNECTED", "RECENTLY_DISCONNECTED"}]
    /\ wasAnnounced \subseteq Client
    /\ announcer \in [Client -> [Announcer ->
          {"no", "sleep", "joined", "joined, told", "left", "left, told", "done"}]]
    /\ word \in [Client -> {"none", "joined", "left"}]
    /\ messagesToIRC \in 0..OutSize
    /\ asked \in [Client -> -1..Cardinality(Client \cup User)]
    /\ channel \subseteq Nick /\ muddled \subseteq Nick /\ away \in BOOLEAN
    /\ ToSet(clientsJoiningIRC) \subseteq User /\ Len(clientsJoiningIRC) <= InSize
    /\ ToSet(clientsLeavingIRC) \subseteq User /\ Len(clientsLeavingIRC) <= InSize
    /\ events \in 0..MaxIrc
    /\ end \in {"no", "index out of range", "unknown type", "no connection", "shut down"}

\* A user of IRC is on the list once, however often the bridge reconnects and reads
\* the names again; removing a name removes the user (server.go 527-542).
IrcUsersOnce == IsInjective(clients)

Quiet(c) == \A k \in Announcer : announcer[c][k] \in {"no", "done"}

\* When the goroutines that announce a player are through, in whichever order they
\* ran, the last word about the player was the right one, and CLIENTS lists the
\* player if and only if it is there (AnnounceNow).
LastWordIsRight ==
    Runs => \A c \in Client : Quiet(c) => /\ c \in wasAnnounced <=> HasClientObject(c)
                                          /\ word[c] = "joined" <=> HasClientObject(c)

\* The lobby shows who is in the channel, but for people of whom a message was
\* dropped, not seen, overtaken by another or misread.
LobbyShowsChannel ==
    Runs /\ ~away =>
        \A n \in Nick \ muddled :
            Plain(n) \notin ToSet(clientsJoiningIRC) \cup ToSet(clientsLeavingIRC)
            => (n \in channel <=> HasIRCClient(Plain(n)))

\* Every player who stays is announced, and every one who has gone is forgotten, as
\* long as the metaserver runs.
NewsGetsOut ==
    \A c \in Client : []<>(Runs => (c \in wasAnnounced <=> HasClientObject(c)))

\* packet.New is never given a value of an unknown type (packet.go 30).
NothingUnknown == end # "unknown type"
================================================================================
