------------------------------ MODULE FeedProofs ------------------------------
(***************************************************************************)
(* Theorems about announcements and the list of clients, for any number of *)
(* players, people on IRC and sizes of the queues: the type invariant, and *)
(* the safety invariants of Feed.                                          *)
(***************************************************************************)
EXTENDS Feed, ListLemmas, FiniteSetTheorems

Joining == {"joined", "joined, told"}
Leaving == {"left", "left, told"}

\* Somebody is about to announce c with one of the messages in M, or has begun to.
Says(c, M) == \E k \in Announcer : announcer[c][k] \in M

\* A player who has not logged in.
Unknown(c) ==
    state[c] = "HANDSHAKE" =>
        /\ ~HasClientObject(c) /\ c \notin wasAnnounced /\ word[c] = "none"
        /\ \A k \in Announcer : announcer[c][k] = "no"

\* A player on the list has not been announced as gone, and the goroutine that
\* AddClient started sees to it that the arrival is announced.
Here(c) ==
    HasClientObject(c) =>
        /\ announcer[c]["add"] # "no" /\ announcer[c]["remove"] = "no"
        /\ ~Says(c, Leaving) /\ word[c] # "left"
        /\ c \in wasAnnounced => word[c] = "joined"
        /\ Says(c, {"joined, told"}) => word[c] = "joined"
        /\ announcer[c]["add"] = "done" => c \in wasAnnounced

\* After a player was removed its arrival and its departure are never announced at
\* the same time, and when the goroutine that RemoveClient started is through, the
\* player is not announced any more.
Away(c) ==
    ~HasClientObject(c) /\ state[c] # "HANDSHAKE" =>
        /\ announcer[c]["remove"] # "no"
        /\ Says(c, Leaving) => ~Says(c, Joining)
        /\ Says(c, {"left, told"}) => word[c] = "left"
        /\ announcer[c]["remove"] # "sleep" => ~Says(c, Joining)
        /\ announcer[c]["remove"] = "done" => c \notin wasAnnounced

\* What holds of a player at any time.
Known(c) ==
    /\ word[c] = "joined" => c \in wasAnnounced \/ Says(c, {"joined, told"})
    /\ announcer[c]["add"] = "sleep" /\ c \in wasAnnounced => announcer[c]["chat"] = "no"
    /\ announcer[c]["chat"] \in {"no"} \cup Joining

Announced(c) == Unknown(c) /\ Here(c) /\ Away(c) /\ Known(c)

\* What the queues and the list say of n, of whom no message was lost.
Shown(n) ==
    LET u == Plain(n)
        joins == u \in ToSet(clientsJoiningIRC)
        leaves == u \in ToSet(clientsLeavingIRC)
    IN  /\ joins => n \in channel /\ ~leaves
        /\ leaves /\ ~away => n \notin channel
        /\ HasIRCClient(u) /\ ~leaves => n \in channel
        /\ ~away /\ n \in channel /\ ~joins => HasIRCClient(u)

ListsOK ==
    /\ clients \in Seq(Client \cup User)
    /\ clientsJoiningIRC \in Seq(User) /\ clientsLeavingIRC \in Seq(User)

IInv ==
    /\ TypeOK /\ ListsOK /\ IrcUsersOnce
    /\ Runs => /\ \A c \in Client : Announced(c)
               /\ \A n \in Nick \ muddled : Shown(n)
-----------------------------------------------------------------------------
(* The lists. *)

LEMMA WithoutProperties ==
    ASSUME ListsOK, IrcUsersOnce, NEW x
    PROVE  /\ Without(x) \in Seq(Client \cup User)
           /\ IsInjective(Without(x))
           /\ ToSet(Without(x)) = ToSet(clients) \ {x}
<1>1. CASE x \in ToSet(clients)
    <2> DEFINE P(i) == clients[i] = x /\ \A j \in 1..(i - 1) : clients[j] # x
               i0 == CHOOSE i \in DOMAIN clients : P(i)
    <2>1. PICK i \in DOMAIN clients : clients[i] = x
        BY <1>1 DEF ToSet
    <2>2. P(i)
        <3>1. DOMAIN clients = 1..Len(clients) /\ Len(clients) \in Nat
            BY LenProperties DEF ListsOK
        <3>2. ASSUME NEW j \in 1..(i - 1), clients[j] = x
              PROVE  FALSE
            <4>1. j \in DOMAIN clients /\ j # i
                BY <3>1, <2>1
            <4> QED  BY <4>1, <3>2, <2>1 DEF IrcUsersOnce, IsInjective
        <3> QED  BY <2>1, <3>2
    <2>3. i0 \in DOMAIN clients /\ P(i0)
        BY <2>1, <2>2
    <2>4. Without(x) = RemoveAt(clients, i0)
        BY <1>1 DEF Without
    <2> HIDE DEF i0
    <2>5. clients[i0] = x
        BY <2>3
    <2> QED  BY <2>3, <2>4, <2>5, RemoveAtProperties, RemoveAtInjective DEF ListsOK, IrcUsersOnce
<1>2. CASE x \notin ToSet(clients)
    BY <1>2 DEF Without, ListsOK, IrcUsersOnce
<1> QED  BY <1>1, <1>2

\* A queue that takes names holds what it held, and the first names, as many as it
\* has room for.
LEMMA PushAllProperties ==
    ASSUME NEW S, NEW queue \in Seq(S), NEW names \in Seq(S), InSize \in Nat,
           Len(queue) <= InSize
    PROVE  /\ PushAll(queue, names) \in Seq(S) /\ Len(PushAll(queue, names)) <= InSize
           /\ ToSet(queue) \subseteq ToSet(PushAll(queue, names))
           /\ ToSet(PushAll(queue, names)) \subseteq ToSet(queue) \cup ToSet(names)
           /\ \A i \in DOMAIN names : i <= InSize - Len(queue) =>
                 names[i] \in ToSet(PushAll(queue, names))
<1> DEFINE all == queue \o names
           n == IF Len(all) < InSize THEN Len(all) ELSE InSize
           kept == SubSeq(all, 1, n)
<1>1. /\ all \in Seq(S) /\ Len(all) = Len(queue) + Len(names)
      /\ \A j \in 1..(Len(queue) + Len(names)) :
            all[j] = IF j <= Len(queue) THEN queue[j] ELSE names[j - Len(queue)]
    BY ConcatProperties
<1>2. /\ Len(queue) \in Nat /\ DOMAIN queue = 1..Len(queue)
      /\ Len(names) \in Nat /\ DOMAIN names = 1..Len(names)
    BY LenProperties
<1>3. \A j \in 1..Len(all) : all[j] \in S
    BY <1>1, ElementOfSeq
<1>4. PushAll(queue, names) = kept
    BY DEF PushAll
<1> HIDE DEF all
<1>5. n \in Nat /\ n <= Len(all) /\ n <= InSize /\ Len(queue) <= n
    BY <1>1, <1>2
<1>6. \A j \in Len(queue) + 1..Len(all) : j - Len(queue) <= InSize - Len(queue) => j <= n
    BY <1>1, <1>2
<1> HIDE DEF n
<1>7. kept \in Seq(S) /\ Len(kept) = n /\ \A j \in 1..n : kept[j] = all[j]
    <2>1. \A j \in 1..n : all[j] \in S
        BY <1>3, <1>5, <1>1, <1>2
    <2>2. /\ kept \in Seq(S) /\ Len(kept) = IF 1 <= n THEN n - 1 + 1 ELSE 0
          /\ \A j \in 1..(n - 1 + 1) : kept[j] = all[1 + j - 1]
        BY <1>5, <2>1, SubSeqProperties
    <2> QED  BY <2>2, <1>5
<1>8. DOMAIN kept = 1..n
    BY <1>7, LenProperties
<1> HIDE DEF kept
<1>9. ASSUME NEW j \in 1..Len(queue)
      PROVE  queue[j] \in ToSet(kept)
    <2>1. j \in 1..n /\ j \in 1..(Len(queue) + Len(names))
        BY <1>1, <1>2, <1>5
    <2>2. kept[j] = queue[j]
        BY <2>1, <1>1, <1>2, <1>7
    <2> QED  BY <2>1, <2>2, <1>8 DEF ToSet
<1>10. ASSUME NEW j \in 1..n
       PROVE  kept[j] \in ToSet(queue) \cup ToSet(names)
    <2>1. kept[j] = IF j <= Len(queue) THEN queue[j] ELSE names[j - Len(queue)]
        <3>1. j \in 1..(Len(queue) + Len(names))
            BY <1>1, <1>2, <1>5
        <3> QED  BY <3>1, <1>1, <1>7
    <2>2. CASE j <= Len(queue)
        BY <2>1, <2>2, <1>2 DEF ToSet
    <2>3. CASE ~(j <= Len(queue))
        <3>1. j - Len(queue) \in DOMAIN names
            BY <2>3, <1>1, <1>2, <1>5
        <3> QED  BY <2>1, <2>3, <3>1 DEF ToSet
    <2> QED  BY <2>2, <2>3
<1>11. ASSUME NEW i \in DOMAIN names, i <= InSize - Len(queue)
       PROVE  names[i] \in ToSet(kept)
    <2> DEFINE j == Len(queue) + i
    <2>1. j \in 1..n /\ ~(j <= Len(queue)) /\ j - Len(queue) = i
        BY <1>1, <1>2, <1>5, <1>6, <1>11
    <2>2. kept[j] = names[i]
        <3>1. j \in 1..(Len(queue) + Len(names))
            BY <2>1, <1>1, <1>2, <1>5
        <3> QED  BY <3>1, <2>1, <1>1, <1>7
    <2> QED  BY <2>1, <2>2, <1>8 DEF ToSet
<1>12. ToSet(queue) \subseteq ToSet(kept)
    BY <1>2, <1>9 DEF ToSet
<1>13. ToSet(kept) \subseteq ToSet(queue) \cup ToSet(names)
    BY <1>8, <1>10 DEF ToSet
<1>14. Len(kept) <= InSize
    BY <1>5, <1>7
<1> QED  BY <1>4, <1>7, <1>11, <1>12, <1>13, <1>14

LEMMA PushProperties ==
    ASSUME NEW S, NEW queue \in Seq(S), NEW u \in S, InSize \in Nat, Len(queue) <= InSize
    PROVE  /\ Push(queue, u) \in Seq(S) /\ Len(Push(queue, u)) <= InSize
           /\ ToSet(Push(queue, u)) = IF Len(queue) = InSize THEN ToSet(queue)
                                                            ELSE ToSet(queue) \cup {u}
<1>1. Len(queue) \in Nat
    BY LenProperties
<1>2. CASE Len(queue) < InSize
    BY <1>1, <1>2, AppendElements DEF Push
<1>3. CASE Len(queue) = InSize
    BY <1>1, <1>3 DEF Push
<1> QED  BY <1>1, <1>2, <1>3

LEMMA ListedForProperties ==
    ASSUME ListsOK, IrcUsersOnce, NEW p
    PROVE  /\ Cardinality(Client \cup User) \in Nat
           /\ Cardinality(ListedFor(p)) \in 0..Cardinality(Client \cup User)
<1> DEFINE at == ListedFor(p)
           f == [i \in at |-> clients[i]]
<1>1. at \subseteq DOMAIN clients
    BY DEF ListedFor
<1> HIDE DEF at
<1>2. IsFiniteSet(Client \cup User)
    <2>1. IsFiniteSet({"", "@"})
        <3>1. {"", "@"} = {""} \cup {"@"}
            OBVIOUS
        <3>2. IsFiniteSet({""} \cup {"@"})
            BY FS_Singleton, FS_AddElement
        <3> QED  BY <3>1, <3>2
    <2>2. IsFiniteSet(User)
        BY <2>1, FeedAssumption, FS_Product DEF User
    <2> QED  BY <2>2, FeedAssumption, FS_Union
<1>3. \A i \in DOMAIN clients : clients[i] \in Client \cup User
    BY LenProperties, ElementOfSeq DEF ListsOK
<1>4. f \in Injection(at, Client \cup User)
    BY <1>1, <1>3 DEF Injection, IsInjective, IrcUsersOnce
<1>5. IsFiniteSet(at) /\ Cardinality(at) <= Cardinality(Client \cup User)
    BY <1>2, <1>4, FS_Injection
<1>6. Cardinality(at) \in Nat /\ Cardinality(Client \cup User) \in Nat
    BY <1>2, <1>5, FS_CardinalityType
<1>7. Cardinality(at) \in 0..Cardinality(Client \cup User)
    BY <1>5, <1>6
<1> QED  BY <1>6, <1>7 DEF at

-----------------------------------------------------------------------------
(* What the actions do to the list and the queues. *)

Announcements == {"no", "sleep", "joined", "joined, told", "left", "left, told", "done"}

LEMMA LoginList ==
    ASSUME IInv, NEW c \in Client, Login(c)
    PROVE  /\ clients' \in Seq(Client \cup User) /\ IsInjective(clients')
           /\ ToSet(clients') = ToSet(clients) \cup {c}
BY AppendElements DEF IInv, ListsOK, IrcUsersOnce, Login, AddClient, HasClientObject

LEMMA LeaveList ==
    ASSUME IInv, NEW c \in Client, Leave(c)
    PROVE  /\ clients' \in Seq(Client \cup User) /\ IsInjective(clients')
           /\ ToSet(clients') = ToSet(clients) \ {c}
BY WithoutProperties DEF IInv, Leave, RemoveClient

LEMMA AddIRCClientList ==
    ASSUME IInv, AddIRCClient
    PROVE  LET u == Head(clientsJoiningIRC)
           IN  /\ u \in User /\ u \in ToSet(clientsJoiningIRC)
               /\ clients' \in Seq(Client \cup User) /\ IsInjective(clients')
               /\ ToSet(clients') = ToSet(clients) \cup {u}
               /\ clientsJoiningIRC' \in Seq(User)
               /\ Len(clientsJoiningIRC') <= InSize
               /\ ToSet(clientsJoiningIRC) = {u} \cup ToSet(clientsJoiningIRC')
<1> DEFINE u == Head(clientsJoiningIRC)
<1>1. /\ u \in User /\ u \in ToSet(clientsJoiningIRC)
      /\ clientsJoiningIRC' \in Seq(User)
      /\ Len(clientsJoiningIRC') = Len(clientsJoiningIRC) - 1
      /\ ToSet(clientsJoiningIRC) = {u} \cup ToSet(clientsJoiningIRC')
    BY HeadTailElements DEF IInv, ListsOK, AddIRCClient
<1>2. Len(clientsJoiningIRC') <= InSize
    <2>1. Len(clientsJoiningIRC) \in Nat /\ Len(clientsJoiningIRC) <= InSize
        BY LenProperties DEF IInv, ListsOK, TypeOK
    <2> QED  BY <1>1, <2>1, FeedAssumption
<1>3. /\ clients' \in Seq(Client \cup User) /\ IsInjective(clients')
      /\ ToSet(clients') = ToSet(clients) \cup {u}
    <2>1. CASE HasIRCClient(u)
        BY <2>1 DEF IInv, ListsOK, IrcUsersOnce, AddIRCClient, HasIRCClient
    <2>2. CASE ~HasIRCClient(u)
        <3>1. u \in Client \cup User
            BY <1>1
        <3>2. clients' = Append(clients, u)
            BY <2>2 DEF AddIRCClient
        <3> HIDE DEF u
        <3> QED  BY <2>2, <3>1, <3>2, AppendElements DEF IInv, ListsOK, IrcUsersOnce, HasIRCClient
    <2> QED  BY <2>1, <2>2
<1> QED  BY <1>1, <1>2, <1>3

LEMMA RemoveIRCClientList ==
    ASSUME IInv, RemoveIRCClient
    PROVE  LET u == Head(clientsLeavingIRC)
           IN  /\ u \in User /\ u \in ToSet(clientsLeavingIRC)
               /\ clients' \in Seq(Client \cup User) /\ IsInjective(clients')
               /\ ToSet(clients') = ToSet(clients) \ {u}
               /\ clientsLeavingIRC' \in Seq(User)
               /\ Len(clientsLeavingIRC') <= InSize
               /\ ToSet(clientsLeavingIRC) = {u} \cup ToSet(clientsLeavingIRC')
<1> DEFINE u == Head(clientsLeavingIRC)
<1>1. /\ u \in User /\ u \in ToSet(clientsLeavingIRC)
      /\ clientsLeavingIRC' \in Seq(User)
      /\ Len(clientsLeavingIRC') = Len(clientsLeavingIRC) - 1
      /\ ToSet(clientsLeavingIRC) = {u} \cup ToSet(clientsLeavingIRC')
    BY HeadTailElements DEF IInv, ListsOK, RemoveIRCClient
<1>2. Len(clientsLeavingIRC') <= InSize
    <2>1. Len(clientsLeavingIRC) \in Nat /\ Len(clientsLeavingIRC) <= InSize
        BY LenProperties DEF IInv, ListsOK, TypeOK
    <2> QED  BY <1>1, <2>1, FeedAssumption
<1>3. /\ clients' \in Seq(Client \cup User) /\ IsInjective(clients')
      /\ ToSet(clients') = ToSet(clients) \ {u}
    BY WithoutProperties DEF IInv, RemoveIRCClient
<1> QED  BY <1>1, <1>2, <1>3

\* What NamReply puts into the queue of those who join.
Names(nicks) == [i \in DOMAIN nicks |-> <<IF nicks[i] \in Op THEN "@" ELSE "", nicks[i]>>]

LEMMA NamReplyQueue ==
    ASSUME IInv, NEW nicks \in SetToSeqs(channel),
           clientsJoiningIRC' = PushAll(clientsJoiningIRC, Names(nicks))
    PROVE  /\ Names(nicks) \in Seq(User) /\ \A n \in channel : \E i \in DOMAIN nicks : nicks[i] = n
           /\ clientsJoiningIRC' \in Seq(User) /\ Len(clientsJoiningIRC') <= InSize
           /\ ToSet(clientsJoiningIRC) \subseteq ToSet(clientsJoiningIRC')
           /\ ToSet(clientsJoiningIRC') \subseteq ToSet(clientsJoiningIRC) \cup ToSet(Names(nicks))
           /\ \A i \in DOMAIN nicks : i <= InSize - Len(clientsJoiningIRC) =>
                 Names(nicks)[i] \in ToSet(clientsJoiningIRC')
<1> DEFINE names == Names(nicks)
           size == Cardinality(channel)
<1>1. IsFiniteSet(channel) /\ size \in Nat
    <2>1. channel \in SUBSET Nick
        BY DEF IInv, TypeOK
    <2> QED  BY <2>1, FeedAssumption, FS_Subset, FS_CardinalityType
<1>2. nicks \in [1..size -> channel] /\ \A i, j \in 1..size : i # j => nicks[i] # nicks[j]
    BY DEF SetToSeqs
<1>3. \A n \in channel : \E i \in DOMAIN nicks : nicks[i] = n
    <2>1. nicks \in Injection(1..size, channel)
        BY <1>2 DEF Injection, IsInjective
    <2>2. Cardinality(1..size) = size
        BY <1>1, FS_Interval
    <2>3. nicks \in Surjection(1..size, channel)
        BY <1>1, <2>1, <2>2, FS_Injection
    <2> QED  BY <1>2, <2>3 DEF Surjection
<1>4. names \in Seq(User) /\ DOMAIN names = DOMAIN nicks
    <2>1. names \in [1..size -> User]
        BY <1>2 DEF Names, User, IInv, TypeOK
    <2>2. names \in Seq(User)
        BY <1>1, <2>1
    <2> QED  BY <2>2 DEF Names
<1>5. clientsJoiningIRC \in Seq(User) /\ Len(clientsJoiningIRC) <= InSize
    BY DEF IInv, ListsOK, TypeOK
<1> HIDE DEF names
<1> QED  BY <1>3, <1>4, <1>5, FeedAssumption, PushAllProperties DEF names

-----------------------------------------------------------------------------
(* Types, and that the list has no duplicates. *)

Sound == TypeOK /\ ListsOK /\ IrcUsersOnce

LEMMA AnnouncerType ==
    ASSUME TypeOK, NEW c \in Client, NEW k \in Announcer, NEW s \in Announcements
    PROVE  /\ announcer \in [Client -> [Announcer -> Announcements]]
           /\ [announcer EXCEPT ![c][k] = s] \in [Client -> [Announcer -> Announcements]]
<1>1. announcer \in [Client -> [Announcer -> Announcements]]
    BY DEF TypeOK, Announcements
<1> QED  BY <1>1

LEMMA BroadcastType ==
    ASSUME messagesToIRC \in 0..OutSize, BroadcastToIrc
    PROVE  messagesToIRC' \in 0..OutSize
BY FeedAssumption DEF BroadcastToIrc

\* A step of a player that leaves the list alone, or puts itself in or out.
LEMMA PlayersSound ==
    ASSUME IInv, NEW c \in Client,
           Login(c) \/ Disconnect(c) \/ Leave(c) \/ Chat(c) \/ Count(c) \/ Fill(c)
    PROVE  Sound'
<1> USE FeedAssumption
<1>1. /\ clients' \in Seq(Client \cup User) /\ IsInjective(clients')
      /\ ToSet(clients') \subseteq Client \cup User
    <2>1. CASE Login(c)
        BY <2>1, LoginList, ElementsOfSeq
    <2>2. CASE Leave(c)
        BY <2>2, LeaveList, ElementsOfSeq
    <2>3. CASE clients' = clients
        BY <2>3 DEF IInv, ListsOK, IrcUsersOnce, TypeOK
    <2> QED  BY <2>1, <2>2, <2>3 DEF Disconnect, Chat, Count, Fill
<1>2. UNCHANGED <<channel, away, clientsJoiningIRC, clientsLeavingIRC, muddled, events>>
    BY DEF Login, Disconnect, Leave, Chat, Count, Fill, ircVars
<1>3. announcer' \in [Client -> [Announcer -> Announcements]]
    <2>1. /\ Verdict(c) \in Announcements /\ "sleep" \in Announcements
          /\ "add" \in Announcer /\ "remove" \in Announcer /\ "chat" \in Announcer
        BY DEF Verdict, Announcements, Announcer
    <2>2. \/ announcer' = announcer
          \/ announcer' = [announcer EXCEPT ![c]["add"] = "sleep"]
          \/ announcer' = [announcer EXCEPT ![c]["remove"] = "sleep"]
          \/ announcer' = [announcer EXCEPT ![c]["chat"] = Verdict(c)]
        BY DEF Login, Disconnect, Leave, Chat, Count, Fill, AddClient, RemoveClient
    <2> QED  BY <2>1, <2>2, AnnouncerType DEF IInv
<1>4. messagesToIRC' \in 0..OutSize
    BY BroadcastType DEF Login, Disconnect, Leave, Chat, Count, Fill, IInv, TypeOK
<1>5. asked' \in [Client -> -1..Cardinality(Client \cup User)]
    <2>1. CASE Count(c)
        <3>1. Cardinality(ListedFor(c)) \in -1..Cardinality(Client \cup User)
            BY ListedForProperties DEF IInv
        <3>2. asked' = [asked EXCEPT ![c] = Cardinality(ListedFor(c))]
            BY <2>1 DEF Count
        <3> QED  BY <3>1, <3>2 DEF IInv, TypeOK
    <2>2. CASE Fill(c)
        <3>1. -1 \in -1..Cardinality(Client \cup User)
            BY ListedForProperties DEF IInv
        <3>2. asked' = [asked EXCEPT ![c] = -1]
            BY <2>2 DEF Fill
        <3> QED  BY <3>1, <3>2 DEF IInv, TypeOK
    <2> QED  BY <2>1, <2>2 DEF Login, Disconnect, Leave, Chat, IInv, TypeOK
<1>6. /\ state' \in [Client -> {"HANDSHAKE", "CONNECTED", "RECENTLY_DISCONNECTED"}]
      /\ wasAnnounced' = wasAnnounced /\ word' = word
    BY DEF Login, Disconnect, Leave, Chat, Count, Fill, IInv, TypeOK
<1>7. end' \in {"no", "index out of range", "unknown type", "no connection", "shut down"}
    BY DEF Login, Disconnect, Leave, Chat, Count, Fill, IInv, TypeOK
<1> QED  BY <1>1, <1>2, <1>3, <1>4, <1>5, <1>6, <1>7
         DEF Sound, IInv, TypeOK, ListsOK, IrcUsersOnce, Announcements

LEMMA AnnouncersSound ==
    ASSUME IInv, NEW c \in Client, NEW k \in Announcer,
           Wake(c, k) \/ TellIrc(c, k) \/ Mark(c, k)
    PROVE  Sound'
<1> USE FeedAssumption
<1>1. UNCHANGED <<clients, channel, away, clientsJoiningIRC, clientsLeavingIRC, muddled, events,
                  state, asked, end>>
    BY DEF Wake, TellIrc, Mark, ircVars
<1>2. announcer' \in [Client -> [Announcer -> Announcements]]
    <2>1. /\ Verdict(c) \in Announcements
          /\ {"joined, told", "left, told", "no", "done"} \subseteq Announcements
        BY DEF Verdict, Announcements
    <2>2. \E s \in Announcements : announcer' = [announcer EXCEPT ![c][k] = s]
        BY <2>1 DEF Wake, TellIrc, Mark
    <2> QED  BY <2>2, AnnouncerType DEF IInv
<1>3. messagesToIRC' \in 0..OutSize
    <2>1. messagesToIRC \in 0..OutSize
        BY DEF IInv, TypeOK
    <2>2. BroadcastToIrc \/ messagesToIRC' = messagesToIRC
        BY DEF Wake, TellIrc, Mark
    <2> QED  BY <2>1, <2>2, BroadcastType
<1>4. wasAnnounced' \subseteq Client
    <2>1. wasAnnounced \subseteq Client
        BY DEF IInv, TypeOK
    <2> QED  BY <2>1 DEF Wake, TellIrc, Mark
<1>5. word' \in [Client -> {"none", "joined", "left"}]
    <2>1. word \in [Client -> {"none", "joined", "left"}]
        BY DEF IInv, TypeOK
    <2>2. CASE TellIrc(c, k)
        <3>1. announcer[c][k] \in {"joined", "left"} /\ word' = [word EXCEPT ![c] = announcer[c][k]]
            BY <2>2 DEF TellIrc
        <3> QED  BY <2>1, <3>1
    <2> QED  BY <2>1, <2>2 DEF Wake, Mark
<1> QED  BY <1>1, <1>2, <1>3, <1>4, <1>5
         DEF Sound, IInv, TypeOK, ListsOK, IrcUsersOnce, Announcements

\* The callbacks of IRC only fill the queues.
LEMMA CallbacksSound ==
    ASSUME IInv, NEW n,
           \/ /\ n \in Nick
              /\ Join(n) \/ Part(n) \/ Unseen(n) \/ \E m \in Nick : Renamed(n, m)
           \/ LoseIrc \/ NamReply
    PROVE  Sound'
<1> USE FeedAssumption
<1>1. UNCHANGED <<clients, playerVars, messagesToIRC, end>>
    BY DEF Join, Part, Unseen, Renamed, LoseIrc, NamReply
<1>2. /\ channel' \subseteq Nick /\ muddled' \subseteq Nick /\ away' \in BOOLEAN
      /\ events' \in 0..MaxIrc
    <2>1. CASE NamReply
        <3>1. PICK nicks \in SetToSeqs(channel) :
                muddled' = muddled \cup
                  {nicks[i] : i \in {j \in DOMAIN nicks :
                      \/ j > InSize - Len(clientsJoiningIRC) \/ nicks[j] \in Op
                      \/ Plain(nicks[j]) \in ToSet(clientsLeavingIRC)}}
            BY <2>1 DEF NamReply
        <3>2. \A i \in DOMAIN nicks : nicks[i] \in channel
            BY DEF SetToSeqs
        <3> QED  BY <2>1, <3>1, <3>2 DEF NamReply, IInv, TypeOK
    <2>2. CASE ~NamReply
        <3>1. events' \in 0..MaxIrc
            <4>1. events \in 0..MaxIrc
                BY DEF IInv, TypeOK
            <4>2. Event
                BY <2>2 DEF Join, Part, Unseen, Renamed, LoseIrc
            <4> QED  BY <4>1, <4>2 DEF Event
        <3>2. /\ channel \subseteq Nick /\ muddled \subseteq Nick /\ away \in BOOLEAN
            BY DEF IInv, TypeOK
        <3>3. ASSUME NEW m \in Nick, Renamed(n, m)
              PROVE  channel' \subseteq Nick /\ muddled' \subseteq Nick /\ away' \in BOOLEAN
            BY <3>2, <3>3 DEF Renamed
        <3> QED  BY <2>2, <3>1, <3>2, <3>3 DEF Join, Part, Unseen, LoseIrc
    <2> QED  BY <2>1, <2>2
<1>3. /\ clientsJoiningIRC' \in Seq(User) /\ Len(clientsJoiningIRC') <= InSize
      /\ clientsLeavingIRC' \in Seq(User) /\ Len(clientsLeavingIRC') <= InSize
    <2>1. /\ clientsJoiningIRC \in Seq(User) /\ Len(clientsJoiningIRC) <= InSize
          /\ clientsLeavingIRC \in Seq(User) /\ Len(clientsLeavingIRC) <= InSize
        BY DEF IInv, ListsOK, TypeOK
    <2>2. \A m \in Nick : Plain(m) \in User
        BY DEF Plain, User
    <2>3. CASE NamReply
        <3>1. PICK nicks \in SetToSeqs(channel) :
                clientsJoiningIRC' = PushAll(clientsJoiningIRC, Names(nicks))
            BY <2>3 DEF NamReply, Names
        <3> QED  BY <2>1, <2>3, <3>1, NamReplyQueue DEF NamReply
    <2>4. CASE n \in Nick /\ \E m \in Nick : Renamed(n, m)
        BY <2>1, <2>2, <2>4, PushProperties DEF Renamed
    <2>5. CASE n \in Nick /\ Join(n)
        BY <2>1, <2>2, <2>5, PushProperties DEF Join
    <2>6. CASE n \in Nick /\ Part(n)
        BY <2>1, <2>2, <2>6, PushProperties DEF Part
    <2> QED  BY <2>1, <2>3, <2>4, <2>5, <2>6 DEF Unseen, LoseIrc
<1>4. ToSet(clientsJoiningIRC') \subseteq User /\ ToSet(clientsLeavingIRC') \subseteq User
    BY <1>3, ElementsOfSeq
<1> QED  BY <1>1, <1>2, <1>3, <1>4
         DEF Sound, IInv, TypeOK, ListsOK, IrcUsersOnce, playerVars

LEMMA ServerSound ==
    ASSUME IInv, Privmsg \/ AddIRCClient \/ RemoveIRCClient \/ Shutdown
    PROVE  Sound'
<1> USE FeedAssumption
<1>1. CASE Privmsg
    <2>1. messagesToIRC' \in 0..OutSize
        <3>1. messagesToIRC \in 0..OutSize
            BY DEF IInv, TypeOK
        <3> QED  BY <3>1, <1>1 DEF Privmsg
    <2> QED  BY <1>1, <2>1
             DEF Privmsg, Sound, IInv, TypeOK, ListsOK, IrcUsersOnce, playerVars, ircVars
<1>2. CASE AddIRCClient
    <2>1. /\ clients' \in Seq(Client \cup User) /\ IsInjective(clients')
          /\ clientsJoiningIRC' \in Seq(User) /\ Len(clientsJoiningIRC') <= InSize
        BY <1>2, AddIRCClientList
    <2>2. ToSet(clients') \subseteq Client \cup User /\ ToSet(clientsJoiningIRC') \subseteq User
        BY <2>1, ElementsOfSeq
    <2> QED  BY <1>2, <2>1, <2>2
             DEF AddIRCClient, Sound, IInv, TypeOK, ListsOK, IrcUsersOnce, playerVars
<1>3. CASE RemoveIRCClient
    <2>1. /\ clients' \in Seq(Client \cup User) /\ IsInjective(clients')
          /\ clientsLeavingIRC' \in Seq(User) /\ Len(clientsLeavingIRC') <= InSize
        BY <1>3, RemoveIRCClientList
    <2>2. ToSet(clients') \subseteq Client \cup User /\ ToSet(clientsLeavingIRC') \subseteq User
        BY <2>1, ElementsOfSeq
    <2> QED  BY <1>3, <2>1, <2>2
             DEF RemoveIRCClient, Sound, IInv, TypeOK, ListsOK, IrcUsersOnce, playerVars
<1>4. CASE Shutdown
    <2>1. clients' \in Seq(Client \cup User) /\ IsInjective(clients') /\ ToSet(clients') = {}
        <3>1. clients' = <<>>
            BY <1>4 DEF Shutdown
        <3> QED  BY <3>1, EmptyHasNoElements
    <2>2. state' \in [Client -> {"HANDSHAKE", "CONNECTED", "RECENTLY_DISCONNECTED"}]
        BY <1>4 DEF Shutdown, IInv, TypeOK
    <2> QED  BY <1>4, <2>1, <2>2
             DEF Shutdown, Sound, IInv, TypeOK, ListsOK, IrcUsersOnce, ircVars
<1> QED  BY <1>1, <1>2, <1>3, <1>4

-----------------------------------------------------------------------------
(* Announcements. *)

LEMMA SaysProperties ==
    ASSUME NEW c, NEW M
    PROVE  /\ Says(c, M) <=> \/ announcer[c]["add"] \in M \/ announcer[c]["remove"] \in M
                            \/ announcer[c]["chat"] \in M
           /\ Says(c, M)' <=> \/ announcer'[c]["add"] \in M \/ announcer'[c]["remove"] \in M
                             \/ announcer'[c]["chat"] \in M
BY DEF Says, Announcer

LEMMA AnnouncedKept ==
    ASSUME NEW c, Announced(c),
           state'[c] = state[c], word'[c] = word[c],
           \A k \in Announcer : announcer'[c][k] = announcer[c][k],
           c \in wasAnnounced' <=> c \in wasAnnounced,
           HasClientObject(c)' <=> HasClientObject(c)
    PROVE  Announced(c)'
BY SaysProperties DEF Announced, Unknown, Here, Away, Known, Announcer

LEMMA AnnouncerUpdate ==
    ASSUME TypeOK, NEW c \in Client, NEW k \in Announcer, NEW s,
           announcer' = [announcer EXCEPT ![c][k] = s]
    PROVE  /\ announcer'[c][k] = s
           /\ \A d \in Client, j \in Announcer :
                 d # c \/ j # k => announcer'[d][j] = announcer[d][j]
BY DEF TypeOK

\* Players come and go on the list on their own account.
LEMMA LoginAnnounced ==
    ASSUME IInv, Runs, NEW c \in Client, Login(c), NEW d \in Client
    PROVE  Announced(d)'
<1>1. Announced(c) /\ Announced(d) /\ TypeOK
    BY DEF IInv
<1>2. HasClientObject(c)' /\ (d # c => (HasClientObject(d)' <=> HasClientObject(d)))
    BY LoginList DEF HasClientObject
<1>3. /\ announcer'[c]["add"] = "sleep"
      /\ \A e \in Client, j \in Announcer :
            e # c \/ j # "add" => announcer'[e][j] = announcer[e][j]
    BY <1>1, AnnouncerUpdate DEF Login, AddClient, Announcer
<1>4. /\ state'[c] = "CONNECTED" /\ (d # c => state'[d] = state[d])
      /\ wasAnnounced' = wasAnnounced /\ word' = word
    BY <1>1 DEF Login, TypeOK
<1>5. CASE d = c
    <2>1. /\ announcer'[c]["remove"] = "no" /\ announcer'[c]["chat"] = "no"
          /\ c \notin wasAnnounced' /\ word'[c] = "none"
        BY <1>1, <1>3, <1>4 DEF Announced, Unknown, Login, Announcer
    <2> QED  BY <2>1, <1>2, <1>3, <1>4, <1>5, SaysProperties
             DEF Announced, Unknown, Here, Away, Known, Leaving, Joining
<1>6. CASE d # c
    BY <1>1, <1>2, <1>3, <1>4, <1>6, AnnouncedKept
<1> QED  BY <1>5, <1>6

LEMMA DisconnectAnnounced ==
    ASSUME IInv, Runs, NEW c \in Client, Disconnect(c), NEW d \in Client
    PROVE  Announced(d)'
<1>1. Announced(c) /\ Announced(d) /\ TypeOK
    BY DEF IInv
<1>2. /\ HasClientObject(d)' <=> HasClientObject(d)
      /\ announcer' = announcer /\ wasAnnounced' = wasAnnounced /\ word' = word
      /\ HasClientObject(c)
    BY DEF Disconnect, HasClientObject
<1>3. state'[c] = "RECENTLY_DISCONNECTED" /\ (d # c => state'[d] = state[d])
    BY <1>1 DEF Disconnect, TypeOK
<1>4. CASE d = c
    BY <1>1, <1>2, <1>3, <1>4, SaysProperties DEF Announced, Unknown, Here, Away, Known
<1>5. CASE d # c
    BY <1>1, <1>2, <1>3, <1>5, AnnouncedKept
<1> QED  BY <1>4, <1>5

LEMMA LeaveAnnounced ==
    ASSUME IInv, Runs, NEW c \in Client, Leave(c), NEW d \in Client
    PROVE  Announced(d)'
<1>1. Announced(c) /\ Announced(d) /\ TypeOK
    BY DEF IInv
<1>2. ~HasClientObject(c)' /\ (d # c => (HasClientObject(d)' <=> HasClientObject(d)))
    BY LeaveList DEF HasClientObject
<1>3. /\ announcer'[c]["remove"] = "sleep"
      /\ \A e \in Client, j \in Announcer :
            e # c \/ j # "remove" => announcer'[e][j] = announcer[e][j]
    BY <1>1, AnnouncerUpdate DEF Leave, RemoveClient, Announcer
<1>4. /\ state'[c] = "RECENTLY_DISCONNECTED" /\ (d # c => state'[d] = state[d])
      /\ wasAnnounced' = wasAnnounced /\ word' = word
    BY <1>1 DEF Leave, TypeOK
<1>5. CASE d = c
    <2>1. /\ announcer'[c]["add"] = announcer[c]["add"]
          /\ announcer'[c]["chat"] = announcer[c]["chat"]
        BY <1>3 DEF Announcer
    <2>2. Here(c) /\ HasClientObject(c) /\ Known(c)
        BY <1>1 DEF Announced, Leave
    <2>3. Unknown(c)' /\ Here(c)'
        BY <1>2, <1>4 DEF Unknown, Here
    <2>4. Away(c)'
        <3>1. ~Says(c, Leaving)'
            BY <2>1, <2>2, <1>3, SaysProperties DEF Here, Known, Leaving, Joining
        <3>2. ~Says(c, {"left, told"})'
            BY <3>1 DEF Says, Leaving
        <3> QED  BY <3>1, <3>2, <1>3 DEF Away
    <2>5. Known(c)'
        BY <2>1, <2>2, <1>3, <1>4, SaysProperties DEF Here, Known, Joining
    <2> QED  BY <1>5, <2>3, <2>4, <2>5 DEF Announced
<1>6. CASE d # c
    BY <1>1, <1>2, <1>3, <1>4, <1>6, AnnouncedKept
<1> QED  BY <1>5, <1>6

\* A chat announces only those who are on the list.
LEMMA ChatAnnounced ==
    ASSUME IInv, Runs, NEW c \in Client, Chat(c), NEW d \in Client
    PROVE  Announced(d)'
<1>1. Announced(c) /\ Announced(d) /\ TypeOK
    BY DEF IInv
<1>2. /\ HasClientObject(d)' <=> HasClientObject(d)
      /\ state' = state /\ wasAnnounced' = wasAnnounced /\ word' = word
    BY DEF Chat, HasClientObject
<1>3. CASE announcer' = announcer
    BY <1>1, <1>2, <1>3, AnnouncedKept
<1>4. CASE announcer' # announcer
    <2>1. /\ c \notin wasAnnounced /\ HasClientObject(c) /\ announcer[c]["chat"] = "no"
          /\ announcer' = [announcer EXCEPT ![c]["chat"] = "joined"]
        BY <1>4 DEF Chat, Verdict
    <2>2. /\ announcer'[c]["chat"] = "joined"
          /\ \A e \in Client, j \in Announcer :
                e # c \/ j # "chat" => announcer'[e][j] = announcer[e][j]
        BY <1>1, <2>1, AnnouncerUpdate DEF Announcer
    <2>3. CASE d = c
        <3>1. /\ announcer'[c]["add"] = announcer[c]["add"]
              /\ announcer'[c]["remove"] = announcer[c]["remove"]
            BY <2>2 DEF Announcer
        <3>2. HasClientObject(c)' /\ state'[c] # "HANDSHAKE" /\ Here(c) /\ Known(c)
            BY <1>1, <1>2, <2>1, <2>3 DEF Announced, Unknown
        <3>3. Here(c)'
            BY <1>2, <2>1, <2>2, <3>1, <3>2, SaysProperties DEF Here, Leaving
        <3>4. Known(c)'
            BY <1>2, <2>1, <2>2, <3>1, <3>2, SaysProperties DEF Known, Joining
        <3> QED  BY <2>3, <3>2, <3>3, <3>4 DEF Announced, Unknown, Away
    <2>4. CASE d # c
        BY <1>1, <1>2, <2>2, <2>4, AnnouncedKept
    <2> QED  BY <2>3, <2>4
<1> QED  BY <1>3, <1>4

\* One of the three goroutines of c goes on: what it leaves of c.
LEMMA WakeAnnounced ==
    ASSUME IInv, Runs, NEW c \in Client, NEW k \in Announcer, Wake(c, k)
    PROVE  Announced(c)'
<1>1. Announced(c) /\ TypeOK
    BY DEF IInv
<1>2. /\ HasClientObject(c)' <=> HasClientObject(c)
      /\ state' = state /\ wasAnnounced' = wasAnnounced /\ word' = word
      /\ announcer[c][k] = "sleep" /\ state[c] # "HANDSHAKE"
    BY <1>1 DEF Wake, HasClientObject, Announced, Unknown
<1>3. /\ announcer'[c][k] = Verdict(c)
      /\ \A j \in Announcer : j # k => announcer'[c][j] = announcer[c][j]
    <2> DEFINE s == Verdict(c)
    <2>1. announcer' = [announcer EXCEPT ![c][k] = s]
        BY DEF Wake
    <2> HIDE DEF s
    <2>2. announcer'[c][k] = s /\ \A j \in Announcer : j # k => announcer'[c][j] = announcer[c][j]
        BY <1>1, <2>1 DEF TypeOK
    <2> QED  BY <2>2 DEF s
<1>4. k # "chat"
    BY <1>1, <1>2 DEF Announced, Known, Joining
<1>5. Known(c)'
    <2>1. Verdict(c) # "sleep" /\ Verdict(c) # "joined, told"
        BY DEF Verdict
    <2> QED  BY <1>1, <1>2, <1>3, <1>4, <2>1, SaysProperties DEF Announced, Known, Announcer, Joining
<1>6. CASE HasClientObject(c)
    <2>1. k = "add" /\ Here(c)
        BY <1>1, <1>2, <1>4, <1>6 DEF Announced, Here, Announcer
    <2>2. Verdict(c) = IF c \in wasAnnounced THEN "done" ELSE "joined"
        BY <1>6 DEF Verdict
    <2>3. /\ announcer'[c]["remove"] = announcer[c]["remove"]
          /\ announcer'[c]["chat"] = announcer[c]["chat"]
        BY <1>3, <2>1 DEF Announcer
    <2>4. Here(c)'
        BY <1>2, <1>3, <1>6, <2>1, <2>2, <2>3, SaysProperties DEF Here, Leaving
    <2> QED  BY <1>2, <1>5, <1>6, <2>4 DEF Announced, Unknown, Away
<1>7. CASE ~HasClientObject(c)
    <2>1. Away(c) /\ Known(c)
        BY <1>1 DEF Announced
    <2>2. Verdict(c) = IF c \in wasAnnounced THEN "left" ELSE "done"
        BY <1>7 DEF Verdict
    <2>3. CASE k = "add"
        <3>1. /\ announcer'[c]["remove"] = announcer[c]["remove"]
              /\ announcer'[c]["chat"] = announcer[c]["chat"]
            BY <1>3, <2>3 DEF Announcer
        <3>2. Says(c, Leaving)' => ~Says(c, Joining)'
            BY <1>2, <1>3, <1>7, <2>1, <2>2, <2>3, <3>1, SaysProperties
               DEF Away, Known, Leaving, Joining
        <3>3. Away(c)'
            BY <1>2, <1>3, <1>7, <2>1, <2>2, <2>3, <3>1, <3>2, SaysProperties
               DEF Away, Joining
        <3> QED  BY <1>2, <1>5, <1>7, <3>3 DEF Announced, Unknown, Here
    <2>4. CASE k = "remove"
        <3>1. /\ announcer'[c]["add"] = announcer[c]["add"]
              /\ announcer'[c]["chat"] = announcer[c]["chat"]
            BY <1>3, <2>4 DEF Announcer
        <3>2. ~Says(c, Joining)
            BY <2>4 DEF Wake, Says, Joining
        <3>3. ~Says(c, Joining)'
            BY <1>3, <2>2, <2>4, <3>1, <3>2, SaysProperties DEF Joining
        <3>4. Away(c)'
            BY <1>2, <1>3, <1>7, <2>1, <2>2, <2>4, <3>1, <3>3, SaysProperties DEF Away
        <3> QED  BY <1>2, <1>5, <1>7, <3>4 DEF Announced, Unknown, Here
    <2> QED  BY <1>4, <2>3, <2>4 DEF Announcer
<1> QED  BY <1>6, <1>7

LEMMA TellIrcAnnounced ==
    ASSUME IInv, Runs, NEW c \in Client, NEW k \in Announcer, TellIrc(c, k)
    PROVE  Announced(c)'
<1>1. Announced(c) /\ TypeOK
    BY DEF IInv
<1>2. /\ HasClientObject(c)' <=> HasClientObject(c)
      /\ state' = state /\ wasAnnounced' = wasAnnounced /\ state[c] # "HANDSHAKE"
      /\ announcer[c][k] \in {"joined", "left"} /\ word'[c] = announcer[c][k]
    BY <1>1 DEF TellIrc, HasClientObject, Announced, Unknown, TypeOK
<1> DEFINE told == IF announcer[c][k] = "joined" THEN "joined, told" ELSE "left, told"
<1>3. /\ announcer'[c][k] = told
      /\ \A j \in Announcer : j # k => announcer'[c][j] = announcer[c][j]
    <2>1. announcer' = [announcer EXCEPT ![c][k] = told]
        BY <1>1 DEF TellIrc, TypeOK
    <2> HIDE DEF told
    <2> QED  BY <1>1, <2>1 DEF TypeOK
<1>4. \A M \in {Joining, Leaving} : Says(c, M)' <=> Says(c, M)
    BY <1>2, <1>3 DEF Says, Joining, Leaving
<1>5. Says(c, {"joined, told"})' => announcer[c][k] = "joined" \/ Says(c, {"joined, told"})
    BY <1>2, <1>3 DEF Says
<1>6. announcer[c][k] = "joined" => Says(c, {"joined, told"})' /\ Says(c, Joining)
    BY <1>2, <1>3 DEF Says, Joining
<1>7. announcer[c][k] = "left" => Says(c, Leaving)
    BY DEF Says, Leaving
<1>8. Says(c, {"left, told"}) => Says(c, Leaving)
    BY DEF Says, Leaving
<1>9. \A j \in Announcer : announcer'[c][j] = announcer[c][j] \/ announcer'[c][j] \in {"joined, told", "left, told"}
    BY <1>3
<1>10. Known(c)'
    <2>1. Known(c)
        BY <1>1 DEF Announced
    <2>2. announcer'[c]["chat"] \in {"no"} \cup Joining
        BY <1>2, <1>3, <2>1 DEF Known, Joining, Announcer
    <2>3. announcer'[c]["add"] = "sleep" /\ c \in wasAnnounced => announcer'[c]["chat"] = "no"
        BY <1>2, <1>3, <2>1 DEF Known, Announcer
    <2> QED  BY <1>2, <1>6, <2>2, <2>3 DEF Known
<1>11. Here(c)'
    <2> SUFFICES ASSUME HasClientObject(c)
                 PROVE  Here(c)'
        BY <1>2 DEF Here
    <2>1. Here(c) /\ announcer[c][k] = "joined"
        BY <1>1, <1>2, <1>7 DEF Announced, Here
    <2> QED  BY <1>2, <1>3, <1>4, <2>1 DEF Here, Announcer
<1>12. Away(c)'
    <2> SUFFICES ASSUME ~HasClientObject(c)
                 PROVE  Away(c)'
        BY <1>2 DEF Away
    <2>1. Away(c)
        BY <1>1 DEF Announced
    <2>2. announcer[c][k] = "joined" => ~Says(c, Leaving)
        BY <2>1, <1>2, <1>6 DEF Away
    <2>3. Says(c, {"left, told"})' => word'[c] = "left"
        BY <1>2, <1>3, <1>4, <2>2 DEF Says, Leaving
    <2>4. announcer'[c]["remove"] # announcer[c]["remove"] => announcer'[c]["remove"] # "done"
                                                           /\ announcer[c]["remove"] # "sleep"
        BY <1>2, <1>3 DEF Announcer
    <2>5. announcer'[c]["remove"] # "no"
        BY <1>2, <1>9, <2>1 DEF Away, Announcer
    <2> QED  BY <1>2, <1>4, <2>1, <2>3, <2>4, <2>5 DEF Away
<1> QED  BY <1>2, <1>10, <1>11, <1>12 DEF Announced, Unknown

LEMMA MarkAnnounced ==
    ASSUME IInv, Runs, NEW c \in Client, NEW k \in Announcer, Mark(c, k)
    PROVE  Announced(c)'
<1>1. Announced(c) /\ TypeOK
    BY DEF IInv
<1>2. /\ HasClientObject(c)' <=> HasClientObject(c)
      /\ state' = state /\ word' = word /\ state[c] # "HANDSHAKE"
      /\ announcer[c][k] \in {"joined, told", "left, told"}
      /\ c \in wasAnnounced' <=> announcer[c][k] = "joined, told"
    BY <1>1 DEF Mark, HasClientObject, Announced, Unknown
<1> DEFINE through == IF k = "chat" THEN "no" ELSE "done"
<1>3. /\ announcer'[c][k] = through
      /\ \A j \in Announcer : j # k => announcer'[c][j] = announcer[c][j]
    <2>1. announcer' = [announcer EXCEPT ![c][k] = through]
        BY DEF Mark
    <2> HIDE DEF through
    <2> QED  BY <1>1, <2>1 DEF TypeOK
<1>4. \A j \in Announcer : announcer'[c][j] = announcer[c][j] \/ announcer'[c][j] \in {"no", "done"}
    BY <1>3
<1>5. \A M \in {Joining, Leaving, {"joined, told"}, {"left, told"}} : Says(c, M)' => Says(c, M)
    BY <1>4 DEF Says, Joining, Leaving
<1>6. announcer[c][k] = "joined, told" => Says(c, {"joined, told"}) /\ Says(c, Joining)
    BY DEF Says, Joining
<1>7. announcer[c][k] = "left, told" => Says(c, {"left, told"}) /\ Says(c, Leaving)
    BY DEF Says, Leaving
<1>8. CASE HasClientObject(c)
    <2>1. Here(c) /\ Known(c) /\ announcer[c][k] = "joined, told"
        BY <1>1, <1>2, <1>7, <1>8 DEF Announced, Here
    <2>2. k # "remove"
        BY <2>1, <1>8 DEF Here
    <2>3. Here(c)'
        <3>1. announcer'[c]["remove"] = "no" /\ announcer'[c]["add"] # "no"
            BY <1>3, <1>8, <2>1, <2>2 DEF Here, Announcer
        <3> QED  BY <1>2, <1>5, <1>6, <1>8, <2>1, <3>1 DEF Here
    <2>4. Known(c)'
        <3>1. announcer'[c]["chat"] \in {"no"} \cup Joining
            BY <1>3, <2>1 DEF Known, Joining, Announcer
        <3>2. announcer'[c]["add"] = "sleep" => announcer'[c]["chat"] = "no"
            BY <1>2, <1>3, <2>1, <2>2 DEF Announcer
        <3> QED  BY <1>2, <2>1, <3>1, <3>2 DEF Known
    <2> QED  BY <1>2, <1>8, <2>3, <2>4 DEF Announced, Unknown, Away
<1>9. CASE ~HasClientObject(c)
    <2>1. Away(c) /\ Known(c)
        BY <1>1 DEF Announced
    <2>2. announcer[c][k] = "left, told" => k # "chat" /\ word[c] = "left" /\ ~Says(c, Joining)
        BY <1>2, <1>7, <1>9, <2>1 DEF Away, Known, Joining
    <2>3. Away(c)'
        <3>1. announcer'[c]["remove"] # "no"
            BY <1>2, <1>3, <1>9, <2>1, <2>2 DEF Away, Announcer
        <3>2. announcer'[c]["remove"] # "sleep" => ~Says(c, Joining)'
            BY <1>2, <1>3, <1>5, <1>6, <1>9, <2>1 DEF Away, Announcer
        <3>3. announcer'[c]["remove"] = "done" => c \notin wasAnnounced'
            <4>1. CASE announcer[c][k] = "left, told"
                BY <1>2, <4>1
            <4>2. CASE announcer[c][k] = "joined, told"
                <5>1. announcer[c]["remove"] = "sleep" /\ k # "remove"
                    BY <1>2, <1>6, <1>9, <2>1, <4>2 DEF Away
                <5> QED  BY <1>3, <5>1 DEF Announcer
            <4> QED  BY <1>2, <4>1, <4>2
        <3> QED  BY <1>2, <1>5, <1>9, <2>1, <3>1, <3>2, <3>3 DEF Away
    <2>4. Known(c)'
        <3>1. announcer'[c]["chat"] \in {"no"} \cup Joining
            BY <1>3, <2>1 DEF Known, Joining, Announcer
        <3>2. announcer'[c]["add"] = "sleep" /\ c \in wasAnnounced' => announcer'[c]["chat"] = "no"
            BY <1>2, <1>3, <1>6, <1>9, <2>1 DEF Away, Known, Announcer
        <3>3. word'[c] = "joined" => c \in wasAnnounced' \/ Says(c, {"joined, told"})'
            BY <1>2, <2>2
        <3> QED  BY <3>1, <3>2, <3>3 DEF Known
    <2> QED  BY <1>2, <1>9, <2>3, <2>4 DEF Announced, Unknown, Here
<1> QED  BY <1>8, <1>9

\* Whatever the step, what holds of a player holds afterwards.
LEMMA AnnouncedStep ==
    ASSUME IInv, Next, Runs', NEW d \in Client
    PROVE  Announced(d)'
<1>1. Runs
    BY DEF Next, Announce, Login, Disconnect, Leave, Chat, Count, Fill, Wake, TellIrc, Mark,
           Join, Part, Unseen, Renamed, LoseIrc, Event, NamReply, Privmsg, AddIRCClient,
           RemoveIRCClient, Shutdown
<1>2. Announced(d) /\ TypeOK
    BY <1>1 DEF IInv
<1>3. ASSUME UNCHANGED <<state, wasAnnounced, announcer, word>>,
             HasClientObject(d)' <=> HasClientObject(d)
      PROVE  Announced(d)'
    BY <1>2, <1>3, AnnouncedKept
<1>4. ASSUME NEW c \in Client, NEW k \in Announcer, Wake(c, k) \/ TellIrc(c, k) \/ Mark(c, k)
      PROVE  Announced(d)'
    <2>1. CASE d = c
        BY <1>1, <1>4, <2>1, WakeAnnounced, TellIrcAnnounced, MarkAnnounced
    <2>2. CASE d # c
        <3>1. \A j \in Announcer : announcer'[d][j] = announcer[d][j]
            BY <1>2, <1>4, <2>2 DEF Wake, TellIrc, Mark, TypeOK
        <3>2. /\ state' = state /\ word'[d] = word[d]
              /\ d \in wasAnnounced' <=> d \in wasAnnounced
              /\ HasClientObject(d)' <=> HasClientObject(d)
            BY <1>2, <1>4, <2>2 DEF Wake, TellIrc, Mark, TypeOK, HasClientObject
        <3> QED  BY <1>2, <3>1, <3>2, AnnouncedKept
    <2> QED  BY <2>1, <2>2
<1>5. ASSUME NEW c \in Client, Login(c) \/ Disconnect(c) \/ Leave(c) \/ Chat(c)
      PROVE  Announced(d)'
    BY <1>1, <1>5, LoginAnnounced, DisconnectAnnounced, LeaveAnnounced, ChatAnnounced
<1>6. ASSUME NEW c \in Client, Count(c) \/ Fill(c)
      PROVE  Announced(d)'
    BY <1>3, <1>6 DEF Count, Fill, HasClientObject
<1>7. ASSUME NEW n \in Nick,
             \/ Join(n) \/ Part(n) \/ Unseen(n) \/ \E m \in Nick : Renamed(n, m)
      PROVE  Announced(d)'
    BY <1>3, <1>7 DEF Join, Part, Unseen, Renamed, playerVars, HasClientObject
<1>8. CASE LoseIrc \/ NamReply \/ Privmsg
    BY <1>3, <1>8 DEF LoseIrc, NamReply, Privmsg, playerVars, HasClientObject
<1>9. CASE AddIRCClient
    <2>1. HasClientObject(d)' <=> HasClientObject(d)
        BY <1>9, AddIRCClientList, FeedAssumption DEF HasClientObject
    <2> QED  BY <1>3, <1>9, <2>1 DEF AddIRCClient, playerVars
<1>10. CASE RemoveIRCClient
    <2>1. HasClientObject(d)' <=> HasClientObject(d)
        BY <1>10, RemoveIRCClientList, FeedAssumption DEF HasClientObject
    <2> QED  BY <1>3, <1>10, <2>1 DEF RemoveIRCClient, playerVars
<1>11. ~Shutdown
    BY DEF Shutdown, Runs
<1> QED  BY <1>4, <1>5, <1>6, <1>7, <1>8, <1>9, <1>10, <1>11 DEF Next, Announce

-----------------------------------------------------------------------------
(* The people on IRC. *)

LEMMA PlainNames ==
    /\ \A n \in Nick : Plain(n) \in User
    /\ \A m, n : Plain(m) = Plain(n) => m = n
    /\ \A m, n : <<"@", m>> # Plain(n)
BY DEF Plain, User

LEMMA ShownKept ==
    ASSUME NEW n, Shown(n), UNCHANGED <<channel, away>>,
           Plain(n) \in ToSet(clientsJoiningIRC)' <=> Plain(n) \in ToSet(clientsJoiningIRC),
           Plain(n) \in ToSet(clientsLeavingIRC)' <=> Plain(n) \in ToSet(clientsLeavingIRC),
           HasIRCClient(Plain(n))' <=> HasIRCClient(Plain(n))
    PROVE  Shown(n)'
BY DEF Shown

\* Players and users of IRC are different entries of the list.
LEMMA PlayersShown ==
    ASSUME IInv, Runs, NEW c \in Client,
           Login(c) \/ Disconnect(c) \/ Leave(c) \/ Chat(c) \/ Count(c) \/ Fill(c),
           NEW n \in Nick \ muddled
    PROVE  Shown(n)'
<1>1. Shown(n)
    BY DEF IInv
<1>2. Plain(n) \in User /\ Plain(n) # c
    BY PlainNames, FeedAssumption
<1>3. HasIRCClient(Plain(n))' <=> HasIRCClient(Plain(n))
    <2>1. CASE Login(c)
        BY <1>2, <2>1, LoginList DEF HasIRCClient
    <2>2. CASE Leave(c)
        BY <1>2, <2>2, LeaveList DEF HasIRCClient
    <2> QED  BY <2>1, <2>2 DEF Disconnect, Chat, Count, Fill, HasIRCClient
<1>4. UNCHANGED <<channel, away, clientsJoiningIRC, clientsLeavingIRC>>
    BY DEF Login, Disconnect, Leave, Chat, Count, Fill, ircVars
<1> QED  BY <1>1, <1>3, <1>4, ShownKept

\* What a queue holds when a name was put into it.
LEMMA PushShown ==
    ASSUME IInv, NEW m \in Nick
    PROVE  /\ ToSet(Push(clientsJoiningIRC, Plain(m))) =
                 IF Len(clientsJoiningIRC) = InSize THEN ToSet(clientsJoiningIRC)
                 ELSE ToSet(clientsJoiningIRC) \cup {Plain(m)}
           /\ ToSet(Push(clientsLeavingIRC, Plain(m))) =
                 IF Len(clientsLeavingIRC) = InSize THEN ToSet(clientsLeavingIRC)
                 ELSE ToSet(clientsLeavingIRC) \cup {Plain(m)}
<1>1. Plain(m) \in User
    BY PlainNames
<1>2. /\ clientsJoiningIRC \in Seq(User) /\ Len(clientsJoiningIRC) <= InSize
      /\ clientsLeavingIRC \in Seq(User) /\ Len(clientsLeavingIRC) <= InSize
    BY DEF IInv, ListsOK, TypeOK
<1> QED  BY <1>1, <1>2, FeedAssumption, PushProperties

LEMMA CallbacksShown ==
    ASSUME IInv, Runs, NEW m \in Nick,
           Join(m) \/ Part(m) \/ Unseen(m) \/ LoseIrc,
           NEW n \in Nick, n \notin muddled'
    PROVE  Shown(n)'
<1>1. n \notin muddled /\ Shown(n)
    BY DEF Join, Part, Unseen, LoseIrc, IInv
<1>2. HasIRCClient(Plain(n))' <=> HasIRCClient(Plain(n))
    BY DEF Join, Part, Unseen, LoseIrc, HasIRCClient
<1>3. Plain(m) = Plain(n) => m = n
    BY PlainNames
<1>4. CASE Join(m)
    <2>1. /\ ToSet(clientsJoiningIRC)' = IF Len(clientsJoiningIRC) = InSize
                                          THEN ToSet(clientsJoiningIRC)
                                          ELSE ToSet(clientsJoiningIRC) \cup {Plain(m)}
          /\ ToSet(clientsLeavingIRC)' = ToSet(clientsLeavingIRC)
        BY <1>4, PushShown DEF Join
    <2>2. channel' = channel \cup {m} /\ away' = away /\ ~away
        BY <1>4 DEF Join
    <2>3. m = n => /\ Len(clientsJoiningIRC) # InSize
                   /\ Plain(n) \notin ToSet(clientsLeavingIRC)
        BY <1>4 DEF Join, Blurred
    <2> QED  BY <1>1, <1>2, <1>3, <2>1, <2>2, <2>3 DEF Shown
<1>5. CASE Part(m)
    <2>1. /\ ToSet(clientsLeavingIRC)' = IF Len(clientsLeavingIRC) = InSize
                                          THEN ToSet(clientsLeavingIRC)
                                          ELSE ToSet(clientsLeavingIRC) \cup {Plain(m)}
          /\ ToSet(clientsJoiningIRC)' = ToSet(clientsJoiningIRC)
        BY <1>5, PushShown DEF Part
    <2>2. channel' = channel \ {m} /\ away' = away /\ ~away /\ m \in channel
        BY <1>5 DEF Part
    <2>3. m = n => /\ Len(clientsLeavingIRC) # InSize
                   /\ Plain(n) \notin ToSet(clientsJoiningIRC)
        BY <1>5 DEF Part, Blurred
    <2> QED  BY <1>1, <1>2, <1>3, <2>1, <2>2, <2>3 DEF Shown
<1>6. CASE Unseen(m)
    <2>1. /\ ToSet(clientsJoiningIRC)' = ToSet(clientsJoiningIRC)
          /\ ToSet(clientsLeavingIRC)' = ToSet(clientsLeavingIRC)
          /\ away /\ away' = away
        BY <1>6 DEF Unseen
    <2>2. /\ m # n => (n \in channel' <=> n \in channel)
          /\ m = n => n \notin channel /\ n \in channel'
        BY <1>6 DEF Unseen
    <2> QED  BY <1>1, <1>2, <2>1, <2>2 DEF Shown
<1>7. CASE LoseIrc
    <2>1. /\ ToSet(clientsJoiningIRC)' = ToSet(clientsJoiningIRC)
          /\ ToSet(clientsLeavingIRC)' = ToSet(clientsLeavingIRC)
          /\ away' /\ ~away /\ channel' = channel
        BY <1>7 DEF LoseIrc
    <2> QED  BY <1>1, <1>2, <2>1 DEF Shown
<1> QED  BY <1>4, <1>5, <1>6, <1>7

LEMMA RenamedShown ==
    ASSUME IInv, Runs, NEW m \in Nick, NEW k \in Nick, Renamed(m, k),
           NEW n \in Nick, n \notin muddled'
    PROVE  Shown(n)'
<1>1. n \notin muddled /\ Shown(n)
    BY DEF Renamed, IInv
<1>2. HasIRCClient(Plain(n))' <=> HasIRCClient(Plain(n))
    BY DEF Renamed, HasIRCClient
<1>3. (Plain(m) = Plain(n) => m = n) /\ (Plain(k) = Plain(n) => k = n)
    BY PlainNames
<1>4. /\ ToSet(clientsLeavingIRC)' = IF Len(clientsLeavingIRC) = InSize
                                      THEN ToSet(clientsLeavingIRC)
                                      ELSE ToSet(clientsLeavingIRC) \cup {Plain(m)}
      /\ ToSet(clientsJoiningIRC)' = IF Len(clientsJoiningIRC) = InSize
                                      THEN ToSet(clientsJoiningIRC)
                                      ELSE ToSet(clientsJoiningIRC) \cup {Plain(k)}
    BY PushShown DEF Renamed
<1>5. /\ channel' = (channel \ {m}) \cup {k} /\ away' = away /\ ~away
      /\ m \in channel /\ k \notin channel
    BY DEF Renamed
<1>6. /\ m = n => Len(clientsLeavingIRC) # InSize /\ Plain(n) \notin ToSet(clientsJoiningIRC)
      /\ k = n => Len(clientsJoiningIRC) # InSize /\ Plain(n) \notin ToSet(clientsLeavingIRC)
    BY DEF Renamed, Blurred
<1> QED  BY <1>1, <1>2, <1>3, <1>4, <1>5, <1>6 DEF Shown

\* The names are read again: everybody who is there and of whom the queue has not
\* dropped the name is in it afterwards.
LEMMA NamReplyShown ==
    ASSUME IInv, Runs, NamReply, NEW n \in Nick, n \notin muddled'
    PROVE  Shown(n)'
<1> DEFINE Lost(nicks) == {nicks[i] : i \in {j \in DOMAIN nicks :
                              \/ j > InSize - Len(clientsJoiningIRC) \/ nicks[j] \in Op
                              \/ Plain(nicks[j]) \in ToSet(clientsLeavingIRC)}}
<1>1. PICK nicks \in SetToSeqs(channel) :
        /\ clientsJoiningIRC' = PushAll(clientsJoiningIRC, Names(nicks))
        /\ muddled' = muddled \cup Lost(nicks)
    BY DEF NamReply, Names
<1>2. Shown(n)
    BY <1>1 DEF IInv
<1>3. /\ \A k \in channel : \E i \in DOMAIN nicks : nicks[i] = k
      /\ ToSet(clientsJoiningIRC) \subseteq ToSet(clientsJoiningIRC')
      /\ ToSet(clientsJoiningIRC') \subseteq ToSet(clientsJoiningIRC) \cup ToSet(Names(nicks))
      /\ \A i \in DOMAIN nicks : i <= InSize - Len(clientsJoiningIRC) =>
            Names(nicks)[i] \in ToSet(clientsJoiningIRC')
    BY <1>1, NamReplyQueue
<1>4. /\ away /\ ~away' /\ channel' = channel
      /\ ToSet(clientsLeavingIRC)' = ToSet(clientsLeavingIRC)
      /\ HasIRCClient(Plain(n))' <=> HasIRCClient(Plain(n))
    BY DEF NamReply, HasIRCClient
<1>5. \A i \in DOMAIN nicks : nicks[i] \in channel /\ i \in Nat
    <2>1. Cardinality(channel) \in Nat
        <3>1. channel \in SUBSET Nick
            BY DEF IInv, TypeOK
        <3> QED  BY <3>1, FeedAssumption, FS_Subset, FS_CardinalityType
    <2> QED  BY <2>1 DEF SetToSeqs
<1>6. CASE n \in channel
    <2>1. PICK i \in DOMAIN nicks : nicks[i] = n
        BY <1>3, <1>6
    <2>2. n \notin Lost(nicks)
        BY <1>1
    <2>3. ~(i > InSize - Len(clientsJoiningIRC)) /\ n \notin Op /\ Plain(n) \notin ToSet(clientsLeavingIRC)
        BY <2>1, <2>2
    <2>4. InSize - Len(clientsJoiningIRC) \in Int
        BY FeedAssumption, LenProperties DEF IInv, ListsOK
    <2>5. Names(nicks)[i] = Plain(n)
        BY <2>1, <2>3 DEF Names, Plain
    <2>6. Plain(n) \in ToSet(clientsJoiningIRC')
        BY <1>3, <1>5, <2>1, <2>3, <2>4, <2>5
    <2> QED  BY <1>4, <1>6, <2>3, <2>6 DEF Shown
<1>7. CASE n \notin channel
    <2>1. Plain(n) \notin ToSet(Names(nicks))
        <3> SUFFICES ASSUME NEW i \in DOMAIN nicks, Names(nicks)[i] = Plain(n)
                     PROVE  FALSE
            BY DEF ToSet, Names
        <3>1. Names(nicks)[i] = <<"@", nicks[i]>> \/ Names(nicks)[i] = Plain(nicks[i])
            BY DEF Names, Plain
        <3> QED  BY <1>5, <1>7, <3>1, PlainNames
    <2>2. Plain(n) \in ToSet(clientsJoiningIRC)' => Plain(n) \in ToSet(clientsJoiningIRC)
        BY <1>3, <2>1
    <2> QED  BY <1>2, <1>4, <1>7, <2>2 DEF Shown
<1> QED  BY <1>6, <1>7

\* The server adds whom a queue names, and removes whom the other one names.
LEMMA QueuesShown ==
    ASSUME IInv, Runs, AddIRCClient \/ RemoveIRCClient, NEW n \in Nick \ muddled
    PROVE  Shown(n)'
<1>1. Shown(n) /\ UNCHANGED <<channel, away>>
    BY DEF IInv, AddIRCClient, RemoveIRCClient
<1>2. CASE AddIRCClient
    <2> DEFINE u == Head(clientsJoiningIRC)
    <2>1. /\ u \in ToSet(clientsJoiningIRC)
          /\ ToSet(clients)' = ToSet(clients) \cup {u}
          /\ ToSet(clientsJoiningIRC) = {u} \cup ToSet(clientsJoiningIRC)'
          /\ ToSet(clientsLeavingIRC)' = ToSet(clientsLeavingIRC)
        BY <1>2, AddIRCClientList DEF AddIRCClient
    <2> HIDE DEF u
    <2> QED  BY <1>1, <2>1 DEF Shown, HasIRCClient
<1>3. CASE RemoveIRCClient
    <2> DEFINE u == Head(clientsLeavingIRC)
    <2>1. /\ u \in ToSet(clientsLeavingIRC)
          /\ ToSet(clients)' = ToSet(clients) \ {u}
          /\ ToSet(clientsLeavingIRC) = {u} \cup ToSet(clientsLeavingIRC)'
          /\ ToSet(clientsJoiningIRC)' = ToSet(clientsJoiningIRC)
        BY <1>3, RemoveIRCClientList DEF RemoveIRCClient
    <2> HIDE DEF u
    <2> QED  BY <1>1, <2>1 DEF Shown, HasIRCClient
<1> QED  BY <1>2, <1>3

LEMMA ShownStep ==
    ASSUME IInv, Next, Runs', NEW n \in Nick \ muddled'
    PROVE  Shown(n)'
<1>1. Runs
    BY DEF Next, Announce, Login, Disconnect, Leave, Chat, Count, Fill, Wake, TellIrc, Mark,
           Join, Part, Unseen, Renamed, LoseIrc, Event, NamReply, Privmsg, AddIRCClient,
           RemoveIRCClient, Shutdown
<1>2. ASSUME NEW c \in Client, NEW k \in Announcer, Wake(c, k) \/ TellIrc(c, k) \/ Mark(c, k)
      PROVE  Shown(n)'
    <2>1. UNCHANGED <<clients, channel, away, clientsJoiningIRC, clientsLeavingIRC, muddled>>
        BY <1>2 DEF Wake, TellIrc, Mark, ircVars
    <2> QED  BY <1>1, <2>1, ShownKept DEF IInv, HasIRCClient
<1>3. ASSUME NEW c \in Client,
             Login(c) \/ Disconnect(c) \/ Leave(c) \/ Chat(c) \/ Count(c) \/ Fill(c)
      PROVE  Shown(n)'
    <2>1. muddled' = muddled
        BY <1>3 DEF Login, Disconnect, Leave, Chat, Count, Fill, ircVars
    <2> QED  BY <1>1, <1>3, <2>1, PlayersShown
<1>4. ASSUME NEW m \in Nick, Join(m) \/ Part(m) \/ Unseen(m)
      PROVE  Shown(n)'
    BY <1>1, <1>4, CallbacksShown
<1>5. ASSUME NEW m \in Nick, NEW k \in Nick, Renamed(m, k)
      PROVE  Shown(n)'
    BY <1>1, <1>5, RenamedShown
<1>6. CASE LoseIrc \/ NamReply
    BY <1>1, <1>6, CallbacksShown, NamReplyShown
<1>7. CASE Privmsg
    <2>1. UNCHANGED <<clients, channel, away, clientsJoiningIRC, clientsLeavingIRC, muddled>>
        BY <1>7 DEF Privmsg, ircVars
    <2> QED  BY <1>1, <2>1, ShownKept DEF IInv, HasIRCClient
<1>8. CASE AddIRCClient \/ RemoveIRCClient
    <2>1. muddled' = muddled
        BY <1>8 DEF AddIRCClient, RemoveIRCClient
    <2> QED  BY <1>1, <1>8, <2>1, QueuesShown
<1>9. ~Shutdown
    BY DEF Shutdown, Runs
<1> QED  BY <1>2, <1>3, <1>4, <1>5, <1>6, <1>7, <1>8, <1>9 DEF Next, Announce

-----------------------------------------------------------------------------
(* The theorems. *)

LEMMA InitIInv == Init => IInv
<1> SUFFICES ASSUME Init
             PROVE  IInv
    OBVIOUS
<1> USE FeedAssumption DEF Init
<1>1. ListsOK /\ IrcUsersOnce /\ ToSet(clients) = {}
    BY EmptyHasNoElements DEF ListsOK, IrcUsersOnce
<1>2. TypeOK
    <2>1. /\ ToSet(clients) = {} /\ ToSet(clientsJoiningIRC) = {} /\ Len(clientsJoiningIRC) = 0
          /\ ToSet(clientsLeavingIRC) = {} /\ Len(clientsLeavingIRC) = 0
        BY EmptyHasNoElements
    <2>2. asked \in [Client -> -1..Cardinality(Client \cup User)]
        <3>1. Cardinality(Client \cup User) \in Nat
            BY <1>1, ListedForProperties
        <3> QED  BY <3>1
    <2>3. messagesToIRC \in 0..OutSize /\ events \in 0..MaxIrc
        OBVIOUS
    <2>4. announcer \in [Client -> [Announcer -> Announcements]]
        BY DEF Announcements
    <2> QED  BY <2>1, <2>2, <2>3, <2>4 DEF TypeOK, Announcements
<1>3. ASSUME NEW c \in Client
      PROVE  Announced(c)
    <2>1. ~HasClientObject(c)
        BY <1>1 DEF HasClientObject
    <2>2. \A k \in Announcer : announcer[c][k] = "no"
        OBVIOUS
    <2> QED  BY <1>3, <2>1, <2>2 DEF Announced, Unknown, Here, Away, Known, Announcer
<1>4. ASSUME NEW n \in Nick
      PROVE  Shown(n)
    BY <1>1, EmptyHasNoElements DEF Shown, HasIRCClient
<1> QED  BY <1>1, <1>2, <1>3, <1>4 DEF IInv

LEMMA NextIInv == IInv /\ [Next]_vars => IInv'
<1> SUFFICES ASSUME IInv, [Next]_vars
             PROVE  IInv'
    OBVIOUS
<1>1. CASE UNCHANGED vars
    BY <1>1 DEF vars, playerVars, ircVars, IInv, TypeOK, ListsOK, IrcUsersOnce, Runs, Announced,
                Unknown, Here, Away, Known, Says, Shown, HasClientObject, HasIRCClient
<1>2. CASE Next
    <2>1. Sound'
        <3>1. ASSUME NEW c \in Client,
                     Login(c) \/ Disconnect(c) \/ Leave(c) \/ Chat(c) \/ Count(c) \/ Fill(c)
              PROVE  Sound'
            BY <3>1, PlayersSound
        <3>2. ASSUME NEW c \in Client, NEW k \in Announcer,
                     Wake(c, k) \/ TellIrc(c, k) \/ Mark(c, k)
              PROVE  Sound'
            BY <3>2, AnnouncersSound
        <3>3. ASSUME NEW n \in Nick,
                     Join(n) \/ Part(n) \/ Unseen(n) \/ \E m \in Nick : Renamed(n, m)
              PROVE  Sound'
            BY <3>3, CallbacksSound
        <3>4. CASE LoseIrc \/ NamReply
            BY <3>4, CallbacksSound
        <3> QED  BY <1>2, <3>1, <3>2, <3>3, <3>4, ServerSound DEF Next, Announce
    <2>2. Runs' => \A c \in Client : Announced(c)'
        BY <1>2, AnnouncedStep
    <2>3. Runs' => \A n \in Nick \ muddled' : Shown(n)'
        BY <1>2, ShownStep
    <2> QED  BY <2>1, <2>2, <2>3 DEF IInv, Sound
<1> QED  BY <1>1, <1>2

LEMMA Invariant == Spec => []IInv
BY InitIInv, NextIInv, PTL DEF Spec

\* Variables of the announcements, the list and the bridge hold what the code can
\* put into them, and no queue outgrows its channel, for any number of players,
\* people on IRC and sizes of the queues.
THEOREM TypeCorrect == Spec => []TypeOK
<1>1. IInv => TypeOK
    BY DEF IInv
<1> QED  BY <1>1, Invariant, PTL

\* However often the bridge reads the names, a user of IRC is listed once, and so
\* is a player (server.go 527-542).
THEOREM ListedOnce == Spec => []IrcUsersOnce
<1>1. IInv => IrcUsersOnce
    BY DEF IInv
<1> QED  BY <1>1, Invariant, PTL

LEMMA IInvLastWord == IInv => LastWordIsRight
<1> SUFFICES ASSUME IInv, Runs, NEW c \in Client, Quiet(c)
             PROVE  /\ c \in wasAnnounced <=> HasClientObject(c)
                    /\ word[c] = "joined" <=> HasClientObject(c)
    BY DEF LastWordIsRight
<1>1. Announced(c)
    BY DEF IInv
<1>2. ~Says(c, {"joined, told"})
    BY DEF Quiet, Says
<1>3. /\ announcer[c]["add"] \in {"no", "done"} /\ announcer[c]["remove"] \in {"no", "done"}
    BY DEF Quiet, Announcer
<1>4. CASE HasClientObject(c)
    BY <1>1, <1>3, <1>4 DEF Announced, Here
<1>5. CASE ~HasClientObject(c)
    <2>1. c \notin wasAnnounced
        BY <1>1, <1>3, <1>5 DEF Announced, Unknown, Away
    <2> QED  BY <1>1, <1>2, <1>5, <2>1 DEF Announced, Known
<1> QED  BY <1>4, <1>5

\* When the goroutines that announce a player are through, whatever the order in
\* which they ran, what they said last is true (AnnounceNow).
THEOREM TheLastWordIsRight == Spec => []LastWordIsRight
BY IInvLastWord, Invariant, PTL

LEMMA IInvShown == IInv => LobbyShowsChannel
BY DEF IInv, LobbyShowsChannel, Shown

\* The IRC users of the lobby are those of the channel, but for people of whom a
\* message was dropped, not seen, overtaken or misread.
THEOREM TheLobbyShowsTheChannel == Spec => []LobbyShowsChannel
BY IInvShown, Invariant, PTL
=============================================================================
