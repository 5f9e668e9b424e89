--------------------------- MODULE LobbyLoginProofs ---------------------------
(***************************************************************************)
(* Theorems about the logins of the session registry: nobody is listed     *)
(* twice, a login waits for one connection only, only connections of the   *)
(* same player are replaced, an account is never borrowed, and the whole   *)
(* registry implements the abstract lobby of Presence.                     *)
(*                                                                         *)
(* A login in progress is a token: it is in the pendingLogin of one        *)
(* connection, or in the hands of the one goroutine that found out what    *)
(* became of that connection.  The token of a login is made when the       *)
(* connection is new to the lobby; once that connection is known there     *)
(* (listed, waited with, or a candidate of somebody) its login is settled, *)
(* and what is left of the token, a pendingLogin that was not reset, is    *)
(* with a connection that is given up already.                             *)
(***************************************************************************)
EXTENDS LobbyProofs, ListLemmas

\* What the record r of a client says of p, the player behind it.
Anonymous(r) == r.nonce = <<"none">>

Owns(p, n) == n \in Account /\ Owner[n] = p

\* Only player p can have sent nonce n.
ProvedBy(n, p) ==
    \/ n = <<"own", p>>
    \/ \E a \in Account :
        /\ Owner[a] = p
        /\ n = <<"password", a>> \/ \E m \in Name : n = <<"downgraded", a, m>>

Authentic(r, p) == Anonymous(r) \/ ProvedBy(r.nonce, p)

HisName(r, p) == r.userName \in Account => Owns(p, r.userName) /\ ~Anonymous(r)

HisRank(r, p) ==
    r.permissions # "UNREGISTERED" =>
        /\ Owns(p, r.userName) /\ ~Anonymous(r)
        /\ r.permissions = UserPerm[r.userName]

\* As far as the nonces tell, the clients r of p and s of q have one player.
Akin(r, p, s, q) == (Anonymous(r) <=> Anonymous(s)) /\ (~Anonymous(r) => p = q)

-----------------------------------------------------------------------------
\* The connection is given up, and its ping timer will not give it up again.
Spent(cl, h) == cl[h].state = "RECENTLY_DISCONNECTED" /\ ~cl[h].waiting

InWindow(ad, c) == \E call \in ad : call.for = c

\* A login for c is in progress.
HasLogin(cl, ad, c) == InWindow(ad, c) \/ \E h \in Conn : cl[h].pending = c

Candidate(cl, c, d) == cl[c].candidates # Nil /\ d \in ToSet(cl[c].candidates)

Known(cl, ls, c) ==
    \/ c \in ToSet(ls)
    \/ cl[c].pending # Nil
    \/ cl[c].state = "CONNECTED"
    \/ \E d \in Conn : Candidate(cl, d, c)

Settled(cl, ad, c) ==
    /\ cl[c].asked /\ cl[c].challenge = Nil /\ cl[c].candidates = Nil
    /\ cl[c].state \in {"CONNECTED", "RECENTLY_DISCONNECTED"}
    /\ ~InWindow(ad, c)
    /\ \A k \in Conn : cl[k].pending = c => Spent(cl, k)
    /\ HisName(cl[c], Peer[c]) /\ HisRank(cl[c], Peer[c])

\* The invariant, at any point of a handler.
KnownAreSettled(cl, ls, ad) ==
    /\ IsInjective(ls)
    /\ \A c \in Conn : Known(cl, ls, c) => Settled(cl, ad, c)

OneToken(cl, ad) ==
    /\ \A g, h \in Conn : cl[g].pending # Nil /\ cl[g].pending = cl[h].pending => g = h
    /\ \A call \in ad, h \in Conn :
        cl[h].pending = call.for => h = call.by /\ (call.clears \/ Spent(cl, h))
    /\ \A x, y \in ad : x.for = y.for \/ x.by = y.by => x = y

LoginsAreAsked(cl, ad) ==
    \A c \in Conn : HasLogin(cl, ad, c) =>
        /\ cl[c].asked /\ cl[c].challenge = Nil
        /\ HisRank(cl[c], Peer[c])
        /\ InWindow(ad, c) \/ cl[c].candidates = Nil => HisName(cl[c], Peer[c])

\* What a client's record alone has to satisfy.
Honest(r, p) ==
    /\ Authentic(r, p)
    /\ r.state # "RECENTLY_DISCONNECTED" => HisRank(r, p)
    /\ ~r.asked => /\ r.permissions = "UNREGISTERED" /\ r.candidates = Nil
                   /\ r.state = "HANDSHAKE" => r.challenge = Nil
    /\ r.challenge # Nil /\ r.state = "HANDSHAKE" =>
            r.userName = r.challenge /\ r.candidates = Nil

AllHonest(cl) == \A c \in Conn : Honest(cl[c], Peer[c])

OwnKind(cl, ad) ==
    \A c, d \in Conn :
        /\ cl[d].pending = c \/ Candidate(cl, c, d) =>
              Akin(cl[c], Peer[c], cl[d], Peer[d])
        /\ /\ cl[d].pending = c /\ ~InWindow(ad, c)
           /\ cl[c].candidates # Nil /\ cl[c].permissions # "UNREGISTERED"
           => cl[c].userName = cl[d].userName

Types(cl, ls, ad) == cl \in [Conn -> Client] /\ ls \in Seq(Conn) /\ ad \subseteq Call

Logins(cl, ls, ad) ==
    /\ Types(cl, ls, ad)
    /\ KnownAreSettled(cl, ls, ad)
    /\ OneToken(cl, ad)
    /\ LoginsAreAsked(cl, ad)
    /\ AllHonest(cl)
    /\ OwnKind(cl, ad)

LInv == Logins(client, list, adding)

-----------------------------------------------------------------------------
(* Changes that take nothing on. *)

LEMMA FieldTypes ==
    ASSUME NEW cl \in [Conn -> Client], NEW c \in Conn
    PROVE  /\ cl[c].userName \in Name /\ cl[c].nonce \in Nonce
           /\ cl[c].permissions \in Perm /\ cl[c].asked \in BOOLEAN
           /\ cl[c].waiting \in BOOLEAN
           /\ cl[c].pending \in Conn \cup {Nil}
           /\ cl[c].challenge \in Account \cup {Nil}
           /\ cl[c].candidates \in Seq(Conn) \cup {Nil}
           /\ cl[c].state \in {"HANDSHAKE", "CHECK_PWD", "CONNECTED", "RECENTLY_DISCONNECTED"}
BY DEF Client

\* Connections are given up, pendingLogins reset, clients removed from the list.
LEMMA Shrink ==
    ASSUME NEW cl, NEW ls, NEW ad, Logins(cl, ls, ad),
           NEW dl \in [Conn -> Client], NEW ms \in Seq(Conn),
           IsInjective(ms), ToSet(ms) \subseteq ToSet(ls),
           \A d \in Conn :
              /\ dl[d].userName = cl[d].userName /\ dl[d].nonce = cl[d].nonce
              /\ dl[d].permissions = cl[d].permissions
              /\ dl[d].candidates = cl[d].candidates
              /\ dl[d].challenge = cl[d].challenge /\ dl[d].asked = cl[d].asked
              /\ dl[d].pending \in {Nil, cl[d].pending}
              /\ dl[d].state \in {cl[d].state, "RECENTLY_DISCONNECTED"}
              /\ Spent(cl, d) => Spent(dl, d)
    PROVE  Logins(dl, ms, ad)
<1>0. /\ cl \in [Conn -> Client] /\ ls \in Seq(Conn) /\ ad \subseteq Call
      /\ Nil \notin Conn
    BY ConnAssumption DEF Logins, Types
<1>1. \A c, d \in Conn : Candidate(dl, c, d) <=> Candidate(cl, c, d)
    BY DEF Candidate
<1>2. \A c, d \in Conn : dl[d].pending = c => cl[d].pending = c
    BY <1>0
<1>3. \A c \in Conn : /\ HisName(dl[c], Peer[c]) <=> HisName(cl[c], Peer[c])
                      /\ HisRank(dl[c], Peer[c]) <=> HisRank(cl[c], Peer[c])
                      /\ Anonymous(dl[c]) <=> Anonymous(cl[c])
    BY DEF HisName, HisRank, Anonymous
<1>4. KnownAreSettled(dl, ms, ad)
    <2>1. ASSUME NEW c \in Conn, Known(dl, ms, c)
          PROVE  Settled(dl, ad, c)
        <3>1. Known(cl, ls, c)
            BY <2>1, <1>1 DEF Known
        <3>2. Settled(cl, ad, c)
            BY <3>1 DEF Logins, KnownAreSettled
        <3> QED  BY <3>2, <1>2, <1>3 DEF Settled
    <2> QED  BY <2>1 DEF KnownAreSettled
<1>5. OneToken(dl, ad)
    <2>1. OneToken(cl, ad)
        BY DEF Logins
    <2>2. \A call \in ad : call.for \in Conn
        BY <1>0 DEF Call
    <2>3. \A g, h \in Conn : dl[g].pending # Nil /\ dl[g].pending = dl[h].pending => g = h
        BY <2>1 DEF OneToken
    <2>4. \A call \in ad, h \in Conn :
            dl[h].pending = call.for => h = call.by /\ (call.clears \/ Spent(dl, h))
        BY <2>1, <2>2, <1>2 DEF OneToken
    <2> QED  BY <2>1, <2>3, <2>4 DEF OneToken
<1>6. LoginsAreAsked(dl, ad)
    BY <1>2, <1>3 DEF Logins, LoginsAreAsked, HasLogin
<1>7. AllHonest(dl)
    <2> SUFFICES ASSUME NEW c \in Conn  PROVE Honest(dl[c], Peer[c])
        BY DEF AllHonest
    <2>1. Honest(cl[c], Peer[c])
        BY DEF Logins, AllHonest
    <2>2. Authentic(dl[c], Peer[c])
        BY <2>1 DEF Honest, Authentic, Anonymous
    <2> QED  BY <2>1, <2>2, <1>3 DEF Honest
<1>8. OwnKind(dl, ad)
    <2>1. \A c, d \in Conn : Akin(dl[c], Peer[c], dl[d], Peer[d])
                                <=> Akin(cl[c], Peer[c], cl[d], Peer[d])
        BY <1>3 DEF Akin
    <2> QED  BY <2>1, <1>1, <1>2 DEF Logins, OwnKind
<1> QED  BY <1>0, <1>4, <1>5, <1>6, <1>7, <1>8 DEF Logins, Types

-----------------------------------------------------------------------------
(* A client that is new to the lobby. *)

Free(cl, ls, ad, c) == ~Known(cl, ls, c) /\ ~HasLogin(cl, ad, c)

\* Its candidates are other clients, of the same player.
Seeks(cl, ad, c, r) ==
    r.candidates # Nil =>
        \A d \in ToSet(r.candidates) :
            d # c /\ Settled(cl, ad, d) /\ Akin(r, Peer[c], cl[d], Peer[d])

\* What such a client may become while its login is being decided.
Fits(cl, ad, c, r) ==
    /\ r \in Client /\ r.pending = Nil /\ r.state # "CONNECTED"
    /\ Honest(r, Peer[c])
    /\ Seeks(cl, ad, c, r)

LEMMA FillFree ==
    ASSUME NEW cl, NEW ls, NEW ad, Logins(cl, ls, ad), NEW c \in Conn,
           Free(cl, ls, ad, c), NEW r, Fits(cl, ad, c, r)
    PROVE  LET dl == [cl EXCEPT ![c] = r] IN
           /\ Logins(dl, ls, ad) /\ Free(dl, ls, ad, c)
           /\ \A d \in Conn : d # c /\ Settled(cl, ad, d) => Settled(dl, ad, d)
<1> DEFINE dl == [cl EXCEPT ![c] = r]
<1>0. /\ cl \in [Conn -> Client] /\ ls \in Seq(Conn) /\ ad \subseteq Call
      /\ Nil \notin Conn /\ r \in Client
    BY ConnAssumption DEF Logins, Types, Fits
<1>1. dl \in [Conn -> Client] /\ dl[c] = r /\ \A d \in Conn : d # c => dl[d] = cl[d]
    BY <1>0, UpdateType
<1> HIDE DEF dl
<1>2. \A k, d \in Conn : dl[k].pending = d => k # c /\ cl[k].pending = d
    BY <1>0, <1>1 DEF Fits
<1>3. \A k, d \in Conn : Candidate(dl, k, d) =>
        d # c /\ (k # c => Candidate(cl, k, d)) /\ (k = c => Settled(cl, ad, d))
    <2>1. \A k, d \in Conn : k # c => (Candidate(dl, k, d) <=> Candidate(cl, k, d))
        BY <1>1 DEF Candidate
    <2>2. \A k \in Conn : ~Candidate(cl, k, c)
        BY DEF Free, Known
    <2>3. \A d \in Conn : Candidate(dl, c, d) => d # c /\ Settled(cl, ad, d)
        BY <1>1 DEF Candidate, Fits, Seeks
    <2> QED  BY <2>1, <2>2, <2>3
<1>4. ~HasLogin(cl, ad, c) /\ ~Known(cl, ls, c)
    BY DEF Free
<1>5. ASSUME NEW d \in Conn, d # c, Settled(cl, ad, d)
      PROVE  Settled(dl, ad, d)
    BY <1>1, <1>2, <1>5 DEF Settled, Spent
<1>6. /\ ~(c \in ToSet(ls)) /\ r.pending = Nil /\ r.state # "CONNECTED"
    BY <1>4 DEF Known, Fits
<1>7. ~Known(dl, ls, c)
    BY <1>1, <1>3, <1>6 DEF Known
<1>8. KnownAreSettled(dl, ls, ad)
    <2>1. ASSUME NEW d \in Conn, Known(dl, ls, d)
          PROVE  Settled(dl, ad, d)
        <3>1. d # c
            BY <2>1, <1>7
        <3>2. CASE \E k \in Conn : Candidate(dl, k, d) /\ k = c
            BY <3>1, <3>2, <1>3, <1>5
        <3>3. CASE ~(\E k \in Conn : Candidate(dl, k, d) /\ k = c)
            <4>1. Known(cl, ls, d)
                BY <2>1, <3>1, <3>3, <1>1, <1>3 DEF Known
            <4>2. Settled(cl, ad, d)
                BY <4>1 DEF Logins, KnownAreSettled
            <4> QED  BY <3>1, <4>2, <1>5
        <3> QED  BY <3>2, <3>3
    <2>2. IsInjective(ls)
        BY DEF Logins, KnownAreSettled
    <2> QED  BY <2>1, <2>2 DEF KnownAreSettled
<1>9. OneToken(dl, ad)
    <2>1. OneToken(cl, ad)
        BY DEF Logins
    <2>2. \A call \in ad : call.for \in Conn
        BY <1>0 DEF Call
    <2>3. \A g, h \in Conn : dl[g].pending # Nil /\ dl[g].pending = dl[h].pending => g = h
        BY <2>1, <1>1, <1>6 DEF OneToken
    <2>4. \A call \in ad, h \in Conn :
            dl[h].pending = call.for => h = call.by /\ (call.clears \/ Spent(dl, h))
        BY <2>1, <2>2, <1>1, <1>2 DEF OneToken, Spent
    <2> QED  BY <2>1, <2>3, <2>4 DEF OneToken
<1>10. ~HasLogin(dl, ad, c)
    BY <1>2, <1>4 DEF HasLogin
<1>11. LoginsAreAsked(dl, ad)
    <2>1. ASSUME NEW d \in Conn, HasLogin(dl, ad, d)
          PROVE  d # c /\ HasLogin(cl, ad, d) /\ dl[d] = cl[d]
        BY <2>1, <1>1, <1>2, <1>10 DEF HasLogin
    <2> QED  BY <2>1 DEF Logins, LoginsAreAsked
<1>12. AllHonest(dl)
    BY <1>1 DEF Logins, AllHonest, Fits
<1>13. OwnKind(dl, ad)
    <2>1. OwnKind(cl, ad)
        BY DEF Logins
    <2>2. ASSUME NEW x \in Conn, NEW d \in Conn, dl[d].pending = x
          PROVE  x # c /\ d # c /\ cl[d].pending = x
        BY <2>2, <1>2, <1>10 DEF HasLogin
    <2>3. ASSUME NEW x \in Conn, NEW d \in Conn, Candidate(dl, x, d)
          PROVE  Akin(dl[x], Peer[x], dl[d], Peer[d])
        <3>1. CASE x = c
            <4>1. dl[d] = cl[d] /\ dl[x] = r /\ d \in ToSet(r.candidates) /\ r.candidates # Nil
                BY <2>3, <3>1, <1>1, <1>3 DEF Candidate
            <4> QED  BY <3>1, <4>1 DEF Fits, Seeks
        <3>2. CASE x # c
            BY <2>1, <2>3, <3>2, <1>1, <1>3 DEF OwnKind
        <3> QED  BY <3>1, <3>2
    <2>4. ASSUME NEW x \in Conn, NEW d \in Conn, dl[d].pending = x
          PROVE  /\ Akin(dl[x], Peer[x], dl[d], Peer[d])
                 /\ /\ ~InWindow(ad, x) /\ dl[x].candidates # Nil
                    /\ dl[x].permissions # "UNREGISTERED"
                    => dl[x].userName = dl[d].userName
        <3>1. dl[x] = cl[x] /\ dl[d] = cl[d] /\ cl[d].pending = x
            BY <2>2, <2>4, <1>1
        <3> QED  BY <2>1, <3>1 DEF OwnKind
    <2> QED  BY <2>3, <2>4 DEF OwnKind
<1> QED  BY <1>0, <1>1, <1>5, <1>7, <1>8, <1>9, <1>10, <1>11, <1>12, <1>13
         DEF Logins, Types, Free, dl

\* A goroutine takes the login of a client that fits into its hands.
LEMMA Enter ==
    ASSUME NEW cl, NEW ls, NEW ad, Logins(cl, ls, ad), NEW call \in Call,
           Free(cl, ls, ad, call.for), \A x \in ad : x.by # call.by,
           cl[call.for].asked, cl[call.for].challenge = Nil,
           HisRank(cl[call.for], Peer[call.for]), HisName(cl[call.for], Peer[call.for])
    PROVE  Logins(cl, ls, ad \cup {call})
<1> DEFINE c == call.for
           bd == ad \cup {call}
<1>0. c \in Conn /\ ~InWindow(ad, c) /\ \A k \in Conn : cl[k].pending # c
    BY DEF Call, Free, HasLogin
<1>1. \A d \in Conn : InWindow(bd, d) <=> d = c \/ InWindow(ad, d)
    BY DEF InWindow
<1>2. ~Known(cl, ls, c)
    BY DEF Free
<1>3. KnownAreSettled(cl, ls, bd)
    BY <1>1, <1>2 DEF Logins, KnownAreSettled, Settled
<1>4. OneToken(cl, bd)
    <2>1. \A x \in ad : x.for # c
        BY <1>0 DEF InWindow
    <2>2. OneToken(cl, ad)
        BY DEF Logins
    <2> QED  BY <2>1, <2>2, <1>0 DEF OneToken
<1>5. LoginsAreAsked(cl, bd)
    <2>1. ASSUME NEW d \in Conn, d # c, HasLogin(cl, bd, d)
          PROVE  HasLogin(cl, ad, d) /\ (InWindow(bd, d) <=> InWindow(ad, d))
        BY <2>1, <1>1 DEF HasLogin
    <2> QED  BY <2>1 DEF Logins, LoginsAreAsked
<1>6. OwnKind(cl, bd)
    BY <1>1 DEF Logins, OwnKind
<1> QED  BY <1>3, <1>4, <1>5, <1>6 DEF Logins, Types

\* The login of c is left with the connection `old'.
LEMMA Token ==
    ASSUME NEW cl, NEW ls, NEW ad, Logins(cl, ls, ad), NEW c \in Conn, NEW old \in Conn,
           old # c, ~Known(cl, ls, c), \A h \in Conn : cl[h].pending # c,
           \A call \in ad : call.for = c => call.by = old /\ (call.clears \/ Spent(cl, old)),
           Settled(cl, ad, old), Akin(cl[c], Peer[c], cl[old], Peer[old]),
           cl[c].asked, cl[c].challenge = Nil, HisRank(cl[c], Peer[c]),
           InWindow(ad, c) \/ cl[c].candidates = Nil => HisName(cl[c], Peer[c]),
           ~InWindow(ad, c) /\ cl[c].candidates # Nil /\ cl[c].permissions # "UNREGISTERED"
                => cl[c].userName = cl[old].userName,
           NEW w \in Client,
           w.pending = c, w.state = cl[old].state, w.userName = cl[old].userName,
           w.nonce = cl[old].nonce, w.permissions = cl[old].permissions,
           w.candidates = cl[old].candidates, w.challenge = cl[old].challenge,
           w.asked = cl[old].asked, Spent(cl, old) => ~w.waiting
    PROVE  Logins([cl EXCEPT ![old] = w], ls, ad)
<1> DEFINE dl == [cl EXCEPT ![old] = w]
<1>0. /\ cl \in [Conn -> Client] /\ ls \in Seq(Conn) /\ ad \subseteq Call
      /\ Nil \notin Conn
    BY ConnAssumption DEF Logins, Types
<1>1. /\ dl \in [Conn -> Client]
      /\ dl[old] = w /\ \A d \in Conn : d # old => dl[d] = cl[d]
    BY <1>0, UpdateType
<1> HIDE DEF dl
<1>2. \A d \in Conn :
        /\ dl[d].userName = cl[d].userName /\ dl[d].nonce = cl[d].nonce
        /\ dl[d].permissions = cl[d].permissions /\ dl[d].candidates = cl[d].candidates
        /\ dl[d].challenge = cl[d].challenge /\ dl[d].asked = cl[d].asked
        /\ dl[d].state = cl[d].state
        /\ dl[d].pending = IF d = old THEN c ELSE cl[d].pending
        /\ Spent(cl, d) => Spent(dl, d)
    BY <1>1 DEF Spent
<1>3. \A x, d \in Conn : Candidate(dl, x, d) <=> Candidate(cl, x, d)
    BY <1>2 DEF Candidate
<1>4. \A x \in Conn : /\ HisName(dl[x], Peer[x]) <=> HisName(cl[x], Peer[x])
                      /\ HisRank(dl[x], Peer[x]) <=> HisRank(cl[x], Peer[x])
                      /\ Anonymous(dl[x]) <=> Anonymous(cl[x])
    BY <1>2 DEF HisName, HisRank, Anonymous
<1>5. \A x, y \in Conn : Akin(dl[x], Peer[x], dl[y], Peer[y])
                            <=> Akin(cl[x], Peer[x], cl[y], Peer[y])
    BY <1>4 DEF Akin
<1>6. KnownAreSettled(dl, ls, ad)
    <2>1. ASSUME NEW d \in Conn, Known(dl, ls, d)
          PROVE  Settled(dl, ad, d)
        <3>1. d = old \/ Known(cl, ls, d)
            BY <2>1, <1>2, <1>3 DEF Known
        <3>2. Settled(cl, ad, d)
            BY <3>1 DEF Logins, KnownAreSettled
        <3>3. d # c
            BY <3>1
        <3> QED  BY <3>2, <3>3, <1>2, <1>4 DEF Settled
    <2>2. IsInjective(ls)
        BY DEF Logins, KnownAreSettled
    <2> QED  BY <2>1, <2>2 DEF KnownAreSettled
<1>7. OneToken(dl, ad)
    <2>1. OneToken(cl, ad)
        BY DEF Logins
    <2>3. \A g, h \in Conn : dl[g].pending # Nil /\ dl[g].pending = dl[h].pending => g = h
        BY <2>1, <1>2 DEF OneToken
    <2>4. \A call \in ad, h \in Conn :
            dl[h].pending = call.for => h = call.by /\ (call.clears \/ Spent(dl, h))
        <3> TAKE call \in ad, h \in Conn
        <3> HAVE dl[h].pending = call.for
        <3>1. CASE h = old
            <4>1. call.for = c
                BY <3>1, <1>2
            <4> QED  BY <3>1, <4>1, <1>2
        <3>2. CASE h # old
            <4>1. cl[h].pending = call.for
                BY <3>2, <1>2
            <4> QED  BY <2>1, <4>1, <1>2 DEF OneToken
        <3> QED  BY <3>1, <3>2
    <2> QED  BY <2>1, <2>3, <2>4 DEF OneToken
<1>8. LoginsAreAsked(dl, ad)
    <2>1. \A x \in Conn : HasLogin(dl, ad, x) => x = c \/ HasLogin(cl, ad, x)
        BY <1>2 DEF HasLogin
    <2> QED  BY <2>1, <1>2, <1>4 DEF Logins, LoginsAreAsked
<1>9. AllHonest(dl)
    <2> SUFFICES ASSUME NEW x \in Conn  PROVE Honest(dl[x], Peer[x])
        BY DEF AllHonest
    <2>1. Honest(cl[x], Peer[x])
        BY DEF Logins, AllHonest
    <2>2. Authentic(dl[x], Peer[x])
        BY <2>1, <1>2 DEF Honest, Authentic, Anonymous
    <2> QED  BY <2>1, <2>2, <1>2, <1>4 DEF Honest
<1>10. OwnKind(dl, ad)
    <2>1. OwnKind(cl, ad)
        BY DEF Logins
    <2>2. ASSUME NEW x \in Conn, NEW d \in Conn, dl[d].pending = x
          PROVE  /\ Akin(dl[x], Peer[x], dl[d], Peer[d])
                 /\ /\ ~InWindow(ad, x) /\ dl[x].candidates # Nil
                    /\ dl[x].permissions # "UNREGISTERED"
                    => dl[x].userName = dl[d].userName
        <3>1. CASE d = old
            <4>1. x = c
                BY <2>2, <3>1, <1>2
            <4> QED  BY <3>1, <4>1, <1>2, <1>5
        <3>2. CASE d # old
            <4>1. cl[d].pending = x
                BY <2>2, <3>2, <1>2
            <4> QED  BY <2>1, <4>1, <1>2, <1>5 DEF OwnKind
        <3> QED  BY <3>1, <3>2
    <2>3. \A x, d \in Conn : Candidate(dl, x, d) => Akin(dl[x], Peer[x], dl[d], Peer[d])
        BY <2>1, <1>3, <1>5 DEF OwnKind
    <2> QED  BY <2>2, <2>3 DEF OwnKind
<1> QED  BY <1>0, <1>1, <1>6, <1>7, <1>8, <1>9, <1>10 DEF Logins, Types, dl

\* The login in hand is finished: the client is listed, and settled.
LEMMA Finish ==
    ASSUME NEW cl, NEW ls, NEW ad, Logins(cl, ls, ad), NEW call \in ad,
           NEW dl \in [Conn -> Client],
           \A d \in Conn :
              /\ dl[d].userName = cl[d].userName /\ dl[d].nonce = cl[d].nonce
              /\ dl[d].permissions = cl[d].permissions
              /\ dl[d].challenge = cl[d].challenge /\ dl[d].asked = cl[d].asked
              /\ dl[d].waiting = cl[d].waiting
              /\ dl[d].state = IF d = call.for THEN "CONNECTED" ELSE cl[d].state
              /\ dl[d].candidates = IF d = call.for THEN Nil ELSE cl[d].candidates
              /\ dl[d].pending = IF call.clears /\ d = call.by THEN Nil ELSE cl[d].pending
    PROVE  Logins(dl, Append(ls, call.for), ad \ {call})
<1> DEFINE c == call.for
           bd == ad \ {call}
           ms == Append(ls, c)
<1>0. /\ cl \in [Conn -> Client] /\ ls \in Seq(Conn) /\ ad \subseteq Call
      /\ Nil \notin Conn /\ c \in Conn
    BY ConnAssumption DEF Logins, Types, Call
<1>1. InWindow(ad, c) /\ HasLogin(cl, ad, c)
    BY DEF InWindow, HasLogin
<1>2. /\ ~Known(cl, ls, c) /\ cl[c].asked /\ cl[c].challenge = Nil
      /\ HisRank(cl[c], Peer[c]) /\ HisName(cl[c], Peer[c])
    BY <1>0, <1>1 DEF Logins, KnownAreSettled, Settled, LoginsAreAsked
<1>3. /\ ~InWindow(bd, c)
      /\ \A d \in Conn : d # c => (InWindow(bd, d) <=> InWindow(ad, d))
    BY DEF Logins, OneToken, InWindow
<1>4. \A h \in Conn : cl[h].pending = c => h = call.by /\ (call.clears \/ Spent(cl, h))
    BY DEF Logins, OneToken
<1>5. \A x, d \in Conn : Candidate(dl, x, d) => Candidate(cl, x, d)
    BY DEF Candidate
<1>6. \A x, d \in Conn : dl[d].pending = x => d # c /\ cl[d].pending = x
    BY <1>0, <1>2 DEF Known
<1>7. \A x \in Conn : /\ HisName(dl[x], Peer[x]) <=> HisName(cl[x], Peer[x])
                      /\ HisRank(dl[x], Peer[x]) <=> HisRank(cl[x], Peer[x])
                      /\ Anonymous(dl[x]) <=> Anonymous(cl[x])
                      /\ x # c /\ Spent(cl, x) => Spent(dl, x)
    BY DEF HisName, HisRank, Anonymous, Spent
<1>8. \A x, y \in Conn : Akin(cl[x], Peer[x], cl[y], Peer[y])
                            => Akin(dl[x], Peer[x], dl[y], Peer[y])
    BY <1>7 DEF Akin
<1>9. /\ ms \in Seq(Conn) /\ ToSet(ms) = ToSet(ls) \cup {c}
      /\ IsInjective(ms)
    <2>1. IsInjective(ls) /\ c \notin ToSet(ls)
        BY <1>2 DEF Known, Logins, KnownAreSettled
    <2> QED  BY <2>1, <1>0, AppendElements
<1>10. Settled(dl, bd, c)
    <2>1. ASSUME NEW k \in Conn, dl[k].pending = c  PROVE Spent(dl, k)
        BY <2>1, <1>0, <1>4, <1>6, <1>7
    <2> QED  BY <2>1, <1>0, <1>2, <1>3, <1>7 DEF Settled
<1>11. KnownAreSettled(dl, ms, bd)
    <2>1. ASSUME NEW d \in Conn, d # c, Known(dl, ms, d)
          PROVE  Settled(dl, bd, d)
        <3>1. Known(cl, ls, d)
            BY <2>1, <1>5, <1>9 DEF Known
        <3>2. Settled(cl, ad, d)
            BY <3>1 DEF Logins, KnownAreSettled
        <3>3. ASSUME NEW k \in Conn, dl[k].pending = d  PROVE Spent(dl, k)
            BY <3>2, <3>3, <1>6, <1>7 DEF Settled
        <3>4. /\ ~InWindow(bd, d) /\ dl[d].asked /\ dl[d].challenge = Nil
              /\ dl[d].candidates = Nil
              /\ dl[d].state \in {"CONNECTED", "RECENTLY_DISCONNECTED"}
            BY <3>2, <2>1, <1>3 DEF Settled
        <3>5. HisName(dl[d], Peer[d]) /\ HisRank(dl[d], Peer[d])
            BY <3>2, <1>7 DEF Settled
        <3> QED  BY <3>3, <3>4, <3>5 DEF Settled
    <2> QED  BY <2>1, <1>9, <1>10 DEF KnownAreSettled
<1>12. OneToken(dl, bd)
    <2>1. OneToken(cl, ad)
        BY DEF Logins
    <2>2. \A g, h \in Conn : dl[g].pending # Nil /\ dl[g].pending = dl[h].pending => g = h
        BY <2>1 DEF OneToken
    <2>3. \A x \in bd, h \in Conn :
            dl[h].pending = x.for => h = x.by /\ (x.clears \/ Spent(dl, h))
        <3> TAKE x \in bd, h \in Conn
        <3> HAVE dl[h].pending = x.for
        <3>1. x \in ad /\ x.for \in Conn
            BY <1>0 DEF Call
        <3>2. h # c /\ cl[h].pending = x.for
            BY <3>1, <1>6
        <3> QED  BY <2>1, <3>1, <3>2, <1>7 DEF OneToken
    <2> QED  BY <2>1, <2>2, <2>3 DEF OneToken
<1>13. LoginsAreAsked(dl, bd)
    <2>1. \A d \in Conn : HasLogin(dl, bd, d) => HasLogin(cl, ad, d)
        BY <1>3, <1>6 DEF HasLogin
    <2>2. ASSUME NEW d \in Conn, d # c, HasLogin(dl, bd, d)
          PROVE  /\ dl[d].asked /\ dl[d].challenge = Nil
                 /\ HisRank(dl[d], Peer[d])
                 /\ InWindow(bd, d) \/ dl[d].candidates = Nil => HisName(dl[d], Peer[d])
        <3>1. HasLogin(cl, ad, d) /\ (InWindow(bd, d) <=> InWindow(ad, d))
            BY <2>1, <2>2, <1>3
        <3>2. /\ cl[d].asked /\ cl[d].challenge = Nil /\ HisRank(cl[d], Peer[d])
              /\ InWindow(ad, d) \/ cl[d].candidates = Nil => HisName(cl[d], Peer[d])
            BY <3>1 DEF Logins, LoginsAreAsked
        <3>3. /\ dl[d].asked = cl[d].asked /\ dl[d].challenge = cl[d].challenge
              /\ dl[d].candidates = cl[d].candidates
            BY <2>2
        <3> QED  BY <3>1, <3>2, <3>3, <1>7
    <2>3. /\ dl[c].asked /\ dl[c].challenge = Nil
          /\ HisRank(dl[c], Peer[c]) /\ HisName(dl[c], Peer[c])
        BY <1>0, <1>2, <1>7
    <2> QED  BY <2>2, <2>3 DEF LoginsAreAsked
<1>14. AllHonest(dl)
    <2> SUFFICES ASSUME NEW x \in Conn  PROVE Honest(dl[x], Peer[x])
        BY DEF AllHonest
    <2>1. Honest(cl[x], Peer[x])
        BY DEF Logins, AllHonest
    <2>2. Authentic(dl[x], Peer[x])
        BY <2>1 DEF Honest, Authentic, Anonymous
    <2>3. CASE x = c
        BY <2>1, <2>2, <2>3, <1>2, <1>7 DEF Honest
    <2>4. CASE x # c
        BY <2>1, <2>2, <2>4, <1>7 DEF Honest
    <2> QED  BY <2>3, <2>4
<1>15. OwnKind(dl, bd)
    <2>1. OwnKind(cl, ad)
        BY DEF Logins
    <2>2. \A x, d \in Conn : dl[d].pending = x \/ Candidate(dl, x, d) =>
              Akin(dl[x], Peer[x], dl[d], Peer[d])
        BY <2>1, <1>5, <1>6, <1>8 DEF OwnKind
    <2>3. ASSUME NEW x \in Conn, NEW d \in Conn,
                 dl[d].pending = x, ~InWindow(bd, x),
                 dl[x].candidates # Nil, dl[x].permissions # "UNREGISTERED"
          PROVE  dl[x].userName = dl[d].userName
        <3>1. x # c /\ ~InWindow(ad, x) /\ cl[x].candidates # Nil /\ cl[d].pending = x
            BY <2>3, <1>3, <1>6
        <3> QED  BY <2>1, <2>3, <3>1 DEF OwnKind
    <2> QED  BY <2>2, <2>3 DEF OwnKind
<1> QED  BY <1>0, <1>9, <1>11, <1>12, <1>13, <1>14, <1>15 DEF Logins, Types

LEMMA RemovalShrinks ==
    ASSUME NEW cl, NEW ls, NEW ad, Logins(cl, ls, ad), NEW d \in Conn
    PROVE  /\ Logins(cl, RemoveClient(ls, d), ad)
           /\ \A c \in Conn : Free(cl, ls, ad, c) => Free(cl, RemoveClient(ls, d), ad, c)
<1> DEFINE at == FirstAt(ls, {d})
           ms == RemoveClient(ls, d)
<1>1. cl \in [Conn -> Client] /\ ls \in Seq(Conn) /\ IsInjective(ls)
    BY DEF Logins, Types, KnownAreSettled
<1>2. ms \in Seq(Conn) /\ ToSet(ms) \subseteq ToSet(ls)
    BY <1>1, RemoveClientProperties
<1>3. IsInjective(ms)
    <2>1. CASE at = {}
        BY <2>1, <1>1 DEF RemoveClient
    <2>2. CASE at # {}
        <3>1. (CHOOSE i \in at : TRUE) \in DOMAIN ls
            BY <2>2 DEF FirstAt
        <3> QED  BY <2>2, <3>1, <1>1, RemoveAtInjective DEF RemoveClient
    <2> QED  BY <2>1, <2>2
<1> HIDE DEF ms
<1>4. Logins(cl, ms, ad)
    <2>1. \A x \in Conn : /\ cl[x].pending \in {Nil, cl[x].pending}
                          /\ cl[x].state \in {cl[x].state, "RECENTLY_DISCONNECTED"}
        OBVIOUS
    <2> QED  BY <2>1, <1>1, <1>2, <1>3, Shrink
<1>5. \A c \in Conn : Free(cl, ls, ad, c) => Free(cl, ms, ad, c)
    BY <1>2 DEF Free, Known
<1> QED  BY <1>4, <1>5 DEF ms

-----------------------------------------------------------------------------
(* The steps of a login. *)

\* A goroutine has the login of a new client in hand.  rl is cl without the
\* pendingLogin that gave it the login, if it was one.
Ready(cl, rl, ls, call) ==
    /\ call \in Call /\ cl \in [Conn -> Client]
    /\ Logins(rl, ls, adding) /\ Free(rl, ls, adding, call.for)
    /\ \A x \in adding : x.by # call.by
    /\ cl[call.for].asked
    /\ cl[call.for].state = "HANDSHAKE" => cl[call.for].challenge = Nil
    /\ \/ rl = cl /\ ~call.clears
       \/ /\ rl = [cl EXCEPT ![call.by].pending = Nil]
          /\ call.by # call.for /\ cl[call.by].pending = call.for
          /\ Settled(rl, adding, call.by)
          /\ Akin(cl[call.for], Peer[call.for], cl[call.by], Peer[call.by])
          /\ call.clears \/ Spent(rl, call.by)

LEMMA ReadyClients ==
    ASSUME NEW cl, NEW rl, NEW ls, NEW call, Ready(cl, rl, ls, call)
    PROVE  /\ call.for \in Conn /\ call.by \in Conn /\ rl[call.for] = cl[call.for]
           /\ \A d \in Conn :
                /\ rl[d].userName = cl[d].userName /\ rl[d].nonce = cl[d].nonce
                /\ rl[d].state = cl[d].state /\ rl[d].waiting = cl[d].waiting
                /\ rl[d].candidates = cl[d].candidates
                /\ d # call.by => rl[d] = cl[d]
BY DEF Ready, Call, Client

LEMMA EnterReady ==
    ASSUME NEW cl, NEW rl, NEW ls, NEW call, Ready(cl, rl, ls, call),
           NEW r, Fits(rl, adding, call.for, r), r.asked, r.challenge = Nil,
           HisRank(r, Peer[call.for]), HisName(r, Peer[call.for]),
           Anonymous(r) <=> Anonymous(cl[call.for])
    PROVE  Logins([cl EXCEPT ![call.for] = r], ls, adding \cup {call})
<1> DEFINE c == call.for
           g == call.by
           dl == [cl EXCEPT ![c] = r]
           el == [rl EXCEPT ![c] = r]
           bd == adding \cup {call}
<1>0. c \in Conn /\ g \in Conn /\ cl \in [Conn -> Client] /\ call \in Call /\ r \in Client
    BY ReadyClients DEF Ready, Fits
<1>1. Logins(rl, ls, adding) /\ Free(rl, ls, adding, c)
    BY DEF Ready
<1>2. rl \in [Conn -> Client]
    BY <1>1 DEF Logins, Types
<1>3. el[c] = r /\ \A d \in Conn : d # c => el[d] = rl[d]
    BY <1>0, <1>2
<1>4. /\ Logins(el, ls, adding) /\ Free(el, ls, adding, c)
      /\ \A d \in Conn : d # c /\ Settled(rl, adding, d) => Settled(el, adding, d)
    BY <1>0, <1>1, FillFree
<1> HIDE DEF el
<1>5. Logins(el, ls, bd)
    BY <1>0, <1>3, <1>4, Enter DEF Ready
<1>6. CASE rl = cl
    BY <1>5, <1>6 DEF el
<1>7. CASE /\ rl = [cl EXCEPT ![g].pending = Nil]
           /\ g # c /\ cl[g].pending = c
           /\ Settled(rl, adding, g)
           /\ Akin(cl[c], Peer[c], cl[g], Peer[g])
           /\ call.clears \/ Spent(rl, g)
    <2> DEFINE w == cl[g]
    <2>1. /\ dl \in [Conn -> Client] /\ dl[c] = r /\ \A d \in Conn : d # c => dl[d] = cl[d]
        BY <1>0, UpdateType
    <2>2. /\ w.pending = c /\ w.state = rl[g].state /\ w.userName = rl[g].userName
          /\ w.nonce = rl[g].nonce /\ w.permissions = rl[g].permissions
          /\ w.candidates = rl[g].candidates /\ w.challenge = rl[g].challenge
          /\ w.asked = rl[g].asked /\ w.waiting = rl[g].waiting
          /\ \A d \in Conn : d # g => rl[d] = cl[d]
        BY <1>7, <1>0 DEF Client
    <2>3. el[g] = rl[g]
        BY <1>0, <1>3, <1>7
    <2>4. dl = [el EXCEPT ![g] = w]
        <3>1. el \in [Conn -> Client]
            BY <1>4 DEF Logins, Types
        <3>2. \A d \in Conn : dl[d] = [el EXCEPT ![g] = w][d]
            BY <3>1, <2>1, <2>2, <1>0, <1>3, <1>7
        <3> HIDE DEF dl, w
        <3> QED  BY <3>1, <3>2, <2>1
    <2>0. w \in Client
        BY <1>0
    <2> HIDE DEF dl, w
    <2>5. ~Known(el, ls, c) /\ \A h \in Conn : el[h].pending # c
        BY <1>4 DEF Free, HasLogin
    <2>6. Settled(el, bd, g)
        <3>1. Settled(el, adding, g)
            BY <1>0, <1>4, <1>7
        <3>2. InWindow(bd, g) => InWindow(adding, g)
            BY <1>7 DEF InWindow
        <3> QED  BY <3>1, <3>2 DEF Settled
    <2>7. Akin(el[c], Peer[c], el[g], Peer[g])
        BY <1>3, <1>7, <2>2, <2>3 DEF Akin, Anonymous, w
    <2>8. InWindow(bd, c)
        BY DEF InWindow
    <2>9. \A x \in bd : x.for = c => x.by = g /\ (x.clears \/ Spent(el, g))
        <3>1. \A x \in adding : x.for # c
            BY <1>1 DEF Free, HasLogin, InWindow
        <3> QED  BY <3>1, <1>7, <2>3 DEF Spent
    <2>10. /\ el[c].asked /\ el[c].challenge = Nil
           /\ HisRank(el[c], Peer[c]) /\ HisName(el[c], Peer[c])
        BY <1>3
    <2>11. Spent(el, g) => ~w.waiting
        BY <2>2, <2>3 DEF Spent
    <2>12. /\ w.pending = c /\ w.state = el[g].state /\ w.userName = el[g].userName
           /\ w.nonce = el[g].nonce /\ w.permissions = el[g].permissions
           /\ w.candidates = el[g].candidates /\ w.challenge = el[g].challenge
           /\ w.asked = el[g].asked
        BY <2>2, <2>3
    <2> HIDE DEF c, g, bd
    <2>13. Logins([el EXCEPT ![g] = w], ls, bd)
        BY <1>0, <1>5, <1>7, <2>0, <2>5, <2>6, <2>7, <2>8, <2>9, <2>10, <2>11, <2>12, Token
    <2> QED  BY <2>4, <2>13 DEF dl, c, g, bd
<1> QED  BY <1>6, <1>7 DEF Ready

LEMMA ReadyRemoval ==
    ASSUME NEW cl, NEW rl, NEW ls, NEW call, Ready(cl, rl, ls, call), NEW d \in Conn
    PROVE  Ready(cl, rl, RemoveClient(ls, d), call)
<1>1. Logins(rl, ls, adding) /\ Free(rl, ls, adding, call.for) /\ call.for \in Conn
    BY DEF Ready, Call
<1>2. /\ Logins(rl, RemoveClient(ls, d), adding)
      /\ Free(rl, RemoveClient(ls, d), adding, call.for)
    BY <1>1, RemovalShrinks
<1> QED  BY <1>2 DEF Ready

\* A record the client may have while its login is being decided.
Draft(cl, rl, call, r) ==
    /\ r \in Client /\ r.pending = Nil /\ r.asked
    /\ r.state = "HANDSHAKE" => r.challenge = Nil
    /\ r.state = cl[call.for].state
    /\ Authentic(r, Peer[call.for])
    /\ Anonymous(r) <=> Anonymous(cl[call.for])
    /\ Seeks(rl, adding, call.for, r)

LEMMA DraftItself ==
    ASSUME NEW cl, NEW rl, NEW ls, NEW call, Ready(cl, rl, ls, call)
    PROVE  /\ Draft(cl, rl, call, cl[call.for])
           /\ cl[call.for].state # "CONNECTED"
           /\ cl[call.for].state # "RECENTLY_DISCONNECTED"
                => HisRank(cl[call.for], Peer[call.for])
<1> DEFINE c == call.for
<1>1. /\ c \in Conn /\ call.by \in Conn /\ rl[c] = cl[c]
      /\ cl \in [Conn -> Client] /\ cl[c] \in Client
      /\ cl[c].asked /\ (cl[c].state = "HANDSHAKE" => cl[c].challenge = Nil)
    <2>1. c \in Conn /\ call.by \in Conn /\ rl[c] = cl[c]
        BY ReadyClients
    <2> QED  BY <2>1 DEF Ready
<1>2. Logins(rl, ls, adding) /\ Free(rl, ls, adding, c)
    BY DEF Ready
<1>3. cl[c].pending = Nil /\ cl[c].state # "CONNECTED"
    BY <1>1, <1>2 DEF Free, Known
<1>4. Honest(cl[c], Peer[c])
    BY <1>1, <1>2 DEF Logins, AllHonest
<1>5. Seeks(rl, adding, c, cl[c])
    <2> SUFFICES ASSUME cl[c].candidates # Nil, NEW d \in ToSet(cl[c].candidates)
                 PROVE  d # c /\ Settled(rl, adding, d)
                        /\ Akin(cl[c], Peer[c], rl[d], Peer[d])
        BY DEF Seeks
    <2>1. d \in Conn
        <3>1. cl[c].candidates \in Seq(Conn)
            BY <1>1, FieldTypes
        <3> QED  BY <3>1, ElementsOfSeq
    <2>2. Candidate(rl, c, d)
        BY <1>1 DEF Candidate
    <2>3. d # c
        BY <2>1, <2>2, <1>1, <1>2 DEF Free, Known
    <2>4. Settled(rl, adding, d)
        BY <2>1, <2>2, <1>1, <1>2 DEF Logins, KnownAreSettled, Known
    <2>5. Akin(cl[c], Peer[c], rl[d], Peer[d])
        BY <2>1, <2>2, <1>1, <1>2 DEF Logins, OwnKind
    <2> QED  BY <2>3, <2>4, <2>5
<1> QED  BY <1>1, <1>3, <1>4, <1>5 DEF Draft, Honest

LEMMA DraftFits ==
    ASSUME NEW cl, NEW rl, NEW ls, NEW call, Ready(cl, rl, ls, call),
           NEW r, Draft(cl, rl, call, r),
           r.state # "RECENTLY_DISCONNECTED" => HisRank(r, Peer[call.for])
    PROVE  Fits(rl, adding, call.for, r)
BY DraftItself DEF Fits, Draft, Honest

LEMMA DraftEnters ==
    ASSUME NEW cl, NEW rl, NEW ls, NEW call, Ready(cl, rl, ls, call),
           NEW r, Draft(cl, rl, call, r),
           HisRank(r, Peer[call.for]), HisName(r, Peer[call.for]), r.challenge = Nil,
           EnterWindow([cl EXCEPT ![call.for] = r], ls, call)
    PROVE  Logins(client', list', adding')
<1>1. Fits(rl, adding, call.for, r)
    BY DraftFits
<1>2. Logins([cl EXCEPT ![call.for] = r], ls, adding \cup {call})
    BY <1>1, EnterReady DEF Draft
<1> QED  BY <1>2 DEF EnterWindow

\* What the return of a call leaves of the pendingLogin.
LEMMA ReadyReturn ==
    ASSUME NEW cl, NEW ls, NEW call, Ready(cl, Return(cl, call), ls, call)
    PROVE  call.clears => call.by # call.for /\ cl[call.by].pending = call.for
<1>1. /\ call.for \in Conn /\ call.by \in Conn /\ Nil \notin Conn
      /\ cl \in [Conn -> Client]
    BY ReadyClients, ConnAssumption DEF Ready
<1> QED  BY <1>1 DEF Ready, Return

LEMMA DraftAborts ==
    ASSUME NEW cl, NEW ls, NEW call, Ready(cl, Return(cl, call), ls, call),
           NEW r, Draft(cl, Return(cl, call), call, r),
           Abort([cl EXCEPT ![call.for] = r], ls, call)
    PROVE  Logins(client', list', adding')
<1> DEFINE c == call.for
           rl == Return(cl, call)
           s == [r EXCEPT !.up = FALSE, !.state = "RECENTLY_DISCONNECTED"]
<1>1. /\ c \in Conn /\ call.by \in Conn /\ cl \in [Conn -> Client] /\ r \in Client
      /\ cl[c] \in Client
    BY ReadyClients DEF Ready, Draft
<1>2. s \in Client /\ s.state = "RECENTLY_DISCONNECTED" /\ s.pending = r.pending
      /\ s.asked = r.asked /\ s.challenge = r.challenge /\ s.nonce = r.nonce
      /\ s.candidates = r.candidates
    BY <1>1 DEF Client
<1>3. Fits(rl, adding, c, s)
    BY <1>2 DEF Fits, Draft, Honest, Authentic, Anonymous, Seeks, Akin
<1>4. Logins([rl EXCEPT ![c] = s], ls, adding)
    <2>1. Logins(rl, ls, adding) /\ Free(rl, ls, adding, c)
        BY DEF Ready
    <2> QED  BY <2>1, <1>1, <1>3, FillFree
<1>5. client' = [rl EXCEPT ![c] = s]
    <2>1. client' = Return(Disconnect([cl EXCEPT ![c] = r], c), call)
        BY DEF Abort
    <2>2. Disconnect([cl EXCEPT ![c] = r], c) = [cl EXCEPT ![c] = s]
        BY <1>1 DEF Disconnect
    <2> HIDE DEF s
    <2>3. CASE call.clears
        <3>1. call.by # c
            BY <2>3, ReadyReturn
        <3> HIDE DEF c
        <3> QED  BY <3>1, <2>1, <2>2, <2>3, <1>1 DEF Return
    <2>4. CASE ~call.clears
        BY <2>1, <2>2, <2>4, <1>1 DEF Return
    <2> QED  BY <2>3, <2>4
<1> QED  BY <1>4, <1>5 DEF Abort

LEMMA DraftDone ==
    ASSUME NEW cl, NEW ls, NEW call, Ready(cl, Return(cl, call), ls, call),
           NEW r, Draft(cl, Return(cl, call), call, r),
           HisRank(r, Peer[call.for]), HisName(r, Peer[call.for]),
           LoginDone([cl EXCEPT ![call.for] = r], ls, call)
    PROVE  Logins(client', list', adding')
<1>1. CASE Abort([cl EXCEPT ![call.for] = r], ls, call)
    BY <1>1, DraftAborts
<1>2. CASE /\ EnterWindow([cl EXCEPT ![call.for] = r], ls, call)
           /\ [cl EXCEPT ![call.for] = r][call.for].state = "HANDSHAKE"
    <2>1. [cl EXCEPT ![call.for] = r][call.for] = r
        BY ReadyClients DEF Ready
    <2>2. r.challenge = Nil
        BY <2>1, <1>2 DEF Draft
    <2> QED  BY <2>2, <1>2, DraftEnters
<1> QED  BY <1>1, <1>2, Zenon DEF LoginDone

\* The login is handed on to the connection `old'.
LEMMA DraftWaits ==
    ASSUME NEW cl, NEW ls, NEW call, Ready(cl, Return(cl, call), ls, call),
           NEW r, Draft(cl, Return(cl, call), call, r),
           HisRank(r, Peer[call.for]),
           r.candidates = Nil => HisName(r, Peer[call.for]), r.challenge = Nil,
           NEW old \in Conn, old # call.for, call.clears => old # call.by,
           Settled(Return(cl, call), adding, old),
           Akin(r, Peer[call.for], cl[old], Peer[old]),
           r.candidates # Nil /\ r.permissions # "UNREGISTERED"
                => r.userName = cl[old].userName
    PROVE  Logins(Return([RestartPingLoop([cl EXCEPT ![call.for] = r], old)
                            EXCEPT ![old].pending = call.for], call), ls, adding)
<1> DEFINE c == call.for
           rl == Return(cl, call)
           el == [rl EXCEPT ![c] = r]
           w == [cl[old] EXCEPT !.waiting = @ \/ cl[old].state = "CONNECTED", !.pending = c]
<1>1. /\ c \in Conn /\ call.by \in Conn /\ cl \in [Conn -> Client] /\ r \in Client
      /\ cl[old] \in Client /\ rl \in [Conn -> Client]
      /\ old # call.by \/ rl = cl => rl[old] = cl[old]
      /\ Logins(rl, ls, adding) /\ Free(rl, ls, adding, c)
    <2>1. Logins(rl, ls, adding) /\ Free(rl, ls, adding, c) /\ rl \in [Conn -> Client]
        BY DEF Ready, Logins, Types
    <2>2. c \in Conn /\ call.by \in Conn /\ cl \in [Conn -> Client] /\ r \in Client
          /\ (old # call.by \/ rl = cl => rl[old] = cl[old])
        BY ReadyClients DEF Ready, Draft
    <2> QED  BY <2>1, <2>2
<1>2. rl[old] = cl[old]
    <2>1. CASE call.clears
        BY <2>1, <1>1
    <2>2. CASE ~call.clears
        BY <2>2, <1>1 DEF Return
    <2> QED  BY <2>1, <2>2
<1>3. Fits(rl, adding, c, r)
    BY DraftFits
<1>4. /\ Logins(el, ls, adding) /\ Free(el, ls, adding, c)
      /\ \A d \in Conn : d # c /\ Settled(rl, adding, d) => Settled(el, adding, d)
    BY <1>1, <1>3, FillFree
<1>5. el[c] = r /\ el[old] = cl[old] /\ el \in [Conn -> Client]
    BY <1>1, <1>2, UpdateType
<1>6. /\ w \in Client /\ w.pending = c /\ w.state = cl[old].state
      /\ w.userName = cl[old].userName
      /\ w.nonce = cl[old].nonce /\ w.permissions = cl[old].permissions
      /\ w.candidates = cl[old].candidates /\ w.challenge = cl[old].challenge
      /\ w.asked = cl[old].asked
      /\ w.waiting = (cl[old].waiting \/ cl[old].state = "CONNECTED")
    <2> DEFINE o == cl[old]
    <2>1. o \in Client /\ c \in Conn
        BY <1>1
    <2> HIDE DEF o, c
    <2>2. w = [o EXCEPT !.waiting = o.waiting \/ o.state = "CONNECTED", !.pending = c]
        BY DEF o
    <2> HIDE DEF w
    <2> QED  BY ONLY <2>1, <2>2 DEF Client, o
<1>7. Return([RestartPingLoop([cl EXCEPT ![c] = r], old) EXCEPT ![old].pending = c], call)
        = [el EXCEPT ![old] = w]
    <2> DEFINE xl == [cl EXCEPT ![c] = r]
    <2>1. xl \in [Conn -> Client] /\ xl[old] = cl[old]
        BY <1>1, UpdateType
    <2>2. [RestartPingLoop(xl, old) EXCEPT ![old].pending = c] = [xl EXCEPT ![old] = w]
        <3> HIDE DEF c, xl
        <3> QED  BY <2>1, <1>1 DEF RestartPingLoop
    <2> HIDE DEF w
    <2>3. Return([xl EXCEPT ![old] = w], call) = [el EXCEPT ![old] = w]
        <3>1. CASE call.clears
            <4>1. call.by # c /\ call.by # old
                BY <3>1, ReadyReturn
            <4> HIDE DEF c
            <4> QED  BY <3>1, <4>1, <1>1 DEF Return
        <3>2. CASE ~call.clears
            BY <3>2 DEF Return
        <3> QED  BY <3>1, <3>2
    <2> QED  BY <2>2, <2>3
<1>8. ~Known(el, ls, c) /\ ~InWindow(adding, c) /\ \A h \in Conn : el[h].pending # c
    BY <1>4 DEF Free, HasLogin
<1>9. \A x \in adding : x.for = c => x.by = old /\ (x.clears \/ Spent(el, old))
    BY <1>8 DEF InWindow
<1>10. Settled(el, adding, old) /\ (Spent(el, old) => ~w.waiting)
    BY <1>4, <1>5, <1>6 DEF Spent
<1>11. /\ el[c].asked /\ el[c].challenge = Nil /\ HisRank(el[c], Peer[c])
       /\ Akin(el[c], Peer[c], el[old], Peer[old])
       /\ InWindow(adding, c) \/ el[c].candidates = Nil => HisName(el[c], Peer[c])
       /\ ~InWindow(adding, c) /\ el[c].candidates # Nil /\ el[c].permissions # "UNREGISTERED"
                => el[c].userName = el[old].userName
    BY <1>5, <1>8 DEF Draft
<1> HIDE DEF w, el, rl
<1>12. Logins([el EXCEPT ![old] = w], ls, adding)
    <2> HIDE DEF c
    <2>1. old # c /\ c \in Conn
        BY <1>1 DEF c
    <2>2. /\ w \in Client /\ w.pending = c /\ w.state = el[old].state
          /\ w.userName = el[old].userName
          /\ w.nonce = el[old].nonce /\ w.permissions = el[old].permissions
          /\ w.candidates = el[old].candidates /\ w.challenge = el[old].challenge
          /\ w.asked = el[old].asked
        BY <1>5, <1>6
    <2>3. Logins(el, ls, adding)
        BY <1>4
    <2> QED  BY <2>1, <2>2, <2>3, <1>8, <1>9, <1>10, <1>11, Token
<1> QED  BY <1>7, <1>12

\* The handler fills in fields of the client whose login it has in hand.
LEMMA ReadyFill ==
    ASSUME NEW cl, NEW ls, NEW call, Ready(cl, Return(cl, call), ls, call),
           NEW r, Draft(cl, Return(cl, call), call, r),
           HisRank(r, Peer[call.for])
    PROVE  LET dl == [cl EXCEPT ![call.for] = r]
           IN  Ready(dl, Return(dl, call), ls, call) /\ dl[call.for] = r
<1> DEFINE c == call.for
           g == call.by
           rl == Return(cl, call)
           dl == [cl EXCEPT ![c] = r]
           el == [rl EXCEPT ![c] = r]
<1>1. /\ c \in Conn /\ g \in Conn /\ cl \in [Conn -> Client] /\ r \in Client
      /\ call \in Call
      /\ Logins(rl, ls, adding) /\ Free(rl, ls, adding, c) /\ rl \in [Conn -> Client]
    BY ReadyClients DEF Ready, Draft, Logins, Types
<1>2. Fits(rl, adding, c, r)
    BY DraftFits
<1>3. /\ Logins(el, ls, adding) /\ Free(el, ls, adding, c)
      /\ \A d \in Conn : d # c /\ Settled(rl, adding, d) => Settled(el, adding, d)
    BY <1>1, <1>2, FillFree
<1>4. dl \in [Conn -> Client] /\ dl[c] = r /\ \A d \in Conn : d # c => dl[d] = cl[d]
    BY <1>1, UpdateType
<1>5. dl[c].asked /\ (dl[c].state = "HANDSHAKE" => dl[c].challenge = Nil)
    BY <1>4 DEF Draft
<1>6. CASE ~call.clears
    <2>1. rl = cl /\ Return(dl, call) = dl /\ el = dl
        BY <1>6 DEF Return
    <2> HIDE DEF dl, el
    <2>2. Ready(dl, dl, ls, call)
        BY <2>1, <1>1, <1>3, <1>4, <1>5, <1>6 DEF Ready
    <2> QED  BY <2>1, <2>2, <1>4 DEF dl
<1>7. CASE call.clears
    <2>1. g # c /\ cl[g].pending = c
        BY <1>7, ReadyReturn
    <2>2. /\ Settled(rl, adding, g) /\ Akin(cl[c], Peer[c], cl[g], Peer[g])
        BY <1>7 DEF Ready
    <2>3. Return(dl, call) = [dl EXCEPT ![g].pending = Nil]
        BY <1>7 DEF Return
    <2>4. [dl EXCEPT ![g].pending = Nil] = el
        <3> HIDE DEF c, g
        <3> QED  BY <2>1, <1>1, <1>7 DEF Return, g
    <2> HIDE DEF dl, el
    <2>5. Settled(el, adding, g) /\ Akin(dl[c], Peer[c], dl[g], Peer[g])
        BY <2>1, <2>2, <1>1, <1>3, <1>4 DEF Draft, Akin
    <2>6. dl[g].pending = c
        BY <2>1, <1>1, <1>4
    <2>7. \A x \in adding : x.by # g
        BY DEF Ready
    <2>8. Ready(dl, el, ls, call)
        BY <2>1, <2>3, <2>4, <2>5, <2>6, <2>7, <1>1, <1>3, <1>4, <1>5, <1>7 DEF Ready
    <2> QED  BY <2>3, <2>4, <2>8, <1>4 DEF dl
<1> QED  BY <1>6, <1>7

\* Another record the client may have, with no candidates that are new.
LEMMA Redraft ==
    ASSUME NEW cl, NEW rl, NEW call, NEW r, Draft(cl, rl, call, r),
           NEW s \in Client, s.pending = r.pending, s.asked = r.asked,
           s.challenge = r.challenge, s.state = r.state,
           Authentic(s, Peer[call.for]), Anonymous(s) <=> Anonymous(r),
           s.candidates # Nil =>
                r.candidates # Nil /\ ToSet(s.candidates) \subseteq ToSet(r.candidates)
    PROVE  Draft(cl, rl, call, s)
BY DEF Draft, Seeks, Akin

LEMMA DowngradedProves ==
    ASSUME NEW a \in Account, NEW m \in Name
    PROVE  /\ ProvedBy(Downgraded(a, m), Owner[a])
           /\ Downgraded(a, m) # <<"none">>
<1>1. Downgraded(a, m) = <<"downgraded", a, m>>
    BY DEF Downgraded
<1>2. <<"downgraded", a, m>> # <<"none">>
    OBVIOUS
<1> QED  BY <1>1, <1>2 DEF ProvedBy

LEMMA FindUnconnectedNameReady ==
    ASSUME NEW cl, NEW ls, NEW call, Ready(cl, Return(cl, call), ls, call),
           HisRank(cl[call.for], Peer[call.for]),
           FindUnconnectedName(cl, ls, call)
    PROVE  Logins(client', list', adding')
<1> DEFINE c == call.for
           me == cl[c]
           tried(i) == Numbered(me.userName, i)
           nonce(i) == IF me.ver >= BUILD20 /\ me.permissions # "UNREGISTERED"
                       THEN Downgraded(me.userName, tried(i)) ELSE me.nonce
           named(i) == [cl EXCEPT ![c].userName = tried(i),
                                  ![c].nonce = IF me.ver >= BUILD20 /\ me.permissions # "UNREGISTERED"
                                               THEN Downgraded(me.userName, tried(i)) ELSE @,
                                  ![c].permissions = "UNREGISTERED"]
           rl == Return(cl, call)
<1>1. /\ c \in Conn /\ cl \in [Conn -> Client] /\ me \in Client
      /\ me.userName \in Name /\ me.nonce \in Nonce
    BY ReadyClients, FieldTypes DEF Ready
<1>2. Draft(cl, rl, call, me)
    BY DraftItself
<1>3. CASE Abort([cl EXCEPT ![c].userName = tried(MaxTries)], ls, call)
    <2> DEFINE n == tried(MaxTries)
               r == [me EXCEPT !.userName = n]
    <2>1. n \in Name
        <3>1. MaxTries \in 1..MaxTries
            BY BoundAssumption
        <3> QED  BY <3>1, <1>1, NumberedType
    <2>2. Abort([cl EXCEPT ![c].userName = n], ls, call)
        BY <1>3
    <2> HIDE DEF n
    <2>3. [cl EXCEPT ![c].userName = n] = [cl EXCEPT ![c] = r]
        BY <1>1
    <2>4. /\ r \in Client /\ r.pending = me.pending /\ r.asked = me.asked
          /\ r.challenge = me.challenge /\ r.state = me.state /\ r.nonce = me.nonce
          /\ r.candidates = me.candidates
        BY <2>1, <1>1 DEF Client
    <2> HIDE DEF r, me
    <2>5. Authentic(r, Peer[c]) /\ (Anonymous(r) <=> Anonymous(me))
        BY <2>4, <1>2 DEF Draft, Authentic, Anonymous
    <2>6. Draft(cl, rl, call, r)
        BY <2>4, <2>5, <1>2, Redraft
    <2> HIDE DEF c
    <2> QED  BY <2>2, <2>3, <2>6, DraftAborts DEF c
<1>4. ASSUME NEW i \in 1..MaxTries, tried(i) \notin Account, LoginDone(named(i), ls, call)
      PROVE  Logins(client', list', adding')
    <2>1. tried(i) \in Name
        BY <1>1, NumberedType
    <2>2. /\ nonce(i) \in Nonce
          /\ nonce(i) = me.nonce \/ (ProvedBy(nonce(i), Peer[c]) /\ nonce(i) # <<"none">>
                                     /\ me.nonce # <<"none">>)
        <3>1. CASE me.ver >= BUILD20 /\ me.permissions # "UNREGISTERED"
            <4>1. /\ me.userName \in Account /\ Owner[me.userName] = Peer[c]
                  /\ me.nonce # <<"none">>
                BY <3>1 DEF HisRank, Owns, Anonymous
            <4>2. nonce(i) = Downgraded(me.userName, tried(i))
                BY <3>1
            <4> HIDE DEF nonce, tried, me
            <4> QED  BY <4>1, <4>2, <2>1, <1>1, DowngradedType, DowngradedProves
        <3>2. CASE ~(me.ver >= BUILD20 /\ me.permissions # "UNREGISTERED")
            BY <3>2, <1>1
        <3> QED  BY <3>1, <3>2
    <2> DEFINE n == tried(i)
               x == nonce(i)
               r == [me EXCEPT !.userName = n, !.nonce = x, !.permissions = "UNREGISTERED"]
    <2>3. named(i) = [cl EXCEPT ![c] = r]
        <3> HIDE DEF c, tried
        <3> QED  BY <1>1
    <2>4. LoginDone([cl EXCEPT ![c] = r], ls, call)
        BY <2>3, <1>4
    <2>5. n \in Name /\ x \in Nonce /\ n \notin Account
          /\ (x = me.nonce \/ (ProvedBy(x, Peer[c]) /\ x # <<"none">> /\ me.nonce # <<"none">>))
        <3> HIDE DEF nonce, tried, me, c
        <3> QED  BY <2>1, <2>2, <1>4
    <2> HIDE DEF n, x
    <2>6. /\ r \in Client /\ r.pending = me.pending /\ r.asked = me.asked
          /\ r.challenge = me.challenge /\ r.state = me.state /\ r.nonce = x
          /\ r.candidates = me.candidates /\ r.permissions = "UNREGISTERED"
          /\ r.userName = n
        BY <2>5, <1>1 DEF Client, Perm
    <2> HIDE DEF r, me
    <2>7. Authentic(r, Peer[c]) /\ (Anonymous(r) <=> Anonymous(me))
        BY <2>5, <2>6, <1>2 DEF Draft, Authentic, Anonymous
    <2>8. Draft(cl, rl, call, r)
        BY <2>6, <2>7, <1>2, Redraft
    <2>9. HisRank(r, Peer[c]) /\ HisName(r, Peer[c])
        BY <2>5, <2>6 DEF HisRank, HisName
    <2> QED  BY <2>4, <2>8, <2>9, DraftDone
<1>5. \/ Abort([cl EXCEPT ![c].userName = tried(MaxTries)], ls, call)
      \/ \E i \in 1..MaxTries : tried(i) \notin Account /\ LoginDone(named(i), ls, call)
    BY DEF FindUnconnectedName
<1> QED  BY <1>3, <1>4, <1>5

\* The candidates of c that have another name, as far as the k-th, and what
\* looking at them makes of its record.
Foreign(cl, c, k) == cl[cl[c].candidates[k]].userName # cl[c].userName

FirstForeign(cl, c, k) ==
    {j \in 1..k : Foreign(cl, c, j) /\ \A i \in 1..(j - 1) : ~Foreign(cl, c, i)}

Met(cl, c, k) ==
    IF FirstForeign(cl, c, k) = {} \/ cl[c].permissions = "UNREGISTERED" THEN cl[c] ELSE
      [cl[c] EXCEPT
        !.nonce = Downgraded(cl[c].userName,
                    cl[cl[c].candidates[CHOOSE j \in FirstForeign(cl, c, k) : TRUE]].userName),
        !.permissions = "UNREGISTERED"]

LEMMA CandidatesAreOlder ==
    ASSUME NEW cl, NEW ls, NEW call, Ready(cl, Return(cl, call), ls, call),
           NEW c, c = call.for, NEW q \in Seq(Conn), q = cl[c].candidates,
           NEW k \in 1..Len(q)
    PROVE  /\ q[k] \in Conn /\ q[k] # c
           /\ Settled(Return(cl, call), adding, q[k])
           /\ Akin(cl[c], Peer[c], cl[q[k]], Peer[q[k]])
           /\ HisName(cl[q[k]], Peer[q[k]])
           /\ cl[q[k]].userName \in Name
<1> DEFINE rl == Return(cl, call)
           d == q[k]
<1> HIDE DEF rl, d
<1>1. Ready(cl, rl, ls, call)
    BY DEF rl
<1>2. d \in Conn /\ d \in ToSet(q) /\ q # Nil
    BY ElementOfSeq, LenProperties, ConnAssumption DEF ToSet, d
<1>3. rl[d].userName = cl[d].userName /\ rl[d].nonce = cl[d].nonce
    BY <1>1, <1>2, ReadyClients
<1>4. cl[d].userName \in Name
    BY <1>1, <1>2, FieldTypes DEF Ready
<1>5. d # c /\ Settled(rl, adding, d) /\ Akin(cl[c], Peer[c], rl[d], Peer[d])
    <2>1. Draft(cl, rl, call, cl[call.for])
        BY <1>1, DraftItself
    <2> QED  BY <2>1, <1>2 DEF Draft, Seeks
<1>6. HisName(cl[d], Peer[d])
    BY <1>3, <1>5 DEF Settled, HisName, Anonymous
<1>7. Akin(cl[c], Peer[c], cl[d], Peer[d])
    BY <1>3, <1>5 DEF Akin, Anonymous
<1> QED  BY <1>2, <1>4, <1>5, <1>6, <1>7 DEF d, rl

\* It costs the permissions if one of them is foreign.
LEMMA MetProperties ==
    ASSUME NEW cl, NEW ls, NEW call, Ready(cl, Return(cl, call), ls, call),
           NEW c, c = call.for, NEW q \in Seq(Conn), q = cl[c].candidates,
           cl[c].state = "HANDSHAKE", NEW k \in 0..Len(q)
    PROVE  /\ Draft(cl, Return(cl, call), call, Met(cl, c, k))
           /\ HisRank(Met(cl, c, k), Peer[c])
           /\ Met(cl, c, k) \in Client
           /\ Met(cl, c, k).candidates = q
           /\ Met(cl, c, k).userName = cl[c].userName
           /\ k # 0 /\ Foreign(cl, c, k) => Met(cl, c, k).permissions = "UNREGISTERED"
<1> DEFINE me == cl[c]
           rl == Return(cl, call)
           F == FirstForeign(cl, c, k)
<1>1. /\ c \in Conn /\ cl \in [Conn -> Client] /\ me \in Client /\ me.userName \in Name
      /\ Draft(cl, rl, call, me) /\ HisRank(me, Peer[c])
    BY ReadyClients, FieldTypes, DraftItself DEF Ready
<1>2. Len(q) \in Nat
    BY LenProperties
<1>3. CASE F = {} \/ me.permissions = "UNREGISTERED"
    <2>1. Met(cl, c, k) = me
        BY <1>3 DEF Met
    <2>2. ASSUME k # 0, Foreign(cl, c, k), F = {}
          PROVE  FALSE
        <3> DEFINE T == {j \in 1..k : Foreign(cl, c, j)}
        <3>1. T \in SUBSET Nat /\ T # {}
            BY <2>2, <1>2
        <3>2. PICK j \in T : \A i \in T : j <= i
            BY <3>1, FirstPlace
        <3>3. j \in F
            BY <3>2, <1>2 DEF FirstForeign
        <3> QED  BY <3>3, <2>2
    <2> HIDE DEF F
    <2> QED  BY <2>1, <2>2, <1>1, <1>3
<1>4. CASE ~(F = {} \/ me.permissions = "UNREGISTERED")
    <2> DEFINE j == CHOOSE j \in F : TRUE
               n == Downgraded(me.userName, cl[q[j]].userName)
               r == [me EXCEPT !.nonce = n, !.permissions = "UNREGISTERED"]
    <2>1. Met(cl, c, k) = r
        BY <1>4 DEF Met
    <2>2. j \in F
        BY <1>4
    <2>3. j \in 1..Len(q)
        <3> HIDE DEF j
        <3> QED  BY <2>2, <1>2 DEF FirstForeign
    <2> HIDE DEF j, F
    <2>4. cl[q[j]].userName \in Name
        BY <2>3, CandidatesAreOlder
    <2>5. me.userName \in Account /\ Owner[me.userName] = Peer[c] /\ ~Anonymous(me)
        BY <1>1, <1>4 DEF HisRank, Owns
    <2>6. n \in Nonce /\ ProvedBy(n, Peer[c]) /\ n # <<"none">>
        <3> HIDE DEF me
        <3> QED  BY <2>4, <2>5, <1>1, DowngradedType, DowngradedProves
    <2> HIDE DEF n
    <2>7. /\ r \in Client /\ r.nonce = n /\ r.permissions = "UNREGISTERED"
          /\ r.pending = me.pending /\ r.asked = me.asked
          /\ r.challenge = me.challenge /\ r.state = me.state
          /\ r.candidates = me.candidates /\ r.userName = me.userName
        BY <2>6, <1>1 DEF Client, Perm
    <2> HIDE DEF r, me
    <2>8. Authentic(r, Peer[c]) /\ (Anonymous(r) <=> Anonymous(me))
        BY <2>5, <2>6, <2>7 DEF Authentic, Anonymous
    <2>9. Draft(cl, rl, call, r)
        BY <2>7, <2>8, <1>1, Redraft
    <2>10. HisRank(r, Peer[c])
        BY <2>7 DEF HisRank
    <2> QED  BY <2>1, <2>7, <2>9, <2>10 DEF me
<1> QED  BY <1>3, <1>4

LEMMA RefillClient ==
    ASSUME NEW cl \in [Conn -> Client], NEW c \in Conn, NEW z \in Client, NEW s, NEW n
    PROVE  /\ [[cl EXCEPT ![c] = z] EXCEPT ![c].candidates = s]
                = [cl EXCEPT ![c] = [z EXCEPT !.candidates = s]]
           /\ [[cl EXCEPT ![c] = [z EXCEPT !.candidates = s]] EXCEPT ![c].userName = n]
                = [cl EXCEPT ![c] = [z EXCEPT !.candidates = s, !.userName = n]]
<1>1. ASSUME NEW y  PROVE [[cl EXCEPT ![c] = z] EXCEPT ![c].candidates = y]
                            = [cl EXCEPT ![c] = [z EXCEPT !.candidates = y]]
    <2> DEFINE sl == [cl EXCEPT ![c] = z]
    <2>1. sl \in [Conn -> Client] /\ sl[c] = z
        BY UpdateType
    <2> DEFINE r == [z EXCEPT !.candidates = y]
    <2>2. [sl EXCEPT ![c].candidates = y] = [sl EXCEPT ![c] = r]
        <3> HIDE DEF sl
        <3> QED  BY <2>1
    <2>3. [sl EXCEPT ![c] = r] = [cl EXCEPT ![c] = r]
        <3> HIDE DEF r
        <3> QED  OBVIOUS
    <2> QED  BY <2>2, <2>3
<1>2. [[cl EXCEPT ![c] = [z EXCEPT !.candidates = s]] EXCEPT ![c].userName = n]
        = [cl EXCEPT ![c] = [z EXCEPT !.candidates = s, !.userName = n]]
    <2> DEFINE r == [z EXCEPT !.candidates = s]
               sl == [cl EXCEPT ![c] = r]
               t == [r EXCEPT !.userName = n]
    <2>1. sl[c] = r /\ DOMAIN sl = Conn
        <3> HIDE DEF r
        <3> QED  OBVIOUS
    <2>2. [sl EXCEPT ![c].userName = n] = [sl EXCEPT ![c] = t]
        <3> HIDE DEF sl, r
        <3> QED  BY <2>1
    <2>3. [sl EXCEPT ![c] = t] = [cl EXCEPT ![c] = t]
        <3> HIDE DEF t, r
        <3> QED  OBVIOUS
    <2>4. t = [z EXCEPT !.candidates = s, !.userName = n]
        OBVIOUS
    <2> QED  BY <2>2, <2>3, <2>4
<1> QED  BY <1>1, <1>2

\* The clients after c has looked at its candidates 1..k.
Seen(cl, c, k) ==
    IF FirstForeign(cl, c, k) = {} \/ cl[c].permissions = "UNREGISTERED" THEN cl ELSE
      [cl EXCEPT
        ![c].nonce = Downgraded(cl[c].userName,
                        cl[cl[c].candidates[CHOOSE j \in FirstForeign(cl, c, k) : TRUE]].userName),
        ![c].permissions = "UNREGISTERED"]

\* Then candidates are left out, and a name is taken.
Popped(cl, c, k, s) == [Seen(cl, c, k) EXCEPT ![c].candidates = s]
Renamed(cl, c, k, s, n) == [Popped(cl, c, k, s) EXCEPT ![c].userName = n]

With(cl, c, r) == [cl EXCEPT ![c] = r]
MetBut(cl, c, k, s) == [Met(cl, c, k) EXCEPT !.candidates = s]
MetAs(cl, c, k, s, n) == [Met(cl, c, k) EXCEPT !.candidates = s, !.userName = n]

\* Leaving candidates out, and taking a name.
NewRecords(cl, rl, call, c, k, s, n) ==
    LET m == Met(cl, c, k)
        r == MetBut(cl, c, k, s)
        t == MetAs(cl, c, k, s, n)
    IN  /\ r \in Client /\ Draft(cl, rl, call, r) /\ HisRank(r, Peer[c])
        /\ r.candidates = s /\ r.permissions = m.permissions /\ r.userName = m.userName
        /\ t \in Client /\ Draft(cl, rl, call, t)
        /\ t.permissions = m.permissions /\ t.userName = n /\ t.nonce = m.nonce

LEMMA PoppedProperties ==
    ASSUME NEW cl, NEW rl, NEW call, NEW c, c = call.for, NEW k,
           Met(cl, c, k) \in Client, Draft(cl, rl, call, Met(cl, c, k)),
           HisRank(Met(cl, c, k), Peer[c]), Met(cl, c, k).candidates # Nil,
           NEW s \in Seq(Conn), ToSet(s) \subseteq ToSet(Met(cl, c, k).candidates),
           NEW n \in Name
    PROVE  NewRecords(cl, rl, call, c, k, s, n)
<1> DEFINE z == Met(cl, c, k)
           r == [z EXCEPT !.candidates = s]
           t == [z EXCEPT !.candidates = s, !.userName = n]
<1>0. r = MetBut(cl, c, k, s) /\ t = MetAs(cl, c, k, s, n)
    BY DEF MetBut, MetAs
<1> HIDE DEF z
<1>1. /\ z \in Client /\ Draft(cl, rl, call, z)
      /\ HisRank(z, Peer[c]) /\ z.candidates # Nil
      /\ ToSet(s) \subseteq ToSet(z.candidates)
    BY DEF z
<1>2. /\ r \in Client /\ r.candidates = s /\ r.permissions = z.permissions
      /\ r.nonce = z.nonce /\ r.userName = z.userName
      /\ r.pending = z.pending /\ r.asked = z.asked
      /\ r.challenge = z.challenge /\ r.state = z.state
      /\ t \in Client /\ t.candidates = s /\ t.permissions = z.permissions
      /\ t.nonce = z.nonce /\ t.userName = n
      /\ t.pending = z.pending /\ t.asked = z.asked
      /\ t.challenge = z.challenge /\ t.state = z.state
    BY <1>1 DEF Client
<1> HIDE DEF r, t
<1>3. /\ Authentic(r, Peer[c]) /\ (Anonymous(r) <=> Anonymous(z))
      /\ Authentic(t, Peer[c]) /\ (Anonymous(t) <=> Anonymous(z))
    BY <1>1, <1>2 DEF Draft, Authentic, Anonymous
<1>4. HisRank(r, Peer[c])
    BY <1>1, <1>2 DEF HisRank, Anonymous
<1>5. Draft(cl, rl, call, r)
    BY <1>1, <1>2, <1>3, Redraft
<1>6. Draft(cl, rl, call, t)
    BY <1>1, <1>2, <1>3, Redraft
<1> QED  BY <1>0, <1>2, <1>4, <1>5, <1>6 DEF z, NewRecords

LEMMA SeenIsMet ==
    ASSUME NEW cl \in [Conn -> Client], NEW c \in Conn, NEW k,
           Met(cl, c, k) \in Client, NEW s, NEW n
    PROVE  /\ Popped(cl, c, k, s) = With(cl, c, MetBut(cl, c, k, s))
           /\ Renamed(cl, c, k, s, n) = With(cl, c, MetAs(cl, c, k, s, n))
<1> DEFINE m == Met(cl, c, k)
<1>1. Seen(cl, c, k) = [cl EXCEPT ![c] = m]
    <2>1. CASE FirstForeign(cl, c, k) = {} \/ cl[c].permissions = "UNREGISTERED"
        BY <2>1 DEF Seen, Met
    <2>2. CASE ~(FirstForeign(cl, c, k) = {} \/ cl[c].permissions = "UNREGISTERED")
        <3> DEFINE x == Downgraded(cl[c].userName,
                            cl[cl[c].candidates[CHOOSE j \in FirstForeign(cl, c, k) : TRUE]].userName)
        <3>1. /\ m = [cl[c] EXCEPT !.nonce = x, !.permissions = "UNREGISTERED"]
              /\ Seen(cl, c, k) = [cl EXCEPT ![c].nonce = x, ![c].permissions = "UNREGISTERED"]
            BY <2>2 DEF Met, Seen
        <3> HIDE DEF x, m
        <3> QED  BY <3>1
    <2> QED  BY <2>1, <2>2
<1> HIDE DEF m
<1>2. m \in Client
    BY DEF m
<1>3. /\ [[cl EXCEPT ![c] = m] EXCEPT ![c].candidates = s]
            = [cl EXCEPT ![c] = [m EXCEPT !.candidates = s]]
      /\ [[cl EXCEPT ![c] = [m EXCEPT !.candidates = s]] EXCEPT ![c].userName = n]
            = [cl EXCEPT ![c] = [m EXCEPT !.candidates = s, !.userName = n]]
    BY <1>2, RefillClient, Zenon
<1>4. Popped(cl, c, k, s) = [cl EXCEPT ![c] = [m EXCEPT !.candidates = s]]
    BY <1>1, <1>3, Zenon DEF Popped
<1>5. Renamed(cl, c, k, s, n)
        = [cl EXCEPT ![c] = [m EXCEPT !.candidates = s, !.userName = n]]
    BY <1>3, <1>4, Zenon DEF Renamed
<1> QED  BY <1>4, <1>5, Zenon DEF m, With, MetBut, MetAs

\* What CheckCandidates does with a client c that is not logged in yet.
Opens(cl, ls, call, c, q) == FindUnconnectedName(Popped(cl, c, Len(q), <<>>), ls, call)

Takes(cl, ls, call, c, q, k) ==
    LoginDone(Renamed(cl, c, k, SubSeq(q, k + 1, Len(q)), cl[q[k]].userName),
              RemoveClient(ls, q[k]), call)

Awaits(cl, ls, call, c, q, k) ==
    /\ client' = Return([RestartPingLoop(Popped(cl, c, k, SubSeq(q, k + 1, Len(q))), q[k])
                            EXCEPT ![q[k]].pending = c], call)
    /\ adding' = adding /\ list' = ls

LEMMA CheckCandidatesCases ==
    ASSUME NEW cl, NEW ls, NEW call, NEW c, c = call.for, NEW q \in Seq(Conn),
           q = cl[c].candidates,
           cl[c].state = "HANDSHAKE", CheckCandidates(cl, ls, call)
    PROVE  \/ Opens(cl, ls, call, c, q)
           \/ \E k \in 1..Len(q) :
                /\ cl[q[k]].pending = Nil
                /\ Takes(cl, ls, call, c, q, k) \/ Awaits(cl, ls, call, c, q, k)
<1> DEFINE C == call.for
           Q == cl[C].candidates
<1>1. DOMAIN q = 1..Len(q) /\ c = C /\ q = Q
    BY LenProperties
<1>2. \/ Opens(cl, ls, call, C, Q)
      \/ \E k \in DOMAIN Q :
            /\ cl[Q[k]].pending = Nil
            /\ Takes(cl, ls, call, C, Q, k) \/ Awaits(cl, ls, call, C, Q, k)
    <2>1. cl[C].state = "HANDSHAKE" /\ CheckCandidates(cl, ls, call)
        OBVIOUS
    <2> QED  BY ONLY <2>1, Zenon DEF CheckCandidates, Opens, Takes, Awaits, Popped, Renamed,
                    Seen, FirstForeign, Foreign
<1> HIDE DEF C, Q
<1> QED  BY <1>1, <1>2, Zenon

\* A client is done, or waits for one candidate, or goes without a connection.
LEMMA CheckCandidatesReady ==
    ASSUME NEW cl, NEW ls, NEW call, Ready(cl, Return(cl, call), ls, call),
           cl[call.for].candidates \in Seq(Conn),
           CheckCandidates(cl, ls, call)
    PROVE  Logins(client', list', adding')
<1>1. PICK c : c = call.for
    OBVIOUS
<1>2. PICK q \in Seq(Conn) : q = cl[c].candidates
    BY <1>1
<1>3. PICK rl : rl = Return(cl, call)
    OBVIOUS
<1>4. c \in Conn /\ cl \in [Conn -> Client] /\ cl[c].userName \in Name
    BY <1>1, ReadyClients, FieldTypes DEF Ready
<1>5. Len(q) \in Nat /\ Len(q) \in 0..Len(q) /\ \A k \in 1..Len(q) : k \in 0..Len(q) /\ k # 0
    BY LenProperties
<1>6. CASE cl[c].state # "HANDSHAKE"
    <2>1. Abort(cl, ls, call)
        <3>1. cl[call.for].state # "HANDSHAKE"
            BY <1>1, <1>6
        <3> QED  BY <3>1, Zenon DEF CheckCandidates
    <2>2. Draft(cl, rl, call, cl[call.for])
        BY <1>3, DraftItself
    <2>3. cl = [cl EXCEPT ![call.for] = cl[call.for]]
        BY <1>4
    <2> QED  BY <2>1, <2>2, <2>3, <1>3, DraftAborts
<1>7. CASE cl[c].state = "HANDSHAKE"
    \* The records the client may get.
    <2>1. ASSUME NEW k \in 0..Len(q), NEW s \in Seq(Conn), NEW n \in Name,
                 ToSet(s) \subseteq ToSet(q)
          PROVE  LET r == MetBut(cl, c, k, s)
                     t == MetAs(cl, c, k, s, n)
                 IN  /\ Popped(cl, c, k, s) = With(cl, call.for, r)
                     /\ r \in Client /\ Draft(cl, rl, call, r) /\ HisRank(r, Peer[c])
                     /\ r.candidates = s /\ r.userName = cl[c].userName
                     /\ Renamed(cl, c, k, s, n) = With(cl, call.for, t)
                     /\ t \in Client /\ Draft(cl, rl, call, t) /\ t.userName = n
                     /\ r.permissions = Met(cl, c, k).permissions
                     /\ t.permissions = Met(cl, c, k).permissions
                     /\ t.nonce = Met(cl, c, k).nonce
        <3>1. /\ Draft(cl, rl, call, Met(cl, c, k)) /\ HisRank(Met(cl, c, k), Peer[c])
              /\ Met(cl, c, k) \in Client /\ Met(cl, c, k).candidates = q
              /\ Met(cl, c, k).userName = cl[c].userName
            BY <2>1, <1>1, <1>2, <1>3, <1>7, MetProperties
        <3>2. q # Nil
            BY ConnAssumption
        <3>3. /\ Popped(cl, c, k, s) = With(cl, call.for, MetBut(cl, c, k, s))
              /\ Renamed(cl, c, k, s, n) = With(cl, call.for, MetAs(cl, c, k, s, n))
            BY SMTT(30), <3>1, <1>1, <1>4, SeenIsMet
        <3>4. NewRecords(cl, rl, call, c, k, s, n)
            <4>1. /\ c = call.for /\ Met(cl, c, k).candidates # Nil
                  /\ ToSet(s) \subseteq ToSet(Met(cl, c, k).candidates)
                BY <3>1, <3>2, <2>1, <1>1
            <4>2. /\ Draft(cl, rl, call, Met(cl, c, k)) /\ HisRank(Met(cl, c, k), Peer[c])
                  /\ Met(cl, c, k) \in Client
                BY <3>1
            <4> QED  BY <4>1, <4>2, PoppedProperties
        <3> QED  BY <3>1, <3>3, <3>4 DEF NewRecords
    <2>2. CASE Opens(cl, ls, call, c, q)
        <3>1. PICK r : r = MetBut(cl, c, Len(q), <<>>)
            OBVIOUS
        <3>2. /\ <<>> \in Seq(Conn) /\ ToSet(<<>>) \subseteq ToSet(q)
            BY EmptyHasNoElements
        <3>3. /\ Popped(cl, c, Len(q), <<>>) = [cl EXCEPT ![call.for] = r]
              /\ Draft(cl, rl, call, r) /\ HisRank(r, Peer[call.for])
            <4>1. /\ Popped(cl, c, Len(q), <<>>) = With(cl, call.for, r)
                  /\ Draft(cl, rl, call, r) /\ HisRank(r, Peer[c])
                BY <3>1, <3>2, <2>1, <1>4, <1>5
            <4> QED  BY <4>1, <1>1 DEF With
        <3> DEFINE dl == [cl EXCEPT ![call.for] = r]
        <3>4. Ready(dl, Return(dl, call), ls, call) /\ dl[call.for] = r
            <4>1. Draft(cl, Return(cl, call), call, r)
                BY <3>3, <1>3
            <4>2. HisRank(r, Peer[call.for])
                BY <3>3
            <4> QED  BY <1>3, <4>1, <4>2, ReadyFill, Zenon
        <3> HIDE DEF dl
        <3>5. FindUnconnectedName(dl, ls, call)
            BY <3>3, <2>2 DEF Opens, dl
        <3> QED  BY <3>3, <3>4, <3>5, FindUnconnectedNameReady
    <2>3. ASSUME NEW k \in 1..Len(q), cl[q[k]].pending = Nil
          PROVE  /\ Takes(cl, ls, call, c, q, k) => Logins(client', list', adding')
                 /\ Awaits(cl, ls, call, c, q, k) => Logins(client', list', adding')
        <3>1. PICK s \in Seq(Conn) : s = SubSeq(q, k + 1, Len(q)) /\ ToSet(s) \subseteq ToSet(q)
            BY SuffixElements
        <3>2. PICK d \in Conn :
                /\ d = q[k] /\ d # c /\ Settled(rl, adding, d)
                /\ Akin(cl[c], Peer[c], cl[d], Peer[d])
                /\ HisName(cl[d], Peer[d]) /\ cl[d].userName \in Name
            BY <1>1, <1>2, <1>3, CandidatesAreOlder
        <3>3. PICK n \in Name : n = cl[d].userName
            BY <3>2
        <3>4. PICK r : r = MetBut(cl, c, k, s)
            OBVIOUS
        <3>5. PICK t : t = MetAs(cl, c, k, s, n)
            OBVIOUS
        <3>6. k \in 0..Len(q) /\ k # 0
            BY <1>5
        <3>7. /\ Popped(cl, c, k, s) = [cl EXCEPT ![call.for] = r]
              /\ r \in Client /\ Draft(cl, rl, call, r) /\ HisRank(r, Peer[c])
              /\ r.candidates = s /\ r.userName = cl[c].userName
              /\ Renamed(cl, c, k, s, n) = [cl EXCEPT ![call.for] = t]
              /\ t \in Client /\ Draft(cl, rl, call, t) /\ t.userName = n
              /\ r.permissions = Met(cl, c, k).permissions
              /\ t.permissions = Met(cl, c, k).permissions
              /\ t.nonce = Met(cl, c, k).nonce
            <4>1. /\ Popped(cl, c, k, s) = With(cl, call.for, r)
                  /\ r \in Client /\ Draft(cl, rl, call, r) /\ HisRank(r, Peer[c])
                  /\ r.candidates = s /\ r.userName = cl[c].userName
                  /\ Renamed(cl, c, k, s, n) = With(cl, call.for, t)
                  /\ t \in Client /\ Draft(cl, rl, call, t) /\ t.userName = n
                  /\ r.permissions = Met(cl, c, k).permissions
                  /\ t.permissions = Met(cl, c, k).permissions
                  /\ t.nonce = Met(cl, c, k).nonce
                BY <2>1, <3>1, <3>4, <3>5, <3>6
            <4> QED  BY <4>1 DEF With
        <3>8. n # cl[c].userName => Met(cl, c, k).permissions = "UNREGISTERED"
            <4>1. Foreign(cl, c, k) => Met(cl, c, k).permissions = "UNREGISTERED"
                BY <3>6, <1>1, <1>2, <1>7, MetProperties
            <4> QED  BY <4>1, <3>2, <3>3, <1>2 DEF Foreign
        <3>9. /\ HisRank(Met(cl, c, k), Peer[c]) /\ Met(cl, c, k).userName = cl[c].userName
            BY <3>6, <1>1, <1>2, <1>7, MetProperties
        <3>10. ASSUME Takes(cl, ls, call, c, q, k)
               PROVE  Logins(client', list', adding')
            <4>1. HisRank(t, Peer[call.for])
                BY <3>7, <3>8, <3>9, <1>1 DEF HisRank, Anonymous
            <4>2. HisName(t, Peer[call.for])
                <5>1. Anonymous(t) <=> Anonymous(cl[c])
                    BY <3>7, <1>1 DEF Draft
                <5> QED  BY <5>1, <3>2, <3>3, <3>7, <1>1 DEF HisName, Akin, Owns
            <4>3. LoginDone([cl EXCEPT ![call.for] = t], RemoveClient(ls, d), call)
                BY <3>1, <3>2, <3>3, <3>7, <3>10 DEF Takes
            <4>4. Ready(cl, Return(cl, call), RemoveClient(ls, d), call)
                BY <3>2, ReadyRemoval
            <4>5. Draft(cl, Return(cl, call), call, t)
                BY <3>7, <1>3
            <4> QED  BY <4>1, <4>2, <4>3, <4>4, <4>5, DraftDone
        <3>11. ASSUME Awaits(cl, ls, call, c, q, k)
               PROVE  Logins(client', list', adding')
            <4>1. client' = Return([RestartPingLoop([cl EXCEPT ![call.for] = r], d)
                                        EXCEPT ![d].pending = call.for], call)
                  /\ adding' = adding /\ list' = ls
                BY <3>1, <3>2, <3>7, <3>11, <1>1, Zenon DEF Awaits
            <4>2. call.clears => d # call.by
                <5>1. call.clears => cl[call.by].pending = c
                    BY <1>1, ReadyReturn
                <5> QED  BY <5>1, <2>3, <3>2, <1>4, ConnAssumption
            <4>3. r.candidates # Nil
                BY <3>7, ConnAssumption
            <4>4. /\ Akin(r, Peer[call.for], cl[d], Peer[d])
                  /\ r.permissions # "UNREGISTERED" => r.userName = cl[d].userName
                <5>1. Anonymous(r) <=> Anonymous(cl[c])
                    BY <3>7, <1>1 DEF Draft
                <5> QED  BY <5>1, <3>2, <3>3, <3>7, <3>8, <1>1 DEF Akin
            <4>5. /\ Draft(cl, Return(cl, call), call, r) /\ HisRank(r, Peer[call.for])
                  /\ Settled(Return(cl, call), adding, d) /\ d # call.for
                  /\ r.challenge = Nil
                BY <3>2, <3>7, <1>1, <1>3, <1>7 DEF Draft
            <4>6. Logins(Return([RestartPingLoop([cl EXCEPT ![call.for] = r], d)
                                    EXCEPT ![d].pending = call.for], call), ls, adding)
                BY <4>2, <4>3, <4>4, <4>5, DraftWaits
            <4> QED  BY <4>1, <4>6
        <3> QED  BY <3>10, <3>11
    <2>4. \/ Opens(cl, ls, call, c, q)
          \/ \E k \in 1..Len(q) :
                /\ cl[q[k]].pending = Nil
                /\ Takes(cl, ls, call, c, q, k) \/ Awaits(cl, ls, call, c, q, k)
        BY <1>1, <1>2, <1>7, CheckCandidatesCases
    <2> QED  BY <2>2, <2>3, <2>4, Zenon
<1> QED  BY <1>6, <1>7

-----------------------------------------------------------------------------
(* The search for connections to replace. *)

LEMMA FoundAreListed ==
    ASSUME NEW cl, NEW ls \in Seq(Conn), NEW nonce, NEW n,
           NEW found \in FindClientsToReplace(cl, ls, nonce, n)
    PROVE  /\ found \in Seq(Conn)
           /\ \A d \in ToSet(found) : d \in ToSet(ls) /\ cl[d].nonce = nonce
<1> DEFINE S == ReplaceableAt(cl, ls, nonce, n)
           m == Cardinality(S)
<1>1. DOMAIN ls = 1..Len(ls) /\ Len(ls) \in Nat /\ \A i \in 1..Len(ls) : ls[i] \in Conn
    BY LenProperties, ElementOfSeq
<1>2. S \subseteq 1..Len(ls) /\ \A i \in S : cl[ls[i]].nonce = nonce
    BY <1>1 DEF ReplaceableAt, SameNonce
<1>3. m \in Nat
    <2>1. IsFiniteSet(1..Len(ls))
        <3>1. 1 \in Int /\ Len(ls) \in Int
            BY <1>1
        <3> QED  BY <3>1, FS_Interval
    <2> QED  BY <1>2, <2>1, FS_Subset, FS_CardinalityType
<1>4. PICK q \in [1..m -> S] : found = [k \in 1..m |-> ls[q[k]]]
    BY DEF FindClientsToReplace
<1> HIDE DEF S, m
<1>5. \A k \in 1..m : found[k] = ls[q[k]] /\ q[k] \in S /\ q[k] \in 1..Len(ls)
    BY <1>2, <1>4
<1>6. found \in Seq(Conn)
    BY <1>1, <1>3, <1>4, <1>5
<1>7. DOMAIN found = 1..m
    BY <1>4
<1> QED  BY <1>1, <1>2, <1>5, <1>6, <1>7 DEF ToSet

LEMMA OneProves ==
    ASSUME NEW n, NEW p, NEW q, ProvedBy(n, p), ProvedBy(n, q)
    PROVE  p = q /\ n # <<"none">>
<1>1. CASE n = <<"own", p>>
    <2>1. \A a, m : <<"own", p>> # <<"password", a>> /\ <<"own", p>> # <<"downgraded", a, m>>
        OBVIOUS
    <2> QED  BY <1>1, <2>1 DEF ProvedBy
<1>2. ASSUME NEW a \in Account, Owner[a] = p, n = <<"password", a>>
      PROVE  p = q /\ n # <<"none">>
    <2>1. \A b, m : <<"password", a>> # <<"own", b>> /\ <<"password", a>> # <<"downgraded", b, m>>
        OBVIOUS
    <2>2. \A b : <<"password", a>> = <<"password", b>> => a = b
        OBVIOUS
    <2>3. <<"password", a>> # <<"none">>
        OBVIOUS
    <2> QED  BY <1>2, <2>1, <2>2, <2>3 DEF ProvedBy
<1>3. ASSUME NEW a \in Account, NEW m \in Name, Owner[a] = p, n = <<"downgraded", a, m>>
      PROVE  p = q /\ n # <<"none">>
    <2>1. \A b : <<"downgraded", a, m>> # <<"own", b>> /\ <<"downgraded", a, m>> # <<"password", b>>
        OBVIOUS
    <2>2. \A b, y : <<"downgraded", a, m>> = <<"downgraded", b, y>> => a = b
        OBVIOUS
    <2>3. <<"downgraded", a, m>> # <<"none">>
        OBVIOUS
    <2> QED  BY <1>3, <2>1, <2>2, <2>3 DEF ProvedBy
<1> QED  BY <1>1, <1>2, <1>3 DEF ProvedBy

\* Two clients with one nonce have, as far as it tells, one player.
LEMMA SameNonceAkin ==
    ASSUME NEW r, NEW s, NEW p, NEW q, Authentic(r, p), Authentic(s, q), r.nonce = s.nonce
    PROVE  Akin(r, p, s, q)
BY OneProves DEF Authentic, Anonymous, Akin

LEMMA FindReplaceCandidatesReady ==
    ASSUME NEW cl, NEW ls, NEW c \in Conn, NEW registered \in BOOLEAN,
           Ready(cl, cl, ls, [by |-> c, for |-> c, clears |-> FALSE]),
           HisRank(cl[c], Peer[c]), registered => HisName(cl[c], Peer[c]),
           FindReplaceCandidates(cl, ls, c, registered)
    PROVE  Logins(client', list', adding')
<1>1. PICK call : call = [by |-> c, for |-> c, clears |-> FALSE]
    OBVIOUS
<1>2. call.for = c /\ call.by = c /\ ~call.clears /\ \A x : Return(x, call) = x
    BY <1>1 DEF Return
<1>3. /\ cl \in [Conn -> Client] /\ ls \in Seq(Conn) /\ Logins(cl, ls, adding)
      /\ Free(cl, ls, adding, c) /\ Nil \notin Conn
    BY <1>1, <1>2, ConnAssumption DEF Ready, Logins, Types
<1>4. PICK found \in FindClientsToReplace(cl, ls, cl[c].nonce, cl[c].userName) :
        \/ CheckCandidates([cl EXCEPT ![c].candidates = found], ls, call)
        \/ /\ NameIsFree(cl, ls, cl[c].userName, registered)
           /\ LoginDone([cl EXCEPT ![c].candidates = found], ls, call)
        \/ FindUnconnectedName([cl EXCEPT ![c].candidates = found], ls, call)
    BY <1>1 DEF FindReplaceCandidates
<1>5. /\ found \in Seq(Conn)
      /\ \A d \in ToSet(found) : d \in ToSet(ls) /\ cl[d].nonce = cl[c].nonce
    <2>1. found \in FindClientsToReplace(cl, ls, cl[c].nonce, cl[c].userName)
        BY <1>4
    <2> DEFINE x == cl[c].nonce
               n == cl[c].userName
    <2> HIDE DEF x, n
    <2>2. found \in FindClientsToReplace(cl, ls, x, n) /\ ls \in Seq(Conn)
        BY <2>1, <1>3 DEF x, n
    <2>3. /\ found \in Seq(Conn)
          /\ \A d \in ToSet(found) : d \in ToSet(ls) /\ cl[d].nonce = x
        BY ONLY <2>2, FoundAreListed
    <2> QED  BY <2>3 DEF x
<1>6. PICK r : r = [cl[c] EXCEPT !.candidates = found]
    OBVIOUS
<1>7. [cl EXCEPT ![c].candidates = found] = [cl EXCEPT ![call.for] = r]
    BY <1>2, <1>3, <1>6
<1>8. Draft(cl, Return(cl, call), call, cl[c]) /\ HisRank(cl[c], Peer[call.for])
    BY <1>1, <1>2, DraftItself
<1>9. /\ r \in Client /\ r.candidates = found /\ r.userName = cl[c].userName
      /\ r.nonce = cl[c].nonce /\ r.permissions = cl[c].permissions
      /\ r.asked = cl[c].asked /\ r.challenge = cl[c].challenge
      /\ r.state = cl[c].state /\ r.pending = cl[c].pending
    <2>1. cl[c] \in Client /\ found \in Seq(Conn)
        BY <1>3, <1>5
    <2> QED  BY ONLY <2>1, <1>6 DEF Client
<1>10. Draft(cl, Return(cl, call), call, r)
    <2>1. ASSUME NEW d \in ToSet(found)
          PROVE  d # c /\ Settled(cl, adding, d) /\ Akin(r, Peer[c], cl[d], Peer[d])
        <3>1. d \in Conn /\ d \in ToSet(ls) /\ cl[d].nonce = r.nonce
            BY <1>3, <1>5, <1>9, ElementsOfSeq
        <3>2. Authentic(cl[d], Peer[d])
            BY <1>3, <3>1 DEF Logins, AllHonest, Honest
        <3>3. Authentic(r, Peer[c])
            BY <1>2, <1>8, <1>9 DEF Draft, Authentic, Anonymous
        <3>4. Settled(cl, adding, d)
            BY <1>3, <3>1 DEF Logins, KnownAreSettled, Known
        <3>5. d # c
            BY <1>3, <3>1 DEF Free, Known
        <3> QED  BY <3>1, <3>2, <3>3, <3>4, <3>5, SameNonceAkin
    <2>2. Seeks(cl, adding, c, r)
        BY <2>1, <1>9 DEF Seeks
    <2> QED  BY <2>2, <1>2, <1>8, <1>9 DEF Draft, Authentic, Anonymous
<1>11. HisRank(r, Peer[call.for])
    BY <1>8, <1>9 DEF HisRank, Anonymous
<1>12. NameIsFree(cl, ls, cl[c].userName, registered) => HisName(r, Peer[call.for])
    BY <1>2, <1>9 DEF NameIsFree, HisName, Anonymous
<1>13. Ready(cl, Return(cl, call), ls, call)
    BY <1>1, <1>2
<1> DEFINE dl == [cl EXCEPT ![call.for] = r]
<1>14. Ready(dl, Return(dl, call), ls, call) /\ dl[call.for] = r
    BY <1>10, <1>11, <1>13, ReadyFill
<1> HIDE DEF dl
<1>15. \/ CheckCandidates(dl, ls, call)
       \/ /\ NameIsFree(cl, ls, cl[c].userName, registered)
          /\ LoginDone(dl, ls, call)
       \/ FindUnconnectedName(dl, ls, call)
    BY <1>4, <1>7 DEF dl
<1>16. CASE CheckCandidates(dl, ls, call)
    BY <1>5, <1>9, <1>14, <1>16, CheckCandidatesReady
<1>17. CASE /\ NameIsFree(cl, ls, cl[c].userName, registered)
            /\ LoginDone(dl, ls, call)
    BY <1>10, <1>11, <1>12, <1>13, <1>17, DraftDone DEF dl
<1>18. CASE FindUnconnectedName(dl, ls, call)
    BY <1>11, <1>14, <1>18, FindUnconnectedNameReady
<1> QED  BY <1>15, <1>16, <1>17, <1>18

-----------------------------------------------------------------------------
(* The actions that take nothing on. *)

\* Nothing that concerns the logins has changed but for the worse: clients are
\* given up, and pendingLogins reset.
Lessened(cl, dl) ==
    \A d \in Conn :
        /\ dl[d].userName = cl[d].userName /\ dl[d].nonce = cl[d].nonce
        /\ dl[d].permissions = cl[d].permissions
        /\ dl[d].candidates = cl[d].candidates
        /\ dl[d].challenge = cl[d].challenge /\ dl[d].asked = cl[d].asked
        /\ dl[d].pending \in {Nil, cl[d].pending}
        /\ dl[d].state \in {cl[d].state, "RECENTLY_DISCONNECTED"}
        /\ Spent(cl, d) => Spent(dl, d)

LEMMA LessenedFurther ==
    ASSUME NEW cl, NEW dl, NEW el, Lessened(cl, dl), Lessened(dl, el)
    PROVE  Lessened(cl, el)
BY DEF Lessened

LEMMA LessIsEnough ==
    ASSUME NEW cl, NEW ls, NEW ad, Logins(cl, ls, ad),
           NEW dl \in [Conn -> Client], Lessened(cl, dl)
    PROVE  Logins(dl, ls, ad)
<1>1. ls \in Seq(Conn) /\ IsInjective(ls)
    BY DEF Logins, Types, KnownAreSettled
<1> QED  BY <1>1, Shrink DEF Lessened

LEMMA DisconnectLessens ==
    ASSUME NEW cl \in [Conn -> Client], NEW c \in Conn
    PROVE  /\ Disconnect(cl, c) \in [Conn -> Client] /\ Lessened(cl, Disconnect(cl, c))
           /\ Disconnect(cl, c)[c].state = "RECENTLY_DISCONNECTED"
           /\ \A d \in Conn : /\ Disconnect(cl, c)[d].pending = cl[d].pending
                              /\ Disconnect(cl, c)[d].waiting = cl[d].waiting
<1> DEFINE dl == Disconnect(cl, c)
           r == [cl[c] EXCEPT !.up = FALSE, !.state = "RECENTLY_DISCONNECTED"]
<1>1. cl[c] \in Client
    OBVIOUS
<1>2. /\ r \in Client /\ r.state = "RECENTLY_DISCONNECTED"
      /\ r.userName = cl[c].userName /\ r.nonce = cl[c].nonce
      /\ r.permissions = cl[c].permissions /\ r.candidates = cl[c].candidates
      /\ r.challenge = cl[c].challenge /\ r.asked = cl[c].asked
      /\ r.pending = cl[c].pending /\ r.waiting = cl[c].waiting
    BY <1>1 DEF Client
<1>3. dl = [cl EXCEPT ![c] = r]
    BY DEF Disconnect
<1> HIDE DEF r, dl
<1>4. dl \in [Conn -> Client] /\ dl[c] = r /\ \A d \in Conn : d # c => dl[d] = cl[d]
    BY <1>2, <1>3, UpdateType
<1> QED  BY <1>2, <1>4 DEF Lessened, Spent, dl

LEMMA ReturnLessens ==
    ASSUME NEW cl \in [Conn -> Client], NEW call \in Call
    PROVE  Return(cl, call) \in [Conn -> Client] /\ Lessened(cl, Return(cl, call))
<1> DEFINE g == call.by
           r == [cl[g] EXCEPT !.pending = Nil]
           dl == [cl EXCEPT ![g] = r]
<1>1. g \in Conn /\ cl[g] \in Client
    BY DEF Call
<1>2. /\ r \in Client /\ r.state = cl[g].state
      /\ r.userName = cl[g].userName /\ r.nonce = cl[g].nonce
      /\ r.permissions = cl[g].permissions /\ r.candidates = cl[g].candidates
      /\ r.challenge = cl[g].challenge /\ r.asked = cl[g].asked
      /\ r.pending = Nil /\ r.waiting = cl[g].waiting
    BY <1>1 DEF Client
<1>3. [cl EXCEPT ![g].pending = Nil] = dl
    BY <1>1
<1> HIDE DEF r, dl
<1>4. dl \in [Conn -> Client] /\ dl[g] = r /\ \A d \in Conn : d # g => dl[d] = cl[d]
    BY <1>1, <1>2, UpdateType DEF dl
<1>5. Lessened(cl, dl) /\ Lessened(cl, cl)
    BY <1>2, <1>4 DEF Lessened, Spent
<1>6. Return(cl, call) = dl \/ Return(cl, call) = cl
    BY <1>3 DEF Return
<1> QED  BY <1>4, <1>5, <1>6

\* A packet is taken from the stream.
LEMMA ReceivedLessens ==
    ASSUME IInv, NEW g \in Conn, HasPacket(g)
    PROVE  /\ Received(g) \in [Conn -> Client] /\ Lessened(client, Received(g))
           /\ ~Received(g)[g].waiting
           /\ \A d \in Conn :
                /\ Received(g)[d].userName = client[d].userName
                /\ Received(g)[d].nonce = client[d].nonce
                /\ Received(g)[d].permissions = client[d].permissions
                /\ Received(g)[d].ver = client[d].ver
                /\ Received(g)[d].candidates = client[d].candidates
                /\ Received(g)[d].challenge = client[d].challenge
                /\ Received(g)[d].asked = client[d].asked
                /\ Received(g)[d].pending = client[d].pending
                /\ Received(g)[d].state = client[d].state
                /\ d # g => Received(g)[d] = client[d]
<1> DEFINE n == IF client[g].up THEN client[g].late ELSE client[g].late + 1
           r == [client[g] EXCEPT !.waiting = FALSE, !.late = n]
<1>1. client \in [Conn -> Client] /\ client[g] \in Client
    BY DEF IInv, ClientsOK
<1>2. n \in 0..MaxLate
    <2>1. client[g].late \in 0..MaxLate /\ (~client[g].up => client[g].late < MaxLate)
        BY <1>1 DEF HasPacket, Client
    <2> QED  BY <2>1, BoundAssumption
<1>3. Received(g) = [client EXCEPT ![g] = r]
    BY <1>1 DEF Received
<1> HIDE DEF n
<1>4. /\ r \in Client /\ ~r.waiting
      /\ r.state = client[g].state /\ r.ver = client[g].ver
      /\ r.userName = client[g].userName /\ r.nonce = client[g].nonce
      /\ r.permissions = client[g].permissions /\ r.candidates = client[g].candidates
      /\ r.challenge = client[g].challenge /\ r.asked = client[g].asked
      /\ r.pending = client[g].pending
    BY <1>1, <1>2 DEF Client
<1> DEFINE rl == Received(g)
<1> HIDE DEF r
<1>5. rl \in [Conn -> Client] /\ rl[g] = r /\ \A d \in Conn : d # g => rl[d] = client[d]
    BY <1>1, <1>3, <1>4, UpdateType
<1> HIDE DEF rl
<1>6. /\ rl \in [Conn -> Client] /\ Lessened(client, rl) /\ ~rl[g].waiting
      /\ \A d \in Conn :
            /\ rl[d].userName = client[d].userName /\ rl[d].nonce = client[d].nonce
            /\ rl[d].permissions = client[d].permissions /\ rl[d].ver = client[d].ver
            /\ rl[d].candidates = client[d].candidates
            /\ rl[d].challenge = client[d].challenge /\ rl[d].asked = client[d].asked
            /\ rl[d].pending = client[d].pending /\ rl[d].state = client[d].state
            /\ d # g => rl[d] = client[d]
    BY <1>4, <1>5 DEF Lessened, Spent
<1> QED  BY <1>6 DEF rl

LEMMA QuietStep ==
    ASSUME LInv, client' \in [Conn -> Client], Lessened(client, client'), adding' = adding,
           list' = list \/ \E d \in Conn : list' = RemoveClient(list, d)
    PROVE  LInv'
<1>1. Logins(client', list, adding)
    BY LessIsEnough DEF LInv
<1>2. Logins(client', list', adding)
    BY <1>1, RemovalShrinks
<1> QED  BY <1>2 DEF LInv

\* Nothing but the connection, the goroutine and the ping timer.
LEMMA SameLogins ==
    ASSUME NEW dl,
           \A d \in Conn :
              /\ dl[d].userName = client[d].userName /\ dl[d].nonce = client[d].nonce
              /\ dl[d].permissions = client[d].permissions
              /\ dl[d].candidates = client[d].candidates
              /\ dl[d].challenge = client[d].challenge /\ dl[d].asked = client[d].asked
              /\ dl[d].pending = client[d].pending /\ dl[d].state = client[d].state
              /\ dl[d].waiting = client[d].waiting
    PROVE  Lessened(client, dl)
BY DEF Lessened, Spent

LEMMA QuietPackets ==
    ASSUME IInv, LInv, IInv', NEW g \in Conn,
           Pong(g) \/ CriticalError(g) \/ DisconnectCmd(g) \/ \E t \in Conn : Kick(g, t)
    PROVE  LInv'
<1>1. HasPacket(g) /\ adding' = adding
    BY DEF Pong, CriticalError, DisconnectCmd, Kick, Handles
<1>2. /\ Received(g) \in [Conn -> Client] /\ Lessened(client, Received(g))
      /\ \A t \in Conn : Lessened(client, Disconnect(Received(g), t))
    BY <1>1, ReceivedLessens, DisconnectLessens, LessenedFurther
<1>3. Lessened(client, client')
    BY <1>2 DEF Pong, CriticalError, DisconnectCmd, Kick
<1>4. list' = list \/ \E d \in Conn : list' = RemoveClient(list, d)
    BY DEF Pong, CriticalError, DisconnectCmd, Kick
<1>5. client' \in [Conn -> Client]
    BY DEF IInv, ClientsOK
<1> QED  BY <1>1, <1>3, <1>4, <1>5, QuietStep

LEMMA QuietOthers ==
    ASSUME IInv, LInv, IInv', NEW g \in Conn,
           \/ Accept(g) \/ Timeout(g) \/ PeerCloses(g) \/ Forget(g) \/ WeeklyCleanup(g)
    PROVE  LInv'
<1>1. client \in [Conn -> Client] /\ client' \in [Conn -> Client] /\ client[g] \in Client
    BY DEF IInv, ClientsOK
<1>2. adding' = adding /\ (list' = list \/ \E d \in Conn : list' = RemoveClient(list, d))
    BY DEF Accept, Timeout, PeerCloses, Forget, WeeklyCleanup
<1>3. CASE Timeout(g) \/ WeeklyCleanup(g)
    BY <1>1, <1>2, <1>3, DisconnectLessens, QuietStep DEF Timeout, WeeklyCleanup
<1>4. CASE Accept(g) \/ PeerCloses(g) \/ Forget(g)
    <2>1. \A d \in Conn :
              /\ client'[d].userName = client[d].userName /\ client'[d].nonce = client[d].nonce
              /\ client'[d].permissions = client[d].permissions
              /\ client'[d].candidates = client[d].candidates
              /\ client'[d].challenge = client[d].challenge
              /\ client'[d].asked = client[d].asked
              /\ client'[d].pending = client[d].pending /\ client'[d].state = client[d].state
              /\ client'[d].waiting = client[d].waiting
        BY <1>1, <1>4 DEF Accept, PeerCloses, Forget, Client
    <2> QED  BY <1>1, <1>2, <2>1, SameLogins, QuietStep
<1> QED  BY <1>3, <1>4

-----------------------------------------------------------------------------
(* The packets that ask for something. *)

\* A record a client that is new to the lobby may be given.
Plain(g, r) ==
    /\ r \in Client /\ r.pending = Nil /\ r.state # "CONNECTED"
    /\ Honest(r, Peer[g])
    /\ r.candidates # Nil => r.candidates = client[g].candidates /\ r.nonce = client[g].nonce

Fill(g, r) == [Received(g) EXCEPT ![g] = r]

\* Whoever has not asked yet, or still owes a password, is new to the lobby.
LEMMA NewcomersAreFree ==
    ASSUME LInv, NEW g \in Conn, ~client[g].asked \/ client[g].challenge # Nil
    PROVE  /\ Free(client, list, adding, g) /\ client[g].pending = Nil
           /\ client[g].state # "CONNECTED" /\ Honest(client[g], Peer[g])
<1>1. ~Known(client, list, g)
    BY DEF LInv, Logins, KnownAreSettled, Settled
<1>2. ~HasLogin(client, adding, g)
    BY DEF LInv, Logins, LoginsAreAsked
<1> QED  BY <1>1, <1>2 DEF Free, Known, LInv, Logins, AllHonest

LEMMA FillPlain ==
    ASSUME IInv, LInv, NEW g \in Conn, HasPacket(g), Free(client, list, adding, g),
           NEW r, Plain(g, r)
    PROVE  /\ Logins(Fill(g, r), list, adding) /\ Free(Fill(g, r), list, adding, g)
           /\ Fill(g, r) \in [Conn -> Client] /\ Fill(g, r)[g] = r
           /\ \A d \in Conn : d # g => Fill(g, r)[d] = client[d]
<1> DEFINE rl == Received(g)
<1>1. /\ rl \in [Conn -> Client] /\ Lessened(client, rl)
      /\ \A d \in Conn : /\ rl[d].candidates = client[d].candidates
                         /\ rl[d].pending = client[d].pending
                         /\ rl[d].state = client[d].state
                         /\ rl[d].nonce = client[d].nonce
                         /\ d # g => rl[d] = client[d]
    BY ReceivedLessens
<1> HIDE DEF rl
<1>2. Logins(rl, list, adding)
    BY <1>1, LessIsEnough DEF LInv
<1>3. Free(rl, list, adding, g)
    BY <1>1 DEF Free, Known, HasLogin, Candidate
<1>4. Seeks(rl, adding, g, r)
    <2> SUFFICES ASSUME r.candidates # Nil, NEW d \in ToSet(r.candidates)
                 PROVE  d # g /\ Settled(rl, adding, d) /\ Akin(r, Peer[g], rl[d], Peer[d])
        BY DEF Seeks
    <2>1. r.candidates = client[g].candidates /\ r.nonce = client[g].nonce
        BY DEF Plain
    <2>2. d \in Conn
        <3>1. client[g].candidates \in Seq(Conn)
            BY <2>1, FieldTypes DEF IInv, ClientsOK
        <3> QED  BY <2>1, <3>1, ElementsOfSeq
    <2>3. Candidate(rl, g, d) /\ rl[g].nonce = r.nonce
        BY <1>1, <2>1, <2>2 DEF Candidate
    <2>4. Known(rl, list, d)
        BY <2>2, <2>3 DEF Known
    <2>5. d # g /\ Settled(rl, adding, d)
        BY <1>2, <1>3, <2>2, <2>4 DEF Free, Logins, KnownAreSettled
    <2>6. Akin(rl[g], Peer[g], rl[d], Peer[d])
        BY <1>2, <2>2, <2>3 DEF Logins, OwnKind
    <2> QED  BY <2>3, <2>5, <2>6 DEF Akin, Anonymous
<1>5. Fits(rl, adding, g, r)
    BY <1>4 DEF Plain, Fits
<1> DEFINE dl == [rl EXCEPT ![g] = r]
<1>6. Logins(dl, list, adding) /\ Free(dl, list, adding, g)
    BY <1>2, <1>3, <1>5, FillFree
<1>7. dl \in [Conn -> Client] /\ dl[g] = r /\ \A d \in Conn : d # g => dl[d] = client[d]
    BY <1>1, UpdateType DEF Plain
<1> HIDE DEF dl
<1>8. Fill(g, r) = dl
    BY DEF Fill, dl, rl
<1> QED  BY <1>6, <1>7, <1>8

LEMMA PlainStays ==
    ASSUME IInv, LInv, NEW g \in Conn, HasPacket(g), Free(client, list, adding, g),
           NEW r, Plain(g, r), UNCHANGED <<list, adding>>,
           client' = Fill(g, r) \/ client' = Disconnect(Fill(g, r), g)
    PROVE  LInv'
<1>1. Logins(Fill(g, r), list, adding) /\ Fill(g, r) \in [Conn -> Client]
    BY FillPlain
<1>2. Logins(Disconnect(Fill(g, r), g), list, adding)
    BY <1>1, DisconnectLessens, LessIsEnough
<1> QED  BY <1>1, <1>2 DEF LInv

LEMMA PlainReady ==
    ASSUME IInv, LInv, NEW g \in Conn, HasPacket(g), Free(client, list, adding, g),
           NEW r, Plain(g, r), r.asked, r.state = "HANDSHAKE" => r.challenge = Nil
    PROVE  Ready(Fill(g, r), Fill(g, r), list, [by |-> g, for |-> g, clears |-> FALSE])
<1>1. PICK call : call = [by |-> g, for |-> g, clears |-> FALSE]
    OBVIOUS
<1>2. call \in Call /\ call.by = g /\ call.for = g /\ ~call.clears
    BY <1>1 DEF Call
<1>3. \A x \in adding : x.by # g
    BY DEF HasPacket, Selecting, Idle
<1>4. /\ Logins(Fill(g, r), list, adding) /\ Free(Fill(g, r), list, adding, g)
      /\ Fill(g, r) \in [Conn -> Client] /\ Fill(g, r)[g] = r
    BY FillPlain
<1>5. Ready(Fill(g, r), Fill(g, r), list, call)
    BY <1>2, <1>3, <1>4 DEF Ready
<1> QED  BY <1>1, <1>5

LEMMA PlainSearches ==
    ASSUME IInv, LInv, NEW g \in Conn, HasPacket(g), Free(client, list, adding, g),
           NEW r, Plain(g, r), r.asked, r.state = "HANDSHAKE" => r.challenge = Nil,
           HisRank(r, Peer[g]), NEW registered \in BOOLEAN,
           registered => HisName(r, Peer[g]),
           FindReplaceCandidates(Fill(g, r), list, g, registered)
    PROVE  LInv'
<1>1. Fill(g, r)[g] = r
    BY FillPlain
<1>2. Ready(Fill(g, r), Fill(g, r), list, [by |-> g, for |-> g, clears |-> FALSE])
    BY PlainReady
<1>3. PICK dl : dl = Fill(g, r)
    OBVIOUS
<1>4. /\ Ready(dl, dl, list, [by |-> g, for |-> g, clears |-> FALSE])
      /\ HisRank(dl[g], Peer[g]) /\ (registered => HisName(dl[g], Peer[g]))
      /\ FindReplaceCandidates(dl, list, g, registered)
    BY <1>1, <1>2, <1>3
<1>5. Logins(client', list', adding')
    BY ONLY <1>4, g \in Conn, registered \in BOOLEAN, FindReplaceCandidatesReady
<1> QED  BY <1>5 DEF LInv

\* What the nonce of a packet says is true.
LEMMA NonceOfProves ==
    ASSUME NEW g \in Conn, NEW r \in Request, MaySend(g, r)
    PROVE  \/ NonceOf(g, r) = <<"none">> /\ r.ver < BUILD20 /\ ~r.reg
           \/ ProvedBy(NonceOf(g, r), Peer[g]) /\ NonceOf(g, r) # <<"none">>
<1>1. r.name \in Name /\ r.owns \in Account \cup {Nil} /\ Nil \notin Account
    BY RequestAssumption, AccountAssumption
<1>2. <<"own", Peer[g]>> # <<"none">> /\ <<"password", r.name>> # <<"none">>
    OBVIOUS
<1>3. CASE r.ver < BUILD20
    BY <1>1, <1>2, <1>3 DEF NonceOf, ProvedBy, Knows
<1>4. CASE ~(r.ver < BUILD20) /\ r.owns = Nil
    BY <1>2, <1>4 DEF NonceOf, ProvedBy
<1>5. CASE ~(r.ver < BUILD20) /\ r.owns # Nil
    <2>1. r.owns \in Account /\ Owner[r.owns] = Peer[g]
        BY <1>1, <1>5 DEF MaySend, Knows
    <2>2. NonceOf(g, r) = Downgraded(r.owns, r.name)
        BY <1>5 DEF NonceOf
    <2> QED  BY <1>1, <2>1, <2>2, DowngradedProves
<1> QED  BY <1>3, <1>4, <1>5

\* g, who is new to the lobby, is given a record, and given up, left waiting for a
\* password, or sent to look for the connections he had before.
Asks(g) ==
    /\ HasPacket(g) /\ (~client[g].asked \/ client[g].challenge # Nil)
    /\ \E r \in Client :
        /\ Plain(g, r)
        /\ \/ /\ client' = Fill(g, r) \/ client' = Disconnect(Fill(g, r), g)
              /\ UNCHANGED <<list, adding>>
           \/ /\ r.asked /\ (r.state = "HANDSHAKE" => r.challenge = Nil)
              /\ HisRank(r, Peer[g])
              /\ \E registered \in BOOLEAN :
                    /\ registered => HisName(r, Peer[g])
                    /\ FindReplaceCandidates(Fill(g, r), list, g, registered)

LEMMA AskingLogins ==
    ASSUME IInv, LInv, NEW g \in Conn, Asks(g)
    PROVE  LInv'
<1>1. Free(client, list, adding, g) /\ HasPacket(g)
    BY NewcomersAreFree DEF Asks
<1>2. PICK r \in Client :
        /\ Plain(g, r)
        /\ \/ /\ client' = Fill(g, r) \/ client' = Disconnect(Fill(g, r), g)
              /\ UNCHANGED <<list, adding>>
           \/ /\ r.asked /\ (r.state = "HANDSHAKE" => r.challenge = Nil)
              /\ HisRank(r, Peer[g])
              /\ \E registered \in BOOLEAN :
                    /\ registered => HisName(r, Peer[g])
                    /\ FindReplaceCandidates(Fill(g, r), list, g, registered)
    BY DEF Asks
<1> QED  BY <1>1, <1>2, PlainStays, PlainSearches

LEMMA LoginAsks ==
    ASSUME IInv, LInv, NEW g \in Conn, NEW r \in Request, Login(g, r)
    PROVE  Asks(g)
<1> DEFINE rl == Received(g)
           nonce == IF r.reg \/ r.ver >= BUILD20 THEN NonceOf(g, r) ELSE rl[g].nonce
           a == [rl[g] EXCEPT !.asked = TRUE, !.ver = r.ver, !.userName = r.name,
                              !.nonce = nonce]
           l == [a EXCEPT !.permissions = UserPerm[r.name]]
           x == [a EXCEPT !.challenge = r.name]
           p == Peer[g]
<1>1. HasPacket(g) /\ ~client[g].asked /\ MaySend(g, r)
    BY DEF Login, Handles, MaySend
<1>2. /\ rl \in [Conn -> Client] /\ rl[g] \in Client
      /\ rl[g].permissions = client[g].permissions /\ rl[g].candidates = client[g].candidates
      /\ rl[g].challenge = client[g].challenge /\ rl[g].pending = client[g].pending
      /\ rl[g].state = client[g].state /\ rl[g].nonce = client[g].nonce
    BY <1>1, ReceivedLessens
<1>3. /\ Free(client, list, adding, g) /\ client[g].pending = Nil
      /\ client[g].state # "CONNECTED"
      /\ client[g].permissions = "UNREGISTERED" /\ client[g].candidates = Nil
      /\ (client[g].state = "HANDSHAKE" => client[g].challenge = Nil)
      /\ Authentic(client[g], p)
    BY <1>1, NewcomersAreFree DEF Honest
<1>4. /\ r.ver \in {BUILD19, BUILD20, BUILD21} /\ r.name \in Name /\ r.reg \in BOOLEAN
    BY RequestAssumption
<1>5. /\ nonce \in Nonce /\ (nonce = <<"none">> \/ ProvedBy(nonce, p))
      /\ (r.reg => ProvedBy(nonce, p) /\ nonce # <<"none">>)
    <2>1. CASE r.reg \/ r.ver >= BUILD20
        BY <1>1, <1>4, <2>1, NonceOfProves, NonceOfType
           DEF BUILD19, BUILD20, BUILD21
    <2>2. CASE ~(r.reg \/ r.ver >= BUILD20)
        BY <1>2, <1>3, <2>2, FieldTypes DEF Authentic, Anonymous
    <2> QED  BY <2>1, <2>2
<1>6. LET as == [rl EXCEPT
            ![g].asked = TRUE, ![g].ver = r.ver, ![g].userName = r.name,
            ![g].nonce = nonce]
      IN  \/ client' = Disconnect(as, g) /\ UNCHANGED <<list, adding>>
          \/ /\ r.name \in Account
             /\ client' = [as EXCEPT ![g].challenge = r.name]
             /\ UNCHANGED <<list, adding>>
          \/ /\ Knows(g, r.name) /\ r.reg
             /\ FindReplaceCandidates([as EXCEPT ![g].permissions = UserPerm[r.name]],
                                      list, g, TRUE)
          \/ FindReplaceCandidates(as, list, g, FALSE)
    BY DEF Login
<1> HIDE DEF nonce, rl, p
<1>7. [rl EXCEPT ![g].asked = TRUE, ![g].ver = r.ver, ![g].userName = r.name,
                 ![g].nonce = nonce] = [rl EXCEPT ![g] = a]
    BY <1>2
<1>8. /\ a \in Client /\ a.pending = Nil /\ a.state = client[g].state /\ a.asked
      /\ a.permissions = "UNREGISTERED" /\ a.candidates = Nil /\ a.nonce = nonce
      /\ a.challenge = client[g].challenge /\ a.userName = r.name
    BY <1>2, <1>3, <1>4, <1>5 DEF Client
<1> HIDE DEF a
<1>9. /\ [[rl EXCEPT ![g] = a] EXCEPT ![g].permissions = UserPerm[r.name]] = [rl EXCEPT ![g] = l]
      /\ [[rl EXCEPT ![g] = a] EXCEPT ![g].challenge = r.name] = [rl EXCEPT ![g] = x]
    <2> DEFINE al == [rl EXCEPT ![g] = a]
    <2>1. al \in [Conn -> Client] /\ al[g] = a
        BY <1>2, <1>8, UpdateType
    <2>2. /\ [al EXCEPT ![g].permissions = UserPerm[r.name]] = [al EXCEPT ![g] = l]
          /\ [al EXCEPT ![g].challenge = r.name] = [al EXCEPT ![g] = x]
        <3> HIDE DEF al
        <3> QED  BY <2>1
    <2>3. [al EXCEPT ![g] = l] = [rl EXCEPT ![g] = l] /\ [al EXCEPT ![g] = x] = [rl EXCEPT ![g] = x]
        <3> HIDE DEF l, x
        <3> QED  BY <1>2
    <2> QED  BY <2>2, <2>3
<1>10. \/ client' = Disconnect(Fill(g, a), g) /\ UNCHANGED <<list, adding>>
       \/ /\ r.name \in Account
          /\ client' = Fill(g, x) /\ UNCHANGED <<list, adding>>
       \/ Knows(g, r.name) /\ r.reg /\ FindReplaceCandidates(Fill(g, l), list, g, TRUE)
       \/ FindReplaceCandidates(Fill(g, a), list, g, FALSE)
    <2> HIDE DEF l, x
    <2> QED  BY <1>6, <1>7, <1>9 DEF Fill, rl
<1>11. Plain(g, a) /\ HisRank(a, p)
    BY <1>3, <1>5, <1>8 DEF Plain, Honest, HisRank, Authentic, Anonymous, p
<1>12. CASE client' = Disconnect(Fill(g, a), g) /\ UNCHANGED <<list, adding>>
    BY <1>1, <1>8, <1>11, <1>12 DEF Asks
<1>13. CASE r.name \in Account /\ client' = Fill(g, x) /\ UNCHANGED <<list, adding>>
    <2>1. /\ x \in Client /\ x.pending = Nil /\ x.state = a.state /\ x.asked
          /\ x.permissions = "UNREGISTERED" /\ x.candidates = Nil /\ x.nonce = nonce
          /\ x.challenge = r.name /\ x.userName = r.name
        BY <1>8, <1>13 DEF Client
    <2> HIDE DEF x
    <2>2. Plain(g, x)
        BY <2>1, <1>3, <1>5, <1>8 DEF Plain, Honest, HisRank, Authentic, Anonymous, p
    <2> QED  BY <2>1, <2>2, <1>1, <1>13 DEF Asks
<1>14. CASE Knows(g, r.name) /\ r.reg /\ FindReplaceCandidates(Fill(g, l), list, g, TRUE)
    <2>1. UserPerm[r.name] \in Perm
        BY <1>14, AccountAssumption DEF Knows
    <2>2. /\ l \in Client /\ l.pending = Nil /\ l.state = a.state /\ l.asked
          /\ l.permissions = UserPerm[r.name] /\ l.candidates = Nil /\ l.nonce = nonce
          /\ l.challenge = a.challenge /\ l.userName = r.name
        BY <2>1, <1>8 DEF Client
    <2> HIDE DEF l
    <2>3. HisRank(l, p) /\ HisName(l, p)
        BY <2>2, <1>5, <1>14 DEF HisRank, HisName, Owns, Anonymous, Knows, p
    <2>4. Plain(g, l)
        BY <2>2, <2>3, <1>3, <1>5, <1>8 DEF Plain, Honest, Authentic, Anonymous, p
    <2>5. l.state = "HANDSHAKE" => l.challenge = Nil
        BY <2>2, <1>3, <1>8
    <2> QED  BY <2>2, <2>3, <2>4, <2>5, <1>1, <1>14 DEF Asks, p
<1>15. CASE FindReplaceCandidates(Fill(g, a), list, g, FALSE)
    <2>1. a.state = "HANDSHAKE" => a.challenge = Nil
        BY <1>3, <1>8
    <2> QED  BY <2>1, <1>1, <1>8, <1>11, <1>15 DEF Asks, p
<1> QED  BY <1>10, <1>12, <1>13, <1>14, <1>15

LEMMA CheckPwdAsks ==
    ASSUME IInv, LInv, NEW g \in Conn, NEW n \in Name, CheckPwd(g, n)
    PROVE  Asks(g)
<1> DEFINE rl == Received(g)
           a == [rl[g] EXCEPT !.ver = BUILD21, !.userName = n]
           x == [a EXCEPT !.challenge = n, !.state = "CHECK_PWD"]
<1>1. HasPacket(g) /\ ~client[g].asked /\ UNCHANGED <<list, adding>>
    BY DEF CheckPwd, Handles
<1>2. /\ rl \in [Conn -> Client] /\ rl[g] \in Client
      /\ rl[g].permissions = client[g].permissions /\ rl[g].candidates = client[g].candidates
      /\ rl[g].challenge = client[g].challenge /\ rl[g].pending = client[g].pending
      /\ rl[g].state = client[g].state /\ rl[g].nonce = client[g].nonce
      /\ rl[g].asked = client[g].asked
    BY <1>1, ReceivedLessens
<1>3. /\ Free(client, list, adding, g) /\ client[g].pending = Nil
      /\ client[g].state # "CONNECTED"
      /\ client[g].permissions = "UNREGISTERED" /\ client[g].candidates = Nil
      /\ (client[g].state = "HANDSHAKE" => client[g].challenge = Nil)
      /\ Authentic(client[g], Peer[g])
    BY <1>1, NewcomersAreFree DEF Honest
<1>4. LET ch == [rl EXCEPT ![g].ver = BUILD21, ![g].userName = n]
      IN  \/ n \in Account /\ client' = [ch EXCEPT ![g].challenge = n, ![g].state = "CHECK_PWD"]
          \/ client' = Disconnect(ch, g)
    BY DEF CheckPwd
<1> HIDE DEF rl
<1>5. [rl EXCEPT ![g].ver = BUILD21, ![g].userName = n] = [rl EXCEPT ![g] = a]
    BY <1>2
<1>6. /\ a \in Client /\ a.pending = Nil /\ a.state = client[g].state /\ ~a.asked
      /\ a.permissions = "UNREGISTERED" /\ a.candidates = Nil /\ a.nonce = client[g].nonce
      /\ a.challenge = client[g].challenge
    BY <1>1, <1>2, <1>3 DEF Client
<1> HIDE DEF a
<1>7. [[rl EXCEPT ![g] = a] EXCEPT ![g].challenge = n, ![g].state = "CHECK_PWD"]
        = [rl EXCEPT ![g] = x]
    <2> DEFINE al == [rl EXCEPT ![g] = a]
    <2>1. al \in [Conn -> Client] /\ al[g] = a
        BY <1>2, <1>6, UpdateType
    <2>2. [al EXCEPT ![g].challenge = n, ![g].state = "CHECK_PWD"] = [al EXCEPT ![g] = x]
        <3> HIDE DEF al
        <3> QED  BY <2>1
    <2>3. [al EXCEPT ![g] = x] = [rl EXCEPT ![g] = x]
        <3> HIDE DEF x
        <3> QED  BY <1>2
    <2> QED  BY <2>2, <2>3
<1>8. \/ n \in Account /\ client' = Fill(g, x)
      \/ client' = Disconnect(Fill(g, a), g)
    <2> HIDE DEF x
    <2> QED  BY <1>4, <1>5, <1>7 DEF Fill, rl
<1>9. Plain(g, a)
    BY <1>3, <1>6 DEF Plain, Honest, HisRank, Authentic, Anonymous
<1>10. CASE client' = Disconnect(Fill(g, a), g)
    BY <1>1, <1>6, <1>9, <1>10 DEF Asks
<1>11. CASE n \in Account /\ client' = Fill(g, x)
    <2>1. /\ x \in Client /\ x.pending = Nil /\ x.state = "CHECK_PWD" /\ ~x.asked
          /\ x.permissions = "UNREGISTERED" /\ x.candidates = Nil /\ x.nonce = a.nonce
        BY <1>6, <1>11 DEF Client
    <2> HIDE DEF x
    <2>2. Plain(g, x)
        BY <2>1, <1>3, <1>6 DEF Plain, Honest, HisRank, Authentic, Anonymous
    <2> QED  BY <2>1, <2>2, <1>1, <1>11 DEF Asks
<1> QED  BY <1>8, <1>10, <1>11

LEMMA PwdChallengeAsks ==
    ASSUME IInv, LInv, NEW g \in Conn, PwdChallenge(g)
    PROVE  Asks(g)
<1> DEFINE rl == Received(g)
           account == client[g].challenge
           perm == UserPerm[account]
           nonce == Downgraded(account, account)
           a == [rl[g] EXCEPT !.challenge = Nil]
           x == [a EXCEPT !.permissions = perm, !.nonce = nonce]
           h == [a EXCEPT !.state = "HANDSHAKE"]
<1>1. HasPacket(g) /\ account # Nil
    BY DEF PwdChallenge, Handles
<1>0. HasPacket(g) /\ client[g].challenge # Nil
    BY <1>1
<1>2. /\ rl \in [Conn -> Client] /\ rl[g] \in Client
      /\ rl[g].permissions = client[g].permissions /\ rl[g].candidates = client[g].candidates
      /\ rl[g].pending = client[g].pending /\ rl[g].userName = client[g].userName
      /\ rl[g].state = client[g].state /\ rl[g].nonce = client[g].nonce
      /\ rl[g].asked = client[g].asked
    BY <1>1, ReceivedLessens
<1>3. /\ Free(client, list, adding, g) /\ client[g].pending = Nil
      /\ client[g].state # "CONNECTED" /\ Honest(client[g], Peer[g])
    BY <1>1, NewcomersAreFree
<1>4. account \in Account /\ account \in Name
    BY <1>1, FieldTypes, AccountAssumption DEF IInv, ClientsOK
<1>5. /\ perm \in Perm /\ nonce \in Nonce
      /\ ProvedBy(nonce, Owner[account]) /\ nonce # <<"none">>
    BY <1>4, AccountAssumption, DowngradedType, DowngradedProves
<1>6. LET an == [rl EXCEPT ![g].challenge = Nil]
      IN  \/ /\ Knows(g, account) /\ client[g].state = "HANDSHAKE"
             /\ FindReplaceCandidates(
                   [an EXCEPT ![g].permissions = perm, ![g].nonce = nonce], list, g, TRUE)
          \/ /\ client[g].state = "CHECK_PWD"
             /\ client' = [an EXCEPT ![g].state = "HANDSHAKE"]
             /\ UNCHANGED <<list, adding>>
          \/ client' = Disconnect(an, g) /\ UNCHANGED <<list, adding>>
    BY DEF PwdChallenge
<1>7. /\ client[g].state = "HANDSHAKE" => client[g].userName = account /\ client[g].candidates = Nil
      /\ ~client[g].asked => client[g].state # "HANDSHAKE"
    BY <1>1, <1>3 DEF Honest
<1> HIDE DEF rl, account, perm, nonce
<1>8. [rl EXCEPT ![g].challenge = Nil] = [rl EXCEPT ![g] = a]
    BY <1>2
<1>9. /\ a \in Client /\ a.pending = Nil /\ a.state = client[g].state
      /\ a.asked = client[g].asked /\ a.permissions = client[g].permissions
      /\ a.candidates = client[g].candidates /\ a.nonce = client[g].nonce
      /\ a.challenge = Nil /\ a.userName = client[g].userName
    BY <1>2, <1>3 DEF Client
<1> HIDE DEF a
<1>10. /\ [[rl EXCEPT ![g] = a] EXCEPT ![g].permissions = perm, ![g].nonce = nonce]
            = [rl EXCEPT ![g] = x]
       /\ [[rl EXCEPT ![g] = a] EXCEPT ![g].state = "HANDSHAKE"] = [rl EXCEPT ![g] = h]
    <2> DEFINE al == [rl EXCEPT ![g] = a]
    <2>1. al \in [Conn -> Client] /\ al[g] = a
        BY <1>2, <1>9, UpdateType
    <2>2. /\ [al EXCEPT ![g].permissions = perm, ![g].nonce = nonce] = [al EXCEPT ![g] = x]
          /\ [al EXCEPT ![g].state = "HANDSHAKE"] = [al EXCEPT ![g] = h]
        <3> HIDE DEF al
        <3> QED  BY <2>1
    <2>3. [al EXCEPT ![g] = x] = [rl EXCEPT ![g] = x] /\ [al EXCEPT ![g] = h] = [rl EXCEPT ![g] = h]
        <3> HIDE DEF x, h
        <3> QED  BY <1>2
    <2> QED  BY <2>2, <2>3
<1>11. \/ /\ Knows(g, account) /\ client[g].state = "HANDSHAKE"
          /\ FindReplaceCandidates(Fill(g, x), list, g, TRUE)
       \/ /\ client[g].state = "CHECK_PWD"
          /\ client' = Fill(g, h) /\ UNCHANGED <<list, adding>>
       \/ client' = Disconnect(Fill(g, a), g) /\ UNCHANGED <<list, adding>>
    <2> HIDE DEF x, h
    <2> QED  BY <1>6, <1>8, <1>10 DEF Fill, rl
<1>12. CASE client' = Disconnect(Fill(g, a), g) /\ UNCHANGED <<list, adding>>
    <2>1. Plain(g, a)
        BY <1>3, <1>9 DEF Plain, Honest, HisRank, Authentic, Anonymous
    <2> QED  BY <2>1, <1>0, <1>9, <1>12 DEF Asks
<1>13. CASE /\ client[g].state = "CHECK_PWD"
            /\ client' = Fill(g, h) /\ UNCHANGED <<list, adding>>
    <2>1. /\ h \in Client /\ h.pending = Nil /\ h.state = "HANDSHAKE"
          /\ h.asked = client[g].asked /\ h.permissions = client[g].permissions
          /\ h.candidates = client[g].candidates /\ h.nonce = client[g].nonce
          /\ h.challenge = Nil /\ h.userName = client[g].userName
        BY <1>9 DEF Client
    <2> HIDE DEF h
    <2>2. Plain(g, h)
        BY <2>1, <1>3, <1>13 DEF Plain, Honest, HisRank, Authentic, Anonymous
    <2> QED  BY <2>1, <2>2, <1>0, <1>13 DEF Asks
<1>14. CASE /\ Knows(g, account) /\ client[g].state = "HANDSHAKE"
            /\ FindReplaceCandidates(Fill(g, x), list, g, TRUE)
    <2>1. /\ x \in Client /\ x.pending = Nil /\ x.state = "HANDSHAKE" /\ x.asked
          /\ x.permissions = perm /\ x.candidates = Nil /\ x.nonce = nonce
          /\ x.challenge = Nil /\ x.userName = account
        BY <1>5, <1>7, <1>9, <1>14, FieldTypes DEF Client
    <2> HIDE DEF x
    <2>2. HisRank(x, Peer[g]) /\ HisName(x, Peer[g])
        BY <2>1, <1>4, <1>5, <1>14 DEF HisRank, HisName, Owns, Anonymous, Knows, perm
    <2>3. Plain(g, x)
        BY <2>1, <2>2, <1>5, <1>14 DEF Plain, Honest, Authentic, Knows
    <2> QED  BY <2>1, <2>2, <2>3, <1>0, <1>14 DEF Asks
<1> QED  BY <1>11, <1>12, <1>13, <1>14

\* g continues the session `old': he takes it over, or waits for it.
Resumes(g) ==
    /\ HasPacket(g) /\ ~client[g].asked
    /\ \E old \in Conn, i \in Client :
        /\ Listed(old) /\ Plain(g, i)
        /\ i.asked /\ i.state = "HANDSHAKE" /\ i.challenge = Nil /\ i.candidates = Nil
        /\ Akin(i, Peer[g], client[old], Peer[old])
        /\ HisRank(i, Peer[g]) /\ HisName(i, Peer[g])
        /\ \/ EnterWindow(Fill(g, i), RemoveClient(list, old),
                          [by |-> g, for |-> g, clears |-> FALSE])
           \/ /\ client' = [RestartPingLoop(Fill(g, i), old) EXCEPT ![old].pending = g]
              /\ UNCHANGED <<list, adding>>

LEMMA ReloginCases ==
    ASSUME IInv, LInv, NEW g \in Conn, NEW r \in Request, Relogin(g, r)
    PROVE  Asks(g) \/ Resumes(g)
<1> DEFINE rl == Received(g)
           old == HasClient(client, list, r.name)
           a == [rl[g] EXCEPT !.asked = TRUE]
           i == [a EXCEPT !.ver = client[old].ver, !.permissions = client[old].permissions,
                          !.userName = client[old].userName, !.nonce = client[old].nonce]
           p == Peer[g]
<1>1. HasPacket(g) /\ ~client[g].asked /\ MaySend(g, r)
    <2>1. Handles(g) /\ MaySend(g, r)
        BY Zenon DEF Relogin
    <2> QED  BY <2>1 DEF Handles, MaySend
<1>2. /\ rl \in [Conn -> Client] /\ rl[g] \in Client
      /\ rl[g].permissions = client[g].permissions /\ rl[g].candidates = client[g].candidates
      /\ rl[g].challenge = client[g].challenge /\ rl[g].pending = client[g].pending
      /\ rl[g].state = client[g].state /\ rl[g].nonce = client[g].nonce
    BY <1>1, ReceivedLessens
<1>3. /\ Free(client, list, adding, g) /\ client[g].pending = Nil
      /\ client[g].state # "CONNECTED"
      /\ client[g].permissions = "UNREGISTERED" /\ client[g].candidates = Nil
      /\ (client[g].state = "HANDSHAKE" => client[g].challenge = Nil)
      /\ Authentic(client[g], p)
    BY <1>1, NewcomersAreFree DEF Honest
<1>4. LET as == [rl EXCEPT ![g].asked = TRUE]
          id == [as EXCEPT ![g].ver = client[old].ver,
                           ![g].permissions = client[old].permissions,
                           ![g].userName = client[old].userName,
                           ![g].nonce = client[old].nonce]
      IN \/ client' = Disconnect(as, g) /\ UNCHANGED <<list, adding>>
         \/ /\ old # Nil /\ client[g].state = "HANDSHAKE"
            /\ client[old].nonce = NonceOf(g, r)
            /\ \/ SuccessfulRelogin(id, list, old, [by |-> g, for |-> g, clears |-> FALSE])
               \/ /\ client' = [RestartPingLoop(id, old) EXCEPT ![old].pending = g]
                  /\ UNCHANGED <<list, adding>>
    <2>1. \/ client' = Disconnect([rl EXCEPT ![g].asked = TRUE], g) /\ UNCHANGED <<list, adding>>
          \/ /\ ~(\/ Peer[g] \in banned \/ client[g].state # "HANDSHAKE" \/ old = Nil
                  \/ ~InformationMatches(old, r, NonceOf(g, r)))
             /\ LET id == [[rl EXCEPT ![g].asked = TRUE] EXCEPT
                          ![g].ver = client[old].ver,
                          ![g].permissions = client[old].permissions,
                          ![g].userName = client[old].userName,
                          ![g].nonce = client[old].nonce]
                IN \/ SuccessfulRelogin(id, list, old, [by |-> g, for |-> g, clears |-> FALSE])
                   \/ /\ client' = [RestartPingLoop(id, old) EXCEPT ![old].pending = g]
                      /\ UNCHANGED <<list, adding>>
        BY Zenon DEF Relogin
    <2> QED  BY <2>1, Zenon DEF InformationMatches
<1>5. /\ client \in [Conn -> Client] /\ list \in Seq(Conn)
      /\ old # Nil => old \in Conn /\ old \in ToSet(list)
    BY HasClientProperties DEF IInv, ListOK, ClientsOK
<1> HIDE DEF rl, old, p
<1>6. [rl EXCEPT ![g].asked = TRUE] = [rl EXCEPT ![g] = a]
    BY <1>2
<1>7. /\ a \in Client /\ a.pending = Nil /\ a.state = client[g].state /\ a.asked
      /\ a.permissions = "UNREGISTERED" /\ a.candidates = Nil /\ a.nonce = client[g].nonce
      /\ a.challenge = client[g].challenge
    BY <1>2, <1>3 DEF Client
<1> HIDE DEF a
<1>8. Plain(g, a)
    BY <1>3, <1>7 DEF Plain, Honest, HisRank, Authentic, Anonymous, p
<1>9. CASE client' = Disconnect([rl EXCEPT ![g] = a], g) /\ UNCHANGED <<list, adding>>
    <2>1. client' = Disconnect(Fill(g, a), g)
        BY <1>9 DEF Fill, rl
    <2> QED  BY <2>1, <1>1, <1>7, <1>8, <1>9 DEF Asks
<1>10. CASE /\ old # Nil /\ client[g].state = "HANDSHAKE"
            /\ client[old].nonce = NonceOf(g, r)
            /\ LET id == [[rl EXCEPT ![g] = a] EXCEPT
                          ![g].ver = client[old].ver,
                          ![g].permissions = client[old].permissions,
                          ![g].userName = client[old].userName,
                          ![g].nonce = client[old].nonce]
               IN \/ SuccessfulRelogin(id, list, old, [by |-> g, for |-> g, clears |-> FALSE])
                  \/ /\ client' = [RestartPingLoop(id, old) EXCEPT ![old].pending = g]
                     /\ UNCHANGED <<list, adding>>
    <2>1. old \in Conn /\ old \in ToSet(list) /\ client[old] \in Client
        BY <1>5, <1>10
    <2> DEFINE o == client[old]
    <2>2. /\ o.ver \in {BUILD19, BUILD20, BUILD21} /\ o.permissions \in Perm
          /\ o.userName \in Name /\ o.nonce \in Nonce
        BY <2>1 DEF Client
    <2>3. Known(client, list, old)
        BY <2>1 DEF Known
    <2>4. /\ Settled(client, adding, old) /\ Authentic(o, Peer[old])
          /\ HisRank(o, Peer[old]) /\ HisName(o, Peer[old])
        BY <2>1, <2>3 DEF LInv, Logins, KnownAreSettled, AllHonest, Honest, Settled
    <2>5. old # g
        BY <2>3, <1>3 DEF Free
    <2> HIDE DEF o
    <2>6. i = [a EXCEPT !.ver = o.ver, !.permissions = o.permissions,
                        !.userName = o.userName, !.nonce = o.nonce]
        BY DEF o
    <2>7. [[rl EXCEPT ![g] = a] EXCEPT ![g].ver = o.ver, ![g].permissions = o.permissions,
                                       ![g].userName = o.userName, ![g].nonce = o.nonce]
            = [rl EXCEPT ![g] = i]
        <3> DEFINE al == [rl EXCEPT ![g] = a]
        <3>1. al \in [Conn -> Client] /\ al[g] = a
            BY <1>2, <1>7, UpdateType
        <3>2. [al EXCEPT ![g].ver = o.ver, ![g].permissions = o.permissions,
                         ![g].userName = o.userName, ![g].nonce = o.nonce]
                = [al EXCEPT ![g] = i]
            <4> HIDE DEF al, i
            <4> QED  BY <3>1, <2>6
        <3>3. [al EXCEPT ![g] = i] = [rl EXCEPT ![g] = i]
            <4> HIDE DEF i
            <4> QED  BY <1>2
        <3> QED  BY <3>2, <3>3
    <2>0. client[g].state = "HANDSHAKE"
        BY <1>10
    <2> HIDE DEF i
    <2>8. /\ i \in Client /\ i.pending = Nil /\ i.state = "HANDSHAKE" /\ i.asked
          /\ i.permissions = o.permissions /\ i.candidates = Nil /\ i.nonce = o.nonce
          /\ i.challenge = Nil /\ i.userName = o.userName
        BY <2>0, <2>2, <2>6, <1>3, <1>7 DEF Client
    <2>9. Authentic(i, p)
        BY <2>8, <1>1, <1>10, NonceOfProves DEF Authentic, Anonymous, o, p
    <2>10. Akin(i, p, o, Peer[old])
        BY <2>4, <2>8, <2>9, SameNonceAkin
    <2>11. HisRank(i, p) /\ HisName(i, p)
        BY <2>4, <2>8, <2>10 DEF HisRank, HisName, Owns, Akin, Anonymous
    <2>12. Plain(g, i)
        BY <2>8, <2>9, <2>11 DEF Plain, Honest, p
    <2>13. \/ EnterWindow(Fill(g, i), RemoveClient(list, old),
                          [by |-> g, for |-> g, clears |-> FALSE])
           \/ /\ client' = [RestartPingLoop(Fill(g, i), old) EXCEPT ![old].pending = g]
              /\ UNCHANGED <<list, adding>>
        <3>1. Fill(g, i) = [rl EXCEPT ![g] = i]
            BY DEF Fill, rl
        <3> QED  BY <3>1, <2>7, <1>10 DEF SuccessfulRelogin, o
    <2> QED  BY <2>1, <2>8, <2>10, <2>11, <2>12, <2>13, <1>1 DEF Resumes, Listed, o, p
<1> QED  BY <1>4, <1>6, <1>9, <1>10, Zenon

LEMMA ResumingLogins ==
    ASSUME IInv, LInv, NEW g \in Conn, Resumes(g)
    PROVE  LInv'
<1>1. HasPacket(g) /\ Free(client, list, adding, g)
    BY NewcomersAreFree DEF Resumes
<1>2. PICK old \in Conn, i \in Client :
        /\ Listed(old) /\ Plain(g, i)
        /\ i.asked /\ i.state = "HANDSHAKE" /\ i.challenge = Nil /\ i.candidates = Nil
        /\ Akin(i, Peer[g], client[old], Peer[old])
        /\ HisRank(i, Peer[g]) /\ HisName(i, Peer[g])
        /\ \/ EnterWindow(Fill(g, i), RemoveClient(list, old),
                          [by |-> g, for |-> g, clears |-> FALSE])
           \/ /\ client' = [RestartPingLoop(Fill(g, i), old) EXCEPT ![old].pending = g]
              /\ UNCHANGED <<list, adding>>
    BY DEF Resumes
<1>3. old \in ToSet(list) /\ old # g
    BY <1>1, <1>2 DEF Listed, Free, Known
<1>4. PICK call : call = [by |-> g, for |-> g, clears |-> FALSE]
    OBVIOUS
<1>5. call.for = g /\ ~call.clears /\ \A y : Return(y, call) = y
    BY <1>4 DEF Return
<1>6. PICK dl : dl = Fill(g, i)
    OBVIOUS
<1>7. /\ Ready(dl, dl, list, call) /\ Logins(dl, list, adding)
      /\ dl \in [Conn -> Client] /\ dl[g] = i /\ \A d \in Conn : d # g => dl[d] = client[d]
    BY <1>1, <1>2, <1>4, <1>6, PlainReady, FillPlain
<1>8. dl = [dl EXCEPT ![call.for] = i]
    BY <1>5, <1>7
<1>9. Draft(dl, dl, call, i)
    BY <1>5, <1>7, DraftItself
<1>10. CASE EnterWindow(dl, RemoveClient(list, old), call)
    <2>1. Ready(dl, dl, RemoveClient(list, old), call)
        BY <1>7, ReadyRemoval
    <2>2. EnterWindow([dl EXCEPT ![call.for] = i], RemoveClient(list, old), call)
        BY <1>8, <1>10
    <2> QED  BY <2>1, <2>2, <1>2, <1>5, <1>9, DraftEnters DEF LInv
<1>11. CASE /\ client' = [RestartPingLoop(dl, old) EXCEPT ![old].pending = g]
            /\ UNCHANGED <<list, adding>>
    <2>1. Ready(dl, Return(dl, call), list, call) /\ Draft(dl, Return(dl, call), call, i)
        BY <1>5, <1>7, <1>9
    <2>2. dl[old] = client[old]
        BY <1>3, <1>7
    <2>3. Settled(Return(dl, call), adding, old)
        BY <1>3, <1>5, <1>7 DEF Logins, KnownAreSettled, Known
    <2>4. Akin(i, Peer[call.for], dl[old], Peer[old])
        BY <2>2, <1>2, <1>5
    <2>5. HisRank(i, Peer[call.for]) /\ HisName(i, Peer[call.for])
        BY <1>2, <1>5
    <2>6. Logins(Return([RestartPingLoop([dl EXCEPT ![call.for] = i], old)
                            EXCEPT ![old].pending = call.for], call), list, adding)
        BY <2>1, <2>3, <2>4, <2>5, <1>2, <1>3, <1>5, DraftWaits
    <2>7. client' = Return([RestartPingLoop([dl EXCEPT ![call.for] = i], old)
                            EXCEPT ![old].pending = call.for], call)
        BY <1>5, <1>8, <1>11
    <2> QED  BY <2>6, <2>7, <1>11 DEF LInv
<1> QED  BY <1>2, <1>4, <1>6, <1>10, <1>11

-----------------------------------------------------------------------------
(* The goroutine of an older connection takes up the login that waits for it. *)

LEMMA TakenUp ==
    ASSUME NEW cl, NEW ls, Logins(cl, ls, adding), NEW call \in Call,
           cl[call.by].pending = call.for, ~Known(cl, ls, call.for),
           \A x \in adding : x.by # call.by, call.clears \/ Spent(cl, call.by)
    PROVE  Ready(cl, [cl EXCEPT ![call.by].pending = Nil], ls, call)
<1>1. PICK g, c \in Conn : g = call.by /\ c = call.for
    BY DEF Call
<1>2. PICK rl : rl = [cl EXCEPT ![call.by].pending = Nil]
    OBVIOUS
<1>3. g \in Conn /\ cl \in [Conn -> Client] /\ cl[g] \in Client /\ cl[g].pending = c
      /\ Nil \notin Conn
    BY <1>1, ConnAssumption DEF Logins, Types, Call
<1>4. PICK w : w = [cl[g] EXCEPT !.pending = Nil]
    OBVIOUS
<1>5. /\ w \in Client /\ w.state = cl[g].state
      /\ w.userName = cl[g].userName /\ w.nonce = cl[g].nonce
      /\ w.permissions = cl[g].permissions /\ w.candidates = cl[g].candidates
      /\ w.challenge = cl[g].challenge /\ w.asked = cl[g].asked
      /\ w.pending = Nil /\ w.waiting = cl[g].waiting
    BY <1>3, <1>4 DEF Client
<1>6. rl = [cl EXCEPT ![g] = w]
    BY <1>1, <1>2, <1>4
<1>7. rl \in [Conn -> Client] /\ rl[g] = w /\ \A d \in Conn : d # g => rl[d] = cl[d]
    BY <1>3, <1>5, <1>6, UpdateType
<1>8. Lessened(cl, rl)
    BY <1>5, <1>7 DEF Lessened, Spent
<1>9. Logins(rl, ls, adding)
    BY <1>7, <1>8, LessIsEnough
<1>10. Known(cl, ls, g) /\ Settled(cl, adding, g) /\ ~Known(cl, ls, c) /\ g # c
    BY <1>1, <1>3 DEF Known, Logins, KnownAreSettled
<1>11. ~Known(rl, ls, c)
    BY <1>8, <1>10, <1>7, <1>5 DEF Known, Lessened, Candidate
<1>12. ~InWindow(adding, c)
    BY <1>1, <1>3 DEF Logins, OneToken, InWindow
<1>13. \A h \in Conn : rl[h].pending # c
    <2>1. \A h \in Conn : cl[h].pending = c => h = g
        BY <1>3 DEF Logins, OneToken
    <2> QED  BY <2>1, <1>3, <1>5, <1>7
<1>14. Settled(rl, adding, g)
    BY <1>5, <1>7, <1>8, <1>10, <1>3 DEF Settled, Lessened, HisName, HisRank, Anonymous
<1>15. cl[c].asked /\ cl[c].challenge = Nil
    BY <1>3 DEF Logins, LoginsAreAsked, HasLogin
<1>16. Akin(cl[c], Peer[c], cl[g], Peer[g])
    BY <1>3 DEF Logins, OwnKind
<1>17. call.clears \/ Spent(rl, g)
    BY <1>1, <1>8 DEF Lessened
<1>18. Free(rl, ls, adding, c)
    BY <1>11, <1>12, <1>13 DEF Free, HasLogin
<1>19. Ready(cl, rl, ls, call)
    BY <1>1, <1>2, <1>3, <1>9, <1>10, <1>14, <1>15, <1>16, <1>17, <1>18 DEF Ready
<1> QED  BY <1>2, <1>19

LEMMA AnswerForPendingLogins ==
    ASSUME IInv, LInv, NEW g \in Conn, AnswerForPending(g)
    PROVE  LInv'
<1>1. PICK call : call = [by |-> g, for |-> client[g].pending, clears |-> TRUE]
    OBVIOUS
<1>2. PICK cl : cl = Received(g)
    OBVIOUS
<1>3. HasPacket(g) /\ client[g].pending # Nil
    BY DEF AnswerForPending
<1>4. /\ client[g].pending \in Conn
      /\ call \in Call /\ call.by = g /\ call.for = client[g].pending /\ call.clears
    <2>1. client[g].pending \in Conn
        BY <1>3, FieldTypes DEF IInv, ClientsOK
    <2> QED  BY <2>1, <1>1 DEF Call
<1>5. /\ cl \in [Conn -> Client] /\ Lessened(client, cl) /\ cl[g].pending = call.for
      /\ cl[call.for].candidates = client[call.for].candidates
    BY <1>2, <1>3, <1>4, ReceivedLessens
<1>6. Logins(cl, list, adding)
    BY <1>5, LessIsEnough DEF LInv
<1>7. \/ Abort(cl, list, call)
      \/ client[call.for].candidates # Nil /\ CheckCandidates(cl, list, call)
    BY <1>1, <1>2 DEF AnswerForPending
<1>8. CASE Abort(cl, list, call)
    <2>1. PICK dl : dl = Disconnect(cl, call.for)
        OBVIOUS
    <2>2. dl \in [Conn -> Client] /\ Lessened(cl, dl)
        BY <2>1, <1>4, <1>5, DisconnectLessens
    <2>3. Return(dl, call) \in [Conn -> Client] /\ Lessened(dl, Return(dl, call))
        BY <2>2, <1>4, ReturnLessens
    <2>4. client' = Return(dl, call) /\ list' = list /\ adding' = adding
        BY <2>1, <1>8 DEF Abort
    <2>5. Lessened(client, client')
        BY <2>2, <2>3, <2>4, <1>5, LessenedFurther
    <2> QED  BY <2>3, <2>4, <2>5, QuietStep
<1>9. CASE client[call.for].candidates # Nil /\ CheckCandidates(cl, list, call)
    <2>1. ~Known(cl, list, call.for)
        BY <1>4, <1>5, <1>6, <1>9 DEF Logins, KnownAreSettled, Settled
    <2>2. \A x \in adding : x.by # call.by
        BY <1>3, <1>4 DEF HasPacket, Selecting, Idle
    <2>3. Ready(cl, [cl EXCEPT ![call.by].pending = Nil], list, call)
        BY <2>1, <2>2, <1>4, <1>5, <1>6, TakenUp
    <2>4. Ready(cl, Return(cl, call), list, call)
        BY <2>3, <1>4 DEF Return
    <2>5. cl[call.for].candidates \in Seq(Conn)
        BY <1>4, <1>5, <1>9, FieldTypes
    <2>6. Logins(client', list', adding')
        BY <2>4, <2>5, <1>9, CheckCandidatesReady
    <2> QED  BY <2>6 DEF LInv
<1> QED  BY <1>7, <1>8, <1>9

\* A login that cannot be finished any more: its client has been given up.
LEMMA TakenUpInVain ==
    ASSUME NEW cl, NEW rl, NEW ls, NEW call, Ready(cl, rl, ls, call),
           NEW g \in Conn, NEW c \in Conn, g = call.by, c = call.for,
           rl = [cl EXCEPT ![g].pending = Nil], cl[g].pending = c, Spent(cl, g),
           NEW r, Draft(cl, rl, call, r), HisRank(r, Peer[c]), r.challenge = Nil,
           r.candidates # Nil,
           r.permissions # "UNREGISTERED" => r.userName = cl[g].userName
    PROVE  Logins(Disconnect([cl EXCEPT ![c] = r], c), ls, adding)
<1>1. PICK s : s = [r EXCEPT !.up = FALSE, !.state = "RECENTLY_DISCONNECTED"]
    OBVIOUS
<1>2. /\ cl \in [Conn -> Client] /\ r \in Client /\ Nil \notin Conn /\ cl[g] \in Client
      /\ Logins(rl, ls, adding) /\ Free(rl, ls, adding, c) /\ rl \in [Conn -> Client]
    BY ConnAssumption DEF Ready, Draft, Logins, Types
<1>3. s \in Client /\ s.state = "RECENTLY_DISCONNECTED" /\ s.pending = r.pending
      /\ s.asked = r.asked /\ s.challenge = r.challenge /\ s.nonce = r.nonce
      /\ s.candidates = r.candidates /\ s.permissions = r.permissions
      /\ s.userName = r.userName
    <2>1. r \in Client
        BY <1>2
    <2> QED  BY ONLY <2>1, <1>1 DEF Client
<1>4. rl # cl
    <2>1. PICK v : v = [cl[g] EXCEPT !.pending = Nil]
        OBVIOUS
    <2>2. cl[g] \in Client
        BY <1>2
    <2>3. v.pending = Nil
        BY ONLY <2>1, <2>2 DEF Client
    <2>4. rl[g] = v
        BY <2>1, <1>2
    <2> QED  BY <2>3, <2>4, <1>2
<1>5. /\ g # c /\ Settled(rl, adding, g)
      /\ Akin(cl[c], Peer[c], cl[g], Peer[g])
    BY <1>4 DEF Ready
<1>6. Fits(rl, adding, c, s)
    BY <1>3 DEF Fits, Draft, Honest, Authentic, Anonymous, Seeks, Akin
<1>7. PICK el : el = [rl EXCEPT ![c] = s]
    OBVIOUS
<1>8. /\ Logins(el, ls, adding) /\ Free(el, ls, adding, c) /\ Settled(el, adding, g)
    BY <1>2, <1>5, <1>6, <1>7, FillFree
<1>9. PICK w : w = cl[g]
    OBVIOUS
<1>10. /\ w \in Client /\ w.pending = c /\ w.state = rl[g].state
       /\ w.userName = rl[g].userName /\ w.nonce = rl[g].nonce
       /\ w.permissions = rl[g].permissions /\ w.candidates = rl[g].candidates
       /\ w.challenge = rl[g].challenge /\ w.asked = rl[g].asked
       /\ w.up = rl[g].up /\ ~w.waiting
       /\ \A d \in Conn : d # g => rl[d] = cl[d]
    BY <1>2, <1>9 DEF Client, Spent
<1>11. /\ el[c] = s /\ el[g] = rl[g] /\ el \in [Conn -> Client]
       /\ \A d \in Conn : d # c => el[d] = rl[d]
    BY <1>2, <1>3, <1>5, <1>7, UpdateType
<1>12. Disconnect([cl EXCEPT ![c] = r], c) = [el EXCEPT ![g] = w]
    <2>1. Disconnect([cl EXCEPT ![c] = r], c) = [cl EXCEPT ![c] = s]
        BY <1>1, <1>2 DEF Disconnect
    <2>2. PICK xl, yl : xl = [cl EXCEPT ![c] = s] /\ yl = [el EXCEPT ![g] = w]
        OBVIOUS
    <2>3. /\ xl \in [Conn -> Client] /\ xl[c] = s /\ \A d \in Conn : d # c => xl[d] = cl[d]
        BY <2>2, <1>2, <1>3, UpdateType
    <2>4. /\ yl \in [Conn -> Client] /\ yl[g] = w /\ \A d \in Conn : d # g => yl[d] = el[d]
        BY <2>2, <1>10, <1>11, UpdateType
    <2>5. \A d \in Conn : xl[d] = yl[d]
        BY <2>3, <2>4, <1>5, <1>9, <1>10, <1>11
    <2>6. xl = yl
        BY ONLY <2>3, <2>4, <2>5
    <2> QED  BY <2>1, <2>2, <2>6
<1>13. Akin(el[c], Peer[c], el[g], Peer[g])
    BY <1>3, <1>5, <1>9, <1>10, <1>11 DEF Akin, Anonymous, Draft
<1>14. /\ el[c].asked /\ el[c].challenge = Nil /\ HisRank(el[c], Peer[c])
       /\ el[c].candidates # Nil
       /\ el[c].permissions # "UNREGISTERED" => el[c].userName = el[g].userName
    <2>1. s.asked /\ s.challenge = Nil /\ s.candidates # Nil
          /\ (s.permissions # "UNREGISTERED" => s.userName = cl[g].userName)
        BY <1>3 DEF Draft
    <2>2. HisRank(s, Peer[c])
        BY <1>3 DEF HisRank, Owns, Anonymous
    <2> QED  BY <2>1, <2>2, <1>9, <1>10, <1>11
<1>15. ~Known(el, ls, c) /\ ~InWindow(adding, c) /\ \A h \in Conn : el[h].pending # c
    BY <1>8 DEF Free, HasLogin
<1>16. \A x \in adding : x.for = c => x.by = g /\ (x.clears \/ Spent(el, g))
    BY <1>15 DEF InWindow
<1>17. /\ w \in Client /\ w.pending = c /\ w.state = el[g].state
       /\ w.userName = el[g].userName
       /\ w.nonce = el[g].nonce /\ w.permissions = el[g].permissions
       /\ w.candidates = el[g].candidates /\ w.challenge = el[g].challenge
       /\ w.asked = el[g].asked /\ ~w.waiting
    BY <1>10, <1>11
<1>18. Logins([el EXCEPT ![g] = w], ls, adding)
    BY <1>5, <1>8, <1>13, <1>14, <1>15, <1>16, <1>17, Token
<1> QED  BY <1>12, <1>18

\* What is left of the connection g, and of the login that waited for it.
GivenUp(g, gone) ==
    LET c == client[g].pending
        call == [by |-> g, for |-> c, clears |-> FALSE]
    IN  /\ Lessened(client, gone) /\ Spent(gone, g)
        /\ \A d \in Conn : gone[d].pending = client[d].pending
        /\ \/ client' = gone /\ UNCHANGED <<list, adding>>
           \/ /\ c # Nil /\ client[c].candidates = Nil
              /\ EnterWindow(gone, RemoveClient(list, g), call)
           \/ /\ c # Nil /\ client[c].candidates # Nil
              /\ LoginDone([gone EXCEPT ![c].userName = client[g].userName],
                           RemoveClient(list, g), call)

LEMMA FailedPongGivesUp ==
    ASSUME NEW g \in Conn, NEW cl \in [Conn -> Client],
           \A d \in Conn :
              /\ cl[d].userName = client[d].userName /\ cl[d].nonce = client[d].nonce
              /\ cl[d].permissions = client[d].permissions
              /\ cl[d].candidates = client[d].candidates
              /\ cl[d].challenge = client[d].challenge /\ cl[d].asked = client[d].asked
              /\ cl[d].pending = client[d].pending /\ cl[d].state = client[d].state
              /\ cl[d].waiting = client[d].waiting,
           FailedPong(cl, g)
    PROVE  \E gone \in [Conn -> Client] : GivenUp(g, gone)
<1>1. PICK dl : dl = Disconnect(cl, g)
    OBVIOUS
<1>2. /\ dl \in [Conn -> Client] /\ Lessened(cl, dl)
      /\ dl[g].state = "RECENTLY_DISCONNECTED"
      /\ \A d \in Conn : dl[d].pending = cl[d].pending
    BY <1>1, DisconnectLessens
<1>3. PICK w : w = [dl[g] EXCEPT !.waiting = FALSE]
    OBVIOUS
<1>4. /\ w \in Client /\ w.state = dl[g].state
      /\ w.userName = dl[g].userName /\ w.nonce = dl[g].nonce
      /\ w.permissions = dl[g].permissions /\ w.candidates = dl[g].candidates
      /\ w.challenge = dl[g].challenge /\ w.asked = dl[g].asked
      /\ w.pending = dl[g].pending /\ ~w.waiting
    <2>1. dl[g] \in Client
        BY <1>2
    <2> QED  BY <2>1, <1>3 DEF Client
<1>5. PICK gone : gone = [dl EXCEPT ![g] = w]
    OBVIOUS
<1>6. gone = [Disconnect(cl, g) EXCEPT ![g].waiting = FALSE]
    BY <1>1, <1>2, <1>3, <1>5
<1>7. gone \in [Conn -> Client] /\ gone[g] = w /\ \A d \in Conn : d # g => gone[d] = dl[d]
    BY <1>2, <1>4, <1>5, UpdateType
<1>8. /\ Lessened(client, gone) /\ Spent(gone, g)
      /\ \A d \in Conn : gone[d].pending = client[d].pending
    <2>1. Lessened(client, cl)
        BY SameLogins
    <2>2. Lessened(dl, gone)
        BY <1>4, <1>7 DEF Lessened, Spent
    <2>3. Lessened(client, gone)
        BY <2>1, <2>2, <1>2, LessenedFurther
    <2> QED  BY <2>3, <1>2, <1>4, <1>7 DEF Spent
<1>9. \/ client' = gone /\ UNCHANGED <<list, adding>>
      \/ /\ client[g].pending # Nil /\ client[client[g].pending].candidates = Nil
         /\ EnterWindow(gone, RemoveClient(list, g),
                        [by |-> g, for |-> client[g].pending, clears |-> FALSE])
      \/ /\ client[g].pending # Nil /\ client[client[g].pending].candidates # Nil
         /\ LoginDone([gone EXCEPT ![client[g].pending].userName = client[g].userName],
                      RemoveClient(list, g),
                      [by |-> g, for |-> client[g].pending, clears |-> FALSE])
    BY <1>6, Zenon DEF FailedPong, SuccessfulRelogin
<1> QED  BY <1>7, <1>8, <1>9, Zenon DEF GivenUp

\* The goroutine of g gives its connection up, for the first time.
GivesUp(g) ==
    Idle(g) /\ ~Spent(client, g) /\ \E gone \in [Conn -> Client] : GivenUp(g, gone)

LEMMA GivingUpLogins ==
    ASSUME IInv, LInv, NEW g \in Conn, GivesUp(g)
    PROVE  LInv'
<1>1. PICK c, n : c = client[g].pending /\ n = client[g].userName
    OBVIOUS
<1>2. PICK call : call = [by |-> g, for |-> c, clears |-> FALSE]
    OBVIOUS
<1>3. PICK gone \in [Conn -> Client] : GivenUp(g, gone)
    BY DEF GivesUp
<1>0. Idle(g) /\ ~Spent(client, g)
    BY DEF GivesUp
<1>4. /\ Lessened(client, gone) /\ Spent(gone, g)
      /\ \A d \in Conn : gone[d].pending = client[d].pending
    BY <1>3 DEF GivenUp
<1>5. \/ client' = gone /\ UNCHANGED <<list, adding>>
      \/ /\ c # Nil /\ client[c].candidates = Nil
         /\ EnterWindow(gone, RemoveClient(list, g), call)
      \/ /\ c # Nil /\ client[c].candidates # Nil
         /\ LoginDone([gone EXCEPT ![c].userName = n], RemoveClient(list, g), call)
    BY <1>1, <1>2, <1>3, Zenon DEF GivenUp
<1>6. CASE client' = gone /\ UNCHANGED <<list, adding>>
    BY <1>3, <1>4, <1>6, QuietStep
<1>7. CASE c # Nil
    <2>1. /\ c \in Conn /\ n \in Name /\ client \in [Conn -> Client]
          /\ call \in Call /\ call.by = g /\ call.for = c /\ ~call.clears
        <3>1. c \in Conn /\ n \in Name /\ client \in [Conn -> Client]
            BY <1>1, <1>7, FieldTypes DEF IInv, ClientsOK
        <3> QED  BY <3>1, <1>2 DEF Call
    <2>2. Logins(gone, list, adding)
        BY <1>3, <1>4, LessIsEnough DEF LInv
    <2>3. ~Known(client, list, c)
        BY <2>1, <1>0, <1>1 DEF LInv, Logins, KnownAreSettled, Settled
    <2>4. ~Known(gone, list, c)
        BY <2>1, <2>3, <1>4, <1>7 DEF Known, Lessened, Candidate
    <2>5. PICK rl : rl = [gone EXCEPT ![call.by].pending = Nil]
        OBVIOUS
    <2>6. PICK ls : ls = RemoveClient(list, g)
        OBVIOUS
    <2>7. Ready(gone, rl, ls, call)
        <3>1. \A x \in adding : x.by # call.by
            BY <1>0, <2>1 DEF Idle
        <3>2. Ready(gone, rl, list, call)
            BY <2>1, <2>2, <2>4, <2>5, <3>1, <1>1, <1>4, TakenUp
        <3> QED  BY <2>6, <3>2, ReadyRemoval
    <2>8. /\ gone[c] \in Client /\ gone[c].asked /\ gone[c].challenge = Nil
          /\ HisRank(gone[c], Peer[c])
          /\ gone[c].candidates = Nil => HisName(gone[c], Peer[c])
        BY <2>1, <2>2, <1>1, <1>3, <1>4 DEF Logins, LoginsAreAsked, HasLogin
    <2>9. /\ Draft(gone, rl, call, gone[c]) /\ gone[c].candidates = client[c].candidates
          /\ gone[g].userName = n
        BY <2>1, <2>7, <1>1, <1>4, DraftItself DEF Lessened
    <2>10. CASE client[c].candidates = Nil /\ EnterWindow(gone, ls, call)
        <3>1. EnterWindow([gone EXCEPT ![call.for] = gone[c]], ls, call)
            BY <2>1, <2>10, <1>3
        <3>2. Logins(client', list', adding')
            BY <3>1, <2>1, <2>7, <2>8, <2>9, <2>10, DraftEnters
        <3> QED  BY <3>2 DEF LInv
    <2>11. CASE /\ client[c].candidates # Nil
                /\ LoginDone([gone EXCEPT ![c].userName = n], ls, call)
        <3>1. PICK r : r = [gone[c] EXCEPT !.userName = n]
            OBVIOUS
        <3>2. /\ r \in Client /\ r.state = gone[c].state
              /\ r.userName = n /\ r.nonce = gone[c].nonce
              /\ r.permissions = gone[c].permissions /\ r.candidates = gone[c].candidates
              /\ r.challenge = gone[c].challenge /\ r.asked = gone[c].asked
              /\ r.pending = gone[c].pending
            <4>1. gone[c] \in Client /\ n \in Name
                BY <2>1, <2>8
            <4> QED  BY ONLY <3>1, <4>1 DEF Client
        <3>3. [gone EXCEPT ![c].userName = n] = [gone EXCEPT ![c] = r]
            BY <3>1
        <3>4. Draft(gone, rl, call, r)
            <4>1. Authentic(r, Peer[call.for]) /\ (Anonymous(r) <=> Anonymous(gone[c]))
                BY <3>2, <2>9 DEF Draft, Authentic, Anonymous
            <4>2. Draft(gone, rl, call, gone[c])
                BY <2>9
            <4> QED  BY <3>2, <4>1, <4>2, Redraft
        <3>5. /\ Akin(gone[c], Peer[c], gone[g], Peer[g])
              /\ gone[c].permissions # "UNREGISTERED" => gone[c].userName = n
              /\ HisName(gone[g], Peer[g])
            <4>1. ~InWindow(adding, c)
                BY <2>1, <2>7 DEF Ready, Free, HasLogin
            <4>2. gone[g].pending = c /\ gone[c].candidates # Nil
                BY <2>9, <2>11, <1>1, <1>4
            <4>3. Known(gone, list, g)
                BY <4>2, <1>7 DEF Known
            <4>4. HisName(gone[g], Peer[g])
                BY <4>3, <2>2 DEF Logins, KnownAreSettled, Settled
            <4> QED  BY <4>1, <4>2, <4>4, <2>1, <2>2, <2>9 DEF Logins, OwnKind
        <3>6. HisRank(r, Peer[c]) /\ HisName(r, Peer[c])
            BY <3>2, <3>5, <2>8, <2>9 DEF HisRank, HisName, Owns, Akin, Anonymous
        <3>7. CASE r.state = "HANDSHAKE"
            <4>1. [gone EXCEPT ![c] = r][c].state = "HANDSHAKE"
                BY <3>7, <2>1, <1>3
            <4>2. EnterWindow([gone EXCEPT ![call.for] = r], ls, call)
                BY <4>1, <3>3, <2>1, <2>11 DEF LoginDone
            <4>3. r.challenge = Nil
                BY <3>2, <2>8
            <4>4. Logins(client', list', adding')
                BY <4>2, <4>3, <3>4, <3>6, <2>1, <2>7, DraftEnters
            <4> QED  BY <4>4 DEF LInv
        <3>8. CASE r.state # "HANDSHAKE"
            <4>1. [gone EXCEPT ![c] = r][c].state # "HANDSHAKE"
                BY <3>8, <2>1, <1>3
            <4>2. Abort([gone EXCEPT ![c] = r], ls, call)
                BY <4>1, <3>3, <2>1, <2>11 DEF LoginDone
            <4>3. /\ client' = Disconnect([gone EXCEPT ![c] = r], c)
                  /\ list' = ls /\ adding' = adding
                BY <4>2, <2>1 DEF Abort, Return
            <4>4. rl = [gone EXCEPT ![g].pending = Nil] /\ gone[g].pending = c
                BY <2>1, <2>5, <1>1, <1>4
            <4>5. /\ r.challenge = Nil /\ r.candidates # Nil
                  /\ r.permissions # "UNREGISTERED" => r.userName = gone[g].userName
                BY <3>2, <2>8, <2>9, <2>11
            <4>6. Logins(Disconnect([gone EXCEPT ![c] = r], c), ls, adding)
                BY <4>4, <4>5, <3>4, <3>6, <2>1, <2>7, <1>4, TakenUpInVain
            <4> QED  BY <4>3, <4>6 DEF LInv
        <3> QED  BY <3>7, <3>8
    <2>12. \/ client' = gone /\ UNCHANGED <<list, adding>>
           \/ client[c].candidates = Nil /\ EnterWindow(gone, ls, call)
           \/ /\ client[c].candidates # Nil
              /\ LoginDone([gone EXCEPT ![c].userName = n], ls, call)
        BY <1>5, <2>6
    <2> QED  BY <2>10, <2>11, <2>12, <1>6
<1> QED  BY <1>5, <1>6, <1>7

\* The connections, the goroutines and the ping timers change, and no more.
Idles ==
    /\ client' \in [Conn -> Client] /\ Lessened(client, client')
    /\ UNCHANGED <<list, adding>>

LEMMA PingTimerCases ==
    ASSUME IInv, NEW g \in Conn, PingTimer(g)
    PROVE  Idles \/ GivesUp(g)
<1>1. /\ client \in [Conn -> Client] /\ client[g] \in Client /\ Idle(g)
      /\ adding' = adding \/ FailedPong(client, g)
    BY DEF IInv, ClientsOK, PingTimer, Selecting
<1>2. CASE client[g].waiting /\ FailedPong(client, g)
    <2>1. ~Spent(client, g)
        BY <1>2 DEF Spent
    <2> QED  BY <2>1, <1>1, <1>2, FailedPongGivesUp DEF GivesUp
<1>3. CASE /\ client[g].state = "CONNECTED"
           /\ client' = RestartPingLoop(client, g) /\ UNCHANGED <<list, adding>>
    <2>1. PICK r : r = [client[g] EXCEPT !.waiting = TRUE]
        OBVIOUS
    <2>2. /\ r \in Client /\ r.state = client[g].state
          /\ r.userName = client[g].userName /\ r.nonce = client[g].nonce
          /\ r.permissions = client[g].permissions /\ r.candidates = client[g].candidates
          /\ r.challenge = client[g].challenge /\ r.asked = client[g].asked
          /\ r.pending = client[g].pending
        BY <2>1, <1>1 DEF Client
    <2>3. client' = [client EXCEPT ![g] = r]
        BY <2>1, <1>1, <1>3 DEF RestartPingLoop
    <2>4. client' \in [Conn -> Client] /\ client'[g] = r
          /\ \A d \in Conn : d # g => client'[d] = client[d]
        BY <2>2, <2>3, <1>1, UpdateType
    <2>5. Lessened(client, client')
        BY <2>2, <2>4, <1>3 DEF Lessened, Spent
    <2> QED  BY <2>4, <2>5, <1>3 DEF Idles
<1> QED  BY <1>2, <1>3 DEF PingTimer

LEMMA EofCases ==
    ASSUME IInv, NEW g \in Conn, Eof(g)
    PROVE  Idles \/ GivesUp(g)
<1>1. client \in [Conn -> Client] /\ client[g] \in Client /\ Idle(g)
    BY DEF IInv, ClientsOK, Eof, Selecting
<1>2. PICK r : r = [client[g] EXCEPT !.loop = "returned"]
    OBVIOUS
<1>3. /\ r \in Client /\ r.state = client[g].state
      /\ r.userName = client[g].userName /\ r.nonce = client[g].nonce
      /\ r.permissions = client[g].permissions /\ r.candidates = client[g].candidates
      /\ r.challenge = client[g].challenge /\ r.asked = client[g].asked
      /\ r.pending = client[g].pending /\ r.waiting = client[g].waiting
    BY <1>1, <1>2 DEF Client
<1>4. PICK cl : cl = [client EXCEPT ![g] = r]
    OBVIOUS
<1>5. /\ cl \in [Conn -> Client] /\ cl[g] = r /\ \A d \in Conn : d # g => cl[d] = client[d]
    BY <1>1, <1>3, <1>4, UpdateType
<1>6. \A d \in Conn :
          /\ cl[d].userName = client[d].userName /\ cl[d].nonce = client[d].nonce
          /\ cl[d].permissions = client[d].permissions
          /\ cl[d].candidates = client[d].candidates
          /\ cl[d].challenge = client[d].challenge /\ cl[d].asked = client[d].asked
          /\ cl[d].pending = client[d].pending /\ cl[d].state = client[d].state
          /\ cl[d].waiting = client[d].waiting
    BY <1>3, <1>5
<1>7. \/ client' = cl /\ UNCHANGED <<list, adding>>
      \/ client[g].state # "RECENTLY_DISCONNECTED" /\ FailedPong(cl, g)
    BY <1>2, <1>4 DEF Eof
<1>8. CASE client' = cl /\ UNCHANGED <<list, adding>>
    BY <1>5, <1>6, <1>8, SameLogins DEF Idles
<1>9. CASE client[g].state # "RECENTLY_DISCONNECTED" /\ FailedPong(cl, g)
    <2>1. ~Spent(client, g)
        BY <1>9 DEF Spent
    <2> QED  BY <2>1, <1>1, <1>5, <1>6, <1>9, FailedPongGivesUp DEF GivesUp
<1> QED  BY <1>7, <1>8, <1>9

LEMMA FinishLoginLogins ==
    ASSUME IInv, LInv, NEW call \in adding, FinishLogin(call)
    PROVE  LInv'
<1>1. PICK c, g \in Conn : c = call.for /\ g = call.by
    BY DEF IInv, CallsOK, Call
<1>2. client \in [Conn -> Client] /\ client[c] \in Client /\ call \in Call
    BY DEF IInv, ClientsOK, CallsOK
<1>3. PICK r : r = [client[c] EXCEPT !.state = "CONNECTED", !.candidates = Nil]
    OBVIOUS
<1>4. /\ r \in Client /\ r.state = "CONNECTED" /\ r.candidates = Nil
      /\ r.userName = client[c].userName /\ r.nonce = client[c].nonce
      /\ r.permissions = client[c].permissions
      /\ r.challenge = client[c].challenge /\ r.asked = client[c].asked
      /\ r.pending = client[c].pending /\ r.waiting = client[c].waiting
    BY <1>2, <1>3 DEF Client
<1>5. PICK cl : cl = [client EXCEPT ![c] = r]
    OBVIOUS
<1>6. cl \in [Conn -> Client] /\ cl[c] = r /\ \A d \in Conn : d # c => cl[d] = client[d]
    BY <1>2, <1>4, <1>5, UpdateType
<1>7. /\ client' = Return(cl, call)
      /\ list' = Append(list, call.for) /\ adding' = adding \ {call}
    <2>1. cl = [client EXCEPT ![c].state = "CONNECTED", ![c].candidates = Nil]
        BY <1>2, <1>3, <1>5
    <2> QED  BY <2>1, <1>1 DEF FinishLogin
<1>8. PICK w : w = [cl[g] EXCEPT !.pending = Nil]
    OBVIOUS
<1>9. /\ w \in Client /\ w.state = cl[g].state
      /\ w.userName = cl[g].userName /\ w.nonce = cl[g].nonce
      /\ w.permissions = cl[g].permissions /\ w.candidates = cl[g].candidates
      /\ w.challenge = cl[g].challenge /\ w.asked = cl[g].asked
      /\ w.pending = Nil /\ w.waiting = cl[g].waiting
    <2>1. cl[g] \in Client
        BY <1>6
    <2> QED  BY <2>1, <1>8 DEF Client
<1>10. client' = IF call.clears THEN [cl EXCEPT ![g] = w] ELSE cl
    BY <1>1, <1>7, <1>8 DEF Return
<1>11. /\ client' \in [Conn -> Client]
       /\ client'[g] = IF call.clears THEN w ELSE cl[g]
       /\ \A d \in Conn : d # g => client'[d] = cl[d]
    BY <1>6, <1>9, <1>10, UpdateType
<1>12. \A d \in Conn :
          /\ client'[d].userName = client[d].userName /\ client'[d].nonce = client[d].nonce
          /\ client'[d].permissions = client[d].permissions
          /\ client'[d].challenge = client[d].challenge
          /\ client'[d].asked = client[d].asked
          /\ client'[d].waiting = client[d].waiting
          /\ client'[d].state = IF d = call.for THEN "CONNECTED" ELSE client[d].state
          /\ client'[d].candidates = IF d = call.for THEN Nil ELSE client[d].candidates
          /\ client'[d].pending = IF call.clears /\ d = call.by THEN Nil
                                  ELSE client[d].pending
    BY <1>1, <1>4, <1>6, <1>9, <1>11
<1>13. Logins(client', Append(list, call.for), adding \ {call})
    <2>1. PICK dl, ls, ad, el : dl = client' /\ ls = list /\ ad = adding /\ el = client
        OBVIOUS
    <2>2. Logins(el, ls, ad) /\ call \in ad /\ dl \in [Conn -> Client]
        BY <2>1, <1>11 DEF LInv
    <2>3. \A d \in Conn :
              /\ dl[d].userName = el[d].userName /\ dl[d].nonce = el[d].nonce
              /\ dl[d].permissions = el[d].permissions
              /\ dl[d].challenge = el[d].challenge /\ dl[d].asked = el[d].asked
              /\ dl[d].waiting = el[d].waiting
              /\ dl[d].state = IF d = call.for THEN "CONNECTED" ELSE el[d].state
              /\ dl[d].candidates = IF d = call.for THEN Nil ELSE el[d].candidates
              /\ dl[d].pending = IF call.clears /\ d = call.by THEN Nil ELSE el[d].pending
        BY <2>1, <1>12
    <2>4. Logins(dl, Append(ls, call.for), ad \ {call})
        BY ONLY <2>2, <2>3, Finish
    <2> QED  BY <2>1, <2>4
<1> QED  BY <1>7, <1>13 DEF LInv

-----------------------------------------------------------------------------
(* The invariant, and the theorems. *)

LEMMA InitLInv == Init => LInv
<1> SUFFICES ASSUME Init  PROVE LInv
    OBVIOUS
<1>1. client \in [Conn -> Client] /\ list = <<>> /\ adding = {} /\ Nil \notin Conn
    BY InitIInv, ConnAssumption DEF IInv, ClientsOK, Init
<1>2. \A c \in Conn : client[c] = NewClient
    BY DEF Init
<1>3. \A c \in Conn :
        /\ client[c].candidates = Nil /\ client[c].pending = Nil
        /\ client[c].challenge = Nil /\ client[c].state = "HANDSHAKE"
        /\ client[c].permissions = "UNREGISTERED" /\ client[c].nonce = <<"none">>
    BY <1>2 DEF NewClient
<1>4. \A c \in Conn : ~Known(client, list, c) /\ ~HasLogin(client, adding, c)
    <2>1. ToSet(list) = {}
        BY <1>1, EmptyHasNoElements
    <2> QED  BY <2>1, <1>1, <1>3 DEF Known, Candidate, HasLogin, InWindow
<1>5. KnownAreSettled(client, list, adding)
    BY <1>1, <1>4, EmptyHasNoElements DEF KnownAreSettled
<1>6. OneToken(client, adding) /\ LoginsAreAsked(client, adding)
    BY <1>1, <1>3, <1>4 DEF OneToken, LoginsAreAsked
<1>7. AllHonest(client)
    BY <1>3 DEF AllHonest, Honest, Authentic, Anonymous, HisRank
<1>8. OwnKind(client, adding)
    BY <1>1, <1>3 DEF OwnKind, Candidate
<1>9. list \in Seq(Conn) /\ adding \subseteq Call
    BY <1>1
<1> QED  BY <1>1, <1>5, <1>6, <1>7, <1>8, <1>9 DEF LInv, Logins, Types

LEMMA EveryLoginStep == IInv /\ IInv' /\ LInv /\ [Next]_vars => LInv'
<1> SUFFICES ASSUME IInv, IInv', LInv, [Next]_vars  PROVE LInv'
    OBVIOUS
<1>1. CASE UNCHANGED vars
    BY <1>1 DEF vars, LInv
<1>2. ASSUME NEW g \in Conn, NEW r \in Request, Login(g, r) \/ Relogin(g, r)
      PROVE  LInv'
    BY <1>2, LoginAsks, ReloginCases, AskingLogins, ResumingLogins
<1>3. ASSUME NEW g \in Conn, NEW n \in {r.name : r \in Request}, CheckPwd(g, n)
      PROVE  LInv'
    <2>1. n \in Name
        BY RequestAssumption
    <2> QED  BY <1>3, <2>1, CheckPwdAsks, AskingLogins
<1>4. ASSUME NEW g \in Conn, \/ Pong(g) \/ CriticalError(g) \/ DisconnectCmd(g)
                             \/ \E t \in Conn : Kick(g, t)
      PROVE  LInv'
    BY <1>4, QuietPackets
<1>5. ASSUME NEW g \in Conn, AnswerForPending(g) \/ PwdChallenge(g)
      PROVE  LInv'
    BY <1>5, AnswerForPendingLogins, PwdChallengeAsks, AskingLogins
<1>6. ASSUME NEW g \in Conn, \/ Accept(g) \/ Timeout(g) \/ PeerCloses(g) \/ Forget(g)
                             \/ WeeklyCleanup(g)
      PROVE  LInv'
    BY <1>6, QuietOthers
<1>7. ASSUME NEW g \in Conn, PingTimer(g) \/ Eof(g)
      PROVE  LInv'
    BY <1>7, PingTimerCases, EofCases, QuietStep, GivingUpLogins DEF Idles
<1>8. ASSUME NEW call \in adding, FinishLogin(call)
      PROVE  LInv'
    BY <1>8, FinishLoginLogins
<1>9. ASSUME NEW p \in Player, BanExpires(p)
      PROVE  LInv'
    BY <1>9 DEF BanExpires, LInv
<1> QED  BY <1>1, <1>2, <1>3, <1>4, <1>5, <1>6, <1>7, <1>8, <1>9 DEF Next

LEMMA SpecLInv == Spec => [](IInv /\ LInv)
<1>1. IInv /\ LInv /\ [Next]_vars => (IInv /\ LInv)'
    BY EveryStep, EveryLoginStep DEF StepOK
<1> QED  BY InitIInv, InitLInv, <1>1, PTL DEF Spec

\* However many goroutines call AddClient, which checks nothing, for the logins
\* that waited for one another: a client is entered once.
THEOREM NobodyIsListedTwice == Spec => []ListedOnce
<1>1. LInv => ListedOnce
    BY DEF LInv, Logins, KnownAreSettled, ListedOnce, IsInjective
<1> QED  BY SpecLInv, <1>1, PTL

\* A listed client with the name of an account is its owner's, and has the
\* permissions of that account or none, whatever names and nonces its login has
\* gone through and whichever goroutine has finished it.
THEOREM AccountsAreNotBorrowed == Spec => []AccountIntegrity
<1>1. LInv => AccountIntegrity
    <2> SUFFICES ASSUME LInv, NEW c \in Conn, Listed(c)
                 PROVE  HisName(client[c], Peer[c]) /\ HisRank(client[c], Peer[c])
        BY DEF AccountIntegrity, HisName, HisRank, Owns
    <2>1. Known(client, list, c)
        BY DEF Known, Listed
    <2> QED  BY <2>1 DEF LInv, Logins, KnownAreSettled, Settled
<1> QED  BY SpecLInv, <1>1, PTL

\* The connections a login waits for, and those it may still be given the place
\* of, are its own player's, though the nonce it was compared by may have been
\* changed since.
THEOREM OnlyHisOwnAreReplaced == Spec => []ReplaceOwnOnly
<1>1. LInv => ReplaceOwnOnly
    BY DEF LInv, Logins, OwnKind, ReplaceOwnOnly, Candidate, Akin, Anonymous
<1> QED  BY SpecLInv, <1>1, PTL

\* A login that waits for an open connection is in nobody else's hands: it is
\* not finished, and no other open connection will answer for it.
THEOREM OneLoginWaitsForOne == Spec => []WaitsForOne
<1>1. IInv /\ LInv => WaitsForOne
    <2> SUFFICES ASSUME IInv, LInv, NEW g \in Conn, NEW h \in Conn,
                        client[g].up, client[g].pending # Nil
                 PROVE  LET c == client[g].pending IN
                        /\ client[c].state # "CONNECTED" /\ ~Listed(c)
                        /\ client[h].pending = c => g = h
        BY DEF WaitsForOne
    <2>1. client[g].pending \in Conn
        BY FieldTypes DEF IInv, ClientsOK
    <2>2. ~Spent(client, g)
        BY DEF IInv, ClientsOK, Spent
    <2>3. ~Known(client, list, client[g].pending)
        BY <2>1, <2>2 DEF LInv, Logins, KnownAreSettled, Settled
    <2>4. client[h].pending = client[g].pending => g = h
        BY DEF LInv, Logins, OneToken
    <2> QED  BY <2>1, <2>3, <2>4 DEF Known, Listed
<1> QED  BY SpecLInv, <1>1, PTL

-----------------------------------------------------------------------------
(* What a step does to the logins it is not about. *)

\* Over, at any point of a handler.
OverIn(cl, ad, c) ==
    /\ cl[c].asked /\ cl[c].challenge = Nil
    /\ ~InWindow(ad, c)
    /\ \A k \in Conn : cl[k].pending = c =>
          Spent(cl, k) /\ (cl[c].candidates = Nil \/ cl[c].state = "RECENTLY_DISCONNECTED")

\* The login of c is worked at (of nobody, if c is Nil): others may be given up,
\* and are left alone otherwise; no login but that of c is left with anybody.
Spares(c, cl, dl) ==
    \A k \in Conn :
        /\ k # c => /\ dl[k].asked = cl[k].asked /\ dl[k].challenge = cl[k].challenge
                    /\ dl[k].candidates = cl[k].candidates
                    /\ dl[k].userName = cl[k].userName
                    /\ dl[k].permissions = cl[k].permissions
                    /\ dl[k].state \in {cl[k].state, "RECENTLY_DISCONNECTED"}
        /\ dl[k].pending \in {cl[k].pending, Nil, c}
        /\ Spent(cl, k) => Spent(dl, k) \/ dl[k].pending \in {Nil, c}

\* The rest of a handler works at the login of c only.
Spared(c, cl, ls) ==
    /\ Spares(c, cl, client')
    /\ \A call \in adding' : call \in adding \/ call.for = c
    /\ ToSet(list') \subseteq ToSet(ls)

LEMMA OverKept ==
    ASSUME NEW c, NEW cl, NEW dl, Spares(c, cl, dl), NEW ad, NEW bd,
           \A call \in bd : call \in ad \/ call.for = c,
           NEW d \in Conn, d # c, OverIn(cl, ad, d)
    PROVE  /\ OverIn(dl, bd, d)
           /\ dl[d].userName = cl[d].userName /\ dl[d].permissions = cl[d].permissions
<1>1. d # Nil
    BY ConnAssumption
<1>2. ~InWindow(bd, d)
    BY DEF InWindow, OverIn
<1>3. ASSUME NEW k \in Conn, dl[k].pending = d
      PROVE  /\ Spent(dl, k)
             /\ dl[d].candidates = Nil \/ dl[d].state = "RECENTLY_DISCONNECTED"
    <2>1. cl[k].pending = d
        BY <1>1, <1>3 DEF Spares
    <2> QED  BY <1>1, <1>3, <2>1 DEF Spares, OverIn
<1> QED  BY <1>2, <1>3 DEF OverIn, Spares

LEMMA SparesFurther ==
    ASSUME NEW c, NEW cl, NEW dl, NEW el, Spares(c, cl, dl), Spares(c, dl, el)
    PROVE  Spares(c, cl, el)
<1> SUFFICES ASSUME NEW k \in Conn
             PROVE  /\ k # c => /\ el[k].asked = cl[k].asked /\ el[k].challenge = cl[k].challenge
                                /\ el[k].candidates = cl[k].candidates
                                /\ el[k].userName = cl[k].userName
                                /\ el[k].permissions = cl[k].permissions
                                /\ el[k].state \in {cl[k].state, "RECENTLY_DISCONNECTED"}
                    /\ el[k].pending \in {cl[k].pending, Nil, c}
                    /\ Spent(cl, k) => Spent(el, k) \/ el[k].pending \in {Nil, c}
    BY DEF Spares
<1> QED  BY DEF Spares

LEMMA LessSpares ==
    ASSUME NEW c, NEW cl, NEW dl, Lessened(cl, dl)
    PROVE  Spares(c, cl, dl)
BY DEF Lessened, Spares

LEMMA SparedBefore ==
    ASSUME NEW c, NEW cl, NEW dl, NEW ls, Spares(c, cl, dl), Spared(c, dl, ls)
    PROVE  Spared(c, cl, ls)
BY SparesFurther DEF Spared

LEMMA RecordSpares ==
    ASSUME NEW cl \in [Conn -> Client], NEW c \in Conn, NEW r \in Client,
           \/ r.pending = Nil
           \/ /\ r.pending = cl[c].pending /\ r.state = cl[c].state
              /\ r.waiting = cl[c].waiting
    PROVE  /\ [cl EXCEPT ![c] = r] \in [Conn -> Client]
           /\ Spares(c, cl, [cl EXCEPT ![c] = r])
<1> DEFINE dl == [cl EXCEPT ![c] = r]
<1>1. dl \in [Conn -> Client] /\ dl[c] = r /\ \A d \in Conn : d # c => dl[d] = cl[d]
    BY UpdateType
<1> HIDE DEF dl
<1>2. Spares(c, cl, dl)
    BY <1>1 DEF Spares, Spent
<1> QED  BY <1>1, <1>2 DEF dl

LEMMA AwaitSpares ==
    ASSUME NEW cl \in [Conn -> Client], NEW c \in Conn, NEW old \in Conn
    PROVE  LET dl == [RestartPingLoop(cl, old) EXCEPT ![old].pending = c]
           IN  dl \in [Conn -> Client] /\ Spares(c, cl, dl)
<1> DEFINE dl == [RestartPingLoop(cl, old) EXCEPT ![old].pending = c]
           w == cl[old].waiting \/ cl[old].state = "CONNECTED"
           r == [cl[old] EXCEPT !.waiting = w, !.pending = c]
<1>1. cl[old] \in Client /\ w \in BOOLEAN
    BY FieldTypes
<1>2. dl = [cl EXCEPT ![old] = r]
    BY DEF RestartPingLoop
<1> HIDE DEF w
<1>3. /\ r \in Client /\ r.state = cl[old].state
      /\ r.userName = cl[old].userName /\ r.permissions = cl[old].permissions
      /\ r.candidates = cl[old].candidates /\ r.challenge = cl[old].challenge
      /\ r.asked = cl[old].asked /\ r.pending = c
    BY <1>1 DEF Client
<1> HIDE DEF r, dl
<1>4. dl \in [Conn -> Client] /\ dl[old] = r /\ \A d \in Conn : d # old => dl[d] = cl[d]
    BY <1>2, <1>3, UpdateType
<1>5. Spares(c, cl, dl)
    BY <1>3, <1>4 DEF Spares, Spent
<1> QED  BY <1>4, <1>5 DEF dl

LEMMA AbortSpares ==
    ASSUME NEW c, NEW cl \in [Conn -> Client], NEW ls, NEW call \in Call,
           Abort(cl, ls, call)
    PROVE  Spared(c, cl, ls)
<1>1. PICK dl : dl = Disconnect(cl, call.for)
    OBVIOUS
<1>2. call.for \in Conn
    BY DEF Call
<1>3. dl \in [Conn -> Client] /\ Lessened(cl, dl)
    BY <1>1, <1>2, DisconnectLessens
<1>4. Lessened(dl, Return(dl, call))
    BY <1>3, ReturnLessens
<1>5. client' = Return(dl, call) /\ list' = ls /\ adding' = adding
    BY <1>1 DEF Abort
<1>6. Lessened(cl, client')
    BY <1>3, <1>4, <1>5, LessenedFurther
<1> QED  BY <1>5, <1>6, LessSpares DEF Spared

LEMMA LoginDoneSpares ==
    ASSUME NEW cl \in [Conn -> Client], NEW ls, NEW call \in Call,
           LoginDone(cl, ls, call) \/ EnterWindow(cl, ls, call)
    PROVE  Spared(call.for, cl, ls)
<1>1. CASE EnterWindow(cl, ls, call)
    <2>1. Spares(call.for, cl, client')
        BY <1>1 DEF EnterWindow, Spares
    <2> QED  BY <2>1, <1>1 DEF EnterWindow, Spared
<1>2. CASE LoginDone(cl, ls, call)
    BY <1>1, <1>2, AbortSpares DEF LoginDone
<1> QED  BY <1>1, <1>2

LEMMA FewerSpared ==
    ASSUME NEW c, NEW cl, NEW ls \in Seq(Conn), NEW old \in Conn,
           Spared(c, cl, RemoveClient(ls, old))
    PROVE  Spared(c, cl, ls)
BY RemoveClientProperties DEF Spared

LEMMA FindUnconnectedNameSpares ==
    ASSUME NEW cl \in [Conn -> Client], NEW ls, NEW call \in Call,
           FindUnconnectedName(cl, ls, call)
    PROVE  Spared(call.for, cl, ls)
<1> DEFINE c == call.for
           me == cl[c]
           tried(i) == Numbered(me.userName, i)
           nonce(i) == IF me.ver >= BUILD20 /\ me.permissions # "UNREGISTERED"
                       THEN Downgraded(me.userName, tried(i)) ELSE me.nonce
           named(i) == [cl EXCEPT ![c].userName = tried(i),
                                  ![c].nonce = IF me.ver >= BUILD20 /\ me.permissions # "UNREGISTERED"
                                               THEN Downgraded(me.userName, tried(i)) ELSE @,
                                  ![c].permissions = "UNREGISTERED"]
<1>1. c \in Conn /\ me \in Client /\ me.userName \in Name /\ me.nonce \in Nonce
    BY FieldTypes DEF Call
<1>2. CASE Abort([cl EXCEPT ![c].userName = tried(MaxTries)], ls, call)
    <2> DEFINE n == tried(MaxTries)
               r == [me EXCEPT !.userName = n]
    <2>1. n \in Name
        <3>1. MaxTries \in 1..MaxTries
            BY BoundAssumption
        <3> QED  BY <3>1, <1>1, NumberedType
    <2>2. Abort([cl EXCEPT ![c].userName = n], ls, call)
        BY <1>2
    <2> HIDE DEF n
    <2>3. [cl EXCEPT ![c].userName = n] = [cl EXCEPT ![c] = r]
        BY <1>1
    <2>4. /\ r \in Client /\ r.pending = me.pending /\ r.state = me.state
          /\ r.waiting = me.waiting
        BY <2>1, <1>1 DEF Client
    <2> HIDE DEF r, c
    <2>5. [cl EXCEPT ![c] = r] \in [Conn -> Client] /\ Spares(c, cl, [cl EXCEPT ![c] = r])
        BY <2>4, <1>1, RecordSpares
    <2> QED  BY <2>2, <2>3, <2>5, AbortSpares, SparedBefore DEF c
<1>3. ASSUME NEW i \in 1..MaxTries, LoginDone(named(i), ls, call)
      PROVE  Spared(call.for, cl, ls)
    <2>1. tried(i) \in Name
        BY <1>1, NumberedType
    <2> DEFINE n == tried(i)
               x == nonce(i)
               r == [me EXCEPT !.userName = n, !.nonce = x, !.permissions = "UNREGISTERED"]
    <2>2. n \in Name /\ x \in Nonce
        <3> HIDE DEF tried, me, c
        <3> QED  BY <2>1, <1>1, DowngradedType
    <2>3. named(i) = [cl EXCEPT ![c] = r]
        <3> HIDE DEF c, tried
        <3> QED  BY <1>1
    <2>4. LoginDone([cl EXCEPT ![c] = r], ls, call)
        BY <2>3, <1>3
    <2> HIDE DEF n, x
    <2>5. /\ r \in Client /\ r.pending = me.pending /\ r.state = me.state
          /\ r.waiting = me.waiting
        BY <2>2, <1>1 DEF Client, Perm
    <2> HIDE DEF r, c
    <2>6. [cl EXCEPT ![c] = r] \in [Conn -> Client] /\ Spares(c, cl, [cl EXCEPT ![c] = r])
        BY <2>5, <1>1, RecordSpares
    <2> QED  BY <2>4, <2>6, LoginDoneSpares, SparedBefore DEF c
<1>4. \/ Abort([cl EXCEPT ![c].userName = tried(MaxTries)], ls, call)
      \/ \E i \in 1..MaxTries : LoginDone(named(i), ls, call)
    BY DEF FindUnconnectedName
<1> QED  BY <1>2, <1>3, <1>4

LEMMA MetType ==
    ASSUME NEW cl \in [Conn -> Client], NEW c \in Conn, NEW q \in Seq(Conn),
           q = cl[c].candidates, NEW k \in 0..Len(q)
    PROVE  /\ Met(cl, c, k) \in Client
           /\ Met(cl, c, k).pending = cl[c].pending /\ Met(cl, c, k).state = cl[c].state
           /\ Met(cl, c, k).waiting = cl[c].waiting
<1> DEFINE me == cl[c]
           F == FirstForeign(cl, c, k)
           j == CHOOSE i \in F : TRUE
           x == Downgraded(me.userName, cl[cl[c].candidates[j]].userName)
           r == [me EXCEPT !.nonce = x, !.permissions = "UNREGISTERED"]
<1>0. me \in Client
    OBVIOUS
<1>1. CASE F = {} \/ me.permissions = "UNREGISTERED"
    BY <1>0, <1>1 DEF Met
<1>2. CASE ~(F = {} \/ me.permissions = "UNREGISTERED")
    <2>1. j \in 1..Len(q)
        <3>1. j \in F
            BY <1>2
        <3> QED  BY <3>1 DEF FirstForeign
    <2>2. q[j] \in Conn
        BY <2>1, ElementOfSeq
    <2>3. x \in Nonce
        <3>1. me.userName \in Name /\ cl[q[j]].userName \in Name
            BY <2>2, FieldTypes
        <3> QED  BY <3>1, DowngradedType
    <2>4. Met(cl, c, k) = r
        BY <1>2 DEF Met
    <2> HIDE DEF x, j, F, me
    <2>5. /\ r \in Client /\ r.pending = me.pending /\ r.state = me.state
          /\ r.waiting = me.waiting
        BY <1>0, <2>3 DEF Client, Perm
    <2> QED  BY <2>4, <2>5 DEF me
<1> QED  BY <1>1, <1>2

LEMMA PoppedSpares ==
    ASSUME NEW cl \in [Conn -> Client], NEW c \in Conn, NEW q \in Seq(Conn),
           q = cl[c].candidates, NEW k \in 0..Len(q), NEW s \in Seq(Conn), NEW n \in Name
    PROVE  /\ Popped(cl, c, k, s) \in [Conn -> Client] /\ Spares(c, cl, Popped(cl, c, k, s))
           /\ Renamed(cl, c, k, s, n) \in [Conn -> Client]
           /\ Spares(c, cl, Renamed(cl, c, k, s, n))
<1> DEFINE m == Met(cl, c, k)
<1>1. /\ m \in Client /\ m.pending = cl[c].pending /\ m.state = cl[c].state
      /\ m.waiting = cl[c].waiting
    BY MetType
<1>2. /\ Popped(cl, c, k, s) = With(cl, c, MetBut(cl, c, k, s))
      /\ Renamed(cl, c, k, s, n) = With(cl, c, MetAs(cl, c, k, s, n))
    BY <1>1, SeenIsMet
<1> DEFINE r == [m EXCEPT !.candidates = s]
           t == [m EXCEPT !.candidates = s, !.userName = n]
<1>3. r = MetBut(cl, c, k, s) /\ t = MetAs(cl, c, k, s, n)
    BY DEF MetBut, MetAs
<1> HIDE DEF m
<1>4. /\ r \in Client /\ r.pending = m.pending /\ r.state = m.state /\ r.waiting = m.waiting
      /\ t \in Client /\ t.pending = m.pending /\ t.state = m.state /\ t.waiting = m.waiting
    BY <1>1 DEF Client
<1> HIDE DEF r, t
<1>5. /\ [cl EXCEPT ![c] = r] \in [Conn -> Client] /\ Spares(c, cl, [cl EXCEPT ![c] = r])
      /\ [cl EXCEPT ![c] = t] \in [Conn -> Client] /\ Spares(c, cl, [cl EXCEPT ![c] = t])
    BY <1>1, <1>4, RecordSpares
<1>6. /\ Popped(cl, c, k, s) = [cl EXCEPT ![c] = r]
      /\ Renamed(cl, c, k, s, n) = [cl EXCEPT ![c] = t]
    BY <1>2, <1>3 DEF With
<1> QED  BY <1>5, <1>6

LEMMA CheckCandidatesSpares ==
    ASSUME NEW cl \in [Conn -> Client], NEW ls \in Seq(Conn), NEW call \in Call,
           NEW c \in Conn, c = call.for, NEW q \in Seq(Conn), q = cl[c].candidates,
           cl[c].state = "HANDSHAKE", CheckCandidates(cl, ls, call)
    PROVE  Spared(c, cl, ls)
<1>1. CASE Opens(cl, ls, call, c, q)
    <2>1. /\ <<>> \in Seq(Conn) /\ Len(q) \in 0..Len(q) /\ <<>> \in Name
        BY LenProperties DEF Name
    <2>2. /\ Popped(cl, c, Len(q), <<>>) \in [Conn -> Client]
          /\ Spares(c, cl, Popped(cl, c, Len(q), <<>>))
        BY <2>1, PoppedSpares
    <2> QED  BY <2>2, <1>1, FindUnconnectedNameSpares, SparedBefore DEF Opens
<1>2. ASSUME NEW k \in 1..Len(q),
             Takes(cl, ls, call, c, q, k) \/ Awaits(cl, ls, call, c, q, k)
      PROVE  Spared(c, cl, ls)
    <2>1. PICK s : s = SubSeq(q, k + 1, Len(q))
        OBVIOUS
    <2>2. s \in Seq(Conn) /\ k \in 0..Len(q) /\ q[k] \in Conn
        <3>1. Len(q) \in Nat /\ \A j \in 1..Len(q) : q[j] \in Conn
            BY LenProperties, ElementOfSeq
        <3>2. \A j \in (k + 1)..Len(q) : q[j] \in Conn
            BY <3>1
        <3> QED  BY <2>1, <3>1, <3>2, SubSeqProperties
    <2>3. PICK n : n = cl[q[k]].userName
        OBVIOUS
    <2>4. n \in Name
        BY <2>2, <2>3, FieldTypes
    <2>5. PICK pl, nl : pl = Popped(cl, c, k, s) /\ nl = Renamed(cl, c, k, s, n)
        OBVIOUS
    <2>6. /\ pl \in [Conn -> Client] /\ Spares(c, cl, pl)
          /\ nl \in [Conn -> Client] /\ Spares(c, cl, nl)
        BY <2>2, <2>4, <2>5, PoppedSpares
    <2>7. CASE Takes(cl, ls, call, c, q, k)
        <3>1. LoginDone(nl, RemoveClient(ls, q[k]), call)
            BY <2>1, <2>3, <2>5, <2>7 DEF Takes
        <3>2. Spared(c, nl, RemoveClient(ls, q[k]))
            BY <3>1, <2>6, LoginDoneSpares
        <3> QED  BY <3>2, <2>2, <2>6, FewerSpared, SparedBefore
    <2>8. CASE Awaits(cl, ls, call, c, q, k)
        <3>1. PICK dl : dl = [RestartPingLoop(pl, q[k]) EXCEPT ![q[k]].pending = c]
            OBVIOUS
        <3>2. dl \in [Conn -> Client] /\ Spares(c, pl, dl)
            BY <3>1, <2>2, <2>6, AwaitSpares
        <3>3. client' = Return(dl, call) /\ adding' = adding /\ list' = ls
            BY <3>1, <2>1, <2>5, <2>8 DEF Awaits
        <3>4. Spares(c, dl, client')
            BY <3>2, <3>3, ReturnLessens, LessSpares
        <3>5. Spares(c, cl, client')
            BY <3>2, <3>4, <2>6, SparesFurther
        <3> QED  BY <3>3, <3>5 DEF Spared
    <2> QED  BY <1>2, <2>7, <2>8
<1>3. Opens(cl, ls, call, c, q) \/ \E k \in 1..Len(q) :
            Takes(cl, ls, call, c, q, k) \/ Awaits(cl, ls, call, c, q, k)
    BY CheckCandidatesCases
<1> QED  BY <1>1, <1>2, <1>3

LEMMA FindReplaceCandidatesSpares ==
    ASSUME NEW cl \in [Conn -> Client], NEW ls \in Seq(Conn), NEW c \in Conn,
           NEW registered, FindReplaceCandidates(cl, ls, c, registered)
    PROVE  Spared(c, cl, ls)
<1>1. PICK call : call = [by |-> c, for |-> c, clears |-> FALSE]
    OBVIOUS
<1>2. call \in Call /\ call.for = c
    BY <1>1 DEF Call
<1>3. PICK found \in FindClientsToReplace(cl, ls, cl[c].nonce, cl[c].userName) :
          LET searched == [cl EXCEPT ![c].candidates = found]
          IN  \/ CheckCandidates(searched, ls, call)
              \/ LoginDone(searched, ls, call)
              \/ FindUnconnectedName(searched, ls, call)
    BY <1>1 DEF FindReplaceCandidates
<1>4. PICK sl : sl = [cl EXCEPT ![c].candidates = found]
    OBVIOUS
<1>5. found \in Seq(Conn)
    BY FoundAreListed
<1>6. PICK r : r = [cl[c] EXCEPT !.candidates = found]
    OBVIOUS
<1>7. /\ r \in Client /\ r.pending = cl[c].pending /\ r.state = cl[c].state
      /\ r.waiting = cl[c].waiting /\ r.candidates = found
    <2>1. cl[c] \in Client
        OBVIOUS
    <2> QED  BY <2>1, <1>5, <1>6 DEF Client
<1>8. sl = [cl EXCEPT ![c] = r]
    BY <1>4, <1>6
<1>9. sl \in [Conn -> Client] /\ Spares(c, cl, sl) /\ sl[c].candidates = found
    BY <1>7, <1>8, RecordSpares, UpdateType
<1>10. \/ CheckCandidates(sl, ls, call) \/ LoginDone(sl, ls, call)
       \/ FindUnconnectedName(sl, ls, call)
    BY <1>3, <1>4
<1>11. CASE CheckCandidates(sl, ls, call)
    <2>1. CASE sl[c].state = "HANDSHAKE"
        <3>1. Spared(c, sl, ls)
            BY <2>1, <1>2, <1>5, <1>9, <1>11, CheckCandidatesSpares
        <3> QED  BY <3>1, <1>9, SparedBefore
    <2>2. CASE sl[c].state # "HANDSHAKE"
        <3>1. Abort(sl, ls, call)
            BY <2>2, <1>2, <1>11 DEF CheckCandidates
        <3> QED  BY <3>1, <1>2, <1>9, AbortSpares, SparedBefore
    <2> QED  BY <2>1, <2>2
<1>12. CASE LoginDone(sl, ls, call) \/ FindUnconnectedName(sl, ls, call)
    BY <1>12, <1>2, <1>9, LoginDoneSpares, FindUnconnectedNameSpares, SparedBefore
<1> QED  BY <1>10, <1>11, <1>12

-----------------------------------------------------------------------------
(* The steps. *)

\* A step works at no login that is over, and enters nobody else.
KeepsOver ==
    \E c \in Conn \cup {Nil} :
        /\ c # Nil => ~OverIn(client, adding, c)
        /\ Spares(c, client, client')
        /\ \A call \in adding' : call \in adding \/ call.for = c
        /\ ToSet(list') \subseteq ToSet(list) \cup {c}

LEMMA QuietKeeps ==
    ASSUME IInv, Lessened(client, client'), adding' = adding,
           list' = list \/ \E d \in Conn : list' = RemoveClient(list, d)
    PROVE  KeepsOver
<1>1. ToSet(list') \subseteq ToSet(list)
    BY RemoveClientProperties DEF IInv, ListOK
<1> QED  BY <1>1, LessSpares DEF KeepsOver

LEMMA SparedKeeps ==
    ASSUME NEW c \in Conn, ~OverIn(client, adding, c), Spared(c, client, list)
    PROVE  KeepsOver
BY DEF KeepsOver, Spared

LEMMA QuietPacketsKeep ==
    ASSUME IInv, NEW g \in Conn,
           Pong(g) \/ CriticalError(g) \/ DisconnectCmd(g) \/ \E t \in Conn : Kick(g, t)
    PROVE  KeepsOver
<1>1. HasPacket(g) /\ adding' = adding
    BY DEF Pong, CriticalError, DisconnectCmd, Kick, Handles
<1>2. /\ Received(g) \in [Conn -> Client] /\ Lessened(client, Received(g))
      /\ \A t \in Conn : Lessened(client, Disconnect(Received(g), t))
    BY <1>1, ReceivedLessens, DisconnectLessens, LessenedFurther
<1>3. Lessened(client, client')
    BY <1>2 DEF Pong, CriticalError, DisconnectCmd, Kick
<1>4. list' = list \/ \E d \in Conn : list' = RemoveClient(list, d)
    BY DEF Pong, CriticalError, DisconnectCmd, Kick
<1> QED  BY <1>1, <1>3, <1>4, QuietKeeps

LEMMA QuietOthersKeep ==
    ASSUME IInv, NEW g \in Conn,
           \/ Accept(g) \/ Timeout(g) \/ PeerCloses(g) \/ Forget(g) \/ WeeklyCleanup(g)
    PROVE  KeepsOver
<1>1. client \in [Conn -> Client] /\ client[g] \in Client
    BY DEF IInv, ClientsOK
<1>2. adding' = adding /\ (list' = list \/ \E d \in Conn : list' = RemoveClient(list, d))
    BY DEF Accept, Timeout, PeerCloses, Forget, WeeklyCleanup
<1>3. CASE Timeout(g) \/ WeeklyCleanup(g)
    BY <1>1, <1>2, <1>3, DisconnectLessens, QuietKeeps DEF Timeout, WeeklyCleanup
<1>4. CASE Accept(g) \/ PeerCloses(g) \/ Forget(g)
    <2>1. \A d \in Conn :
              /\ client'[d].userName = client[d].userName /\ client'[d].nonce = client[d].nonce
              /\ client'[d].permissions = client[d].permissions
              /\ client'[d].candidates = client[d].candidates
              /\ client'[d].challenge = client[d].challenge
              /\ client'[d].asked = client[d].asked
              /\ client'[d].pending = client[d].pending /\ client'[d].state = client[d].state
              /\ client'[d].waiting = client[d].waiting
        BY <1>1, <1>4 DEF Accept, PeerCloses, Forget, Client
    <2> QED  BY <1>1, <1>2, <2>1, SameLogins, QuietKeeps
<1> QED  BY <1>3, <1>4

\* A packet that asks for something: g has not asked before.
LEMMA FillSpares ==
    ASSUME IInv, NEW g \in Conn, HasPacket(g), NEW r \in Client, r.pending = Nil
    PROVE  Fill(g, r) \in [Conn -> Client] /\ Spares(g, client, Fill(g, r))
<1>1. Received(g) \in [Conn -> Client] /\ Spares(g, client, Received(g))
    BY ReceivedLessens, LessSpares
<1>2. /\ Fill(g, r) \in [Conn -> Client] /\ Spares(g, Received(g), Fill(g, r))
    BY <1>1, RecordSpares DEF Fill
<1> QED  BY <1>1, <1>2, SparesFurther

LEMMA AskingKeeps ==
    ASSUME IInv, NEW g \in Conn, Asks(g)
    PROVE  KeepsOver
<1>1. HasPacket(g) /\ (~client[g].asked \/ client[g].challenge # Nil)
    BY DEF Asks
<1>2. PICK r \in Client :
        /\ Plain(g, r)
        /\ \/ /\ client' = Fill(g, r) \/ client' = Disconnect(Fill(g, r), g)
              /\ UNCHANGED <<list, adding>>
           \/ \E registered \in BOOLEAN : FindReplaceCandidates(Fill(g, r), list, g, registered)
    BY DEF Asks
<1>3. r.pending = Nil
    BY <1>2 DEF Plain
<1>4. Fill(g, r) \in [Conn -> Client] /\ Spares(g, client, Fill(g, r))
    BY <1>1, <1>3, FillSpares
<1>5. ~OverIn(client, adding, g)
    BY <1>1 DEF OverIn
<1>6. CASE /\ client' = Fill(g, r) \/ client' = Disconnect(Fill(g, r), g)
           /\ UNCHANGED <<list, adding>>
    <2>1. Spares(g, client, client')
        BY <1>4, <1>6, DisconnectLessens, LessSpares, SparesFurther
    <2> QED  BY <2>1, <1>5, <1>6, SparedKeeps DEF Spared
<1>7. ASSUME NEW registered \in BOOLEAN,
             FindReplaceCandidates(Fill(g, r), list, g, registered)
      PROVE  KeepsOver
    <2>1. list \in Seq(Conn)
        BY DEF IInv, ListOK
    <2>2. Spared(g, Fill(g, r), list)
        BY <1>4, <1>7, <2>1, FindReplaceCandidatesSpares
    <2> QED  BY <2>2, <1>4, <1>5, SparedBefore, SparedKeeps
<1> QED  BY <1>2, <1>6, <1>7

LEMMA ResumingKeeps ==
    ASSUME IInv, NEW g \in Conn, Resumes(g)
    PROVE  KeepsOver
<1>1. HasPacket(g) /\ ~client[g].asked /\ list \in Seq(Conn)
    BY DEF Resumes, IInv, ListOK
<1>2. PICK old \in Conn, i \in Client :
        /\ Plain(g, i)
        /\ \/ EnterWindow(Fill(g, i), RemoveClient(list, old),
                          [by |-> g, for |-> g, clears |-> FALSE])
           \/ /\ client' = [RestartPingLoop(Fill(g, i), old) EXCEPT ![old].pending = g]
              /\ UNCHANGED <<list, adding>>
    BY DEF Resumes
<1>3. PICK dl : dl = Fill(g, i)
    OBVIOUS
<1>4. dl \in [Conn -> Client] /\ Spares(g, client, dl)
    BY <1>1, <1>2, <1>3, FillSpares DEF Plain
<1>5. ~OverIn(client, adding, g)
    BY <1>1 DEF OverIn
<1>6. CASE EnterWindow(dl, RemoveClient(list, old), [by |-> g, for |-> g, clears |-> FALSE])
    <2>1. PICK call : call = [by |-> g, for |-> g, clears |-> FALSE]
        OBVIOUS
    <2>2. call \in Call /\ call.for = g
        BY <2>1 DEF Call
    <2>3. Spared(g, dl, RemoveClient(list, old))
        BY <2>1, <2>2, <1>4, <1>6, LoginDoneSpares
    <2> QED  BY <2>3, <1>1, <1>4, <1>5, FewerSpared, SparedBefore, SparedKeeps
<1>7. CASE /\ client' = [RestartPingLoop(dl, old) EXCEPT ![old].pending = g]
           /\ UNCHANGED <<list, adding>>
    <2>1. Spares(g, dl, client')
        BY <1>4, <1>7, AwaitSpares
    <2> QED  BY <2>1, <1>4, <1>5, <1>7, SparesFurther, SparedKeeps DEF Spared
<1> QED  BY <1>2, <1>3, <1>6, <1>7

\* A login that is over is taken up once more by a connection that is given up,
\* when a late packet is read: in vain.
LEMMA AnswerForPendingKeeps ==
    ASSUME IInv, NEW g \in Conn, AnswerForPending(g)
    PROVE  KeepsOver
<1>1. PICK call : call = [by |-> g, for |-> client[g].pending, clears |-> TRUE]
    OBVIOUS
<1>2. PICK c, cl : c = client[g].pending /\ cl = Received(g)
    OBVIOUS
<1>3. HasPacket(g) /\ c # Nil
    BY <1>2 DEF AnswerForPending
<1>4. c \in Conn /\ call \in Call /\ call.for = c /\ list \in Seq(Conn)
    <2>1. c \in Conn
        BY <1>2, <1>3, FieldTypes DEF IInv, ClientsOK
    <2> QED  BY <2>1, <1>1, <1>2 DEF Call, IInv, ListOK
<1>5. /\ cl \in [Conn -> Client] /\ Lessened(client, cl)
      /\ cl[c].candidates = client[c].candidates /\ cl[c].state = client[c].state
    BY <1>2, <1>3, <1>4, ReceivedLessens
<1>6. \/ Abort(cl, list, call)
      \/ client[c].candidates # Nil /\ CheckCandidates(cl, list, call)
    BY <1>1, <1>2 DEF AnswerForPending
<1>7. CASE Abort(cl, list, call)
    <2>1. Spared(Nil, client, list)
        BY <1>4, <1>5, <1>7, AbortSpares, LessSpares, SparedBefore
    <2>2. \A x \in adding' : x \in adding
        BY <1>7 DEF Abort
    <2> QED  BY <2>1, <2>2 DEF Spared, KeepsOver
<1>8. CASE /\ client[c].candidates # Nil /\ client[c].state = "HANDSHAKE"
           /\ CheckCandidates(cl, list, call)
    <2>1. ~OverIn(client, adding, c)
        BY <1>2, <1>8 DEF OverIn
    <2>2. cl[c].candidates \in Seq(Conn)
        BY <1>4, <1>5, <1>8, FieldTypes
    <2>3. Spared(c, cl, list)
        BY <2>2, <1>4, <1>5, <1>8, CheckCandidatesSpares
    <2>4. Spared(c, client, list)
        BY <2>3, <1>5, LessSpares, SparedBefore
    <2> QED  BY <2>1, <2>4, <1>4, SparedKeeps
<1>9. CASE client[c].state # "HANDSHAKE" /\ CheckCandidates(cl, list, call)
    BY <1>4, <1>5, <1>7, <1>9 DEF CheckCandidates
<1> QED  BY <1>6, <1>7, <1>8, <1>9

\* A connection is given up once: the login that waits for it is not over.
LEMMA GivingUpKeeps ==
    ASSUME IInv, NEW g \in Conn, ~Spent(client, g),
           NEW gone \in [Conn -> Client], GivenUp(g, gone)
    PROVE  KeepsOver
<1>1. PICK c, n : c = client[g].pending /\ n = client[g].userName
    OBVIOUS
<1>2. PICK call : call = [by |-> g, for |-> c, clears |-> FALSE]
    OBVIOUS
<1>3. \/ client' = gone /\ UNCHANGED <<list, adding>>
      \/ c # Nil /\ EnterWindow(gone, RemoveClient(list, g), call)
      \/ c # Nil /\ LoginDone([gone EXCEPT ![c].userName = n], RemoveClient(list, g), call)
    BY <1>1, <1>2, Zenon DEF GivenUp
<1>4. Lessened(client, gone) /\ list \in Seq(Conn)
    BY DEF GivenUp, IInv, ListOK
<1>5. CASE client' = gone /\ UNCHANGED <<list, adding>>
    BY <1>4, <1>5, QuietKeeps
<1>6. CASE c # Nil
    <2>1. c \in Conn /\ n \in Name /\ call \in Call /\ call.for = c
        <3>1. c \in Conn /\ n \in Name
            BY <1>1, <1>6, FieldTypes DEF IInv, ClientsOK
        <3> QED  BY <3>1, <1>2 DEF Call
    <2>2. ~OverIn(client, adding, c)
        BY <1>1 DEF OverIn
    <2>3. Spares(c, client, gone)
        BY <1>4, LessSpares
    <2>4. CASE EnterWindow(gone, RemoveClient(list, g), call)
        <3>1. Spared(c, gone, RemoveClient(list, g))
            BY <2>1, <2>4, LoginDoneSpares
        <3> QED  BY <3>1, <2>1, <2>2, <2>3, <1>4, FewerSpared, SparedBefore, SparedKeeps
    <2>5. CASE LoginDone([gone EXCEPT ![c].userName = n], RemoveClient(list, g), call)
        <3>1. PICK r : r = [gone[c] EXCEPT !.userName = n]
            OBVIOUS
        <3>2. gone[c] \in Client
            BY <2>1
        <3>3. /\ r \in Client /\ r.pending = gone[c].pending /\ r.state = gone[c].state
              /\ r.waiting = gone[c].waiting
            BY <3>1, <3>2, <2>1 DEF Client
        <3>4. PICK dl : dl = [gone EXCEPT ![c] = r]
            OBVIOUS
        <3>5. dl \in [Conn -> Client] /\ Spares(c, gone, dl)
            BY <3>3, <3>4, <2>1, RecordSpares
        <3>6. LoginDone(dl, RemoveClient(list, g), call)
            BY <3>1, <3>4, <2>5
        <3>7. Spared(c, dl, RemoveClient(list, g))
            BY <3>5, <3>6, <2>1, LoginDoneSpares
        <3>8. Spared(c, client, list)
            BY <3>5, <3>7, <2>3, <1>4, FewerSpared, SparedBefore
        <3> QED  BY <3>8, <2>1, <2>2, SparedKeeps
    <2> QED  BY <2>4, <2>5, <1>3, <1>5
<1> QED  BY <1>3, <1>5, <1>6

LEMMA GivesUpKeeps ==
    ASSUME IInv, NEW g \in Conn, Idles \/ GivesUp(g)
    PROVE  KeepsOver
BY QuietKeeps, GivingUpKeeps DEF Idles, GivesUp

LEMMA FinishLoginKeeps ==
    ASSUME IInv, LInv, NEW call \in adding, FinishLogin(call)
    PROVE  KeepsOver
<1>1. PICK c : c = call.for
    OBVIOUS
<1>2. client \in [Conn -> Client] /\ call \in Call /\ c \in Conn /\ client[c] \in Client
    BY <1>1 DEF IInv, ClientsOK, CallsOK, Call
<1>3. InWindow(adding, c)
    BY <1>1 DEF InWindow
<1>4. client[c].pending = Nil /\ ~OverIn(client, adding, c)
    BY <1>2, <1>3 DEF LInv, Logins, KnownAreSettled, Known, Settled, OverIn
<1>5. PICK r : r = [client[c] EXCEPT !.state = "CONNECTED", !.candidates = Nil]
    OBVIOUS
<1>6. r \in Client /\ r.pending = Nil
    BY <1>2, <1>4, <1>5 DEF Client
<1>7. PICK cl : cl = [client EXCEPT ![c] = r]
    OBVIOUS
<1>8. cl \in [Conn -> Client] /\ Spares(c, client, cl)
    BY <1>2, <1>6, <1>7, RecordSpares
<1>9. client' = Return(cl, call) /\ list' = Append(list, c) /\ adding' = adding \ {call}
    BY <1>1, <1>2, <1>5, <1>7 DEF FinishLogin
<1>10. Spares(c, client, client')
    BY <1>2, <1>8, <1>9, ReturnLessens, LessSpares, SparesFurther
<1>11. ToSet(list') \subseteq ToSet(list) \cup {c}
    <2>1. /\ list \in Seq(Conn) /\ Len(list) \in Nat
          /\ DOMAIN list = 1..Len(list)
        BY LenProperties DEF IInv, ListOK
    <2>2. /\ DOMAIN list' = 1..(Len(list) + 1)
          /\ \A i \in 1..Len(list) : list'[i] = list[i]
          /\ list'[Len(list) + 1] = c
        <3>1. /\ list' \in Seq(Conn) /\ Len(list') = Len(list) + 1
              /\ \A i \in 1..Len(list) : list'[i] = list[i]
              /\ list'[Len(list) + 1] = c
            BY <2>1, <1>2, <1>9, AppendProperties
        <3> QED  BY <3>1, LenProperties
    <2> QED  BY <2>1, <2>2 DEF ToSet
<1> QED  BY <1>2, <1>4, <1>9, <1>10, <1>11 DEF KeepsOver

LEMMA EveryStepKeeps == IInv /\ LInv /\ [Next]_vars => KeepsOver
<1> SUFFICES ASSUME IInv, LInv, [Next]_vars  PROVE KeepsOver
    OBVIOUS
<1>1. CASE UNCHANGED vars
    <2>1. Lessened(client, client')
        BY <1>1 DEF vars, Lessened
    <2> QED  BY <2>1, <1>1, QuietKeeps DEF vars
<1>2. ASSUME NEW g \in Conn, NEW r \in Request, Login(g, r) \/ Relogin(g, r)
      PROVE  KeepsOver
    BY <1>2, LoginAsks, ReloginCases, AskingKeeps, ResumingKeeps
<1>3. ASSUME NEW g \in Conn, NEW n \in {r.name : r \in Request}, CheckPwd(g, n)
      PROVE  KeepsOver
    <2>1. n \in Name
        BY RequestAssumption
    <2> QED  BY <1>3, <2>1, CheckPwdAsks, AskingKeeps
<1>4. ASSUME NEW g \in Conn, \/ Pong(g) \/ CriticalError(g) \/ DisconnectCmd(g)
                             \/ \E t \in Conn : Kick(g, t)
      PROVE  KeepsOver
    BY <1>4, QuietPacketsKeep
<1>5. ASSUME NEW g \in Conn, AnswerForPending(g) \/ PwdChallenge(g)
      PROVE  KeepsOver
    BY <1>5, AnswerForPendingKeeps, PwdChallengeAsks, AskingKeeps
<1>6. ASSUME NEW g \in Conn, \/ Accept(g) \/ Timeout(g) \/ PeerCloses(g) \/ Forget(g)
                             \/ WeeklyCleanup(g)
      PROVE  KeepsOver
    BY <1>6, QuietOthersKeep
<1>7. ASSUME NEW g \in Conn, PingTimer(g) \/ Eof(g)
      PROVE  KeepsOver
    BY <1>7, PingTimerCases, EofCases, GivesUpKeeps
<1>8. ASSUME NEW call \in adding, FinishLogin(call)
      PROVE  KeepsOver
    BY <1>8, FinishLoginKeeps
<1>9. ASSUME NEW p \in Player, BanExpires(p)
      PROVE  KeepsOver
    <2>1. Lessened(client, client')
        BY <1>9 DEF BanExpires, Lessened
    <2> QED  BY <2>1, <1>9, QuietKeeps DEF BanExpires
<1> QED  BY <1>1, <1>2, <1>3, <1>4, <1>5, <1>6, <1>7, <1>8, <1>9 DEF Next

-----------------------------------------------------------------------------
(* The abstract lobby. *)

LEMMA OverIsOver == ASSUME NEW c \in Conn  PROVE Over(c) <=> OverIn(client, adding, c)
BY DEF Over, OverIn, InWindow, Spent

LEMMA ListedAreOver ==
    ASSUME LInv, NEW c \in Conn, Listed(c)
    PROVE  /\ Over(c)
           /\ HisName(client[c], Peer[c]) /\ HisRank(client[c], Peer[c])
<1>1. Settled(client, adding, c)
    BY DEF LInv, Logins, KnownAreSettled, Known, Listed
<1> QED  BY <1>1, OverIsOver DEF Settled, OverIn

\* What a step means for one connection.
Moves(c) ==
    /\ Over(c) => /\ Over(c)'
                  /\ client'[c].userName = client[c].userName
                  /\ client'[c].permissions = client[c].permissions
    /\ Listed(c)' => /\ Listed(c) \/ ~Over(c)
                     /\ HisName(client'[c], Peer[c]) /\ HisRank(client'[c], Peer[c])
    /\ Listed(c) => Over(c) /\ (Listed(c)' \/ ~client'[c].up)

LEMMA EveryStepMoves == IInv /\ LInv /\ LInv' /\ [Next]_vars => \A c \in Conn : Moves(c)
<1> SUFFICES ASSUME IInv, LInv, LInv', [Next]_vars, NEW c \in Conn  PROVE Moves(c)
    OBVIOUS
<1>1. PICK k \in Conn \cup {Nil} :
        /\ k # Nil => ~OverIn(client, adding, k)
        /\ Spares(k, client, client')
        /\ \A call \in adding' : call \in adding \/ call.for = k
        /\ ToSet(list') \subseteq ToSet(list) \cup {k}
    BY EveryStepKeeps DEF KeepsOver
<1>2. c # Nil
    BY ConnAssumption
<1>3. Over(c) => c # k
    BY <1>1, <1>2, OverIsOver
<1>4. Over(c)' <=> OverIn(client', adding', c)
    BY DEF Over, OverIn, InWindow, Spent
<1>5. Over(c) => /\ Over(c)'
                 /\ client'[c].userName = client[c].userName
                 /\ client'[c].permissions = client[c].permissions
    <2>1. SUFFICES ASSUME OverIn(client, adding, c), c # k
                   PROVE  /\ OverIn(client', adding', c)
                          /\ client'[c].userName = client[c].userName
                          /\ client'[c].permissions = client[c].permissions
        BY <1>3, <1>4, OverIsOver
    <2> QED  BY <1>1, <2>1, OverKept
<1>6. Listed(c)' => /\ Listed(c) \/ ~Over(c)
                    /\ HisName(client'[c], Peer[c]) /\ HisRank(client'[c], Peer[c])
    <2>1. Listed(c)' => HisName(client'[c], Peer[c]) /\ HisRank(client'[c], Peer[c])
        BY DEF LInv, Logins, KnownAreSettled, Known, Listed, Settled
    <2> QED  BY <2>1, <1>1, <1>3 DEF Listed
<1>7. Listed(c) => Over(c) /\ (Listed(c)' \/ ~client'[c].up)
    BY EveryStep, ListedAreOver DEF StepOK, Drops, Listed
<1> QED  BY <1>5, <1>6, <1>7 DEF Moves

\* Where a connection is, what it is called, and what it may do there.
Place(c) == IF Listed(c) THEN "inside" ELSE IF Over(c) THEN "gone" ELSE "outside"
NameIn(c) == IF Listed(c) THEN client[c].userName ELSE <<>>
RankIn(c) == IF Listed(c) THEN client[c].permissions ELSE "UNREGISTERED"

LEMMA InitInLobby == Init => InLobby!Init
<1> SUFFICES ASSUME Init  PROVE InLobby!Init
    OBVIOUS
<1>1. \A c \in Conn : client[c] = NewClient /\ ~Listed(c)
    BY EmptyHasNoElements DEF Init, Listed
<1>2. \A c \in Conn : ~Over(c)
    BY <1>1 DEF Over, NewClient
<1>3. \A c \in Conn : client[c].up = FALSE
    BY <1>1 DEF NewClient
<1>4. \A c \in Conn : Place(c) = "outside"
    BY <1>1, <1>2 DEF Place
<1>5. \A c \in Conn : NameIn(c) = <<>> /\ RankIn(c) = "UNREGISTERED"
    BY <1>1 DEF NameIn, RankIn
<1>6. /\ [c \in Conn |-> Place(c)] = [c \in Conn |-> "outside"]
      /\ [c \in Conn |-> NameIn(c)] = [c \in Conn |-> <<>>]
      /\ [c \in Conn |-> RankIn(c)] = [c \in Conn |-> "UNREGISTERED"]
      /\ [c \in Conn |-> client[c].up] = [c \in Conn |-> FALSE]
    BY <1>3, <1>4, <1>5
<1> QED  BY <1>6, Zenon DEF InLobby!Init, InLobby!NoName, InLobby!NoRank, Place, NameIn, RankIn

LEMMA MovesInLobby ==
    ASSUME client \in [Conn -> Client], client' \in [Conn -> Client], NEW c \in Conn, Moves(c)
    PROVE  InLobby!Enter(c) \/ InLobby!Leave(c) \/ InLobby!GiveUp(c) \/ InLobby!Stay(c)
<1>1. CASE Listed(c) /\ Listed(c)'
    <2>1. InLobby!Stay(c)
        BY <1>1 DEF Moves, InLobby!Stay
    <2> QED  BY <2>1
<1>2. CASE Listed(c) /\ ~Listed(c)'
    <2>1. InLobby!Leave(c)
        BY <1>2 DEF Moves, InLobby!Leave, InLobby!NoName, InLobby!NoRank
    <2> QED  BY <2>1
<1>3. CASE ~Listed(c) /\ Listed(c)'
    <2>1. InLobby!MayBear(c, client'[c].userName, client'[c].permissions)
        BY <1>3 DEF Moves, InLobby!MayBear, InLobby!NoRank, HisName, HisRank, Owns
    <2>2. InLobby!Enter(c)
        BY <2>1, <1>3 DEF Moves, InLobby!Enter
    <2> QED  BY <2>2
<1>4. CASE ~Listed(c) /\ ~Listed(c)'
    <2>1. CASE ~Over(c) /\ Over(c)'
        <3>1. InLobby!GiveUp(c)
            BY <2>1, <1>4 DEF InLobby!GiveUp
        <3> QED  BY <3>1
    <2>2. CASE Over(c) <=> Over(c)'
        <3>1. InLobby!Stay(c)
            BY <2>2, <1>4 DEF InLobby!Stay
        <3> QED  BY <3>1
    <2> QED  BY <2>1, <2>2 DEF Moves
<1> QED  BY <1>1, <1>2, <1>3, <1>4

\* The session registry implements the abstract lobby: whichever goroutine
\* finishes a login, with whatever is left of it in other clients, a connection
\* is in the lobby once, as who it may be, and until it is closed.
THEOREM ImplementsPresence == Spec => IsPresence
<1>1. IInv /\ LInv /\ [Next]_vars => InLobby!Next
    <2> SUFFICES ASSUME IInv, LInv, [Next]_vars  PROVE InLobby!Next
        OBVIOUS
    <2>1. IInv' /\ LInv'
        BY EveryStep, EveryLoginStep DEF StepOK
    <2>2. client \in [Conn -> Client] /\ client' \in [Conn -> Client]
        BY <2>1 DEF IInv, ClientsOK
    <2>3. \A c \in Conn : Moves(c)
        BY <2>1, EveryStepMoves
    <2> QED  BY <2>2, <2>3, MovesInLobby DEF InLobby!Next
<1> QED  BY SpecLInv, InitInLobby, <1>1, PTL DEF Spec, IsPresence, InLobby!Spec
=============================================================================
