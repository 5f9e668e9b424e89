----------------------------- MODULE RelayProofs -----------------------------
(***************************************************************************)
(* Theorems about a game of the relay, for any number of connections and   *)
(* of ids: its type invariant, that the ids of its clients differ, and     *)
(* that the metaserver has been told of a game that is gone; that it       *)
(* implements RelayGame; that nobody stays in it unattended, hosts         *)
(* included; and that the host knows who speaks to it and hears of all     *)
(* who leave, as long as one peer at most knows the password.              *)
(***************************************************************************)
EXTENDS Relay, TLAPS, SequenceTheorems

\* What may be on a call stack once the goroutine has begun: `hello' is only
\* ever the beginning, and nobody is about to take a game off the list of which
\* the metaserver has not been told (tl is what it has been told).
Allowed(tl) == {o \in Operation : /\ o.do # "hello"
                                  /\ o.do = "removeGame" => "GameClosed" \in tl}

Hello(td, c) == td[Deal(c)] = <<Do("hello", c)>>

StacksOK(td, tl) ==
    \A g \in Goroutine : \/ td[g] \in Seq(Allowed(tl))
                         \/ \E c \in Conn : g = Deal(c) /\ Hello(td, c)

\* A connection that has not said HELLO is no client of the game yet.
NewcomersOK(td, cn, cl) ==
    \A c \in Conn : /\ Hello(td, c) => cn[c] # "none" /\ c \notin ToSet(cl)
                    /\ cn[c] = "none" => c \notin ToSet(cl)

\* The ids of the clients were given away, and one by one.
IdsOK(i, cl, next) ==
    /\ next \in (ID_HOST + 1)..IdLimit
    /\ \A k \in 1..Len(cl) : i[cl[k]] \in (ID_HOST + 1)..(next - 1)
    /\ \A j, k \in 1..Len(cl) : j # k => i[cl[j]] # i[cl[k]]

IInv ==
    /\ TypeOK
    /\ StacksOK(todo, told)
    /\ NewcomersOK(todo, conn, clients)
    /\ IdsOK(id, clients, nextClientId)
    /\ ToldBeforeRemoved

-----------------------------------------------------------------------------
(* Goroutines and operations.                                              *)

\* The goroutines of a connection exist, and no two roles share one.
LEMMA Goroutines ==
    /\ \A c \in Conn : /\ Deal(c) \in Goroutine
                       /\ Read(c) \in Goroutine
                       /\ PingLoop(c) \in Goroutine
    /\ \A r \in Caller : RPC(r) \in Goroutine
    /\ Timer \in Goroutine
    /\ \A c, d \in Conn : /\ Deal(c) = Deal(d) => c = d
                          /\ Read(c) # Deal(d)
                          /\ PingLoop(c) # Deal(d)
                          /\ PingLoop(c) # Read(d)
    /\ \A c \in Conn, r \in Caller : RPC(r) # Deal(c)
    /\ \A c \in Conn : Timer # Deal(c)
BY DEF Goroutine, Deal, Read, PingLoop, RPC, Timer

\* The operations the code puts on a stack are operations.
LEMMA OperationsOfConnection ==
    ASSUME NEW c \in Conn, NEW tl
    PROVE  /\ \A w \in {"read", "readHost", "ping", "close", "disconnect", "unlist"} :
                  Do(w, c) \in Allowed(tl)
           /\ \A m \in Message : Send(c, m) \in Allowed(tl)
           /\ Do("hello", c) \in Operation /\ Do("hello", c).do = "hello"
BY DEF Do, Send, Operation, Allowed

LEMMA OperationsOfGame ==
    ASSUME NEW tl
    PROVE  /\ \A w \in {"call", "timer", "hostGone", "drain", "dropHost", "removeObject",
                        "loop"} : Do(w, Nil) \in Allowed(tl)
           /\ "GameClosed" \in tl => Do("removeGame", Nil) \in Allowed(tl)
BY DEF Do, Operation, Allowed

\* What a goroutine is about to do has its argument.
LEMMA OperationArguments ==
    ASSUME NEW o \in Operation
    PROVE  /\ o.do \in {"send", "hello", "read", "readHost", "ping", "close",
                        "disconnect", "unlist"} => o.c \in Conn
           /\ o.do = "send" => o.m \in Message
BY DEF Operation

LEMMA AllowedOperations ==
    ASSUME NEW tl, NEW tm, tl \subseteq tm
    PROVE  Allowed(tl) \subseteq Allowed(tm) /\ Allowed(tm) \subseteq Operation
BY DEF Allowed

\* The messages the code sends are messages.
LEMMA Messages ==
    /\ 0 \in Id /\ ID_HOST \in Id
    /\ \A i \in Id : /\ <<"welcome", 0>> \in Message
                     /\ <<"disconnect", 0>> \in Message
                     /\ <<"data", 0>> \in Message
                     /\ <<"connectClient", i>> \in Message
                     /\ <<"disconnectClient", i>> \in Message
                     /\ <<"fromClient", i>> \in Message
BY IdAssumption DEF Id, Message, ID_HOST

\* Short sequences.
LEMMA ShortSeq ==
    ASSUME NEW S, NEW x \in S, NEW y \in S, NEW z \in S
    PROVE  /\ <<>> \in Seq(S) /\ <<x>> \in Seq(S) /\ <<x, y>> \in Seq(S)
           /\ <<x, y, z>> \in Seq(S)
OBVIOUS

\* A sequence over a set is one over a larger set.
LEMMA SeqOfLarger ==
    ASSUME NEW S, NEW T, S \subseteq T, NEW s \in Seq(S)
    PROVE  s \in Seq(T)
BY SeqDef, ElementOfSeq, LenProperties

-----------------------------------------------------------------------------
(* What the functions of the code return.                                  *)

LEMMA DisconnectType ==
    ASSUME NEW c \in Conn, NEW tl
    PROVE  Disconnect(c) \in Seq(Allowed(tl))
<1>1. /\ Send(c, <<"disconnect", 0>>) \in Allowed(tl)
      /\ Do("close", c) \in Allowed(tl)
    BY OperationsOfConnection, Messages
<1> QED  BY <1>1, ShortSeq DEF Disconnect

LEMMA DisconnectClientType ==
    ASSUME TypeOK, NEW c \in Conn \cup {Nil}, NEW tl
    PROVE  DisconnectClient(c) \in Seq(Allowed(tl))
<1>0. <<>> \in Seq(Allowed(tl))
    OBVIOUS
<1>1. CASE c = Nil
    BY <1>0, <1>1 DEF DisconnectClient
<1>2. CASE c # Nil /\ c = host
    <2>1. Disconnect(c) \in Seq(Allowed(tl)) /\ Do("hostGone", Nil) \in Allowed(tl)
        BY <1>2, DisconnectType, OperationsOfGame
    <2>2. <<Do("hostGone", Nil)>> \in Seq(Allowed(tl))
        BY <2>1
    <2>3. DisconnectClient(c) = Disconnect(c) \o <<Do("hostGone", Nil)>>
        BY <1>2 DEF DisconnectClient
    <2> QED  BY <2>1, <2>2, <2>3, ConcatProperties
<1>3. CASE c # Nil /\ c # host /\ c \in ToSet(clients)
    <2>1. TellHost(c) \in Seq(Allowed(tl))
        <3>1. CASE host = Nil
            BY <3>1, <1>0 DEF TellHost
        <3>2. CASE host # Nil
            <4>1. host \in Conn /\ id[c] \in Id
                BY <3>2, <1>3 DEF TypeOK
            <4>2. Send(host, <<"disconnectClient", id[c]>>) \in Allowed(tl)
                BY <4>1, OperationsOfConnection, Messages
            <4> QED  BY <3>2, <4>2, ShortSeq DEF TellHost
        <3> QED  BY <3>1, <3>2
    <2>2. Do("disconnect", c) \in Allowed(tl) /\ Do("unlist", c) \in Allowed(tl)
        BY <1>3, OperationsOfConnection
    <2>3. <<Do("disconnect", c), Do("unlist", c)>> \in Seq(Allowed(tl))
        BY <2>2, ShortSeq
    <2>4. DisconnectClient(c) = TellHost(c) \o <<Do("disconnect", c), Do("unlist", c)>>
        BY <1>3 DEF DisconnectClient
    <2> QED  BY <2>1, <2>3, <2>4, ConcatProperties
<1>4. CASE c # Nil /\ c # host /\ c \notin ToSet(clients)
    BY <1>0, <1>4 DEF DisconnectClient
<1> QED  BY <1>1, <1>2, <1>3, <1>4

LEMMA ShutdownType ==
    ASSUME NEW tl
    PROVE  Shutdown \in Seq(Allowed(tl))
BY OperationsOfGame, ShortSeq DEF Shutdown

-----------------------------------------------------------------------------
(* One step of a goroutine.                                                *)

\* A goroutine at an operation has one, and it is allowed unless it is `hello'.
LEMMA AtOperation ==
    ASSUME IInv, NEW g \in Goroutine, NEW w, At(g, w)
    PROVE  /\ todo[g] # <<>> /\ todo[g] \in Seq(Operation)
           /\ Head(todo[g]) \in Operation /\ Head(todo[g]).do = w
           /\ w # "hello" => Head(todo[g]) \in Allowed(told)
           /\ w \in {"send", "hello", "read", "readHost", "ping", "close",
                     "disconnect", "unlist"} => Arg(g) \in Conn
<1>1. todo[g] # <<>> /\ todo[g] \in Seq(Operation) /\ Head(todo[g]).do = w
    BY DEF IInv, TypeOK, At
<1>2. Head(todo[g]) \in Operation
    BY <1>1, HeadTailProperties
<1>3. w # "hello" => Head(todo[g]) \in Allowed(told)
    <2>1. CASE todo[g] \in Seq(Allowed(told))
        BY <2>1, <1>1, HeadTailProperties
    <2>2. CASE \E c \in Conn : g = Deal(c) /\ Hello(todo, c)
        BY <2>2, <1>1, OperationsOfConnection DEF Hello
    <2> QED  BY <2>1, <2>2 DEF IInv, StacksOK
<1> QED  BY <1>1, <1>2, <1>3, OperationArguments DEF Arg

\* Whoever says HELLO has nothing else to do yet.
LEMMA AtHello ==
    ASSUME IInv, NEW c \in Conn, At(Deal(c), "hello")
    PROVE  Hello(todo, c) /\ conn[c] # "none" /\ c \notin ToSet(clients)
<1>1. Deal(c) \in Goroutine
    BY Goroutines
<1>2. Hello(todo, c)
    <2>1. CASE todo[Deal(c)] \in Seq(Allowed(told))
        <3>1. Head(todo[Deal(c)]) \in Allowed(told)
            BY <2>1, HeadTailProperties DEF At
        <3> QED  BY <3>1 DEF At, Allowed
    <2>2. CASE \E d \in Conn : Deal(c) = Deal(d) /\ Hello(todo, d)
        BY <2>2, Goroutines
    <2> QED  BY <1>1, <2>1, <2>2 DEF IInv, StacksOK
<1> QED  BY <1>2 DEF IInv, NewcomersOK

\* What g goes on with, when its first operation is done.
LEMMA ThenType ==
    ASSUME IInv, NEW g \in Goroutine, todo[g] # <<>>,
           NEW tl, told \subseteq tl, NEW ops \in Seq(Allowed(tl)), Then(g, ops)
    PROVE  /\ todo' \in [Goroutine -> Seq(Operation)]
           /\ active' \in Goroutine \cup {Nil}
           /\ todo'[g] \in Seq(Allowed(tl))
           /\ \A k \in Goroutine : k # g => todo'[k] = todo[k]
<1> DEFINE rest == ops \o Tail(todo[g])
<1>1. todo \in [Goroutine -> Seq(Operation)]
    BY DEF IInv, TypeOK
<1>2. Tail(todo[g]) \in Seq(Allowed(tl))
    <2>1. CASE todo[g] \in Seq(Allowed(told))
        <3>1. todo[g] \in Seq(Allowed(tl))
            BY <2>1, AllowedOperations, SeqOfLarger
        <3> QED  BY <3>1, HeadTailProperties
    <2>2. CASE \E c \in Conn : g = Deal(c) /\ Hello(todo, c)
        <3>1. PICK c \in Conn : todo[g] = <<Do("hello", c)>>
            BY <2>2 DEF Hello
        <3>2. Tail(todo[g]) = <<>>
            BY <3>1
        <3>3. <<>> \in Seq(Allowed(tl))
            OBVIOUS
        <3> QED  BY <3>2, <3>3
    <2> QED  BY <2>1, <2>2 DEF IInv, StacksOK
<1>3. rest \in Seq(Allowed(tl))
    BY <1>2, ConcatProperties
<1>4. rest \in Seq(Operation)
    BY <1>3, AllowedOperations, SeqOfLarger
<1>5. /\ todo' = [todo EXCEPT ![g] = rest]
      /\ active' \in {g, Nil}
    BY DEF Then
<1> HIDE DEF rest
<1> QED  BY <1>1, <1>3, <1>4, <1>5

\* If only g's stack changes, and keeps to what is allowed, stacks and newcomers
\* stay as they should be.
LEMMA StacksKept ==
    ASSUME IInv, NEW g \in Goroutine, NEW td, NEW tl, told \subseteq tl,
           td[g] \in Seq(Allowed(tl)),
           \A k \in Goroutine : k # g => td[k] = todo[k],
           NEW cn, \A c \in Conn : cn[c] = "none" => conn[c] = "none",
           NEW cl, ToSet(cl) \subseteq ToSet(clients)
    PROVE  StacksOK(td, tl) /\ NewcomersOK(td, cn, cl)
<1>1. ASSUME NEW c \in Conn, Hello(td, c)
      PROVE  Hello(todo, c)
    <2>1. CASE Deal(c) = g
        <3>1. Head(td[g]) \in Allowed(tl) /\ Head(td[g]).do = "hello"
            BY <1>1, <2>1, HeadTailProperties, OperationsOfConnection DEF Hello
        <3> QED  BY <3>1 DEF Allowed
    <2>2. CASE Deal(c) # g
        BY <1>1, <2>2, Goroutines DEF Hello
    <2> QED  BY <2>1, <2>2
<1>2. NewcomersOK(td, cn, cl)
    BY <1>1 DEF IInv, NewcomersOK
<1>3. ASSUME NEW k \in Goroutine
      PROVE  \/ td[k] \in Seq(Allowed(tl))
             \/ \E c \in Conn : k = Deal(c) /\ Hello(td, c)
    <2>1. CASE k = g
        BY <2>1
    <2>2. CASE k # g /\ todo[k] \in Seq(Allowed(told))
        BY <2>2, AllowedOperations, SeqOfLarger
    <2>3. CASE k # g /\ \E c \in Conn : k = Deal(c) /\ Hello(todo, c)
        BY <2>3 DEF Hello
    <2> QED  BY <2>1, <2>2, <2>3 DEF IInv, StacksOK
<1> QED  BY <1>2, <1>3 DEF StacksOK

\* A step in which g does its next operation, tells the metaserver perhaps, and
\* leaves the members of the game and their ids alone.
LEMMA StepKeeps ==
    ASSUME IInv, NEW g \in Goroutine, todo[g] # <<>>, told \subseteq told',
           NEW ops \in Seq(Allowed(told')), Then(g, ops),
           \A c \in Conn : conn'[c] = "none" => conn[c] = "none",
           UNCHANGED <<clients, id, nextClientId>>
    PROVE  /\ todo' \in [Goroutine -> Seq(Operation)]
           /\ active' \in Goroutine \cup {Nil}
           /\ StacksOK(todo', told')
           /\ NewcomersOK(todo', conn', clients')
           /\ IdsOK(id', clients', nextClientId')
<1>1. /\ todo' \in [Goroutine -> Seq(Operation)]
      /\ active' \in Goroutine \cup {Nil}
      /\ todo'[g] \in Seq(Allowed(told'))
      /\ \A k \in Goroutine : k # g => todo'[k] = todo[k]
    BY ThenType
<1>2. StacksOK(todo', told') /\ NewcomersOK(todo', conn', clients)
    BY <1>1, StacksKept
<1> QED  BY <1>1, <1>2 DEF IInv

-----------------------------------------------------------------------------
(* The operations between two waits.                                       *)

LEMMA SendCommandStep ==
    ASSUME IInv, NEW g \in Goroutine, SendCommand(g)
    PROVE  IInv'
<1>1. At(g, "send") /\ Then(g, <<>>)
    BY DEF SendCommand
<1>2. todo[g] # <<>> /\ Arg(g) \in Conn /\ Head(todo[g]).m \in Message
    BY <1>1, AtOperation, OperationArguments
<1>3. <<>> \in Seq(Allowed(told'))
    OBVIOUS
<1>4. UNCHANGED <<conn, id, waitingForPong, wrote, gameVars, serverVars, panic>>
    BY DEF SendCommand
<1>5. /\ todo' \in [Goroutine -> Seq(Operation)]
      /\ active' \in Goroutine \cup {Nil}
      /\ StacksOK(todo', told') /\ NewcomersOK(todo', conn', clients')
      /\ IdsOK(id', clients', nextClientId')
    BY <1>1, <1>2, <1>3, <1>4, StepKeeps DEF gameVars, serverVars
<1>6. writer' \in [Conn -> Message \cup {Ready, Gone}]
    BY <1>2 DEF SendCommand, IInv, TypeOK
<1> QED  BY <1>4, <1>5, <1>6 DEF IInv, TypeOK, ToldBeforeRemoved, gameVars, serverVars

LEMMA CloseStep ==
    ASSUME IInv, NEW g \in Goroutine, Close(g)
    PROVE  IInv'
<1>1. At(g, "close") /\ Then(g, <<>>)
    BY DEF Close
<1>2. todo[g] # <<>> /\ Arg(g) \in Conn /\ Do("close", Arg(g)) \in Allowed(told)
    BY <1>1, AtOperation, OperationsOfConnection
<1>3. <<>> \in Seq(Allowed(told'))
    OBVIOUS
<1>4. UNCHANGED <<id, waitingForPong, writer, wrote, gameVars, serverVars>>
    BY DEF Close
<1>5. conn' \in [Conn -> {"none", "open", "nil"}] /\ panic' \in {"no", "close", "host"}
    BY DEF Close, IInv, TypeOK
<1>6. \A c \in Conn : conn'[c] = "none" => conn[c] = "none"
    BY DEF Close, IInv, TypeOK
<1>7. /\ todo' \in [Goroutine -> Seq(Operation)]
      /\ active' \in Goroutine \cup {Nil}
      /\ StacksOK(todo', told') /\ NewcomersOK(todo', conn', clients')
      /\ IdsOK(id', clients', nextClientId')
    BY <1>1, <1>2, <1>3, <1>4, <1>6, StepKeeps DEF gameVars, serverVars
<1> QED  BY <1>4, <1>5, <1>7 DEF IInv, TypeOK, ToldBeforeRemoved, gameVars, serverVars

\* Steps that go on with other operations, and touch neither members nor writers.
LEMMA GoesOn ==
    ASSUME IInv, NEW g \in Goroutine, todo[g] # <<>>,
           NEW ops \in Seq(Allowed(told)), Then(g, ops),
           UNCHANGED <<conn, id, writer, wrote, clients, nextClientId, serverVars>>,
           waitingForPong' \in [Conn -> BOOLEAN],
           host' \in Conn \cup {Nil}, shuttingDown' \in BOOLEAN,
           panic' \in {"no", "close", "host"}
    PROVE  IInv'
<1>1. UNCHANGED <<conn, id, writer, wrote, clients, nextClientId, listed, told>>
    BY DEF serverVars
<1>2. /\ todo' \in [Goroutine -> Seq(Operation)]
      /\ active' \in Goroutine \cup {Nil}
      /\ StacksOK(todo', told') /\ NewcomersOK(todo', conn', clients')
      /\ IdsOK(id', clients', nextClientId')
    BY <1>1, StepKeeps
<1> QED  BY <1>1, <1>2 DEF IInv, TypeOK, ToldBeforeRemoved

LEMMA DisconnectMemberStep ==
    ASSUME IInv, NEW g \in Goroutine, DisconnectMember(g)
    PROVE  IInv'
<1>1. At(g, "disconnect") /\ Then(g, Disconnect(Arg(g)))
    BY DEF DisconnectMember
<1>2. todo[g] # <<>> /\ Arg(g) \in Conn
    BY <1>1, AtOperation
<1>3. Disconnect(Arg(g)) \in Seq(Allowed(told))
    BY <1>2, DisconnectType
<1>4. UNCHANGED <<clientVars, gameVars, serverVars, panic>>
    BY DEF DisconnectMember
<1> QED  BY <1>1, <1>2, <1>3, <1>4, GoesOn
   DEF IInv, TypeOK, clientVars, gameVars

LEMMA HostGoneStep ==
    ASSUME IInv, NEW g \in Goroutine, HostGone(g)
    PROVE  IInv'
<1>1. At(g, "hostGone") /\ Then(g, Shutdown)
    BY DEF HostGone
<1>2. todo[g] # <<>>
    BY <1>1, AtOperation
<1>3. Shutdown \in Seq(Allowed(told))
    BY ShutdownType
<1>4. /\ host' = Nil /\ shuttingDown' = TRUE
      /\ UNCHANGED <<clientVars, clients, nextClientId, serverVars, panic>>
    BY DEF HostGone
<1> QED  BY <1>1, <1>2, <1>3, <1>4, GoesOn DEF IInv, TypeOK, clientVars

LEMMA DrainStep ==
    ASSUME IInv, NEW g \in Goroutine, Drain(g)
    PROVE  IInv'
<1>1. At(g, "drain") /\ UNCHANGED <<clientVars, gameVars, serverVars, panic>>
    BY DEF Drain
<1>2. todo[g] # <<>>
    BY <1>1, AtOperation
<1>3. PICK ops \in Seq(Allowed(told)) : Then(g, ops)
    <2>1. CASE clients = <<>> /\ Then(g, <<>>)
        <3>1. <<>> \in Seq(Allowed(told))
            OBVIOUS
        <3> QED  BY <2>1, <3>1
    <2>2. CASE /\ clients # <<>>
               /\ Then(g, Append(DisconnectClient(Head(clients)), Do("drain", Nil)))
        <3>1. Head(clients) \in Conn
            BY <2>2, HeadTailProperties DEF IInv, TypeOK
        <3>2. /\ DisconnectClient(Head(clients)) \in Seq(Allowed(told))
              /\ Do("drain", Nil) \in Allowed(told)
            BY <3>1, DisconnectClientType, OperationsOfGame DEF IInv
        <3>3. Append(DisconnectClient(Head(clients)), Do("drain", Nil)) \in Seq(Allowed(told))
            BY <3>2, AppendProperties
        <3> QED  BY <2>2, <3>3
    <2> QED  BY <2>1, <2>2 DEF Drain
<1> QED  BY <1>1, <1>2, <1>3, GoesOn DEF IInv, TypeOK, clientVars, gameVars

LEMMA DropHostStep ==
    ASSUME IInv, NEW g \in Goroutine, DropHost(g)
    PROVE  IInv'
<1>1. At(g, "dropHost") /\ Then(g, DisconnectClient(host))
    BY DEF DropHost
<1>2. todo[g] # <<>> /\ host \in Conn \cup {Nil}
    BY <1>1, AtOperation DEF IInv, TypeOK
<1>3. DisconnectClient(host) \in Seq(Allowed(told))
    BY <1>2, DisconnectClientType DEF IInv
<1>4. UNCHANGED <<clientVars, gameVars, serverVars, panic>>
    BY DEF DropHost
<1> QED  BY <1>1, <1>2, <1>3, <1>4, GoesOn
   DEF IInv, TypeOK, clientVars, gameVars

LEMMA HostLoopStep ==
    ASSUME IInv, NEW g \in Goroutine, HostLoop(g)
    PROVE  IInv'
<1> DEFINE ops == IF host = Nil THEN <<>> ELSE <<Do("readHost", host)>>
<1>1. At(g, "loop") /\ Then(g, ops)
    BY DEF HostLoop
<1>2. todo[g] # <<>> /\ host \in Conn \cup {Nil}
    BY <1>1, AtOperation DEF IInv, TypeOK
<1>3. ops \in Seq(Allowed(told))
    <2>1. <<>> \in Seq(Allowed(told))
        OBVIOUS
    <2>2. host # Nil => Do("readHost", host) \in Allowed(told)
        BY <1>2, OperationsOfConnection
    <2> QED  BY <2>1, <2>2
<1>4. UNCHANGED <<clientVars, gameVars, serverVars, panic>>
    BY DEF HostLoop
<1> HIDE DEF ops
<1> QED  BY <1>1, <1>2, <1>3, <1>4, GoesOn
   DEF IInv, TypeOK, clientVars, gameVars

LEMMA RemoveGameObjectStep ==
    ASSUME IInv, NEW g \in Goroutine, RemoveGameObject(g)
    PROVE  IInv'
<1>1. At(g, "removeObject") /\ UNCHANGED <<clientVars, gameVars, listed, panic>>
    BY DEF RemoveGameObject
<1>2. todo[g] # <<>>
    BY <1>1, AtOperation
<1>3. /\ told \subseteq told' /\ told' \subseteq {"GameConnected", "GameClosed"}
      /\ \E ops \in Seq(Allowed(told')) : Then(g, ops)
    <2>1. CASE ~listed /\ Then(g, <<>>) /\ UNCHANGED told
        <3>1. <<>> \in Seq(Allowed(told'))
            OBVIOUS
        <3> QED  BY <2>1, <3>1 DEF IInv, TypeOK
    <2>2. CASE /\ told' = told \cup {"GameClosed"}
               /\ Then(g, <<Do("removeGame", Nil)>>)
        <3>1. Do("removeGame", Nil) \in Allowed(told')
            BY <2>2, OperationsOfGame
        <3>2. <<Do("removeGame", Nil)>> \in Seq(Allowed(told'))
            BY <3>1
        <3> QED  BY <2>2, <3>2 DEF IInv, TypeOK
    <2> QED  BY <2>1, <2>2 DEF RemoveGameObject
<1>4. /\ todo' \in [Goroutine -> Seq(Operation)]
      /\ active' \in Goroutine \cup {Nil}
      /\ StacksOK(todo', told') /\ NewcomersOK(todo', conn', clients')
      /\ IdsOK(id', clients', nextClientId')
    BY <1>1, <1>2, <1>3, StepKeeps DEF clientVars, gameVars
<1> QED  BY <1>1, <1>3, <1>4 DEF IInv, TypeOK, ToldBeforeRemoved, clientVars, gameVars

LEMMA RemoveFromGamesStep ==
    ASSUME IInv, NEW g \in Goroutine, RemoveFromGames(g)
    PROVE  IInv'
<1>1. /\ At(g, "removeGame") /\ Then(g, <<>>) /\ listed' = FALSE
      /\ UNCHANGED <<clientVars, gameVars, told, panic>>
    BY DEF RemoveFromGames
<1>2. todo[g] # <<>> /\ "GameClosed" \in told
    BY <1>1, AtOperation DEF Allowed
<1>3. <<>> \in Seq(Allowed(told'))
    OBVIOUS
<1>4. /\ todo' \in [Goroutine -> Seq(Operation)]
      /\ active' \in Goroutine \cup {Nil}
      /\ StacksOK(todo', told') /\ NewcomersOK(todo', conn', clients')
      /\ IdsOK(id', clients', nextClientId')
    BY <1>1, <1>2, <1>3, StepKeeps DEF clientVars, gameVars
<1> QED  BY <1>1, <1>2, <1>4 DEF IInv, TypeOK, ToldBeforeRemoved, clientVars, gameVars

\* list.Remove: those behind the client move up.
LEMMA WithoutProperties ==
    ASSUME NEW c \in Conn, clients \in Seq(Conn), c \in ToSet(clients)
    PROVE  \E i \in 1..Len(clients) :
              /\ Without(c) \in Seq(Conn)
              /\ Len(Without(c)) = Len(clients) - 1 /\ clients[i] = c
              /\ \A j \in 1..(Len(clients) - 1) :
                    Without(c)[j] = IF j < i THEN clients[j] ELSE clients[j + 1]
<1> DEFINE i == CHOOSE j \in DOMAIN clients : clients[j] = c
           n == Len(clients)
           front == SubSeq(clients, 1, i - 1)
           back == SubSeq(clients, i + 1, n)
<1>1. Without(c) = front \o back
    BY DEF Without, RemoveAt
<1>2. n \in Nat /\ i \in 1..n /\ clients[i] = c
    <2>1. \E j \in DOMAIN clients : clients[j] = c
        BY DEF ToSet
    <2>2. i \in DOMAIN clients /\ clients[i] = c
        BY <2>1
    <2> QED  BY <2>2, LenProperties
<1> HIDE DEF i
<1>3. \A j \in 1..n : clients[j] \in Conn
    BY ElementOfSeq
<1>4. /\ front \in Seq(Conn) /\ Len(front) = i - 1
      /\ \A j \in 1..(i - 1) : front[j] = clients[j]
    <2>1. \A j \in 1..(i - 1) : clients[j] \in Conn
        BY <1>2, <1>3
    <2>2. /\ front \in Seq(Conn)
          /\ Len(front) = IF 1 <= i - 1 THEN i - 1 - 1 + 1 ELSE 0
          /\ \A j \in 1..(i - 1 - 1 + 1) : front[j] = clients[1 + j - 1]
        BY <1>2, <2>1, SubSeqProperties
    <2> QED  BY <1>2, <2>2
<1>5. /\ back \in Seq(Conn) /\ Len(back) = n - i
      /\ \A j \in 1..(n - i) : back[j] = clients[i + j]
    <2>1. \A j \in (i + 1)..n : clients[j] \in Conn
        BY <1>2, <1>3
    <2>2. /\ back \in Seq(Conn)
          /\ Len(back) = IF i + 1 <= n THEN n - (i + 1) + 1 ELSE 0
          /\ \A j \in 1..(n - (i + 1) + 1) : back[j] = clients[i + 1 + j - 1]
        BY <1>2, <2>1, SubSeqProperties
    <2> HIDE DEF back
    <2>3. ASSUME NEW j \in 1..(n - i)
          PROVE  back[j] = clients[i + j]
        <3>1. j \in 1..(n - (i + 1) + 1) /\ i + 1 + j - 1 = i + j
            BY <1>2
        <3>2. back[j] = clients[i + 1 + j - 1]
            BY <2>2, <3>1
        <3> QED  BY <3>1, <3>2
    <2>4. Len(back) = n - i
        BY <1>2, <2>2
    <2> QED  BY <2>2, <2>3, <2>4
<1> HIDE DEF front, back
<1>6. /\ front \o back \in Seq(Conn) /\ Len(front \o back) = Len(front) + Len(back)
      /\ \A j \in 1..(Len(front) + Len(back)) :
            (front \o back)[j] = IF j <= Len(front) THEN front[j] ELSE back[j - Len(front)]
    BY <1>4, <1>5, ConcatProperties
<1>7. Len(front \o back) = n - 1
    BY <1>2, <1>4, <1>5, <1>6
<1>8. ASSUME NEW j \in 1..(n - 1)
      PROVE  (front \o back)[j] = IF j < i THEN clients[j] ELSE clients[j + 1]
    BY <1>2, <1>4, <1>5, <1>6
<1> QED  BY <1>1, <1>2, <1>6, <1>7, <1>8

LEMMA UnlistStep ==
    ASSUME IInv, NEW g \in Goroutine, Unlist(g)
    PROVE  IInv'
<1>1. /\ At(g, "unlist") /\ clients' = Without(Arg(g)) /\ Then(g, <<>>)
      /\ UNCHANGED <<clientVars, host, nextClientId, shuttingDown, serverVars, panic>>
    BY DEF Unlist
<1>2. todo[g] # <<>> /\ Arg(g) \in Conn
    BY <1>1, AtOperation
<1>3. <<>> \in Seq(Allowed(told))
    OBVIOUS
<1>4. /\ todo' \in [Goroutine -> Seq(Operation)]
      /\ active' \in Goroutine \cup {Nil}
      /\ todo'[g] \in Seq(Allowed(told))
      /\ \A k \in Goroutine : k # g => todo'[k] = todo[k]
    BY <1>1, <1>2, <1>3, ThenType
<1>5. /\ clients' \in Seq(Conn) /\ ToSet(clients') \subseteq ToSet(clients)
      /\ IdsOK(id, clients', nextClientId)
    <2>1. CASE Arg(g) \notin ToSet(clients)
        BY <2>1, <1>1 DEF Without, IInv, TypeOK
    <2>2. CASE Arg(g) \in ToSet(clients)
        <3> DEFINE n == Len(clients)
        <3>1. PICK i \in 1..n :
                 /\ clients' \in Seq(Conn) /\ Len(clients') = n - 1
                 /\ \A j \in 1..(n - 1) :
                       clients'[j] = IF j < i THEN clients[j] ELSE clients[j + 1]
            BY <1>1, <1>2, <2>2, WithoutProperties DEF IInv, TypeOK
        <3>2. n \in Nat /\ DOMAIN clients = 1..n /\ DOMAIN clients' = 1..(n - 1)
            BY <3>1, LenProperties DEF IInv, TypeOK
        <3>3. ToSet(clients') \subseteq ToSet(clients)
            <4>1. ASSUME NEW j \in 1..(n - 1)
                  PROVE  clients'[j] \in ToSet(clients)
                <5>1. j \in 1..n /\ j + 1 \in 1..n
                    BY <3>2
                <5>2. clients'[j] = clients[j] \/ clients'[j] = clients[j + 1]
                    BY <3>1
                <5> QED  BY <3>2, <5>1, <5>2 DEF ToSet
            <4> QED  BY <3>2, <4>1 DEF ToSet
        <3>4. IdsOK(id, clients', nextClientId)
            <4>1. \A j \in 1..(n - 1) : j + 1 \in 1..n /\ j \in 1..n
                BY <3>2
            <4>2. Len(clients') = n - 1
                BY <3>1
            <4>3. nextClientId \in (ID_HOST + 1)..IdLimit
                BY DEF IInv, IdsOK
            <4>4. ASSUME NEW k \in 1..(n - 1)
                  PROVE  id[clients'[k]] \in (ID_HOST + 1)..(nextClientId - 1)
                BY <3>1, <4>1 DEF IInv, IdsOK
            <4>5. ASSUME NEW j \in 1..(n - 1), NEW k \in 1..(n - 1), j # k
                  PROVE  id[clients'[j]] # id[clients'[k]]
                <5> DEFINE at(l) == IF l < i THEN l ELSE l + 1
                <5>1. at(j) \in 1..n /\ at(k) \in 1..n /\ at(j) # at(k)
                    BY <3>2, <4>5
                <5>2. clients'[j] = clients[at(j)] /\ clients'[k] = clients[at(k)]
                    BY <3>1
                <5>3. id[clients[at(j)]] # id[clients[at(k)]]
                    BY <5>1 DEF IInv, IdsOK
                <5> QED  BY <5>2, <5>3
            <4> QED  BY <4>2, <4>3, <4>4, <4>5 DEF IdsOK
        <3> QED  BY <3>1, <3>3, <3>4
    <2> QED  BY <2>1, <2>2
<1>6. StacksOK(todo', told) /\ NewcomersOK(todo', conn, clients')
    BY <1>4, <1>5, StacksKept
<1> QED  BY <1>1, <1>4, <1>5, <1>6 DEF IInv, TypeOK, ToldBeforeRemoved, clientVars, serverVars

LEMMA InternalStep ==
    ASSUME IInv, NEW g \in Goroutine, Internal(g)
    PROVE  IInv'
BY SendCommandStep, CloseStep, DisconnectMemberStep, UnlistStep, HostGoneStep, DrainStep,
   DropHostStep, RemoveGameObjectStep, RemoveFromGamesStep, HostLoopStep DEF Internal

LEMMA WriteStep ==
    ASSUME IInv, NEW c \in Conn, Write(c)
    PROVE  IInv'
<1>1. /\ writer[c] \in Message
      /\ UNCHANGED <<conn, id, waitingForPong, gameVars, serverVars, todo, active, panic>>
    BY DEF Write, IInv, TypeOK
<1>2. /\ writer' \in [Conn -> Message \cup {Ready, Gone}]
      /\ wrote' \in [Conn -> SUBSET Message]
    <2>1. CASE writer' = [writer EXCEPT ![c] = Gone] /\ UNCHANGED wrote
        BY <2>1 DEF IInv, TypeOK
    <2>2. CASE /\ writer' = [writer EXCEPT ![c] = Ready]
               /\ wrote' = [wrote EXCEPT
                               ![c] = @ \cup {m \in {writer[c]} : m[1] \in Control}]
        <3>1. {m \in {writer[c]} : m[1] \in Control} \subseteq Message
            BY <1>1
        <3>2. wrote[c] \cup {m \in {writer[c]} : m[1] \in Control} \in SUBSET Message
            BY <3>1 DEF IInv, TypeOK
        <3> QED  BY <2>2, <3>2 DEF IInv, TypeOK
    <2> QED  BY <2>1, <2>2 DEF Write
<1> QED  BY <1>1, <1>2 DEF IInv, TypeOK, ToldBeforeRemoved, gameVars, serverVars

-----------------------------------------------------------------------------
(* The server: connections come, games go.                                 *)

LEMMA AcceptStep ==
    ASSUME IInv, NEW c \in Conn, Accept(c)
    PROVE  IInv'
<1>1. /\ conn[c] = "none" /\ conn' = [conn EXCEPT ![c] = "open"]
      /\ todo' = [todo EXCEPT ![Deal(c)] = <<Do("hello", c)>>,
                              ![PingLoop(c)] = <<Do("ping", c)>>]
      /\ active' = Nil
      /\ UNCHANGED <<id, waitingForPong, writer, wrote, gameVars, serverVars, panic>>
    BY DEF Accept
<1>2. Do("hello", c) \in Operation /\ Do("ping", c) \in Allowed(told)
    BY OperationsOfConnection
<1>3. /\ <<Do("hello", c)>> \in Seq(Operation) /\ <<Do("ping", c)>> \in Seq(Operation)
      /\ <<Do("ping", c)>> \in Seq(Allowed(told))
    <2>1. Do("ping", c) \in Operation
        BY <1>2 DEF Allowed
    <2> QED  BY <1>2, <2>1
<1>4. todo \in [Goroutine -> Seq(Operation)]
    BY DEF IInv, TypeOK
<1>5. todo' \in [Goroutine -> Seq(Operation)]
    BY <1>1, <1>3, <1>4
<1>6. /\ todo'[Deal(c)] = <<Do("hello", c)>> /\ todo'[PingLoop(c)] = <<Do("ping", c)>>
      /\ \A k \in Goroutine : k \notin {Deal(c), PingLoop(c)} => todo'[k] = todo[k]
    BY <1>1, <1>4, Goroutines
<1>7. c \notin ToSet(clients)
    BY <1>1 DEF IInv, NewcomersOK
<1>8. StacksOK(todo', told)
    <2>1. ASSUME NEW k \in Goroutine
          PROVE  \/ todo'[k] \in Seq(Allowed(told))
                 \/ \E d \in Conn : k = Deal(d) /\ Hello(todo', d)
        <3>1. CASE k = Deal(c)
            BY <3>1, <1>6 DEF Hello
        <3>2. CASE k = PingLoop(c)
            BY <3>2, <1>3, <1>6
        <3>3. CASE k \notin {Deal(c), PingLoop(c)} /\ todo[k] \in Seq(Allowed(told))
            BY <3>3, <1>6
        <3>4. CASE /\ k \notin {Deal(c), PingLoop(c)}
                   /\ \E d \in Conn : k = Deal(d) /\ Hello(todo, d)
            BY <3>4, <1>6 DEF Hello
        <3> QED  BY <3>1, <3>2, <3>3, <3>4 DEF IInv, StacksOK
    <2> QED  BY <2>1 DEF StacksOK
<1>9. NewcomersOK(todo', conn', clients)
    <2>1. ASSUME NEW d \in Conn, d # c
          PROVE  (Hello(todo', d) => Hello(todo, d)) /\ conn'[d] = conn[d]
        BY <2>1, <1>1, <1>6, Goroutines DEF Hello, IInv, TypeOK
    <2>2. conn'[c] = "open"
        BY <1>1 DEF IInv, TypeOK
    <2> QED  BY <2>1, <2>2, <1>7 DEF IInv, NewcomersOK
<1>10. conn' \in [Conn -> {"none", "open", "nil"}]
    BY <1>1 DEF IInv, TypeOK
<1> QED  BY <1>1, <1>5, <1>8, <1>9, <1>10
         DEF IInv, TypeOK, ToldBeforeRemoved, gameVars, serverVars

LEMMA RefuseStep ==
    ASSUME IInv, NEW c \in Conn, Refuse(c)
    PROVE  IInv'
<1>1. /\ At(Deal(c), "hello") /\ Then(Deal(c), Disconnect(c))
      /\ UNCHANGED <<clientVars, gameVars, serverVars, panic>>
    BY DEF Refuse
<1>2. Deal(c) \in Goroutine /\ todo[Deal(c)] # <<>>
    BY <1>1, Goroutines DEF At
<1>3. Disconnect(c) \in Seq(Allowed(told))
    BY DisconnectType
<1> QED  BY <1>1, <1>2, <1>3, GoesOn DEF IInv, TypeOK, clientVars, gameVars

\* dealWithNewConnection has found the game: the reader of c starts, and c is
\* greeted.
LEMMA Begins ==
    ASSUME IInv, NEW c \in Conn, At(Deal(c), "hello"), told \subseteq told',
           NEW reading \in Seq(Allowed(told')), NEW greeting \in Seq(Allowed(told')),
           todo' = [todo EXCEPT ![Read(c)] = reading, ![Deal(c)] = greeting]
    PROVE  /\ todo' \in [Goroutine -> Seq(Operation)]
           /\ StacksOK(todo', told')
           /\ \A d \in Conn : Hello(todo', d) => Hello(todo, d) /\ d # c
<1>1. todo \in [Goroutine -> Seq(Operation)]
    BY DEF IInv, TypeOK
<1>2. reading \in Seq(Operation) /\ greeting \in Seq(Operation)
    BY AllowedOperations, SeqOfLarger
<1>3. todo' \in [Goroutine -> Seq(Operation)]
    BY <1>1, <1>2
<1>4. /\ todo'[Deal(c)] = greeting /\ todo'[Read(c)] = reading
      /\ \A k \in Goroutine : k \notin {Deal(c), Read(c)} => todo'[k] = todo[k]
    BY <1>1, Goroutines
<1>5. ASSUME NEW k \in Goroutine
      PROVE  \/ todo'[k] \in Seq(Allowed(told'))
             \/ \E d \in Conn : k = Deal(d) /\ Hello(todo', d)
    <2>1. CASE k \in {Deal(c), Read(c)}
        BY <2>1, <1>4
    <2>2. CASE k \notin {Deal(c), Read(c)} /\ todo[k] \in Seq(Allowed(told))
        BY <2>2, <1>4, AllowedOperations, SeqOfLarger
    <2>3. CASE k \notin {Deal(c), Read(c)} /\ \E d \in Conn : k = Deal(d) /\ Hello(todo, d)
        BY <2>3, <1>4 DEF Hello
    <2> QED  BY <2>1, <2>2, <2>3 DEF IInv, StacksOK
<1>6. ASSUME NEW d \in Conn, Hello(todo', d)
      PROVE  Hello(todo, d) /\ d # c
    <2>1. CASE d = c
        <3>1. greeting = <<Do("hello", c)>>
            BY <2>1, <1>4, <1>6 DEF Hello
        <3>2. greeting # <<>> /\ Head(greeting) = Do("hello", c)
            BY <3>1
        <3>3. Head(greeting) \in Allowed(told')
            BY <3>2, HeadTailProperties
        <3> QED  BY <3>2, <3>3, OperationsOfConnection DEF Allowed
    <2>2. CASE d # c
        BY <2>2, <1>4, <1>6, Goroutines DEF Hello
    <2> QED  BY <2>1, <2>2
<1> QED  BY <1>3, <1>5, <1>6 DEF StacksOK

LEMMA AddHostStep ==
    ASSUME IInv, NEW c \in Conn, AddHost(c)
    PROVE  IInv'
<1>1. /\ At(Deal(c), "hello") /\ listed
      /\ host' = c /\ id' = [id EXCEPT ![c] = ID_HOST]
      /\ told' = told \cup {"GameConnected"}
      /\ todo' = [todo EXCEPT ![Read(c)] = <<Do("loop", Nil)>>,
                              ![Deal(c)] = <<Send(c, <<"welcome", 0>>)>>]
      /\ active' = Nil
      /\ UNCHANGED <<conn, waitingForPong, writer, wrote, clients, nextClientId,
                     shuttingDown, listed, panic>>
    BY DEF AddHost, HasGame
<1>2. conn[c] # "none" /\ c \notin ToSet(clients)
    BY <1>1, AtHello
<1>3. /\ Do("loop", Nil) \in Allowed(told')
      /\ Send(c, <<"welcome", 0>>) \in Allowed(told')
    BY OperationsOfGame, OperationsOfConnection, Messages
<1>4. /\ <<Do("loop", Nil)>> \in Seq(Allowed(told'))
      /\ <<Send(c, <<"welcome", 0>>)>> \in Seq(Allowed(told'))
    BY <1>3
<1>5. /\ todo' \in [Goroutine -> Seq(Operation)]
      /\ StacksOK(todo', told')
      /\ \A d \in Conn : Hello(todo', d) => Hello(todo, d) /\ d # c
    BY <1>1, <1>4, Begins
<1>6. NewcomersOK(todo', conn', clients')
    BY <1>1, <1>5 DEF IInv, NewcomersOK
<1>7. IdsOK(id', clients', nextClientId')
    <2>1. \A k \in 1..Len(clients) : clients[k] \in Conn /\ clients[k] # c
        <3>1. DOMAIN clients = 1..Len(clients)
            BY LenProperties DEF IInv, TypeOK
        <3>2. \A k \in 1..Len(clients) : clients[k] \in Conn
            BY ElementOfSeq DEF IInv, TypeOK
        <3> QED  BY <1>2, <3>1, <3>2 DEF ToSet
    <2>2. \A k \in 1..Len(clients) : id'[clients[k]] = id[clients[k]]
        BY <1>1, <2>1 DEF IInv, TypeOK
    <2> QED  BY <1>1, <2>2 DEF IInv, IdsOK
<1>8. id' \in [Conn -> Id] /\ host' \in Conn \cup {Nil}
    BY <1>1, Messages DEF IInv, TypeOK
<1>9. told' \subseteq {"GameConnected", "GameClosed"}
    BY <1>1 DEF IInv, TypeOK
<1> QED  BY <1>1, <1>5, <1>6, <1>7, <1>8, <1>9 DEF IInv, TypeOK, ToldBeforeRemoved

\* A small number is its own remainder.
LEMMA SmallRemainder ==
    ASSUME NEW k \in Nat, NEW n \in Nat, k < n
    PROVE  k % n = k
OBVIOUS

LEMMA AddClientStep ==
    ASSUME IInv, NEW c \in Conn, AddClient(c)
    PROVE  IInv'
<1> DEFINE n == Len(clients)
<1>1. /\ At(Deal(c), "hello") /\ host # Nil /\ nextClientId < IdLimit
      /\ id' = [id EXCEPT ![c] = nextClientId]
      /\ nextClientId' = (nextClientId + 1) % IdMod
      /\ clients' = Append(clients, c)
      /\ todo' = [todo EXCEPT ![Read(c)] = <<Do("read", c)>>,
                              ![Deal(c)] = <<Announcement, Welcome(c)>>]
      /\ active' = Nil
      /\ UNCHANGED <<conn, waitingForPong, writer, wrote, host, shuttingDown, serverVars, panic>>
    BY DEF AddClient, Join, HasGame
<1>2. conn[c] # "none" /\ c \notin ToSet(clients)
    BY <1>1, AtHello
<1>3. /\ nextClientId \in (ID_HOST + 1)..IdLimit /\ nextClientId \in Id
      /\ nextClientId' = nextClientId + 1
    <2>1. nextClientId \in (ID_HOST + 1)..IdLimit /\ nextClientId \in Id
        BY DEF IInv, IdsOK, TypeOK
    <2>2. nextClientId + 1 \in Nat /\ nextClientId + 1 < IdMod
        BY <1>1, <2>1, IdAssumption DEF ID_HOST
    <2>3. (nextClientId + 1) % IdMod = nextClientId + 1
        BY <2>2, SmallRemainder, IdAssumption
    <2> QED  BY <1>1, <2>1, <2>3
<1>4. /\ Do("read", c) \in Allowed(told')
      /\ Announcement \in Allowed(told') /\ Welcome(c) \in Allowed(told')
    <2>1. host \in Conn
        BY <1>1 DEF IInv, TypeOK
    <2> QED  BY <1>3, <2>1, OperationsOfConnection, Messages DEF Announcement, Welcome
<1>5. /\ <<Do("read", c)>> \in Seq(Allowed(told'))
      /\ <<Announcement, Welcome(c)>> \in Seq(Allowed(told'))
    BY <1>4
<1>6. told' = told /\ listed' = listed
    BY <1>1 DEF serverVars
<1>7. /\ todo' \in [Goroutine -> Seq(Operation)]
      /\ StacksOK(todo', told')
      /\ \A d \in Conn : Hello(todo', d) => Hello(todo, d) /\ d # c
    BY <1>1, <1>5, <1>6, Begins
<1>8. /\ clients' \in Seq(Conn) /\ Len(clients') = n + 1 /\ n \in Nat
      /\ clients'[n + 1] = c
      /\ \A k \in 1..n : clients'[k] = clients[k] /\ clients[k] \in Conn
    <2>1. clients \in Seq(Conn)
        BY DEF IInv, TypeOK
    <2>2. n \in Nat /\ \A k \in 1..n : clients[k] \in Conn
        BY <2>1, LenProperties, ElementOfSeq
    <2> QED  BY <1>1, <2>1, <2>2, AppendProperties
<1>9. DOMAIN clients = 1..n /\ DOMAIN clients' = 1..(n + 1)
    BY <1>8, LenProperties DEF IInv, TypeOK
<1>10. ToSet(clients') = ToSet(clients) \cup {c}
    BY <1>8, <1>9 DEF ToSet
<1>11. NewcomersOK(todo', conn', clients')
    BY <1>1, <1>2, <1>7, <1>10 DEF IInv, NewcomersOK
<1>12. id' \in [Conn -> Id] /\ id'[c] = nextClientId
    BY <1>1, <1>3 DEF IInv, TypeOK
<1>13. ASSUME NEW k \in 1..n
       PROVE  id'[clients'[k]] = id[clients[k]]
    <2>1. clients[k] # c /\ clients[k] \in Conn
        BY <1>2, <1>8, <1>9 DEF ToSet
    <2> QED  BY <1>1, <1>8, <2>1 DEF IInv, TypeOK
<1>14. IdsOK(id', clients', nextClientId')
    <2>1. nextClientId' \in (ID_HOST + 1)..IdLimit
        BY <1>1, <1>3, IdAssumption DEF ID_HOST
    <2>2. \A k \in 1..n : id'[clients'[k]] \in (ID_HOST + 1)..(nextClientId - 1)
        BY <1>13 DEF IInv, IdsOK
    <2>3. id'[clients'[n + 1]] = nextClientId
        BY <1>8, <1>12
    <2>4. \A k \in 1..(n + 1) : id'[clients'[k]] \in (ID_HOST + 1)..(nextClientId' - 1)
        BY <1>3, <1>8, <2>2, <2>3, IdAssumption DEF ID_HOST
    <2>5. \A j, k \in 1..n : j # k => id'[clients'[j]] # id'[clients'[k]]
        BY <1>13 DEF IInv, IdsOK
    <2>6. ASSUME NEW j \in 1..(n + 1), NEW k \in 1..(n + 1), j # k
          PROVE  id'[clients'[j]] # id'[clients'[k]]
        <3>1. nextClientId \in Nat
            BY <1>3, IdAssumption DEF ID_HOST
        <3>2. CASE j \in 1..n /\ k \in 1..n
            BY <2>5, <2>6, <3>2
        <3>3. CASE j = n + 1 /\ k \in 1..n
            BY <2>2, <2>3, <3>1, <3>3 DEF ID_HOST
        <3>4. CASE k = n + 1 /\ j \in 1..n
            BY <2>2, <2>3, <3>1, <3>4 DEF ID_HOST
        <3> QED  BY <1>8, <2>6, <3>2, <3>3, <3>4
    <2> QED  BY <1>8, <2>1, <2>4, <2>6 DEF IdsOK
<1>15. nextClientId' \in Id
    BY <1>1, <1>3, IdAssumption DEF Id, ID_HOST
<1> QED  BY <1>1, <1>6, <1>7, <1>8, <1>11, <1>12, <1>14, <1>15 DEF IInv, TypeOK, ToldBeforeRemoved

LEMMA RemoveGameStep ==
    ASSUME IInv, NEW r \in Caller, RemoveGame(r)
    PROVE  IInv'
<1>1. /\ At(RPC(r), "call") /\ shuttingDown' = TRUE /\ Then(RPC(r), Shutdown)
      /\ UNCHANGED <<clientVars, host, clients, nextClientId, serverVars, panic>>
    BY DEF RemoveGame
<1>2. RPC(r) \in Goroutine /\ todo[RPC(r)] # <<>>
    BY <1>1, Goroutines DEF At
<1>3. Shutdown \in Seq(Allowed(told))
    BY ShutdownType
<1> QED  BY <1>1, <1>2, <1>3, GoesOn DEF IInv, TypeOK, clientVars

LEMMA TimerStep ==
    ASSUME IInv, RemoveGameIfNoHostIsConnected
    PROVE  IInv'
<1>1. /\ At(Timer, "timer") /\ told' = told \cup {"GameClosed"}
      /\ Then(Timer, <<Do("removeGame", Nil)>>)
      /\ UNCHANGED <<clientVars, gameVars, listed, panic>>
    BY DEF RemoveGameIfNoHostIsConnected
<1>2. Timer \in Goroutine /\ todo[Timer] # <<>>
    BY <1>1, Goroutines DEF At
<1>3. Do("removeGame", Nil) \in Allowed(told')
    BY <1>1, OperationsOfGame
<1>4. <<Do("removeGame", Nil)>> \in Seq(Allowed(told'))
    BY <1>3
<1>5. told' \subseteq {"GameConnected", "GameClosed"} /\ told \subseteq told'
    BY <1>1 DEF IInv, TypeOK
<1>6. /\ todo' \in [Goroutine -> Seq(Operation)]
      /\ active' \in Goroutine \cup {Nil}
      /\ StacksOK(todo', told') /\ NewcomersOK(todo', conn', clients')
      /\ IdsOK(id', clients', nextClientId')
    BY <1>1, <1>2, <1>4, <1>5, StepKeeps DEF clientVars, gameVars
<1> QED  BY <1>1, <1>5, <1>6 DEF IInv, TypeOK, ToldBeforeRemoved, clientVars, gameVars

-----------------------------------------------------------------------------
(* Messages of the peers, and pings.                                       *)

\* A goroutine g that hands m to the writer of c, and then goes on with next.
LEMMA Sends ==
    ASSUME NEW c \in Conn, NEW m \in Message, NEW tl, NEW next \in Allowed(tl)
    PROVE  <<Send(c, m), next>> \in Seq(Allowed(tl))
<1>1. Send(c, m) \in Allowed(tl)
    BY OperationsOfConnection
<1> QED  BY <1>1, ShortSeq

LEMMA PingStep ==
    ASSUME IInv, NEW c \in Conn, Ping(c)
    PROVE  IInv'
<1>1. /\ At(PingLoop(c), "ping")
      /\ UNCHANGED <<conn, id, writer, wrote, gameVars, serverVars, panic>>
    BY DEF Ping
<1>2. PingLoop(c) \in Goroutine /\ todo[PingLoop(c)] # <<>>
    BY <1>1, Goroutines DEF At
<1>3. waitingForPong' \in [Conn -> BOOLEAN]
    BY DEF Ping, IInv, TypeOK
<1>4. PICK ops \in Seq(Allowed(told)) : Then(PingLoop(c), ops)
    <2>1. Do("ping", c) \in Allowed(told)
        BY OperationsOfConnection
    <2>2. <<Send(c, <<"data", 0>>), Do("ping", c)>> \in Seq(Allowed(told))
        BY <2>1, Sends, Messages
    <2>3. Disconnect(c) \in Seq(Allowed(told))
        BY DisconnectType
    <2> QED  BY <2>2, <2>3 DEF Ping
<1> QED  BY <1>1, <1>2, <1>3, <1>4, GoesOn DEF IInv, TypeOK, gameVars

LEMMA ClientLeavesStep ==
    ASSUME IInv, NEW c \in Conn, ClientLeaves(c)
    PROVE  IInv'
<1>1. /\ At(Read(c), "read") /\ Then(Read(c), DisconnectClient(c))
      /\ UNCHANGED <<clientVars, gameVars, serverVars, panic>>
    BY DEF ClientLeaves
<1>2. Read(c) \in Goroutine /\ todo[Read(c)] # <<>>
    BY <1>1, Goroutines DEF At
<1>3. DisconnectClient(c) \in Seq(Allowed(told))
    BY DisconnectClientType DEF IInv
<1> QED  BY <1>1, <1>2, <1>3, GoesOn DEF IInv, TypeOK, clientVars, gameVars

LEMMA ToHostStep ==
    ASSUME IInv, NEW c \in Conn, ToHost(c)
    PROVE  IInv'
<1>1. At(Read(c), "read") /\ UNCHANGED <<clientVars, gameVars, serverVars>>
    BY DEF ToHost
<1>2. Read(c) \in Goroutine /\ todo[Read(c)] # <<>>
    BY <1>1, Goroutines DEF At
<1>3. CASE panic' = "host" /\ UNCHANGED <<todo, active>>
    BY <1>1, <1>3 DEF IInv, TypeOK, ToldBeforeRemoved, clientVars, gameVars, serverVars
<1>4. CASE /\ host # Nil /\ UNCHANGED panic
           /\ Then(Read(c), <<Send(host, <<"fromClient", id[c]>>), Do("read", c)>>)
    <2>1. host \in Conn /\ id[c] \in Id /\ Do("read", c) \in Allowed(told)
        BY <1>4, OperationsOfConnection DEF IInv, TypeOK
    <2>2. <<Send(host, <<"fromClient", id[c]>>), Do("read", c)>> \in Seq(Allowed(told))
        BY <2>1, Sends, Messages
    <2> QED  BY <1>1, <1>2, <1>4, <2>2, GoesOn DEF IInv, TypeOK, clientVars, gameVars
<1> QED  BY <1>3, <1>4 DEF ToHost

LEMMA ClientPongStep ==
    ASSUME IInv, NEW c \in Conn, ClientPong(c)
    PROVE  IInv'
BY DEF ClientPong, IInv, TypeOK, ToldBeforeRemoved, gameVars, serverVars

LEMMA ClientRTTStep ==
    ASSUME IInv, NEW c \in Conn, ClientRTT(c)
    PROVE  IInv'
<1>1. /\ At(Read(c), "read")
      /\ Then(Read(c), <<Send(c, <<"data", 0>>), Do("read", c)>>)
      /\ UNCHANGED <<clientVars, gameVars, serverVars, panic>>
    BY DEF ClientRTT
<1>2. Read(c) \in Goroutine /\ todo[Read(c)] # <<>>
    BY <1>1, Goroutines DEF At
<1>3. Do("read", c) \in Allowed(told)
    BY OperationsOfConnection
<1>4. <<Send(c, <<"data", 0>>), Do("read", c)>> \in Seq(Allowed(told))
    BY <1>3, Sends, Messages
<1> QED  BY <1>1, <1>2, <1>4, GoesOn DEF IInv, TypeOK, clientVars, gameVars

LEMMA HostLeavesStep ==
    ASSUME IInv, NEW c \in Conn, HostLeaves(c)
    PROVE  IInv'
<1>1. /\ At(Read(c), "readHost") /\ Then(Read(c), DisconnectClient(host))
      /\ UNCHANGED <<clientVars, gameVars, serverVars, panic>>
    BY DEF HostLeaves
<1>2. Read(c) \in Goroutine /\ todo[Read(c)] # <<>>
    BY <1>1, Goroutines DEF At
<1>3. DisconnectClient(host) \in Seq(Allowed(told))
    BY DisconnectClientType DEF IInv, TypeOK
<1> QED  BY <1>1, <1>2, <1>3, GoesOn DEF IInv, TypeOK, clientVars, gameVars

LEMMA HostCommandWithoutHostStep ==
    ASSUME IInv, NEW c \in Conn, HostCommandWithoutHost(c)
    PROVE  IInv'
BY DEF HostCommandWithoutHost, IInv, TypeOK, ToldBeforeRemoved, clientVars, gameVars, serverVars

LEMMA ToClientsStep ==
    ASSUME IInv, NEW c \in Conn, ToClients(c)
    PROVE  IInv'
<1>1. At(Read(c), "readHost") /\ UNCHANGED <<clientVars, gameVars, serverVars, panic>>
    BY DEF ToClients
<1>2. Read(c) \in Goroutine /\ todo[Read(c)] # <<>>
    BY <1>1, Goroutines DEF At
<1>3. PICK d \in ToSet(clients) : Then(Read(c), <<Send(d, <<"data", 0>>), Do("loop", Nil)>>)
    BY DEF ToClients
<1>4. d \in Conn
    <2>1. clients \in Seq(Conn) /\ \E k \in DOMAIN clients : clients[k] = d
        BY DEF IInv, TypeOK, ToSet
    <2> QED  BY <2>1, LenProperties, ElementOfSeq
<1>5. Do("loop", Nil) \in Allowed(told)
    BY OperationsOfGame
<1>6. <<Send(d, <<"data", 0>>), Do("loop", Nil)>> \in Seq(Allowed(told))
    BY <1>4, <1>5, Sends, Messages
<1> QED  BY <1>1, <1>2, <1>3, <1>6, GoesOn DEF IInv, TypeOK, clientVars, gameVars

LEMMA HostPongStep ==
    ASSUME IInv, NEW c \in Conn, HostPong(c)
    PROVE  IInv'
<1>1. /\ At(Read(c), "readHost") /\ Then(Read(c), <<Do("loop", Nil)>>)
      /\ waitingForPong' = [waitingForPong EXCEPT ![host] = FALSE]
      /\ UNCHANGED <<conn, id, writer, wrote, gameVars, serverVars, panic>>
    BY DEF HostPong
<1>2. Read(c) \in Goroutine /\ todo[Read(c)] # <<>>
    BY <1>1, Goroutines DEF At
<1>3. Do("loop", Nil) \in Allowed(told)
    BY OperationsOfGame
<1>4. <<Do("loop", Nil)>> \in Seq(Allowed(told))
    BY <1>3
<1>5. waitingForPong' \in [Conn -> BOOLEAN]
    BY <1>1 DEF IInv, TypeOK
<1> QED  BY <1>1, <1>2, <1>4, <1>5, GoesOn DEF IInv, TypeOK, gameVars

LEMMA HostRTTStep ==
    ASSUME IInv, NEW c \in Conn, HostRTT(c)
    PROVE  IInv'
<1>1. /\ At(Read(c), "readHost") /\ host \in Talking
      /\ Then(Read(c), <<Send(host, <<"data", 0>>), Do("loop", Nil)>>)
      /\ UNCHANGED <<clientVars, gameVars, serverVars, panic>>
    BY DEF HostRTT
<1>2. Read(c) \in Goroutine /\ todo[Read(c)] # <<>> /\ host \in Conn
    BY <1>1, Goroutines, ConnAssumption DEF At
<1>3. Do("loop", Nil) \in Allowed(told)
    BY OperationsOfGame
<1>4. <<Send(host, <<"data", 0>>), Do("loop", Nil)>> \in Seq(Allowed(told))
    BY <1>2, <1>3, Sends, Messages
<1> QED  BY <1>1, <1>2, <1>4, GoesOn DEF IInv, TypeOK, clientVars, gameVars

-----------------------------------------------------------------------------
(* The invariant and the theorems.                                         *)

\* A game that has just been created.
LEMMA InitIInv == Init => IInv
<1> SUFFICES ASSUME Init PROVE IInv
    OBVIOUS
<1>1. <<>> \in Seq(Allowed(told)) /\ <<>> \in Seq(Operation) /\ <<>> \in Seq(Conn)
    OBVIOUS
<1>2. Do("timer", Nil) \in Allowed(told) /\ Do("call", Nil) \in Allowed(told)
    BY OperationsOfGame
<1>3. /\ <<Do("timer", Nil)>> \in Seq(Allowed(told))
      /\ <<Do("call", Nil)>> \in Seq(Allowed(told))
    BY <1>2
<1>4. \A g \in Goroutine : todo[g] \in Seq(Allowed(told))
    <2> TAKE g \in Goroutine
    <2>1. todo[g] \in {<<>>, <<Do("timer", Nil)>>, <<Do("call", Nil)>>}
        BY DEF Init
    <2> QED  BY <1>1, <1>3, <2>1
<1>5. todo \in [Goroutine -> Seq(Operation)]
    <2>1. \A g \in Goroutine : todo[g] \in Seq(Operation)
        BY <1>4, AllowedOperations, SeqOfLarger
    <2>2. todo = [g \in Goroutine |-> todo[g]]
        BY DEF Init
    <2> QED  BY <2>1, <2>2
<1>6. TypeOK
    <2>1. 0 \in Id /\ ID_HOST + 1 \in Id
        BY IdAssumption DEF Id, ID_HOST
    <2> QED  BY <1>1, <1>5, <2>1 DEF Init, TypeOK
<1>7. StacksOK(todo, told)
    BY <1>4 DEF StacksOK
<1>8. NewcomersOK(todo, conn, clients)
    <2>1. ASSUME NEW c \in Conn
          PROVE  ~Hello(todo, c) /\ c \notin ToSet(clients)
        <3>1. Deal(c) \in Goroutine /\ Deal(c) # Timer /\ Deal(c)[1] # "rpc"
            BY Goroutines DEF Deal
        <3>2. todo[Deal(c)] = <<>>
            BY <3>1 DEF Init
        <3>3. ToSet(clients) = {}
            BY DEF Init, ToSet
        <3> QED  BY <3>2, <3>3 DEF Hello
    <2> QED  BY <2>1 DEF NewcomersOK
<1>9. IdsOK(id, clients, nextClientId)
    BY IdAssumption DEF Init, IdsOK, ID_HOST
<1> QED  BY <1>6, <1>7, <1>8, <1>9 DEF IInv, ToldBeforeRemoved, Init

\* Every step of every goroutine keeps the invariant.
LEMMA NextIInv == IInv /\ [Next]_vars => IInv'
<1> SUFFICES ASSUME IInv, [Next]_vars PROVE IInv'
    OBVIOUS
<1>1. ASSUME NEW g \in Goroutine, Internal(g) PROVE IInv'
    BY <1>1, InternalStep
<1>2. ASSUME NEW c \in Conn,
             \/ Write(c) \/ Accept(c) \/ Refuse(c) \/ AddHost(c) \/ AddClient(c)
      PROVE  IInv'
    BY <1>2, WriteStep, AcceptStep, RefuseStep, AddHostStep, AddClientStep
<1>3. ASSUME NEW c \in Conn,
             \/ Ping(c) \/ ClientLeaves(c) \/ ToHost(c) \/ ClientPong(c) \/ ClientRTT(c)
      PROVE  IInv'
    BY <1>3, PingStep, ClientLeavesStep, ToHostStep, ClientPongStep, ClientRTTStep
<1>4. ASSUME NEW c \in Conn,
             \/ HostLeaves(c) \/ HostCommandWithoutHost(c) \/ ToClients(c) \/ HostPong(c)
             \/ HostRTT(c)
      PROVE  IInv'
    BY <1>4, HostLeavesStep, HostCommandWithoutHostStep, ToClientsStep, HostPongStep,
       HostRTTStep
<1>5. ASSUME NEW r \in Caller, RemoveGame(r) PROVE IInv'
    BY <1>5, RemoveGameStep
<1>6. ASSUME RemoveGameIfNoHostIsConnected PROVE IInv'
    BY <1>6, TimerStep
<1>7. ASSUME UNCHANGED vars PROVE IInv'
    BY <1>7 DEF vars, clientVars, gameVars, serverVars, IInv, TypeOK, ToldBeforeRemoved
<1> QED  BY <1>1, <1>2, <1>3, <1>4, <1>5, <1>6, <1>7 DEF Next

\* The invariant tells the ids of any two clients apart.
LEMMA IInvIds == IInv => IdsDistinct
<1> SUFFICES ASSUME IInv PROVE IdsDistinct
    OBVIOUS
<1>1. \A c \in ToSet(clients) : \E k \in 1..Len(clients) : clients[k] = c
    BY LenProperties DEF IInv, TypeOK, ToSet
<1>2. \A k \in 1..Len(clients) : id[clients[k]] \notin {0, ID_HOST}
    BY IdAssumption DEF IInv, IdsOK, ID_HOST
<1> QED  BY <1>1, <1>2 DEF IInv, IdsOK, IdsDistinct

LEMMA Invariant == Spec => []IInv
BY InitIInv, NextIInv, PTL DEF Spec

\* A game and its goroutines, in any interleaving, never leave their types: nobody
\* waits at the writer of nobody (game.host is nil for a while in a shutdown).
THEOREM TypeCorrect == Spec => []TypeOK
<1>1. IInv => TypeOK
    BY DEF IInv
<1> QED  BY <1>1, Invariant, PTL

\* addClient gives every client an id of its own, and none the id of the host or
\* of nobody, for any number of clients that come and go.
THEOREM IdsAreDistinct == Spec => []IdsDistinct
BY IInvIds, Invariant, PTL

\* Whichever goroutine takes a game off the list, a shutdown or the timer, the
\* metaserver has been told.
THEOREM MetaserverIsTold == Spec => []ToldBeforeRemoved
<1>1. IInv => ToldBeforeRemoved
    BY DEF IInv
<1> QED  BY <1>1, Invariant, PTL

-----------------------------------------------------------------------------
(* The relay implements the game that the metaserver relies on.            *)

\* Most operations change nothing the metaserver can see.
LEMMA InternalRefines ==
    ASSUME IInv, NEW g \in Goroutine, Internal(g)
    PROVE  [Game!Next]_<<host # Nil, listed, told>>
<1>1. ASSUME SendCommand(g) \/ Close(g) \/ DisconnectMember(g) \/ Unlist(g)
             \/ Drain(g) \/ DropHost(g) \/ HostLoop(g)
      PROVE  UNCHANGED <<host, listed, told>>
    BY <1>1 DEF SendCommand, Close, DisconnectMember, Unlist, Drain, DropHost, HostLoop,
       gameVars, serverVars
<1>2. ASSUME HostGone(g)
      PROVE  [Game!HostGoes]_<<host # Nil, listed, told>>
    BY <1>2 DEF HostGone, Game!HostGoes, serverVars
<1>3. ASSUME RemoveGameObject(g)
      PROVE  [Game!TellClosed]_<<host # Nil, listed, told>>
    BY <1>3 DEF RemoveGameObject, Game!TellClosed, gameVars
<1>4. ASSUME RemoveFromGames(g)
      PROVE  Game!Remove
    <2>1. Head(todo[g]) \in Allowed(told)
        BY <1>4, AtOperation DEF RemoveFromGames
    <2>2. Head(todo[g]).do = "removeGame"
        BY <1>4 DEF RemoveFromGames, At
    <2> QED  BY <1>4, <2>1, <2>2 DEF RemoveFromGames, Allowed, Game!Remove, gameVars
<1> QED  BY <1>1, <1>2, <1>3, <1>4 DEF Internal, Game!Next

\* A connection matters only when it becomes the host.
LEMMA ConnectionRefines ==
    ASSUME NEW c \in Conn,
           \/ Write(c) \/ Accept(c) \/ Refuse(c) \/ AddHost(c) \/ AddClient(c)
           \/ Ping(c) \/ ClientLeaves(c) \/ ToHost(c) \/ ClientPong(c) \/ ClientRTT(c)
           \/ HostLeaves(c) \/ HostCommandWithoutHost(c) \/ ToClients(c) \/ HostPong(c)
           \/ HostRTT(c)
    PROVE  [Game!Next]_<<host # Nil, listed, told>>
<1>1. ASSUME \/ Write(c) \/ Accept(c) \/ Refuse(c) \/ AddClient(c) \/ Ping(c)
             \/ ClientLeaves(c) \/ ToHost(c) \/ ClientPong(c)
      PROVE  UNCHANGED <<host, listed, told>>
    BY <1>1 DEF Write, Accept, Refuse, AddClient, Join, Ping, ClientLeaves, ToHost,
       ClientPong, gameVars, serverVars
<1>2. ASSUME \/ ClientRTT(c) \/ HostLeaves(c) \/ HostCommandWithoutHost(c)
             \/ ToClients(c) \/ HostPong(c) \/ HostRTT(c)
      PROVE  UNCHANGED <<host, listed, told>>
    BY <1>2 DEF ClientRTT, HostLeaves, HostCommandWithoutHost, ToClients, HostPong,
       HostRTT, gameVars, serverVars
<1>3. ASSUME AddHost(c)
      PROVE  Game!HostArrives
    <2>1. c # Nil
        BY ConnAssumption
    <2> QED  BY <1>3, <2>1 DEF AddHost, HasGame, Game!HostArrives
<1> QED  BY <1>1, <1>2, <1>3 DEF Game!Next

LEMMA StepRefines ==
    IInv /\ [Next]_vars => [Game!Next]_<<host # Nil, listed, told>>
<1> SUFFICES ASSUME IInv, [Next]_vars
             PROVE  [Game!Next]_<<host # Nil, listed, told>>
    OBVIOUS
<1>1. ASSUME NEW r \in Caller, RemoveGame(r)
      PROVE  UNCHANGED <<host, listed, told>>
    BY <1>1 DEF RemoveGame, serverVars
<1>2. ASSUME RemoveGameIfNoHostIsConnected
      PROVE  Game!TellClosed
    BY <1>2 DEF RemoveGameIfNoHostIsConnected, Game!TellClosed, gameVars
<1>3. ASSUME UNCHANGED vars
      PROVE  UNCHANGED <<host, listed, told>>
    BY <1>3 DEF vars, gameVars, serverVars
<1> QED  BY <1>1, <1>2, <1>3, InternalRefines, ConnectionRefines DEF Next, Game!Next

\* However its goroutines interleave, a game of the relay is the game of
\* RelayGame: it takes a host only while it is listed, tells the metaserver before
\* it goes, and does not come back.
THEOREM ImplementsRelayGame == Spec => IsRelayGame
<1>1. Init => Game!Init
    BY DEF Init, Game!Init
<1>2. IInv /\ [Next]_vars => [Game!Next]_(Game!gvars)
    BY StepRefines DEF Game!gvars
<1> QED  BY <1>1, <1>2, Invariant, PTL DEF Spec, IsRelayGame, Game!Spec
-----------------------------------------------------------------------------
(* Readers.  The list of clients and the call stacks of the readers are    *)
(* tied by the bottom of the stack: the last thing the reader of a client  *)
(* has to do is to read on or to take the client off the list, and the     *)
(* last thing the reader of the host has to do is to read on or to give up *)
(* the host.                                                               *)

EndsWith(s, S) == s # <<>> /\ s[Len(s)] \in S

OfClient(c) == {Do("read", c), Do("unlist", c)}
OfHost == {Do("loop", Nil), Do("hostGone", Nil)} \cup {Do("readHost", d) : d \in Conn}

ReadersOK(td, cl, h) ==
    /\ \A c \in ToSet(cl) : EndsWith(td[Read(c)], OfClient(c))
    /\ h # Nil => EndsWith(td[Read(h)], OfHost)

\* The host is no client, and no newcomer is the host.
HostOK(td, cn, cl, h) ==
    /\ h \notin ToSet(cl)
    /\ \A c \in Conn : Hello(td, c) \/ cn[c] = "none" => c # h

AInv ==
    /\ ReadersOK(todo, clients, host)
    /\ HostOK(todo, conn, clients, host)

-----------------------------------------------------------------------------

\* Readers differ, and no other goroutine is one.
LEMMA Readers ==
    \A c, d \in Conn : /\ Read(c) = Read(d) => c = d
                       /\ Read(c) # Deal(d) /\ Read(c) # PingLoop(d)
                       /\ \A r \in Caller : Read(c) # RPC(r)
                       /\ Read(c) # Timer
BY DEF Read, Deal, PingLoop, RPC, Timer

\* The operations at the bottom of a reader's stack are told apart by name.
LEMMA Bottoms ==
    ASSUME NEW c \in Conn
    PROVE  /\ \A o \in OfClient(c) : o.do \in {"read", "unlist"} /\ o.c = c
           /\ \A o \in OfHost : o.do \in {"loop", "hostGone", "readHost"}
BY DEF OfClient, OfHost, Do

\* A sequence that ends in something of S does so behind any other.
LEMMA EndsWithConcat ==
    ASSUME NEW T, NEW s \in Seq(T), NEW t \in Seq(T), NEW S, EndsWith(t, S)
    PROVE  EndsWith(s \o t, S)
<1>1. /\ s \o t \in Seq(T) /\ Len(s \o t) = Len(s) + Len(t)
      /\ \A i \in 1..(Len(s) + Len(t)) :
            (s \o t)[i] = IF i <= Len(s) THEN s[i] ELSE t[i - Len(s)]
    BY ConcatProperties
<1>2. Len(s) \in Nat /\ Len(t) \in Nat /\ Len(t) > 0
    BY LenProperties, EmptySeq DEF EndsWith
<1>3. (s \o t)[Len(s) + Len(t)] = t[Len(t)]
    BY <1>1, <1>2
<1>4. s \o t # <<>>
    BY <1>1, <1>2
<1> QED  BY <1>1, <1>3, <1>4 DEF EndsWith

LEMMA EndsWithTail ==
    ASSUME NEW T, NEW s \in Seq(T), NEW S, EndsWith(s, S), Len(s) # 1
    PROVE  EndsWith(Tail(s), S)
<1> DEFINE t == Tail(s)
<1>1. Len(s) \in Nat \ {0, 1}
    BY EmptySeq DEF EndsWith
<1>2. /\ t \in Seq(T) /\ Len(t) = Len(s) - 1
      /\ \A i \in 1..Len(t) : t[i] = s[i + 1]
    BY HeadTailProperties DEF EndsWith
<1> HIDE DEF t
<1>3. Len(t) \in 1..Len(t) /\ Len(t) + 1 = Len(s) /\ Len(t) # 0
    BY <1>1, <1>2
<1>4. t # <<>> /\ t[Len(t)] = s[Len(s)]
    BY <1>2, <1>3, EmptySeq
<1> QED  BY <1>4 DEF EndsWith, t

\* Nothing is below the only operation of a stack.
LEMMA TailOfOne ==
    ASSUME NEW T, NEW s \in Seq(T), Len(s) = 1
    PROVE  Tail(s) = <<>>
<1> DEFINE t == Tail(s)
<1>1. s # <<>>
    BY EmptySeq
<1>2. t \in Seq(T) /\ Len(t) = 0
    BY <1>1, HeadTailProperties
<1> HIDE DEF t
<1>3. t = <<>>
    BY <1>2, EmptySeq
<1> QED  BY <1>3 DEF t

LEMMA EndsWithShort ==
    ASSUME NEW x, NEW y, NEW S, y \in S
    PROVE  EndsWith(<<y>>, S) /\ EndsWith(<<x, y>>, S)
BY DEF EndsWith

\* The bottom of the stack stays where it is, unless it is what g does next.
LEMMA BottomStays ==
    ASSUME IInv, NEW g \in Goroutine, todo[g] # <<>>, told \subseteq told',
           NEW ops \in Seq(Allowed(told')), Then(g, ops),
           NEW S, EndsWith(todo[g], S)
    PROVE  \/ EndsWith(todo'[g], S)
           \/ Head(todo[g]) \in S /\ todo'[g] = ops
<1> DEFINE s == todo[g]
<1>1. s \in Seq(Operation) /\ todo'[g] = ops \o Tail(s)
    BY DEF IInv, TypeOK, Then
<1>2. ops \in Seq(Operation)
    BY AllowedOperations, SeqOfLarger
<1>3. /\ Tail(s) \in Seq(Operation) /\ Len(Tail(s)) = Len(s) - 1
      /\ \A i \in 1..Len(Tail(s)) : Tail(s)[i] = s[i + 1]
      /\ Head(s) = s[1] /\ Len(s) \in Nat /\ Len(s) > 0
    BY <1>1, HeadTailProperties, LenProperties, EmptySeq
<1>4. CASE Len(s) = 1
    <2>1. Tail(s) = <<>>
        BY <1>1, <1>4, TailOfOne
    <2>2. ops \o <<>> = ops
        BY <1>2, ConcatEmptySeq
    <2> QED  BY <1>1, <1>3, <1>4, <2>1, <2>2 DEF EndsWith
<1>5. CASE Len(s) # 1
    <2>1. EndsWith(Tail(s), S)
        BY <1>1, <1>5, EndsWithTail
    <2> QED  BY <1>1, <1>2, <1>3, <2>1, EndsWithConcat
<1> QED  BY <1>4, <1>5

\* A step of g that leaves the host alone, and whose reader, if it was to read on
\* or to remove its client, still is, or has done so.
LEMMA ReadersKept ==
    ASSUME IInv, AInv, NEW g \in Goroutine, todo[g] # <<>>, told \subseteq told',
           NEW ops \in Seq(Allowed(told')), Then(g, ops),
           \A c \in Conn : conn'[c] = "none" => conn[c] = "none",
           ToSet(clients') \subseteq ToSet(clients), host' \in {host, Nil},
           Nil \notin ToSet(clients'),
           \A c \in ToSet(clients') :
              g = Read(c) /\ Head(todo[g]) \in OfClient(c) => EndsWith(ops, OfClient(c)),
           host' # Nil /\ g = Read(host) /\ Head(todo[g]) \in OfHost => EndsWith(ops, OfHost)
    PROVE  AInv'
<1>1. /\ todo'[g] \in Seq(Allowed(told'))
      /\ \A k \in Goroutine : k # g => todo'[k] = todo[k]
    BY ThenType
<1>2. ASSUME NEW c \in ToSet(clients')
      PROVE  EndsWith(todo'[Read(c)], OfClient(c))
    <2>1. c \in ToSet(clients) /\ c \in Conn
        <3>1. clients \in Seq(Conn) /\ c \in ToSet(clients)
            BY DEF IInv, TypeOK
        <3>2. \E i \in 1..Len(clients) : clients[i] = c
            BY <3>1, LenProperties DEF ToSet
        <3> QED  BY <3>1, <3>2, ElementOfSeq
    <2>2. EndsWith(todo[Read(c)], OfClient(c)) /\ Read(c) \in Goroutine
        BY <2>1, Goroutines DEF AInv, ReadersOK
    <2>3. CASE g = Read(c)
        BY <2>2, <2>3, BottomStays
    <2>4. CASE g # Read(c)
        BY <1>1, <2>2, <2>4
    <2> QED  BY <2>3, <2>4
<1>3. ASSUME host' # Nil
      PROVE  EndsWith(todo'[Read(host')], OfHost)
    <2>1. host' = host /\ host \in Conn
        BY <1>3 DEF IInv, TypeOK
    <2>2. EndsWith(todo[Read(host)], OfHost) /\ Read(host) \in Goroutine
        BY <1>3, <2>1, Goroutines DEF AInv, ReadersOK
    <2>3. CASE g = Read(host)
        BY <1>3, <2>1, <2>2, <2>3, BottomStays
    <2>4. CASE g # Read(host)
        BY <1>1, <2>1, <2>2, <2>4
    <2> QED  BY <2>3, <2>4
<1>4. ASSUME NEW c \in Conn, Hello(todo', c)
      PROVE  Hello(todo, c)
    <2>1. CASE g = Deal(c)
        <3>1. todo'[g] # <<>> /\ Head(todo'[g]) = Do("hello", c)
            BY <1>4, <2>1 DEF Hello
        <3>2. Head(todo'[g]) \in Allowed(told')
            BY <1>1, <3>1, HeadTailProperties
        <3> QED  BY <3>1, <3>2, OperationsOfConnection DEF Allowed
    <2>2. CASE g # Deal(c)
        BY <1>1, <1>4, <2>2, Goroutines DEF Hello
    <2> QED  BY <2>1, <2>2
<1>5. HostOK(todo', conn', clients', host')
    BY <1>4, ConnAssumption DEF AInv, HostOK
<1> QED  BY <1>2, <1>3, <1>5 DEF AInv, ReadersOK

\* Operations that are never at the bottom of a reader's stack.
LEMMA OtherOperation ==
    ASSUME IInv, AInv, NEW g \in Goroutine, NEW w,
           w \notin {"read", "unlist", "loop", "hostGone", "readHost"}, At(g, w),
           told \subseteq told', NEW ops \in Seq(Allowed(told')), Then(g, ops),
           \A c \in Conn : conn'[c] = "none" => conn[c] = "none",
           UNCHANGED <<clients, host>>
    PROVE  AInv'
<1>1. todo[g] # <<>> /\ Head(todo[g]).do = w
    BY DEF At
<1>2. clients \in Seq(Conn) /\ \A i \in 1..Len(clients) : clients[i] \in Conn
    BY ElementOfSeq DEF IInv, TypeOK
<1>3. ToSet(clients) \subseteq Conn
    BY <1>2, LenProperties DEF ToSet
<1>4. \A c \in ToSet(clients) : Head(todo[g]) \notin OfClient(c)
    BY <1>1, <1>3, Bottoms
<1>5. host # Nil => Head(todo[g]) \notin OfHost
    BY <1>1, Bottoms DEF IInv, TypeOK
<1> QED  BY <1>1, <1>3, <1>4, <1>5, ReadersKept, ConnAssumption

-----------------------------------------------------------------------------
(* Steps that are not those of a reader at the bottom of its stack.        *)

LEMMA SendCommandAttends ==
    ASSUME IInv, AInv, NEW g \in Goroutine, SendCommand(g)
    PROVE  AInv'
<1>1. /\ At(g, "send") /\ told \subseteq told'
      /\ \A d \in Conn : conn'[d] = "none" => conn[d] = "none"
      /\ UNCHANGED <<clients, host>>
    BY DEF SendCommand, gameVars, serverVars
<1>2. PICK ops \in Seq(Allowed(told')) : Then(g, ops)
    <2>1. <<>> \in Seq(Allowed(told'))
        OBVIOUS
    <2> QED  BY <2>1 DEF SendCommand
<1>3. g \in Goroutine
    BY Goroutines
<1> QED  BY <1>1, <1>2, <1>3, OtherOperation

LEMMA CloseAttends ==
    ASSUME IInv, AInv, NEW g \in Goroutine, Close(g)
    PROVE  AInv'
<1>1. /\ At(g, "close") /\ told \subseteq told'
      /\ \A d \in Conn : conn'[d] = "none" => conn[d] = "none"
      /\ UNCHANGED <<clients, host>>
    BY DEF Close, gameVars, serverVars, IInv, TypeOK
<1>2. PICK ops \in Seq(Allowed(told')) : Then(g, ops)
    <2>1. <<>> \in Seq(Allowed(told'))
        OBVIOUS
    <2> QED  BY <2>1 DEF Close
<1>3. g \in Goroutine
    BY Goroutines
<1> QED  BY <1>1, <1>2, <1>3, OtherOperation

LEMMA DisconnectMemberAttends ==
    ASSUME IInv, AInv, NEW g \in Goroutine, DisconnectMember(g)
    PROVE  AInv'
<1>1. /\ At(g, "disconnect") /\ told \subseteq told'
      /\ \A d \in Conn : conn'[d] = "none" => conn[d] = "none"
      /\ UNCHANGED <<clients, host>>
    BY DEF DisconnectMember, clientVars, gameVars, serverVars
<1>2. PICK ops \in Seq(Allowed(told')) : Then(g, ops)
    <2>1. Arg(g) \in Conn
        BY <1>1, AtOperation
    <2> QED  BY <2>1, DisconnectType DEF DisconnectMember
<1>3. g \in Goroutine
    BY Goroutines
<1> QED  BY <1>1, <1>2, <1>3, OtherOperation

LEMMA DrainAttends ==
    ASSUME IInv, AInv, NEW g \in Goroutine, Drain(g)
    PROVE  AInv'
<1>1. /\ At(g, "drain") /\ told \subseteq told'
      /\ \A d \in Conn : conn'[d] = "none" => conn[d] = "none"
      /\ UNCHANGED <<clients, host>>
    BY DEF Drain, clientVars, gameVars, serverVars
<1>2. PICK ops \in Seq(Allowed(told')) : Then(g, ops)
    <2>1. <<>> \in Seq(Allowed(told'))
        OBVIOUS
    <2>2. CASE clients # <<>>
        <3>1. Head(clients) \in Conn
            BY <2>2, HeadTailProperties DEF IInv, TypeOK
        <3>2. /\ DisconnectClient(Head(clients)) \in Seq(Allowed(told'))
              /\ Do("drain", Nil) \in Allowed(told')
            BY <3>1, DisconnectClientType, OperationsOfGame DEF IInv
        <3>3. Append(DisconnectClient(Head(clients)), Do("drain", Nil)) \in Seq(Allowed(told'))
            BY <3>2, AppendProperties
        <3> QED  BY <2>2, <3>3 DEF Drain
    <2> QED  BY <2>1, <2>2 DEF Drain
<1>3. g \in Goroutine
    BY Goroutines
<1> QED  BY <1>1, <1>2, <1>3, OtherOperation

LEMMA DropHostAttends ==
    ASSUME IInv, AInv, NEW g \in Goroutine, DropHost(g)
    PROVE  AInv'
<1>1. /\ At(g, "dropHost") /\ told \subseteq told'
      /\ \A d \in Conn : conn'[d] = "none" => conn[d] = "none"
      /\ UNCHANGED <<clients, host>>
    BY DEF DropHost, clientVars, gameVars, serverVars
<1>2. PICK ops \in Seq(Allowed(told')) : Then(g, ops)
    <2>1. DisconnectClient(host) \in Seq(Allowed(told'))
        BY DisconnectClientType DEF IInv, TypeOK
    <2> QED  BY <2>1 DEF DropHost
<1>3. g \in Goroutine
    BY Goroutines
<1> QED  BY <1>1, <1>2, <1>3, OtherOperation

LEMMA RemoveGameObjectAttends ==
    ASSUME IInv, AInv, NEW g \in Goroutine, RemoveGameObject(g)
    PROVE  AInv'
<1>1. /\ At(g, "removeObject") /\ told \subseteq told'
      /\ \A d \in Conn : conn'[d] = "none" => conn[d] = "none"
      /\ UNCHANGED <<clients, host>>
    BY DEF RemoveGameObject, clientVars, gameVars
<1>2. PICK ops \in Seq(Allowed(told')) : Then(g, ops)
    <2>1. <<>> \in Seq(Allowed(told'))
        OBVIOUS
    <2>2. CASE /\ told' = told \cup {"GameClosed"}
               /\ Then(g, <<Do("removeGame", Nil)>>)
        <3>1. Do("removeGame", Nil) \in Allowed(told')
            BY <2>2, OperationsOfGame
        <3>2. <<Do("removeGame", Nil)>> \in Seq(Allowed(told'))
            BY <3>1
        <3> QED  BY <2>2, <3>2
    <2> QED  BY <2>1, <2>2 DEF RemoveGameObject
<1>3. g \in Goroutine
    BY Goroutines
<1> QED  BY <1>1, <1>2, <1>3, OtherOperation

LEMMA RemoveFromGamesAttends ==
    ASSUME IInv, AInv, NEW g \in Goroutine, RemoveFromGames(g)
    PROVE  AInv'
<1>1. /\ At(g, "removeGame") /\ told \subseteq told'
      /\ \A d \in Conn : conn'[d] = "none" => conn[d] = "none"
      /\ UNCHANGED <<clients, host>>
    BY DEF RemoveFromGames, clientVars, gameVars
<1>2. PICK ops \in Seq(Allowed(told')) : Then(g, ops)
    <2>1. <<>> \in Seq(Allowed(told'))
        OBVIOUS
    <2> QED  BY <2>1 DEF RemoveFromGames
<1>3. g \in Goroutine
    BY Goroutines
<1> QED  BY <1>1, <1>2, <1>3, OtherOperation

LEMMA RefuseAttends ==
    ASSUME IInv, AInv, NEW c \in Conn, Refuse(c)
    PROVE  AInv'
<1>1. /\ At(Deal(c), "hello") /\ told \subseteq told'
      /\ \A d \in Conn : conn'[d] = "none" => conn[d] = "none"
      /\ UNCHANGED <<clients, host>>
    BY DEF Refuse, clientVars, gameVars, serverVars
<1>2. PICK ops \in Seq(Allowed(told')) : Then(Deal(c), ops)
    BY DisconnectType DEF Refuse
<1>3. Deal(c) \in Goroutine
    BY Goroutines
<1> QED  BY <1>1, <1>2, <1>3, OtherOperation

LEMMA RemoveGameAttends ==
    ASSUME IInv, AInv, NEW r \in Caller, RemoveGame(r)
    PROVE  AInv'
<1>1. /\ At(RPC(r), "call") /\ told \subseteq told'
      /\ \A d \in Conn : conn'[d] = "none" => conn[d] = "none"
      /\ UNCHANGED <<clients, host>>
    BY DEF RemoveGame, clientVars, serverVars
<1>2. PICK ops \in Seq(Allowed(told')) : Then(RPC(r), ops)
    BY ShutdownType DEF RemoveGame
<1>3. RPC(r) \in Goroutine
    BY Goroutines
<1> QED  BY <1>1, <1>2, <1>3, OtherOperation

LEMMA PingAttends ==
    ASSUME IInv, AInv, NEW c \in Conn, Ping(c)
    PROVE  AInv'
<1>1. /\ At(PingLoop(c), "ping") /\ told \subseteq told'
      /\ \A d \in Conn : conn'[d] = "none" => conn[d] = "none"
      /\ UNCHANGED <<clients, host>>
    BY DEF Ping, clientVars, gameVars, serverVars
<1>2. PICK ops \in Seq(Allowed(told')) : Then(PingLoop(c), ops)
    <2>1. Do("ping", c) \in Allowed(told')
        BY OperationsOfConnection
    <2>2. <<Send(c, <<"data", 0>>), Do("ping", c)>> \in Seq(Allowed(told'))
        BY <2>1, Sends, Messages
    <2>3. Disconnect(c) \in Seq(Allowed(told'))
        BY DisconnectType
    <2> QED  BY <2>2, <2>3 DEF Ping
<1>3. PingLoop(c) \in Goroutine
    BY Goroutines
<1> QED  BY <1>1, <1>2, <1>3, OtherOperation

LEMMA TimerAttends ==
    ASSUME IInv, AInv, RemoveGameIfNoHostIsConnected
    PROVE  AInv'
<1>1. /\ At(Timer, "timer") /\ told \subseteq told'
      /\ \A d \in Conn : conn'[d] = "none" => conn[d] = "none"
      /\ UNCHANGED <<clients, host>>
    BY DEF RemoveGameIfNoHostIsConnected, clientVars, gameVars
<1>2. PICK ops \in Seq(Allowed(told')) : Then(Timer, ops)
    <2>1. Do("removeGame", Nil) \in Allowed(told')
        BY OperationsOfGame DEF RemoveGameIfNoHostIsConnected
    <2>2. <<Do("removeGame", Nil)>> \in Seq(Allowed(told'))
        BY <2>1
    <2> QED  BY <2>2 DEF RemoveGameIfNoHostIsConnected
<1>3. Timer \in Goroutine
    BY Goroutines
<1> QED  BY <1>1, <1>2, <1>3, OtherOperation

-----------------------------------------------------------------------------
(* Steps at the bottom of a reader's stack.                                *)

\* Members are connections, not Nil.
LEMMA Members ==
    ASSUME IInv
    PROVE  ToSet(clients) \subseteq Conn /\ Nil \notin ToSet(clients)
<1>1. clients \in Seq(Conn) /\ \A i \in 1..Len(clients) : clients[i] \in Conn
    BY ElementOfSeq DEF IInv, TypeOK
<1>2. ToSet(clients) \subseteq Conn
    BY <1>1, LenProperties DEF ToSet
<1> QED  BY <1>2, ConnAssumption

\* A reader reads on: whatever it was reading, it ends where it was.
LEMMA ReadsOn ==
    ASSUME IInv, AInv, NEW c \in Conn, NEW o, NEW w, At(Read(c), w),
           <<w, o>> \in {<<"read", Do("read", c)>>, <<"readHost", Do("loop", Nil)>>},
           NEW ops \in Seq(Allowed(told)), EndsWith(ops, {o}),
           Then(Read(c), ops), UNCHANGED <<conn, told, clients, host>>
    PROVE  AInv'
<1>1. todo[Read(c)] # <<>> /\ Head(todo[Read(c)]).do = w /\ Read(c) \in Goroutine
    BY Goroutines DEF At
<1>2. w = "read" => EndsWith(ops, OfClient(c))
    <2>1. w = "read" => o \in OfClient(c)
        BY DEF OfClient
    <2> QED  BY <2>1 DEF EndsWith
<1>3. w = "readHost" => EndsWith(ops, OfHost)
    <2>1. w = "readHost" => o \in OfHost
        BY DEF OfHost
    <2> QED  BY <2>1 DEF EndsWith
<1>4. \A d \in ToSet(clients) :
         Read(c) = Read(d) /\ Head(todo[Read(c)]) \in OfClient(d) => EndsWith(ops, OfClient(d))
    BY <1>1, <1>2, Members, Readers, Bottoms
<1>5. Head(todo[Read(c)]) \in OfHost => EndsWith(ops, OfHost)
    BY <1>1, <1>3, Bottoms
<1> QED  BY <1>1, <1>4, <1>5, Members, ReadersKept

LEMMA ToHostAttends ==
    ASSUME IInv, AInv, NEW c \in Conn, ToHost(c)
    PROVE  AInv'
<1>1. At(Read(c), "read") /\ UNCHANGED <<conn, told, clients, host>>
    BY DEF ToHost, clientVars, gameVars, serverVars
<1>2. CASE panic' = "host" /\ UNCHANGED <<todo, active>>
    BY <1>1, <1>2 DEF AInv
<1>3. CASE /\ host # Nil
           /\ Then(Read(c), <<Send(host, <<"fromClient", id[c]>>), Do("read", c)>>)
    <2>1. host \in Conn /\ id[c] \in Id /\ Do("read", c) \in Allowed(told)
        BY <1>3, OperationsOfConnection DEF IInv, TypeOK
    <2>2. <<Send(host, <<"fromClient", id[c]>>), Do("read", c)>> \in Seq(Allowed(told))
        BY <2>1, Sends, Messages
    <2> DEFINE ops == <<Send(host, <<"fromClient", id[c]>>), Do("read", c)>>
    <2>3. EndsWith(ops, {Do("read", c)}) /\ Then(Read(c), ops)
        BY <1>3, EndsWithShort
    <2>4. ops \in Seq(Allowed(told))
        BY <2>2
    <2> HIDE DEF ops
    <2> QED  BY <1>1, <2>3, <2>4, ReadsOn
<1> QED  BY <1>2, <1>3 DEF ToHost

LEMMA ClientRTTAttends ==
    ASSUME IInv, AInv, NEW c \in Conn, ClientRTT(c)
    PROVE  AInv'
<1>1. /\ At(Read(c), "read") /\ UNCHANGED <<conn, told, clients, host>>
      /\ Then(Read(c), <<Send(c, <<"data", 0>>), Do("read", c)>>)
    BY DEF ClientRTT, clientVars, gameVars, serverVars
<1>2. Do("read", c) \in Allowed(told)
    BY OperationsOfConnection
<1>3. <<Send(c, <<"data", 0>>), Do("read", c)>> \in Seq(Allowed(told))
    BY <1>2, Sends, Messages
<1>4. EndsWith(<<Send(c, <<"data", 0>>), Do("read", c)>>, {Do("read", c)})
    BY EndsWithShort
<1> QED  BY <1>1, <1>3, <1>4, ReadsOn

LEMMA HostReadsOnAttends ==
    ASSUME IInv, AInv, NEW c \in Conn, ToClients(c) \/ HostPong(c) \/ HostRTT(c)
    PROVE  AInv'
<1>1. At(Read(c), "readHost") /\ UNCHANGED <<conn, told, clients, host>>
    BY DEF ToClients, HostPong, HostRTT, clientVars, gameVars, serverVars
<1>2. Do("loop", Nil) \in Allowed(told)
    BY OperationsOfGame
<1>3. CASE HostPong(c)
    <2>1. <<Do("loop", Nil)>> \in Seq(Allowed(told))
        BY <1>2
    <2>2. EndsWith(<<Do("loop", Nil)>>, {Do("loop", Nil)})
        BY EndsWithShort
    <2> QED  BY <1>1, <1>3, <2>1, <2>2, ReadsOn DEF HostPong
<1>4. CASE ToClients(c) \/ HostRTT(c)
    <2>1. PICK d \in Conn : Then(Read(c), <<Send(d, <<"data", 0>>), Do("loop", Nil)>>)
        BY <1>4, Members, ConnAssumption DEF ToClients, HostRTT
    <2>2. <<Send(d, <<"data", 0>>), Do("loop", Nil)>> \in Seq(Allowed(told))
        BY <1>2, Sends, Messages
    <2> DEFINE ops == <<Send(d, <<"data", 0>>), Do("loop", Nil)>>
    <2>3. EndsWith(ops, {Do("loop", Nil)}) /\ Then(Read(c), ops)
        BY <2>1, EndsWithShort
    <2>4. ops \in Seq(Allowed(told))
        BY <2>2
    <2> HIDE DEF ops
    <2> QED  BY <1>1, <2>3, <2>4, ReadsOn
<1> QED  BY <1>3, <1>4

LEMMA HostLoopAttends ==
    ASSUME IInv, AInv, NEW g \in Goroutine, HostLoop(g)
    PROVE  AInv'
<1> DEFINE ops == IF host = Nil THEN <<>> ELSE <<Do("readHost", host)>>
<1>1. /\ At(g, "loop") /\ Then(g, ops) /\ UNCHANGED <<conn, told, clients, host>>
    BY DEF HostLoop, clientVars, gameVars, serverVars
<1>2. ops \in Seq(Allowed(told))
    <2>1. <<>> \in Seq(Allowed(told))
        OBVIOUS
    <2>2. host # Nil => Do("readHost", host) \in Allowed(told)
        BY OperationsOfConnection DEF IInv, TypeOK
    <2> QED  BY <2>1, <2>2
<1>3. host # Nil => EndsWith(ops, OfHost)
    <2>1. ASSUME host # Nil PROVE Do("readHost", host) \in OfHost
        BY <2>1 DEF OfHost, IInv, TypeOK
    <2> QED  BY <2>1, EndsWithShort
<1> HIDE DEF ops
<1>4. \A c \in ToSet(clients) : Head(todo[g]) \notin OfClient(c)
    BY <1>1, Members, Bottoms DEF At
<1>5. todo[g] # <<>>
    BY <1>1 DEF At
<1> QED  BY <1>1, <1>2, <1>3, <1>4, <1>5, Members, ReadersKept

LEMMA HostGoneAttends ==
    ASSUME IInv, AInv, NEW g \in Goroutine, HostGone(g)
    PROVE  AInv'
<1>1. /\ At(g, "hostGone") /\ host' = Nil /\ Then(g, Shutdown)
      /\ UNCHANGED <<conn, told, clients>>
    BY DEF HostGone, clientVars, serverVars
<1>2. Shutdown \in Seq(Allowed(told))
    BY ShutdownType
<1>3. \A c \in ToSet(clients) : Head(todo[g]) \notin OfClient(c)
    BY <1>1, Members, Bottoms DEF At
<1>4. todo[g] # <<>>
    BY <1>1 DEF At
<1> QED  BY <1>1, <1>2, <1>3, <1>4, Members, ReadersKept

\* No two places of the list hold the same client, so that one removal is enough.
LEMMA RemovedIsGone ==
    ASSUME IInv, NEW c \in Conn
    PROVE  ToSet(Without(c)) \subseteq ToSet(clients) \ {c}
<1>1. clients \in Seq(Conn)
    BY DEF IInv, TypeOK
<1>2. CASE c \notin ToSet(clients)
    BY <1>2 DEF Without
<1>3. CASE c \in ToSet(clients)
    <2> DEFINE n == Len(clients)
               s == Without(c)
    <2>1. PICK i \in 1..n :
             /\ s \in Seq(Conn) /\ Len(s) = n - 1
             /\ \A j \in 1..(n - 1) : s[j] = IF j < i THEN clients[j] ELSE clients[j + 1]
             /\ clients[i] = c
        BY <1>1, <1>3, WithoutProperties
    <2>2. n \in Nat /\ DOMAIN clients = 1..n /\ DOMAIN s = 1..(n - 1)
        BY <1>1, <2>1, LenProperties
    <2> HIDE DEF s
    <2>3. ASSUME NEW j \in 1..(n - 1)
          PROVE  s[j] \in ToSet(clients) /\ s[j] # c
        <3>1. PICK k \in 1..n : s[j] = clients[k] /\ k # i
            <4>1. CASE j < i
                BY <2>1, <2>2, <4>1
            <4>2. CASE ~(j < i)
                <5>1. j + 1 \in 1..n /\ j + 1 # i /\ s[j] = clients[j + 1]
                    BY <2>1, <2>2, <4>2
                <5> QED  BY <5>1
            <4> QED  BY <4>1, <4>2
        <3>2. id[clients[k]] # id[clients[i]]
            BY <3>1 DEF IInv, IdsOK
        <3> QED  BY <2>1, <2>2, <3>1, <3>2 DEF ToSet
    <2>4. \A d \in ToSet(s) : \E j \in 1..(n - 1) : s[j] = d
        BY <2>2 DEF ToSet
    <2> QED  BY <2>3, <2>4 DEF s
<1> QED  BY <1>2, <1>3

LEMMA UnlistAttends ==
    ASSUME IInv, AInv, NEW g \in Goroutine, Unlist(g)
    PROVE  AInv'
<1>1. /\ At(g, "unlist") /\ Then(g, <<>>) /\ clients' = Without(Arg(g))
      /\ UNCHANGED <<conn, told, host>>
    BY DEF Unlist, clientVars, serverVars
<1>2. todo[g] # <<>> /\ Arg(g) \in Conn
    BY <1>1, AtOperation
<1>3. <<>> \in Seq(Allowed(told))
    OBVIOUS
<1>4. ToSet(clients') \subseteq ToSet(clients) /\ Arg(g) \notin ToSet(clients')
    BY <1>1, <1>2, RemovedIsGone
<1>5. \A c \in ToSet(clients') : Head(todo[g]) \notin OfClient(c)
    BY <1>4, Members, Bottoms DEF Arg
<1>6. host # Nil => Head(todo[g]) \notin OfHost
    BY <1>1, Bottoms DEF At, IInv, TypeOK
<1> QED  BY <1>1, <1>2, <1>3, <1>4, <1>5, <1>6, Members, ReadersKept

LEMMA ClientLeavesAttends ==
    ASSUME IInv, AInv, NEW c \in Conn, ClientLeaves(c)
    PROVE  AInv'
<1> DEFINE ops == DisconnectClient(c)
<1>1. /\ At(Read(c), "read") /\ Then(Read(c), ops)
      /\ UNCHANGED <<conn, told, clients, host>>
    BY DEF ClientLeaves, clientVars, gameVars, serverVars
<1>2. ops \in Seq(Allowed(told)) /\ Read(c) \in Goroutine /\ todo[Read(c)] # <<>>
    BY <1>1, DisconnectClientType, Goroutines DEF At, IInv
<1>3. ASSUME c \in ToSet(clients)
      PROVE  EndsWith(ops, OfClient(c))
    <2>1. c # Nil /\ c # host
        BY <1>3, Members DEF AInv, HostOK
    <2> DEFINE t == <<Do("disconnect", c), Do("unlist", c)>>
    <2>2. ops = TellHost(c) \o t
        BY <1>3, <2>1 DEF DisconnectClient
    <2>3. TellHost(c) \in Seq(Operation)
        <3>1. CASE host = Nil
            <4>1. <<>> \in Seq(Operation)
                OBVIOUS
            <4> QED  BY <3>1, <4>1 DEF TellHost
        <3>2. CASE host # Nil
            <4>1. host \in Conn /\ id[c] \in Id
                BY <3>2 DEF IInv, TypeOK
            <4>2. Send(host, <<"disconnectClient", id[c]>>) \in Operation
                BY <4>1, OperationsOfConnection, Messages DEF Allowed
            <4> QED  BY <3>2, <4>2 DEF TellHost
        <3> QED  BY <3>1, <3>2
    <2>4. t \in Seq(Operation)
        <3>1. Do("disconnect", c) \in Operation /\ Do("unlist", c) \in Operation
            BY OperationsOfConnection DEF Allowed
        <3> QED  BY <3>1
    <2>5. EndsWith(t, OfClient(c))
        <3>1. Do("unlist", c) \in OfClient(c)
            BY DEF OfClient
        <3> QED  BY <3>1, EndsWithShort
    <2> HIDE DEF t, ops
    <2> QED  BY <2>2, <2>3, <2>4, <2>5, EndsWithConcat
<1> HIDE DEF ops
<1>4. host # Nil => Head(todo[Read(c)]) \notin OfHost
    BY <1>1, Bottoms DEF At, IInv, TypeOK
<1>5. \A d \in ToSet(clients) : Read(c) = Read(d) => EndsWith(ops, OfClient(d))
    BY <1>3, Members, Readers
<1> QED  BY <1>1, <1>2, <1>4, <1>5, Members, ReadersKept

LEMMA HostLeavesAttends ==
    ASSUME IInv, AInv, NEW c \in Conn, HostLeaves(c)
    PROVE  AInv'
<1> DEFINE ops == DisconnectClient(host)
<1>1. /\ At(Read(c), "readHost") /\ Then(Read(c), ops)
      /\ UNCHANGED <<conn, told, clients, host>>
    BY DEF HostLeaves, clientVars, gameVars, serverVars
<1>2. ops \in Seq(Allowed(told)) /\ Read(c) \in Goroutine /\ todo[Read(c)] # <<>>
    BY <1>1, DisconnectClientType, Goroutines DEF At, IInv, TypeOK
<1>3. ASSUME host # Nil
      PROVE  EndsWith(ops, OfHost)
    <2>1. host \in Conn
        BY <1>3 DEF IInv, TypeOK
    <2> DEFINE t == <<Do("hostGone", Nil)>>
    <2>2. ops = Disconnect(host) \o t
        BY <1>3 DEF DisconnectClient
    <2>3. Disconnect(host) \in Seq(Allowed(told)) /\ Do("hostGone", Nil) \in Allowed(told)
        BY <2>1, DisconnectType, OperationsOfGame
    <2>4. t \in Seq(Allowed(told))
        BY <2>3
    <2>5. EndsWith(t, OfHost)
        BY EndsWithShort DEF OfHost
    <2> HIDE DEF t, ops
    <2> QED  BY <2>2, <2>3, <2>4, <2>5, EndsWithConcat
<1> HIDE DEF ops
<1>4. \A d \in ToSet(clients) : Head(todo[Read(c)]) \notin OfClient(d)
    BY <1>1, Members, Bottoms DEF At
<1> QED  BY <1>1, <1>2, <1>3, <1>4, Members, ReadersKept

-----------------------------------------------------------------------------
(* Newcomers.                                                              *)

LEMMA AcceptAttends ==
    ASSUME IInv, AInv, NEW c \in Conn, Accept(c)
    PROVE  AInv'
<1>1. /\ conn[c] = "none" /\ conn' = [conn EXCEPT ![c] = "open"]
      /\ todo' = [todo EXCEPT ![Deal(c)] = <<Do("hello", c)>>,
                              ![PingLoop(c)] = <<Do("ping", c)>>]
      /\ UNCHANGED <<clients, host>>
    BY DEF Accept, gameVars
<1>2. todo \in [Goroutine -> Seq(Operation)]
    BY DEF IInv, TypeOK
<1>3. \A d \in Conn : todo'[Read(d)] = todo[Read(d)]
    BY <1>1, <1>2, Goroutines, Readers
<1>4. ReadersOK(todo', clients', host')
    BY <1>1, <1>3, Members DEF AInv, ReadersOK, IInv, TypeOK
<1>5. ASSUME NEW d \in Conn, d # c
      PROVE  (Hello(todo', d) => Hello(todo, d)) /\ conn'[d] = conn[d]
    <2>1. todo'[Deal(d)] = todo[Deal(d)]
        BY <1>1, <1>2, <1>5, Goroutines
    <2> QED  BY <1>1, <1>5, <2>1 DEF Hello, IInv, TypeOK
<1>6. HostOK(todo', conn', clients', host')
    BY <1>1, <1>5 DEF AInv, HostOK
<1> QED  BY <1>4, <1>6 DEF AInv

LEMMA AddHostAttends ==
    ASSUME IInv, AInv, NEW c \in Conn, AddHost(c)
    PROVE  AInv'
<1> DEFINE reading == <<Do("loop", Nil)>>
           greeting == <<Send(c, <<"welcome", 0>>)>>
<1>1. /\ At(Deal(c), "hello") /\ host' = c
      /\ told' = told \cup {"GameConnected"}
      /\ todo' = [todo EXCEPT ![Read(c)] = reading, ![Deal(c)] = greeting]
      /\ UNCHANGED <<conn, clients>>
    BY DEF AddHost, HasGame
<1>2. conn[c] # "none" /\ c \notin ToSet(clients)
    BY <1>1, AtHello
<1>3. /\ Do("loop", Nil) \in Allowed(told')
      /\ Send(c, <<"welcome", 0>>) \in Allowed(told')
    BY OperationsOfGame, OperationsOfConnection, Messages
<1>4. reading \in Seq(Allowed(told')) /\ greeting \in Seq(Allowed(told'))
    BY <1>3
<1>5. EndsWith(reading, OfHost)
    BY EndsWithShort DEF OfHost
<1> HIDE DEF reading, greeting
<1>6. \A d \in Conn : Hello(todo', d) => Hello(todo, d) /\ d # c
    BY <1>1, <1>4, Begins
<1>7. /\ todo'[Read(c)] = reading
      /\ \A d \in Conn : d # c => todo'[Read(d)] = todo[Read(d)]
    <2>1. todo \in [Goroutine -> Seq(Operation)]
        BY DEF IInv, TypeOK
    <2> QED  BY <1>1, <2>1, Goroutines, Readers
<1>8. ReadersOK(todo', clients', host')
    BY <1>1, <1>2, <1>5, <1>7, Members DEF AInv, ReadersOK
<1>9. HostOK(todo', conn', clients', host')
    BY <1>1, <1>2, <1>6 DEF HostOK
<1> QED  BY <1>8, <1>9 DEF AInv

LEMMA AddClientAttends ==
    ASSUME IInv, AInv, NEW c \in Conn, AddClient(c)
    PROVE  AInv'
<1> DEFINE reading == <<Do("read", c)>>
           greeting == <<Announcement, Welcome(c)>>
<1>1. /\ At(Deal(c), "hello") /\ host # Nil
      /\ clients' = Append(clients, c)
      /\ todo' = [todo EXCEPT ![Read(c)] = reading, ![Deal(c)] = greeting]
      /\ UNCHANGED <<conn, host, told>>
    BY DEF AddClient, Join, HasGame, serverVars
<1>2. Hello(todo, c) /\ conn[c] # "none" /\ c \notin ToSet(clients)
    BY <1>1, AtHello
<1>3. c # host
    BY <1>2 DEF AInv, HostOK
<1>4. /\ Do("read", c) \in Allowed(told')
      /\ Announcement \in Allowed(told') /\ Welcome(c) \in Allowed(told')
    <2>1. host \in Conn /\ nextClientId \in Id
        BY <1>1 DEF IInv, TypeOK
    <2> QED  BY <2>1, OperationsOfConnection, Messages DEF Announcement, Welcome
<1>5. reading \in Seq(Allowed(told')) /\ greeting \in Seq(Allowed(told'))
    BY <1>4
<1>6. EndsWith(reading, OfClient(c))
    <2>1. Do("read", c) \in OfClient(c)
        BY DEF OfClient
    <2> QED  BY <2>1, EndsWithShort
<1> HIDE DEF reading, greeting
<1>7. \A d \in Conn : Hello(todo', d) => Hello(todo, d) /\ d # c
    BY <1>1, <1>5, Begins
<1>8. /\ todo'[Read(c)] = reading
      /\ \A d \in Conn : d # c => todo'[Read(d)] = todo[Read(d)]
    <2>1. todo \in [Goroutine -> Seq(Operation)]
        BY DEF IInv, TypeOK
    <2> QED  BY <1>1, <2>1, Goroutines, Readers
<1>9. ToSet(clients') \subseteq ToSet(clients) \cup {c}
    <2>1. clients \in Seq(Conn)
        BY DEF IInv, TypeOK
    <2>2. /\ clients' \in Seq(Conn) /\ Len(clients') = Len(clients) + 1
          /\ clients'[Len(clients) + 1] = c
          /\ \A i \in 1..Len(clients) : clients'[i] = clients[i]
        BY <1>1, <2>1, AppendProperties
    <2>3. Len(clients) \in Nat /\ DOMAIN clients = 1..Len(clients)
          /\ DOMAIN clients' = 1..(Len(clients) + 1)
        BY <2>1, <2>2, LenProperties
    <2> QED  BY <2>2, <2>3 DEF ToSet
<1>10. ReadersOK(todo', clients', host')
    <2>1. ASSUME NEW d \in ToSet(clients')
          PROVE  EndsWith(todo'[Read(d)], OfClient(d))
        <3>1. CASE d = c
            BY <1>6, <1>8, <3>1
        <3>2. CASE d # c
            BY <1>8, <1>9, <2>1, <3>2, Members DEF AInv, ReadersOK
        <3> QED  BY <3>1, <3>2
    <2>2. host' # Nil => EndsWith(todo'[Read(host')], OfHost)
        BY <1>1, <1>3, <1>8 DEF AInv, ReadersOK, IInv, TypeOK
    <2> QED  BY <2>1, <2>2 DEF ReadersOK
<1>11. HostOK(todo', conn', clients', host')
    BY <1>1, <1>3, <1>7, <1>9 DEF AInv, HostOK
<1> QED  BY <1>10, <1>11 DEF AInv

-----------------------------------------------------------------------------
(* The invariant and the theorem.                                          *)

\* Steps that touch neither stacks nor members.
LEMMA OthersAttend ==
    ASSUME AInv, NEW c \in Conn,
           Write(c) \/ ClientPong(c) \/ HostCommandWithoutHost(c)
    PROVE  AInv'
BY DEF AInv, Write, ClientPong, HostCommandWithoutHost, clientVars, gameVars

LEMMA NextAInv == IInv /\ AInv /\ [Next]_vars => AInv'
<1> SUFFICES ASSUME IInv, AInv, [Next]_vars PROVE AInv'
    OBVIOUS
<1>1. ASSUME NEW g \in Goroutine, Internal(g) PROVE AInv'
    BY <1>1, SendCommandAttends, CloseAttends, DisconnectMemberAttends, UnlistAttends,
       HostGoneAttends, DrainAttends, DropHostAttends, RemoveGameObjectAttends,
       RemoveFromGamesAttends, HostLoopAttends DEF Internal
<1>2. ASSUME NEW c \in Conn,
             \/ Write(c) \/ Accept(c) \/ Refuse(c) \/ AddHost(c) \/ AddClient(c)
      PROVE  AInv'
    BY <1>2, OthersAttend, AcceptAttends, RefuseAttends, AddHostAttends, AddClientAttends
<1>3. ASSUME NEW c \in Conn,
             \/ Ping(c) \/ ClientLeaves(c) \/ ToHost(c) \/ ClientPong(c) \/ ClientRTT(c)
      PROVE  AInv'
    BY <1>3, PingAttends, ClientLeavesAttends, ToHostAttends, OthersAttend, ClientRTTAttends
<1>4. ASSUME NEW c \in Conn,
             \/ HostLeaves(c) \/ HostCommandWithoutHost(c) \/ ToClients(c) \/ HostPong(c)
             \/ HostRTT(c)
      PROVE  AInv'
    BY <1>4, HostLeavesAttends, OthersAttend, HostReadsOnAttends
<1>5. ASSUME NEW r \in Caller, RemoveGame(r) PROVE AInv'
    BY <1>5, RemoveGameAttends
<1>6. ASSUME RemoveGameIfNoHostIsConnected PROVE AInv'
    BY <1>6, TimerAttends
<1>7. ASSUME UNCHANGED vars PROVE AInv'
    BY <1>7 DEF vars, clientVars, gameVars, AInv
<1> QED  BY <1>1, <1>2, <1>3, <1>4, <1>5, <1>6, <1>7 DEF Next

LEMMA InitAInv == Init => AInv
<1> SUFFICES ASSUME Init PROVE AInv
    OBVIOUS
<1>1. ToSet(clients) = {} /\ host = Nil
    BY DEF Init, ToSet
<1> QED  BY <1>1, ConnAssumption DEF AInv, ReadersOK, HostOK

\* Whatever goroutines disconnect clients or shut the game down, the host and
\* everybody in the list of clients have a reader that is not done: it reads
\* their connection, or is about to remove them.
THEOREM NobodyIsUnattended == Spec => []Attended
<1>1. IInv /\ AInv => Attended
    BY DEF AInv, ReadersOK, EndsWith, Attended
<1>2. Spec => []AInv
    BY InitAInv, NextAInv, Invariant, PTL DEF Spec
<1> QED  BY <1>1, <1>2, Invariant, PTL

-----------------------------------------------------------------------------
(* What the host hears of the clients.  The peers that know the password   *)
(* are one at most: the metaserver gives it to the host alone, and the     *)
(* host comes once.                                                        *)

OneHost == \A h, j \in Password : h = j

\* The message has been written to the host, or its writer has it, or has ended.
Reached(m) == \A h \in Password : writer[h] = Gone \/ m \in wrote[h] \cup {writer[h]}

\* The host has come, and is gone for good if there is none now.
HostCame == \A h \in Password : ~Hello(todo, h) /\ conn[h] # "none"

\* The ids of which the host knows that they came, and that they left.
Announced == {i \in Id : Reached(<<"connectClient", i>>)}
Reported  == {i \in Id : Reached(<<"disconnectClient", i>>) \/ (HostCame /\ host = Nil)}

\* What g may have to do in a state with these ids and announcements (x and A).
\* Who is welcomed is a matter of Introducing.
Sound(g, x, A) ==
    {o \in Operation :
        /\ o.do # "hello"
        /\ o.do = "send" => /\ o.m[1] # "welcome"
                            /\ o.m[1] = "fromClient" => o.c \in Password /\ o.m[2] \in A
        /\ o.do = "read" => \E c \in Conn \ Password : g = Read(c)
        /\ o.do = "unlist" => x[o.c] # 0}

Reports(o, i) == o.do = "send" /\ o.c \in Password /\ o.m = <<"disconnectClient", i>>

\* Whoever takes a client off the list reports it before, or has done so.
ReportsFirst(s, x, R) ==
    \A p \in 1..Len(s) : s[p].do = "unlist" =>
        \/ x[s[p].c] \in R
        \/ \E q \in 1..(p - 1) : Reports(s[q], x[s[p].c])

\* The host is told of a client before that is welcomed.
Introducing(td, x, A, c) ==
    /\ x[c] # 0
    /\ \/ \E h \in Password :
             td[Deal(c)] = <<Send(h, <<"connectClient", x[c]>>), Welcome(c)>>
       \/ td[Deal(c)] = <<Welcome(c)>> /\ (c \in Password \/ x[c] \in A)

StackOK(td, x, A, R, g) ==
    \/ td[g] \in Seq(Sound(g, x, A)) /\ ReportsFirst(td[g], x, R)
    \/ \E c \in Conn : g = Deal(c) /\ (Hello(td, c) \/ Introducing(td, x, A, c))

GreetedOK(c) ==
    <<"welcome", 0>> \in wrote[c] \cup {writer[c]} =>
        id[c] # 0 /\ (c \in Password \/ id[c] \in Announced)

HInv ==
    /\ host \in Password \cup {Nil}
    /\ \A c \in Conn :
          /\ Hello(todo, c) \/ conn[c] = "none" => id[c] = 0
          /\ id[c] # 0 => HostCame
          /\ writer[c] = Gone => conn[c] = "nil"
          /\ GreetedOK(c)
          /\ \A i \in Id : writer[c] = <<"fromClient", i>> => <<"connectClient", i>> \in wrote[c]
          /\ id[c] > ID_HOST /\ c \notin ToSet(clients) => id[c] \in Reported
    /\ \A g \in Goroutine : StackOK(todo, id, Announced, Reported, g)

\* With more ids announced and reported, and those in use unchanged, a stack stays
\* as it should be.
LEMMA SoundGrows ==
    ASSUME NEW g, NEW x, NEW y, NEW A, NEW B, A \subseteq B,
           \A c \in Conn : x[c] # 0 => y[c] = x[c]
    PROVE  Sound(g, x, A) \subseteq Sound(g, y, B)
BY OperationArguments DEF Sound

LEMMA StackGrows ==
    ASSUME NEW td, NEW x, NEW A, NEW R, NEW ud, NEW y, NEW B, NEW S,
           A \subseteq B, R \subseteq S, \A c \in Conn : x[c] # 0 => y[c] = x[c],
           NEW g \in Goroutine, ud[g] = td[g], StackOK(td, x, A, R, g)
    PROVE  StackOK(ud, y, B, S, g)
<1>1. CASE td[g] \in Seq(Sound(g, x, A)) /\ ReportsFirst(td[g], x, R)
    <2> DEFINE s == td[g]
    <2>1. s \in Seq(Sound(g, y, B))
        BY <1>1, SoundGrows, SeqOfLarger
    <2>2. ASSUME NEW p \in 1..Len(s), s[p].do = "unlist"
          PROVE  \/ y[s[p].c] \in S
                 \/ \E q \in 1..(p - 1) : Reports(s[q], y[s[p].c])
        <3>1. s[p] \in Sound(g, x, A)
            BY <1>1, ElementOfSeq
        <3>2. s[p].c \in Conn /\ x[s[p].c] # 0
            BY <2>2, <3>1, OperationArguments DEF Sound
        <3>3. y[s[p].c] = x[s[p].c]
            BY <3>2
        <3> QED  BY <1>1, <2>2, <3>3 DEF ReportsFirst
    <2> QED  BY <2>1, <2>2 DEF StackOK, ReportsFirst
<1>2. CASE \E c \in Conn : g = Deal(c) /\ Hello(td, c)
    BY <1>2 DEF StackOK, Hello
<1>3. CASE \E c \in Conn : g = Deal(c) /\ Introducing(td, x, A, c)
    <2>1. PICK c \in Conn : g = Deal(c) /\ Introducing(td, x, A, c)
        BY <1>3
    <2>2. y[c] = x[c]
        BY <2>1 DEF Introducing
    <2>3. Introducing(ud, y, B, c)
        BY <2>1, <2>2 DEF Introducing
    <2> QED  BY <2>1, <2>3 DEF StackOK
<1> QED  BY <1>1, <1>2, <1>3 DEF StackOK

\* Operations that say nothing of a client that comes, speaks or goes.
Plain == {o \in Operation :
            /\ o.do \notin {"hello", "read", "unlist"}
            /\ o.do = "send" => o.m[1] \notin {"welcome", "fromClient"}}

LEMMA PlainStack ==
    ASSUME NEW s \in Seq(Plain), NEW g, NEW x, NEW A, NEW R
    PROVE  s \in Seq(Sound(g, x, A)) /\ ReportsFirst(s, x, R)
<1>1. Plain \subseteq Sound(g, x, A)
    BY DEF Plain, Sound
<1>2. \A p \in 1..Len(s) : s[p].do # "unlist"
    BY ElementOfSeq DEF Plain
<1> QED  BY <1>1, <1>2, SeqOfLarger DEF ReportsFirst

LEMMA PlainOperations ==
    /\ \A c \in Conn, w \in {"readHost", "ping", "close", "disconnect"} : Do(w, c) \in Plain
    /\ \A c \in Conn : /\ Send(c, <<"disconnect", 0>>) \in Plain
                       /\ Send(c, <<"data", 0>>) \in Plain
                       /\ \A i \in Id : Send(c, <<"disconnectClient", i>>) \in Plain
    /\ \A w \in {"call", "timer", "hostGone", "drain", "dropHost", "removeObject",
                 "removeGame", "loop"} : Do(w, Nil) \in Plain
<1>1. \A c \in Conn, w \in {"readHost", "ping", "close", "disconnect"} : Do(w, c) \in Plain
    BY DEF Plain, Do, Operation
<1>2. ASSUME NEW c \in Conn, NEW m \in Message, m[1] \notin {"welcome", "fromClient"}
      PROVE  Send(c, m) \in Plain
    BY <1>2 DEF Plain, Send, Operation
<1>3. /\ <<"disconnect", 0>> \in Message /\ <<"data", 0>> \in Message
      /\ \A i \in Id : <<"disconnectClient", i>> \in Message
    BY Messages
<1>4. \A c \in Conn : /\ Send(c, <<"disconnect", 0>>) \in Plain
                      /\ Send(c, <<"data", 0>>) \in Plain
                      /\ \A i \in Id : Send(c, <<"disconnectClient", i>>) \in Plain
    BY <1>2, <1>3
<1>5. \A w \in {"call", "timer", "hostGone", "drain", "dropHost", "removeObject",
                "removeGame", "loop"} : Do(w, Nil) \in Plain
    BY DEF Plain, Do, Operation
<1> QED  BY <1>1, <1>4, <1>5

LEMMA ConcatStack ==
    ASSUME NEW g, NEW x, NEW A, NEW R, NEW s \in Seq(Sound(g, x, A)), NEW t \in Seq(Sound(g, x, A)),
           ReportsFirst(s, x, R), ReportsFirst(t, x, R)
    PROVE  s \o t \in Seq(Sound(g, x, A)) /\ ReportsFirst(s \o t, x, R)
<1> DEFINE u == s \o t
<1>1. /\ u \in Seq(Sound(g, x, A)) /\ Len(u) = Len(s) + Len(t)
      /\ \A p \in 1..(Len(s) + Len(t)) : u[p] = IF p <= Len(s) THEN s[p] ELSE t[p - Len(s)]
    BY ConcatProperties
<1>2. Len(s) \in Nat /\ Len(t) \in Nat
    BY LenProperties
<1> HIDE DEF u
<1>3. ASSUME NEW p \in 1..Len(u), u[p].do = "unlist"
      PROVE  \/ x[u[p].c] \in R
             \/ \E q \in 1..(p - 1) : Reports(u[q], x[u[p].c])
    <2>1. CASE p <= Len(s)
        <3>1. p \in 1..Len(s) /\ u[p] = s[p] /\ \A q \in 1..(p - 1) : u[q] = s[q]
            BY <1>1, <1>2, <2>1
        <3> QED  BY <1>3, <3>1 DEF ReportsFirst
    <2>2. CASE p > Len(s)
        <3>1. PICK r \in 1..Len(t) : r = p - Len(s)
            BY <1>1, <1>2, <2>2
        <3>2. u[p] = t[r]
            BY <1>1, <1>2, <2>2, <3>1
        <3>3. ASSUME NEW q \in 1..(r - 1)
              PROVE  \E k \in 1..(p - 1) : u[k] = t[q]
            <4>1. PICK k \in 1..(p - 1) : k = q + Len(s)
                BY <1>1, <1>2, <2>2, <3>1
            <4>2. k \in 1..(Len(s) + Len(t)) /\ ~(k <= Len(s)) /\ k - Len(s) = q
                <5>1. p \in Nat /\ r \in Nat /\ p <= Len(s) + Len(t) /\ r = p - Len(s)
                    BY <1>1, <1>2, <3>1
                <5> QED  BY ONLY <1>2, <3>3, <4>1, <5>1, q \in 1..(r - 1), k \in 1..(p - 1)
            <4> QED  BY <1>1, <4>2
        <3>4. \/ x[t[r].c] \in R
              \/ \E q \in 1..(r - 1) : Reports(t[q], x[t[r].c])
            BY <1>3, <3>2 DEF ReportsFirst
        <3>5. CASE \E q \in 1..(r - 1) : Reports(t[q], x[t[r].c])
            <4>1. PICK q \in 1..(r - 1) : Reports(t[q], x[t[r].c])
                BY <3>5
            <4>2. \E k \in 1..(p - 1) : Reports(u[k], x[u[p].c])
                BY <3>2, <3>3, <4>1
            <4> QED  BY <4>2
        <3> QED  BY <3>2, <3>4, <3>5
    <2> QED  BY <1>1, <1>2, <2>1, <2>2
<1> QED  BY <1>1, <1>3 DEF ReportsFirst, u

LEMMA TailStack ==
    ASSUME NEW g, NEW x, NEW A, NEW R, NEW s \in Seq(Sound(g, x, A)), s # <<>>, ReportsFirst(s, x, R),
           \A i : Reports(Head(s), i) => i \in R
    PROVE  Tail(s) \in Seq(Sound(g, x, A)) /\ ReportsFirst(Tail(s), x, R)
<1> DEFINE t == Tail(s)
<1>1. /\ t \in Seq(Sound(g, x, A)) /\ Len(t) = Len(s) - 1 /\ Head(s) = s[1]
      /\ \A p \in 1..Len(t) : t[p] = s[p + 1]
    BY HeadTailProperties
<1>2. Len(s) \in Nat
    BY LenProperties
<1> HIDE DEF t
<1>3. ASSUME NEW p \in 1..Len(t), t[p].do = "unlist"
      PROVE  \/ x[t[p].c] \in R
             \/ \E q \in 1..(p - 1) : Reports(t[q], x[t[p].c])
    <2>1. p + 1 \in 1..Len(s) /\ t[p] = s[p + 1]
        BY <1>1, <1>2
    <2>2. \/ x[t[p].c] \in R
          \/ \E q \in 1..p : Reports(s[q], x[t[p].c])
        <3>1. PICK k \in 1..Len(s) : k = p + 1
            BY <2>1
        <3>2. s[k].do = "unlist" /\ t[p] = s[k] /\ k - 1 = p
            BY <1>3, <2>1, <3>1
        <3> QED  BY <3>2 DEF ReportsFirst
    <2>3. ASSUME NEW q \in 1..p, Reports(s[q], x[t[p].c]), x[t[p].c] \notin R
          PROVE  \E r \in 1..(p - 1) : Reports(t[r], x[t[p].c])
        <3>1. q # 1
            BY <1>1, <2>3
        <3>2. PICK r \in 1..(p - 1) : q = r + 1
            BY <3>1
        <3>3. t[r] = s[q]
            BY <1>1, <1>2, <3>2
        <3> QED  BY <2>3, <3>3
    <2> QED  BY <2>2, <2>3
<1> QED  BY <1>1, <1>3 DEF ReportsFirst, t

-----------------------------------------------------------------------------
(* Steps in which a goroutine does what it has to, and no writer changes.  *)

LEMMA IdsInUse ==
    ASSUME IInv
    PROVE  /\ id \in [Conn -> Id] /\ Id \subseteq Nat
           /\ \A c \in ToSet(clients) : c \in Conn /\ id[c] > ID_HOST /\ id[c] # 0
<1>1. id \in [Conn -> Id] /\ Id \subseteq Nat /\ clients \in Seq(Conn)
    BY IdAssumption DEF IInv, TypeOK, Id
<1>2. ASSUME NEW c \in ToSet(clients)
      PROVE  c \in Conn /\ id[c] > ID_HOST /\ id[c] # 0
    <2>1. PICK k \in 1..Len(clients) : clients[k] = c
        BY <1>1, LenProperties DEF ToSet
    <2>2. c \in Conn
        BY <1>1, <2>1, ElementOfSeq
    <2>3. id[c] \in (ID_HOST + 1)..(nextClientId - 1) /\ nextClientId \in (ID_HOST + 1)..IdLimit
        BY <2>1 DEF IInv, IdsOK
    <2> QED  BY <2>2, <2>3, IdAssumption DEF ID_HOST
<1> QED  BY <1>1, <1>2

\* What is left of g's stack, and that nobody says HELLO who did not before.
LEMMA StackAfter ==
    ASSUME IInv, NEW g \in Goroutine, todo[g] # <<>>, NEW ops, Then(g, ops)
    PROVE  /\ todo[g] \in Seq(Operation)
           /\ todo'[g] = ops \o Tail(todo[g])
           /\ \A k \in Goroutine : k # g => todo'[k] = todo[k]
BY DEF IInv, TypeOK, Then

LEMMA NoNewHello ==
    ASSUME NEW td, NEW ud, NEW g \in Goroutine, NEW x, NEW A,
           ud[g] \in Seq(Sound(g, x, A)) \/ \E h \in Conn : \E m : ud[g] = <<Send(h, m)>>,
           \A k \in Goroutine : k # g => ud[k] = td[k],
           NEW c \in Conn, Hello(ud, c)
    PROVE  Hello(td, c)
<1>1. CASE g = Deal(c)
    <2>0. ud[g] = <<Do("hello", c)>>
        BY <1>1 DEF Hello
    <2>1. ud[g] # <<>> /\ Head(ud[g]) = Do("hello", c)
        BY <2>0
    <2>2. CASE ud[g] \in Seq(Sound(g, x, A))
        <3>1. Head(ud[g]) \in Sound(g, x, A)
            BY <2>1, <2>2, HeadTailProperties
        <3> QED  BY <2>1, <3>1 DEF Sound, Do
    <2>3. CASE \E h \in Conn : \E m : ud[g] = <<Send(h, m)>>
        BY <2>1, <2>3 DEF Do, Send
    <2> QED  BY <2>2, <2>3
<1>2. CASE g # Deal(c)
    BY <1>2, Goroutines DEF Hello
<1> QED  BY <1>1, <1>2

LEMMA CalmMembers ==
    ASSUME IInv, HInv, NEW g \in Goroutine,
           todo[g] # <<>>, Head(todo[g]).do # "send",
           NEW ops \in Seq(Sound(g, id, Announced)), ReportsFirst(ops, id, Reported),
           Then(g, ops),
           UNCHANGED <<id, writer, wrote>>, host' \in {host, Nil},
           \A c \in Conn : conn'[c] \in {conn[c], "nil"},
           \A c \in Conn : id[c] > ID_HOST /\ c \notin ToSet(clients') => id[c] \in Reported
    PROVE  HInv'
<1>1. /\ todo[g] \in Seq(Operation)
      /\ todo'[g] = ops \o Tail(todo[g])
      /\ \A k \in Goroutine : k # g => todo'[k] = todo[k]
    BY StackAfter
<1>2. Announced' = Announced
    BY DEF Announced, Reached
<1>3. StackOK(todo, id, Announced, Reported, g)
    BY DEF HInv
<1>4. Tail(todo[g]) \in Seq(Sound(g, id, Announced)) /\ ReportsFirst(Tail(todo[g]), id, Reported)
    <2>1. CASE todo[g] \in Seq(Sound(g, id, Announced)) /\ ReportsFirst(todo[g], id, Reported)
        <3>1. \A i : ~Reports(Head(todo[g]), i)
            BY DEF Reports
        <3> QED  BY <2>1, <3>1, TailStack
    <2>2. CASE \E c \in Conn : g = Deal(c) /\ Hello(todo, c)
        <3>1. PICK c \in Conn : todo[g] = <<Do("hello", c)>>
            BY <2>2 DEF Hello
        <3>2. Tail(todo[g]) = <<>> /\ Tail(todo[g]) \in Seq(Plain)
            BY <3>1
        <3> QED  BY <3>2, PlainStack
    <2>3. CASE \E c \in Conn : g = Deal(c) /\ Introducing(todo, id, Announced, c)
        <3>1. PICK c, h, m, n :
                 \/ todo[g] = <<Send(h, m), Send(c, n)>>
                 \/ todo[g] = <<Send(c, n)>>
            BY <2>3 DEF Introducing, Welcome
        <3>2. Head(todo[g]) = Send(h, m) \/ Head(todo[g]) = Send(c, n)
            BY <3>1
        <3> QED  BY <3>2 DEF Send
    <2> QED  BY <1>3, <2>1, <2>2, <2>3 DEF StackOK
<1>5. todo'[g] \in Seq(Sound(g, id, Announced)) /\ ReportsFirst(todo'[g], id, Reported)
    <2> DEFINE t == Tail(todo[g])
    <2>1. /\ t \in Seq(Sound(g, id, Announced)) /\ ReportsFirst(t, id, Reported)
          /\ todo'[g] = ops \o t
        BY <1>1, <1>4
    <2> HIDE DEF t
    <2> QED  BY <2>1, ConcatStack
<1>6. \A c \in Conn : Hello(todo', c) => Hello(todo, c)
    BY <1>1, <1>5, NoNewHello
<1>7. HostCame => HostCame'
    <2> SUFFICES ASSUME HostCame, NEW h \in Password PROVE ~Hello(todo', h) /\ conn'[h] # "none"
        BY DEF HostCame
    <2> QED  BY <1>6, ConnAssumption DEF HostCame
<1>8. Reported \subseteq Reported'
    BY <1>7 DEF Reported, Reached
<1>9. ASSUME NEW k \in Goroutine
      PROVE  StackOK(todo', id, Announced, Reported', k)
    <2>1. CASE k # g
        <3>1. StackOK(todo, id, Announced, Reported, k) /\ todo'[k] = todo[k]
            BY <1>1, <2>1 DEF HInv
        <3>2. PICK R : R = Reported'
            OBVIOUS
        <3>3. PICK td : td = todo'
            OBVIOUS
        <3>4. StackOK(td, id, Announced, R, k)
            BY ONLY <1>8, <3>1, <3>2, <3>3, StackGrows, k \in Goroutine
        <3> QED  BY <3>2, <3>3, <3>4
    <2>2. CASE k = g
        <3>1. ReportsFirst(todo'[g], id, Reported')
            BY <1>5, <1>8 DEF ReportsFirst
        <3> QED  BY <1>5, <2>2, <3>1 DEF StackOK
    <2> QED  BY <2>1, <2>2
<1>10. ASSUME NEW c \in Conn
       PROVE  /\ Hello(todo', c) \/ conn'[c] = "none" => id'[c] = 0
              /\ id'[c] # 0 => HostCame'
              /\ writer'[c] = Gone => conn'[c] = "nil"
              /\ GreetedOK(c)'
              /\ \A i \in Id : writer'[c] = <<"fromClient", i>> =>
                                  <<"connectClient", i>> \in wrote'[c]
              /\ id'[c] > ID_HOST /\ c \notin ToSet(clients') => id'[c] \in Reported'
    <2>1. Hello(todo', c) \/ conn'[c] = "none" => id'[c] = 0
        BY <1>6 DEF HInv
    <2>2. (id'[c] # 0 => HostCame') /\ (writer'[c] = Gone => conn'[c] = "nil")
        BY <1>7 DEF HInv
    <2>3. GreetedOK(c)'
        BY <1>2 DEF HInv, GreetedOK
    <2>4. \A i \in Id : writer'[c] = <<"fromClient", i>> =>
                           <<"connectClient", i>> \in wrote'[c]
        BY DEF HInv
    <2>5. id'[c] > ID_HOST /\ c \notin ToSet(clients') => id'[c] \in Reported'
        BY <1>8
    <2> QED  BY <2>1, <2>2, <2>3, <2>4, <2>5
<1>11. host' \in Password \cup {Nil}
    BY DEF HInv
<1> QED  BY <1>2, <1>9, <1>10, <1>11 DEF HInv

\* Those that leave the list of clients alone.
LEMMA CalmStep ==
    ASSUME IInv, HInv, NEW g \in Goroutine,
           todo[g] # <<>>, Head(todo[g]).do # "send",
           NEW ops \in Seq(Sound(g, id, Announced)), ReportsFirst(ops, id, Reported),
           Then(g, ops),
           UNCHANGED <<id, writer, wrote, clients>>, host' \in {host, Nil},
           \A c \in Conn : conn'[c] \in {conn[c], "nil"}
    PROVE  HInv'
<1>1. \A c \in Conn : id[c] > ID_HOST /\ c \notin ToSet(clients') => id[c] \in Reported
    BY DEF HInv
<1> QED  BY <1>1, CalmMembers

\* Those that go on with plain operations.
LEMMA PlainStep ==
    ASSUME IInv, HInv, NEW g \in Goroutine,
           todo[g] # <<>>, Head(todo[g]).do # "send",
           NEW ops \in Seq(Plain), Then(g, ops),
           UNCHANGED <<id, writer, wrote, clients>>, host' \in {host, Nil},
           \A c \in Conn : conn'[c] \in {conn[c], "nil"}
    PROVE  HInv'
BY PlainStack, CalmStep

\* What the functions of the code put on a stack.
LEMMA PlainCalls ==
    /\ \A c \in Conn : Disconnect(c) \in Seq(Plain)
    /\ Shutdown \in Seq(Plain)
    /\ <<>> \in Seq(Plain)
<1>1. ASSUME NEW c \in Conn
      PROVE  Disconnect(c) \in Seq(Plain)
    <2>1. Send(c, <<"disconnect", 0>>) \in Plain /\ Do("close", c) \in Plain
        BY PlainOperations
    <2> QED  BY <2>1, ShortSeq DEF Disconnect
<1>2. Shutdown \in Seq(Plain)
    <2>1. Do("drain", Nil) \in Plain /\ Do("dropHost", Nil) \in Plain
          /\ Do("removeObject", Nil) \in Plain
        BY PlainOperations
    <2> QED  BY <2>1, ShortSeq DEF Shutdown
<1> QED  BY <1>1, <1>2

LEMMA DisconnectClientReports ==
    ASSUME IInv, HInv, NEW g, NEW c \in Conn \cup {Nil}
    PROVE  /\ DisconnectClient(c) \in Seq(Sound(g, id, Announced))
           /\ ReportsFirst(DisconnectClient(c), id, Reported)
<1>0. <<>> \in Seq(Plain)
    OBVIOUS
<1>1. CASE c = Nil \/ (c # host /\ c \notin ToSet(clients))
    <2>1. DisconnectClient(c) \in Seq(Plain)
        BY <1>0, <1>1 DEF DisconnectClient
    <2> QED  BY <2>1, PlainStack
<1>2. CASE c # Nil /\ c = host
    <2>1. Disconnect(c) \in Seq(Plain) /\ <<Do("hostGone", Nil)>> \in Seq(Plain)
        BY <1>2, PlainCalls, PlainOperations
    <2>2. DisconnectClient(c) = Disconnect(c) \o <<Do("hostGone", Nil)>>
        BY <1>2 DEF DisconnectClient
    <2>3. DisconnectClient(c) \in Seq(Plain)
        BY <2>1, <2>2, ConcatProperties
    <2> QED  BY <2>3, PlainStack
<1>3. CASE c # Nil /\ c # host /\ c \in ToSet(clients)
    <2>1. c \in Conn /\ id[c] \in Id /\ id[c] # 0
        BY <1>3, IdsInUse
    <2>2. Do("disconnect", c) \in Sound(g, id, Announced) /\ Do("unlist", c) \in Sound(g, id, Announced)
        BY <2>1 DEF Sound, Do, Operation
    <2>3. DisconnectClient(c) = TellHost(c) \o <<Do("disconnect", c), Do("unlist", c)>>
        BY <1>3 DEF DisconnectClient
    <2>4. CASE host = Nil
        <3> DEFINE s == <<Do("disconnect", c), Do("unlist", c)>>
        <3>1. DisconnectClient(c) = <<>> \o s
            BY <2>3, <2>4 DEF TellHost
        <3>2. s \in Seq(Sound(g, id, Announced))
            BY <2>2
        <3>3. DisconnectClient(c) = s
            BY <3>1, <3>2, ConcatEmptySeq
        <3>4. id[c] \in Reported
            BY <2>1, <2>4 DEF HInv, Reported
        <3>5. ReportsFirst(s, id, Reported)
            <4>1. \A p \in 1..2 : s[p].c = c
                BY DEF Do
            <4>2. Len(s) = 2
                OBVIOUS
            <4> HIDE DEF s
            <4> QED  BY <3>4, <4>1, <4>2 DEF ReportsFirst
        <3> QED  BY <3>2, <3>3, <3>5
    <2>5. CASE host # Nil
        <3> DEFINE a == Send(host, <<"disconnectClient", id[c]>>)
                   s == <<a, Do("disconnect", c), Do("unlist", c)>>
        <3>1. TellHost(c) = <<a>>
            BY <2>5 DEF TellHost
        <3>2. host \in Password /\ host \in Conn
            BY <2>5, ConnAssumption DEF HInv
        <3>3. a \in Sound(g, id, Announced)
            <4>1. a \in Plain
                BY <2>1, <3>2, PlainOperations
            <4> QED  BY <4>1 DEF Plain, Sound
        <3>4. Reports(a, id[c])
            BY <3>2 DEF Reports, Send
        <3> HIDE DEF a
        <3>5. DisconnectClient(c) = s /\ s \in Seq(Sound(g, id, Announced))
            <4>1. s \in Seq(Sound(g, id, Announced))
                BY <2>2, <3>3, ShortSeq
            <4> DEFINE d == Do("disconnect", c)
                       u == Do("unlist", c)
            <4>2. DisconnectClient(c) = <<a>> \o <<d, u>>
                BY <2>3, <3>1
            <4> HIDE DEF d, u
            <4>3. <<a>> \o <<d, u>> = <<a, d, u>>
                <5>1. PICK T : a \in T /\ d \in T /\ u \in T
                    <6>1. a \in {a, d, u} /\ d \in {a, d, u} /\ u \in {a, d, u}
                        OBVIOUS
                    <6> QED  BY <6>1
                <5>2. <<a>> \in Seq(T) /\ <<d, u>> \in Seq(T) /\ <<a, d, u>> \in Seq(T)
                    BY <5>1
                <5>3. /\ <<a>> \o <<d, u>> \in Seq(T) /\ Len(<<a>> \o <<d, u>>) = 3
                      /\ \A i \in 1..3 : (<<a>> \o <<d, u>>)[i] =
                                          IF i <= 1 THEN <<a>>[i] ELSE <<d, u>>[i - 1]
                    BY <5>2, ConcatProperties
                <5>4. \A i \in 1..3 : (<<a>> \o <<d, u>>)[i] = <<a, d, u>>[i]
                    BY <5>3
                <5> QED  BY <5>2, <5>3, <5>4, SeqEqual
            <4> QED  BY <4>1, <4>2, <4>3 DEF d, u
        <3>6. ReportsFirst(s, id, Reported)
            <4>1. Len(s) = 3 /\ s[1] = a /\ s[2].do = "disconnect" /\ s[3].c = c
                BY DEF Do
            <4>2. a.do = "send"
                BY <3>4 DEF Reports
            <4> HIDE DEF s
            <4>3. ASSUME NEW p \in 1..Len(s), s[p].do = "unlist"
                  PROVE  \E q \in 1..(p - 1) : Reports(s[q], id[s[p].c])
                <5>1. p = 3
                    BY <4>1, <4>2, <4>3
                <5>2. 1 \in 1..(p - 1) /\ Reports(s[1], id[s[p].c])
                    BY <3>4, <4>1, <5>1
                <5> QED  BY <5>2
            <4> QED  BY <4>3 DEF ReportsFirst
        <3> QED  BY <3>5, <3>6
    <2> QED  BY <2>4, <2>5
<1> QED  BY <1>1, <1>2, <1>3

LEMMA CloseReports ==
    ASSUME IInv, HInv, NEW g \in Goroutine, Close(g) PROVE HInv'
<1>1. At(g, "close") /\ Then(g, <<>>) /\ <<>> \in Seq(Plain)
    BY DEF Close
<1>2. /\ UNCHANGED <<id, writer, wrote, clients>> /\ host' \in {host, Nil}
      /\ \A c \in Conn : conn'[c] \in {conn[c], "nil"}
    BY DEF Close, gameVars, IInv, TypeOK
<1> QED  BY <1>1, <1>2, PlainStep DEF At

\* Without takes nobody else off the list.
LEMMA WithoutOthers ==
    ASSUME NEW c \in Conn, NEW d \in Conn, d # c, clients \in Seq(Conn), d \in ToSet(clients)
    PROVE  d \in ToSet(Without(c))
<1>1. CASE c \notin ToSet(clients)
    BY <1>1 DEF Without
<1>2. CASE c \in ToSet(clients)
    <2>1. PICK i \in 1..Len(clients) :
              /\ Without(c) \in Seq(Conn)
              /\ Len(Without(c)) = Len(clients) - 1 /\ clients[i] = c
              /\ \A j \in 1..(Len(clients) - 1) :
                    Without(c)[j] = IF j < i THEN clients[j] ELSE clients[j + 1]
        BY <1>2, WithoutProperties
    <2>2. /\ Len(clients) \in Nat
          /\ DOMAIN clients = 1..Len(clients) /\ DOMAIN Without(c) = 1..(Len(clients) - 1)
        BY <2>1, LenProperties
    <2>3. PICK k \in 1..Len(clients) : clients[k] = d
        BY <2>2 DEF ToSet
    <2>4. k # i
        BY <2>1, <2>3
    <2>5. CASE k < i
        <3>1. k \in 1..(Len(clients) - 1) /\ Without(c)[k] = d
            BY <2>1, <2>2, <2>3, <2>5
        <3> QED  BY <2>2, <3>1 DEF ToSet
    <2>6. CASE k > i
        <3>1. PICK j \in 1..(Len(clients) - 1) : j = k - 1
            BY <2>2, <2>6
        <3>2. Without(c)[j] = clients[j + 1] /\ j + 1 = k
            BY <2>1, <2>2, <2>6, <3>1
        <3> QED  BY <2>2, <2>3, <3>2 DEF ToSet
    <2> QED  BY <2>2, <2>4, <2>5, <2>6
<1> QED  BY <1>1, <1>2

LEMMA DisconnectMemberReports ==
    ASSUME IInv, HInv, NEW g \in Goroutine, DisconnectMember(g) PROVE HInv'
<1>1. At(g, "disconnect") /\ Then(g, Disconnect(Arg(g)))
      /\ UNCHANGED <<clientVars, gameVars>>
    BY DEF DisconnectMember
<1>2. Disconnect(Arg(g)) \in Seq(Plain)
    BY <1>1, AtOperation, PlainCalls
<1> QED  BY <1>1, <1>2, PlainStep DEF At, clientVars, gameVars

LEMMA HostGoneReports ==
    ASSUME IInv, HInv, NEW g \in Goroutine, HostGone(g) PROVE HInv'
<1>1. /\ At(g, "hostGone") /\ Then(g, Shutdown) /\ Shutdown \in Seq(Plain)
      /\ host' = Nil /\ UNCHANGED <<clientVars, clients>>
    BY PlainCalls DEF HostGone
<1> QED  BY <1>1, PlainStep DEF At, clientVars

LEMMA DrainReports ==
    ASSUME IInv, HInv, NEW g \in Goroutine, Drain(g) PROVE HInv'
<1>1. At(g, "drain") /\ UNCHANGED <<clientVars, gameVars>>
    BY DEF Drain
<1>2. CASE clients = <<>> /\ Then(g, <<>>)
    BY <1>1, <1>2, PlainCalls, PlainStep DEF At, clientVars, gameVars
<1>3. CASE clients # <<>> /\ Then(g, Append(DisconnectClient(Head(clients)), Do("drain", Nil)))
    <2> DEFINE s == DisconnectClient(Head(clients))
               d == <<Do("drain", Nil)>>
    <2>1. Head(clients) \in Conn
        BY <1>3, HeadTailProperties DEF IInv, TypeOK
    <2>2. s \in Seq(Sound(g, id, Announced)) /\ ReportsFirst(s, id, Reported)
        BY <2>1, DisconnectClientReports
    <2>3. d \in Seq(Plain)
        BY PlainOperations
    <2>4. d \in Seq(Sound(g, id, Announced)) /\ ReportsFirst(d, id, Reported)
        BY <2>3, PlainStack
    <2>5. Append(s, Do("drain", Nil)) = s \o d
        BY <2>2, <2>4, AppendIsConcat
    <2> HIDE DEF s, d
    <2>6. PICK ops : ops = s \o d
        OBVIOUS
    <2>7. /\ ops \in Seq(Sound(g, id, Announced)) /\ ReportsFirst(ops, id, Reported)
        BY <2>2, <2>4, <2>6, ConcatStack
    <2>8. Then(g, ops)
        BY <1>3, <2>5, <2>6 DEF s
    <2> QED  BY <1>1, <2>7, <2>8, CalmStep DEF At, clientVars, gameVars
<1> QED  BY <1>2, <1>3 DEF Drain

LEMMA DropHostReports ==
    ASSUME IInv, HInv, NEW g \in Goroutine, DropHost(g) PROVE HInv'
<1>1. At(g, "dropHost") /\ Then(g, DisconnectClient(host)) /\ UNCHANGED <<clientVars, gameVars>>
    BY DEF DropHost
<1>2. /\ DisconnectClient(host) \in Seq(Sound(g, id, Announced))
      /\ ReportsFirst(DisconnectClient(host), id, Reported)
    BY DisconnectClientReports DEF IInv, TypeOK
<1> QED  BY <1>1, <1>2, CalmStep DEF At, clientVars, gameVars

LEMMA RemoveGameObjectReports ==
    ASSUME IInv, HInv, NEW g \in Goroutine, RemoveGameObject(g) PROVE HInv'
<1>1. At(g, "removeObject") /\ UNCHANGED <<clientVars, gameVars>>
    BY DEF RemoveGameObject
<1>2. PICK ops \in Seq(Plain) : Then(g, ops)
    <2>1. <<>> \in Seq(Plain) /\ <<Do("removeGame", Nil)>> \in Seq(Plain)
        BY PlainOperations
    <2> QED  BY <2>1 DEF RemoveGameObject
<1> QED  BY <1>1, <1>2, PlainStep DEF At, clientVars, gameVars

LEMMA RemoveFromGamesReports ==
    ASSUME IInv, HInv, NEW g \in Goroutine, RemoveFromGames(g) PROVE HInv'
<1>1. At(g, "removeGame") /\ Then(g, <<>>) /\ UNCHANGED <<clientVars, gameVars>>
    BY DEF RemoveFromGames
<1> QED  BY <1>1, PlainCalls, PlainStep DEF At, clientVars, gameVars

LEMMA HostLoopReports ==
    ASSUME IInv, HInv, NEW g \in Goroutine, HostLoop(g) PROVE HInv'
<1>1. At(g, "loop") /\ UNCHANGED <<clientVars, gameVars>>
    BY DEF HostLoop
<1>2. PICK ops \in Seq(Plain) : Then(g, ops)
    <2>1. CASE host = Nil
        BY <2>1, PlainCalls DEF HostLoop
    <2>2. CASE host # Nil
        <3>1. Do("readHost", host) \in Plain
            BY <2>2, PlainOperations DEF IInv, TypeOK
        <3>2. <<Do("readHost", host)>> \in Seq(Plain)
            BY <3>1
        <3> QED  BY <2>2, <3>2 DEF HostLoop
    <2> QED  BY <2>1, <2>2
<1> QED  BY <1>1, <1>2, PlainStep DEF At, clientVars, gameVars

LEMMA UnlistReports ==
    ASSUME IInv, HInv, NEW g \in Goroutine, Unlist(g) PROVE HInv'
<1>1. /\ At(g, "unlist") /\ clients' = Without(Arg(g)) /\ Then(g, <<>>)
      /\ UNCHANGED <<clientVars, host>>
    BY DEF Unlist
<1>2. /\ todo[g] # <<>> /\ todo[g] \in Seq(Operation) /\ Head(todo[g]).do = "unlist"
      /\ Arg(g) \in Conn /\ Arg(g) = Head(todo[g]).c
    BY <1>1, AtOperation DEF Arg
<1>3. id[Arg(g)] \in Reported
    <2>1. todo[g] \in Seq(Sound(g, id, Announced)) /\ ReportsFirst(todo[g], id, Reported)
        <3>1. ASSUME NEW c \in Conn, g = Deal(c), Hello(todo, c)
              PROVE  FALSE
            BY <1>2, <3>1 DEF Hello, Do
        <3>2. ASSUME NEW c \in Conn, g = Deal(c), Introducing(todo, id, Announced, c)
              PROVE  FALSE
            <4>1. PICK h, m, n : \/ todo[g] = <<Send(h, m), Send(c, n)>>
                                 \/ todo[g] = <<Send(c, n)>>
                BY <3>2 DEF Introducing, Welcome
            <4>2. Head(todo[g]) = Send(h, m) \/ Head(todo[g]) = Send(c, n)
                BY <4>1
            <4> QED  BY <1>2, <4>2 DEF Send
        <3> QED  BY <3>1, <3>2 DEF HInv, StackOK
    <2>2. Len(todo[g]) \in Nat /\ Len(todo[g]) # 0 /\ Head(todo[g]) = todo[g][1]
        BY <1>2, EmptySeq, HeadTailProperties
    <2>3. 1 \in 1..Len(todo[g]) /\ 1..(1 - 1) = {}
        BY <2>2
    <2> QED  BY <1>2, <2>1, <2>2, <2>3 DEF ReportsFirst
<1>4. ASSUME NEW c \in Conn, c # Arg(g), c \in ToSet(clients)
      PROVE  c \in ToSet(clients')
    BY <1>1, <1>2, <1>4, WithoutOthers DEF IInv, TypeOK
<1>5. \A c \in Conn : id[c] > ID_HOST /\ c \notin ToSet(clients') => id[c] \in Reported
    BY <1>3, <1>4 DEF HInv
<1> QED  BY <1>1, <1>2, <1>5, PlainCalls, PlainStack, CalmMembers DEF clientVars

LEMMA ServerReports ==
    ASSUME IInv, HInv,
           \/ \E c \in Conn : Refuse(c)
           \/ \E r \in Caller : RemoveGame(r)
           \/ RemoveGameIfNoHostIsConnected
    PROVE  HInv'
<1>1. ASSUME NEW c \in Conn, Refuse(c) PROVE HInv'
    <2>1. At(Deal(c), "hello") /\ Then(Deal(c), Disconnect(c)) /\ UNCHANGED <<clientVars, gameVars>>
        BY <1>1 DEF Refuse
    <2>2. Disconnect(c) \in Seq(Plain) /\ Deal(c) \in Goroutine
        BY PlainCalls, Goroutines
    <2> QED  BY <2>1, <2>2, PlainStep DEF At, clientVars, gameVars
<1>2. ASSUME NEW r \in Caller, RemoveGame(r) PROVE HInv'
    <2>1. At(RPC(r), "call") /\ Then(RPC(r), Shutdown) /\ UNCHANGED <<clientVars, host, clients>>
        BY <1>2 DEF RemoveGame
    <2>2. Shutdown \in Seq(Plain) /\ RPC(r) \in Goroutine
        BY PlainCalls, Goroutines
    <2> QED  BY <2>1, <2>2, PlainStep DEF At, clientVars
<1>3. CASE RemoveGameIfNoHostIsConnected
    <2>1. /\ At(Timer, "timer") /\ Then(Timer, <<Do("removeGame", Nil)>>)
          /\ UNCHANGED <<clientVars, gameVars>>
        BY <1>3 DEF RemoveGameIfNoHostIsConnected
    <2>2. <<Do("removeGame", Nil)>> \in Seq(Plain) /\ Timer \in Goroutine
        BY PlainOperations, Goroutines
    <2> QED  BY <2>1, <2>2, PlainStep DEF At, clientVars, gameVars
<1> QED  BY <1>1, <1>2, <1>3

LEMMA PingReports ==
    ASSUME IInv, HInv, NEW c \in Conn, Ping(c) PROVE HInv'
<1>1. /\ At(PingLoop(c), "ping") /\ PingLoop(c) \in Goroutine
      /\ UNCHANGED <<conn, id, writer, wrote, gameVars>>
    BY Goroutines DEF Ping
<1>2. PICK ops \in Seq(Plain) : Then(PingLoop(c), ops)
    <2>1. <<Send(c, <<"data", 0>>), Do("ping", c)>> \in Seq(Plain) /\ Disconnect(c) \in Seq(Plain)
        <3>1. Send(c, <<"data", 0>>) \in Plain /\ Do("ping", c) \in Plain
            BY PlainOperations
        <3> QED  BY <3>1, ShortSeq, PlainCalls
    <2> QED  BY <2>1 DEF Ping
<1> QED  BY <1>1, <1>2, PlainStep DEF At, gameVars

\* A reader that reads a client's connection is not that of the host, and what it
\* does before it reads on is up to the message.
LEMMA ReadsOnReports ==
    ASSUME IInv, HInv, NEW c \in Conn, At(Read(c), "read")
    PROVE  /\ c \notin Password
           /\ \A o \in Sound(Read(c), id, Announced) :
                 o.do = "send" =>
                    /\ <<o, Do("read", c)>> \in Seq(Sound(Read(c), id, Announced))
                    /\ ReportsFirst(<<o, Do("read", c)>>, id, Reported)
<1> DEFINE g == Read(c)
<1>1. /\ g \in Goroutine /\ todo[g] # <<>> /\ Head(todo[g]).do = "read"
      /\ \A d \in Conn : g # Deal(d)
    BY Goroutines DEF At
<1>2. todo[g] \in Seq(Sound(g, id, Announced))
    BY <1>1 DEF HInv, StackOK
<1>3. Head(todo[g]) \in Sound(g, id, Announced)
    BY <1>1, <1>2, HeadTailProperties
<1>4. c \notin Password
    BY <1>1, <1>3, Readers DEF Sound
<1>5. Do("read", c) \in Sound(g, id, Announced)
    BY <1>4 DEF Sound, Do, Operation
<1>6. ASSUME NEW o \in Sound(g, id, Announced), o.do = "send"
      PROVE  /\ <<o, Do("read", c)>> \in Seq(Sound(g, id, Announced))
             /\ ReportsFirst(<<o, Do("read", c)>>, id, Reported)
    <2> DEFINE s == <<o, Do("read", c)>>
    <2>1. s \in Seq(Sound(g, id, Announced))
        BY <1>5
    <2>2. Len(s) = 2 /\ s[1].do = "send" /\ s[2].do = "read"
        BY <1>6 DEF Do
    <2> HIDE DEF s
    <2>3. \A p \in 1..Len(s) : s[p].do # "unlist"
        BY <2>2
    <2>4. ReportsFirst(s, id, Reported)
        BY <2>3 DEF ReportsFirst
    <2> QED  BY <2>1, <2>4 DEF s
<1> QED  BY <1>4, <1>6

LEMMA ClientLeavesReports ==
    ASSUME IInv, HInv, NEW c \in Conn, ClientLeaves(c) PROVE HInv'
<1>1. /\ At(Read(c), "read") /\ Then(Read(c), DisconnectClient(c))
      /\ Read(c) \in Goroutine /\ UNCHANGED <<clientVars, gameVars>>
    BY Goroutines DEF ClientLeaves
<1>2. /\ DisconnectClient(c) \in Seq(Sound(Read(c), id, Announced))
      /\ ReportsFirst(DisconnectClient(c), id, Reported)
    BY DisconnectClientReports
<1> QED  BY <1>1, <1>2, CalmStep DEF At, clientVars, gameVars

\* A client that has been welcomed has been announced, so its packets may be sent.
LEMMA ToHostReports ==
    ASSUME IInv, HInv, NEW c \in Conn, ToHost(c) PROVE HInv'
<1>1. At(Read(c), "read") /\ Welcomed(c) /\ Read(c) \in Goroutine /\ UNCHANGED <<clientVars, gameVars>>
    BY Goroutines DEF ToHost
<1>2. CASE UNCHANGED todo
    BY SMTT(30), <1>1, <1>2
    DEF HInv, GreetedOK, Announced, Reported, Reached, HostCame, clientVars, gameVars
<1>3. CASE host # Nil /\ Then(Read(c), <<Send(host, <<"fromClient", id[c]>>), Do("read", c)>>)
    <2> DEFINE o == Send(host, <<"fromClient", id[c]>>)
    <2>1. c \notin Password /\ id[c] \in Announced
        BY <1>1, ReadsOnReports DEF Welcomed, HInv, GreetedOK
    <2>2. host \in Password /\ host \in Conn /\ <<"fromClient", id[c]>> \in Message
        BY <1>3, ConnAssumption, Messages DEF HInv, IInv, TypeOK
    <2>3. o \in Sound(Read(c), id, Announced) /\ o.do = "send"
        BY <2>1, <2>2 DEF Sound, Send, Operation
    <2>4. /\ <<o, Do("read", c)>> \in Seq(Sound(Read(c), id, Announced))
          /\ ReportsFirst(<<o, Do("read", c)>>, id, Reported)
        BY <1>1, <2>3, ReadsOnReports
    <2> QED  BY <1>1, <1>3, <2>4, CalmStep DEF At, clientVars, gameVars
<1> QED  BY <1>2, <1>3 DEF ToHost

LEMMA ClientRTTReports ==
    ASSUME IInv, HInv, NEW c \in Conn, ClientRTT(c) PROVE HInv'
<1> DEFINE o == Send(c, <<"data", 0>>)
<1>1. /\ At(Read(c), "read") /\ Then(Read(c), <<o, Do("read", c)>>)
      /\ Read(c) \in Goroutine /\ UNCHANGED <<clientVars, gameVars>>
    BY Goroutines DEF ClientRTT
<1>2. o \in Plain /\ o.do = "send"
    BY PlainOperations DEF Send
<1>3. o \in Sound(Read(c), id, Announced)
    BY <1>2 DEF Plain, Sound
<1>4. /\ <<o, Do("read", c)>> \in Seq(Sound(Read(c), id, Announced))
      /\ ReportsFirst(<<o, Do("read", c)>>, id, Reported)
    BY <1>1, <1>2, <1>3, ReadsOnReports
<1> QED  BY <1>1, <1>4, CalmStep DEF At, clientVars, gameVars

LEMMA HostLeavesReports ==
    ASSUME IInv, HInv, NEW c \in Conn, HostLeaves(c) PROVE HInv'
<1>1. /\ At(Read(c), "readHost") /\ Then(Read(c), DisconnectClient(host))
      /\ Read(c) \in Goroutine /\ UNCHANGED <<clientVars, gameVars>>
    BY Goroutines DEF HostLeaves
<1>2. /\ DisconnectClient(host) \in Seq(Sound(Read(c), id, Announced))
      /\ ReportsFirst(DisconnectClient(host), id, Reported)
    BY DisconnectClientReports DEF IInv, TypeOK
<1> QED  BY <1>1, <1>2, CalmStep DEF At, clientVars, gameVars

LEMMA HostReadsOnReports ==
    ASSUME IInv, HInv, NEW c \in Conn, ToClients(c) \/ HostPong(c) \/ HostRTT(c) PROVE HInv'
<1>1. /\ At(Read(c), "readHost") /\ Read(c) \in Goroutine
      /\ UNCHANGED <<conn, id, writer, wrote, gameVars>>
    BY Goroutines DEF ToClients, HostPong, HostRTT, clientVars
<1>2. \A d \in Conn : <<Send(d, <<"data", 0>>), Do("loop", Nil)>> \in Seq(Plain)
    <2>1. \A d \in Conn : Send(d, <<"data", 0>>) \in Plain
        BY PlainOperations
    <2>2. Do("loop", Nil) \in Plain
        BY PlainOperations
    <2> QED  BY <2>1, <2>2, ShortSeq
<1>3. <<Do("loop", Nil)>> \in Seq(Plain)
    BY PlainOperations
<1>4. PICK ops \in Seq(Plain) : Then(Read(c), ops)
    <2>1. CASE ToClients(c)
        <3>1. PICK d \in ToSet(clients) : Then(Read(c), <<Send(d, <<"data", 0>>), Do("loop", Nil)>>)
            BY <2>1 DEF ToClients
        <3>2. d \in Conn
            BY IdsInUse
        <3> QED  BY <1>2, <3>1, <3>2
    <2>2. CASE HostPong(c)
        BY <1>3, <2>2 DEF HostPong
    <2>3. CASE HostRTT(c)
        BY <1>2, <2>3, ConnAssumption DEF HostRTT
    <2> QED  BY <2>1, <2>2, <2>3
<1> QED  BY <1>1, <1>4, PlainStep DEF At, gameVars

-----------------------------------------------------------------------------
(* Steps of the writers, and newcomers.                                    *)

\* What has reached the host stays there, when writers take messages in turn.
LEMMA ReachedStays ==
    ASSUME NEW m, m[1] \in Control, NEW c \in Conn,
           \A h \in Conn : h # c => writer'[h] = writer[h] /\ wrote'[h] = wrote[h],
           wrote[c] \subseteq wrote'[c],
           \/ writer[c] = Ready
           \/ writer[c] # Gone /\ writer'[c] = Gone
           \/ writer[c] # Gone /\ (writer[c][1] \in Control => writer[c] \in wrote'[c]),
           Reached(m)
    PROVE  Reached(m)'
<1> SUFFICES ASSUME NEW h \in Password
             PROVE  writer'[h] = Gone \/ m \in wrote'[h] \cup {writer'[h]}
    BY DEF Reached
<1>1. h \in Conn /\ (writer[h] = Gone \/ m \in wrote[h] \cup {writer[h]})
    BY ConnAssumption DEF Reached
<1>2. CASE h # c
    BY <1>1, <1>2
<1>3. CASE h = c
    <2>1. m # Ready /\ Ready # Gone
        BY DEF Control, Ready, Gone
    <2> QED  BY <1>1, <1>3, <2>1
<1> QED  BY <1>2, <1>3

LEMMA WriteReports ==
    ASSUME IInv, HInv, NEW c \in Conn, Write(c) PROVE HInv'
<1>1. /\ writer[c] \notin {Ready, Gone} /\ writer[c] \in Message
      /\ UNCHANGED <<conn, id, host, clients, todo>>
    BY DEF Write, gameVars, IInv, TypeOK
<1>2. /\ \A h \in Conn : h # c => writer'[h] = writer[h] /\ wrote'[h] = wrote[h]
      /\ \/ conn[c] = "nil" /\ writer'[c] = Gone /\ wrote'[c] = wrote[c]
         \/ /\ conn[c] = "open" /\ writer'[c] = Ready
            /\ wrote'[c] = wrote[c] \cup {m \in {writer[c]} : m[1] \in Control}
    BY DEF Write, IInv, TypeOK
<1>3. \A m : m[1] \in Control /\ Reached(m) => Reached(m)'
    <2>1. wrote[c] \subseteq wrote'[c]
        BY <1>2
    <2>2. \/ writer'[c] = Gone
          \/ writer[c][1] \in Control => writer[c] \in wrote'[c]
        BY <1>2
    <2> QED  BY <1>1, <1>2, <2>1, <2>2, ReachedStays
<1>4. Announced \subseteq Announced' /\ Reported \subseteq Reported' /\ (HostCame => HostCame')
    BY <1>1, <1>3 DEF Announced, Reported, HostCame, Control
<1>5. ASSUME NEW g \in Goroutine PROVE StackOK(todo, id, Announced', Reported', g)
    <2>1. StackOK(todo, id, Announced, Reported, g)
        BY DEF HInv
    <2>2. PICK A, R : A = Announced' /\ R = Reported'
        OBVIOUS
    <2>3. StackOK(todo, id, A, R, g)
        BY ONLY <1>4, <2>1, <2>2, StackGrows, g \in Goroutine
    <2> QED  BY <2>2, <2>3
<1>6. ASSUME NEW d \in Conn PROVE GreetedOK(d)'
    <2>1. <<"welcome", 0>> \in wrote'[d] \cup {writer'[d]} =>
             <<"welcome", 0>> \in wrote[d] \cup {writer[d]}
        <3>1. <<"welcome", 0>> \notin {Ready, Gone}
            BY DEF Ready, Gone
        <3> QED  BY <1>2, <3>1
    <2> QED  BY <1>1, <1>4, <2>1 DEF HInv, GreetedOK
<1>7. ASSUME NEW d \in Conn, NEW i \in Id, writer'[d] = <<"fromClient", i>>
      PROVE  <<"connectClient", i>> \in wrote'[d]
    <2>1. <<"fromClient", i>> \notin {Ready, Gone}
        BY DEF Ready, Gone
    <2> QED  BY <1>2, <1>7, <2>1 DEF HInv
<1>8. \A d \in Conn : writer'[d] = Gone => conn'[d] = "nil"
    <2>1. Ready # Gone
        BY DEF Ready, Gone
    <2> QED  BY <1>1, <1>2, <2>1 DEF HInv
<1>9. \A d \in Conn : /\ Hello(todo', d) \/ conn'[d] = "none" => id'[d] = 0
                      /\ id'[d] # 0 => HostCame'
                      /\ id'[d] > ID_HOST /\ d \notin ToSet(clients') => id'[d] \in Reported'
    BY <1>1, <1>4 DEF HInv, Hello
<1>10. host' \in Password \cup {Nil} /\ \A g \in Goroutine : StackOK(todo, id, Announced, Reported, g)'
    BY <1>1, <1>5 DEF HInv
<1> QED  BY <1>6, <1>7, <1>8, <1>9, <1>10 DEF HInv

\* A message that is sent is plain, or comes from a client that has been announced,
\* or announces or greets a newcomer.
LEMMA MessageSent ==
    ASSUME IInv, HInv, NEW g \in Goroutine, At(g, "send")
    PROVE  LET o == Head(todo[g]) IN
           \/ o \in Sound(g, id, Announced)
           \/ /\ o.c \in Password /\ \E i \in Id : o.m = <<"connectClient", i>>
           \/ /\ o.m = <<"welcome", 0>> /\ id[o.c] # 0
              /\ o.c \in Password \/ id[o.c] \in Announced
<1>1. todo[g] # <<>> /\ Head(todo[g]).do = "send"
    BY DEF At
<1>2. CASE todo[g] \in Seq(Sound(g, id, Announced))
    BY <1>1, <1>2, HeadTailProperties
<1>3. ASSUME NEW c \in Conn, g = Deal(c), Hello(todo, c)
      PROVE  FALSE
    BY <1>1, <1>3 DEF Hello, Do
<1>4. ASSUME NEW c \in Conn, g = Deal(c), Introducing(todo, id, Announced, c)
      PROVE  LET o == Head(todo[g]) IN
             \/ /\ o.c \in Password /\ \E i \in Id : o.m = <<"connectClient", i>>
             \/ /\ o.m = <<"welcome", 0>> /\ id[o.c] # 0
                /\ o.c \in Password \/ id[o.c] \in Announced
    <2>1. id[c] \in Id
        BY IdsInUse
    <2>2. ASSUME NEW h \in Password,
                 todo[g] = <<Send(h, <<"connectClient", id[c]>>), Welcome(c)>>
          PROVE  Head(todo[g]).c \in Password /\ Head(todo[g]).m = <<"connectClient", id[c]>>
        <3>1. Head(todo[g]) = Send(h, <<"connectClient", id[c]>>)
            BY <2>2
        <3> QED  BY <3>1 DEF Send
    <2>3. ASSUME todo[g] = <<Welcome(c)>>
          PROVE  Head(todo[g]).c = c /\ Head(todo[g]).m = <<"welcome", 0>>
        <3>1. Head(todo[g]) = Send(c, <<"welcome", 0>>)
            BY <2>3 DEF Welcome
        <3> QED  BY <3>1 DEF Send
    <2> QED  BY <1>4, <2>1, <2>2, <2>3 DEF Introducing
<1>5. StackOK(todo, id, Announced, Reported, g)
    BY DEF HInv
<1> QED  BY <1>2, <1>3, <1>4, <1>5 DEF StackOK

LEMMA SendCommandReports ==
    ASSUME OneHost, IInv, HInv, NEW g \in Goroutine, SendCommand(g) PROVE HInv'
<1> DEFINE o == Head(todo[g])
<1>1. /\ At(g, "send") /\ Then(g, <<>>) /\ writer[o.c] = Ready
      /\ writer' = [writer EXCEPT ![o.c] = o.m]
      /\ UNCHANGED <<conn, id, wrote, host, clients>>
    BY DEF SendCommand, Arg, gameVars
<1>2. /\ todo[g] # <<>> /\ o \in Operation /\ o.do = "send" /\ o.c \in Conn /\ o.m \in Message
    BY <1>1, AtOperation, OperationArguments
<1>3. /\ todo[g] \in Seq(Operation)
      /\ todo'[g] = <<>> \o Tail(todo[g])
      /\ \A k \in Goroutine : k # g => todo'[k] = todo[k]
    BY <1>1, <1>2, StackAfter
<1>4. todo'[g] = Tail(todo[g])
    <2>1. Tail(todo[g]) \in Seq(Operation)
        BY <1>2, <1>3, HeadTailProperties
    <2> QED  BY <1>3, <2>1, ConcatEmptySeq
<1>5. \/ o \in Sound(g, id, Announced)
      \/ o.c \in Password /\ \E i \in Id : o.m = <<"connectClient", i>>
      \/ /\ o.m = <<"welcome", 0>> /\ id[o.c] # 0
         /\ o.c \in Password \/ id[o.c] \in Announced
    BY <1>1, MessageSent
<1>6. PICK c \in Conn, m \in Message : c = o.c /\ m = o.m
    BY <1>2
<1>7. /\ writer[c] = Ready /\ writer'[c] = m /\ wrote' = wrote
      /\ \A d \in Conn : d # c => writer'[d] = writer[d]
    BY <1>1, <1>6 DEF IInv, TypeOK
<1>8. \A n : n[1] \in Control /\ Reached(n) => Reached(n)'
    BY <1>7, ReachedStays
<1>9. ASSUME c \in Password PROVE Reached(m)'
    BY <1>7, <1>9 DEF OneHost, Reached
<1>10. \A d \in Conn : Hello(todo', d) => Hello(todo, d)
    <2>1. \/ todo'[g] \in Seq(Sound(g, id, Announced))
          \/ \E h \in Conn : \E n : todo'[g] = <<Send(h, n)>>
        <3>1. CASE todo[g] \in Seq(Sound(g, id, Announced))
            BY <1>2, <1>4, <3>1, HeadTailProperties
        <3>2. ASSUME NEW e \in Conn, Hello(todo, e), g = Deal(e) PROVE FALSE
            BY <1>2, <3>2 DEF Hello, Do
        <3>3. ASSUME NEW e \in Conn, Introducing(todo, id, Announced, e), g = Deal(e)
              PROVE  \/ todo'[g] \in Seq(Sound(g, id, Announced))
                     \/ \E h \in Conn : \E n : todo'[g] = <<Send(h, n)>>
            <4>1. ASSUME NEW x, NEW y, todo[g] = <<x, y>> PROVE todo'[g] = <<y>>
                BY <1>4, <4>1
            <4>2. ASSUME NEW x, todo[g] = <<x>> PROVE todo'[g] = <<>>
                <5>1. Tail(<<x>>) = <<>>
                    OBVIOUS
                <5> QED  BY <1>4, <4>2, <5>1
            <4>3. \/ \E h \in Password :
                         todo[g] = <<Send(h, <<"connectClient", id[e]>>), Send(e, <<"welcome", 0>>)>>
                  \/ todo[g] = <<Send(e, <<"welcome", 0>>)>>
                BY <3>3 DEF Introducing, Welcome
            <4>4. <<>> \in Seq(Sound(g, id, Announced))
                OBVIOUS
            <4> QED  BY <4>1, <4>2, <4>3, <4>4
        <3>4. StackOK(todo, id, Announced, Reported, g)
            BY DEF HInv
        <3> QED  BY <3>1, <3>2, <3>3, <3>4 DEF StackOK
    <2> QED  BY <1>3, <2>1, NoNewHello
<1>11. HostCame => HostCame'
    <2>1. Password \subseteq Conn
        BY ConnAssumption
    <2> QED  BY <1>1, <1>10, <2>1 DEF HostCame
<1>12. Announced \subseteq Announced' /\ Reported \subseteq Reported'
    BY <1>1, <1>8, <1>11 DEF Announced, Reported, Control
<1>13. PICK A, R, td : A = Announced' /\ R = Reported' /\ td = todo'
    OBVIOUS
<1>14. ASSUME NEW k \in Goroutine, k # g PROVE StackOK(td, id, A, R, k)
    <2>1. StackOK(todo, id, Announced, Reported, k) /\ td[k] = todo[k]
        BY <1>3, <1>13, <1>14 DEF HInv
    <2> QED  BY ONLY <1>12, <1>13, <2>1, StackGrows, k \in Goroutine
<1>15. StackOK(td, id, A, R, g)
    <2>1. StackOK(todo, id, Announced, Reported, g)
        BY DEF HInv
    <2>2. CASE todo[g] \in Seq(Sound(g, id, Announced)) /\ ReportsFirst(todo[g], id, Reported)
        <3>1. PICK s : s = todo[g]
            OBVIOUS
        <3>2. s \in Seq(Sound(g, id, A)) /\ ReportsFirst(s, id, R)
            <4>1. Sound(g, id, Announced) \subseteq Sound(g, id, A)
                BY <1>12, <1>13, SoundGrows
            <4>2. s \in Seq(Sound(g, id, A))
                BY <2>2, <3>1, <4>1, SeqOfLarger
            <4>3. ReportsFirst(s, id, R)
                BY <1>12, <1>13, <2>2, <3>1 DEF ReportsFirst
            <4> QED  BY <4>2, <4>3
        <3>3. ASSUME NEW i, Reports(Head(s), i) PROVE i \in R
            <4>1. c \in Password /\ m = <<"disconnectClient", i>>
                BY <1>6, <3>1, <3>3 DEF Reports
            <4>2. i \in Id
                BY <4>1 DEF Message
            <4> QED  BY <1>9, <1>13, <4>1, <4>2 DEF Reported
        <3>4. Tail(s) \in Seq(Sound(g, id, A)) /\ ReportsFirst(Tail(s), id, R)
            BY <1>2, <3>1, <3>2, <3>3, TailStack
        <3> QED  BY <1>4, <1>13, <3>1, <3>4 DEF StackOK
    <2>3. ASSUME NEW e \in Conn, Hello(todo, e), g = Deal(e) PROVE FALSE
        BY <1>2, <2>3 DEF Hello, Do
    <2>4. ASSUME NEW e \in Conn, Introducing(todo, id, Announced, e), g = Deal(e)
          PROVE  StackOK(td, id, A, R, g)
        <3>1. ASSUME NEW h \in Password,
                     todo[g] = <<Send(h, <<"connectClient", id[e]>>), Welcome(e)>>
              PROVE  StackOK(td, id, A, R, g)
            <4>1. o = Send(h, <<"connectClient", id[e]>>) /\ td[g] = <<Welcome(e)>>
                BY <1>4, <1>13, <3>1
            <4>2. c \in Password /\ m = <<"connectClient", id[e]>> /\ id[e] \in Id
                BY <1>6, <4>1, IdsInUse DEF Send
            <4>3. id[e] \in A
                BY <1>9, <1>13, <4>2 DEF Announced
            <4> QED  BY <2>4, <4>1, <4>3 DEF StackOK, Introducing
        <3>2. CASE todo[g] = <<Welcome(e)>>
            <4>1. td[g] = <<>> /\ td[g] \in Seq(Plain)
                <5>1. PICK x : todo[g] = <<x>>
                    BY <3>2
                <5>2. Tail(<<x>>) = <<>> /\ <<>> \in Seq(Plain)
                    OBVIOUS
                <5> QED  BY <1>4, <1>13, <5>1, <5>2
            <4> QED  BY <4>1, PlainStack DEF StackOK
        <3> QED  BY <2>4, <3>1, <3>2 DEF Introducing
    <2> QED  BY <2>1, <2>2, <2>3, <2>4 DEF StackOK
<1>16. ASSUME NEW d \in Conn PROVE GreetedOK(d)'
    <2>1. CASE <<"welcome", 0>> \in wrote[d] \cup {writer[d]}
        BY <1>1, <1>12, <2>1 DEF HInv, GreetedOK
    <2>2. CASE <<"welcome", 0>> \notin wrote[d] \cup {writer[d]}
        <3>1. CASE <<"welcome", 0>> \in wrote'[d] \cup {writer'[d]}
            <4>1. d = c /\ m = <<"welcome", 0>>
                BY <1>7, <2>2, <3>1
            <4>2. o \notin Sound(g, id, Announced)
                BY <1>2, <1>6, <4>1 DEF Sound
            <4>3. id[d] # 0 /\ (d \in Password \/ id[d] \in Announced)
                BY <1>5, <1>6, <4>1, <4>2
            <4> QED  BY <1>1, <1>12, <4>3 DEF GreetedOK
        <3> QED  BY <3>1 DEF GreetedOK
    <2> QED  BY <2>1, <2>2
<1>17. ASSUME NEW d \in Conn, NEW i \in Id, writer'[d] = <<"fromClient", i>>
       PROVE  <<"connectClient", i>> \in wrote'[d]
    <2>1. CASE d # c
        BY <1>7, <1>17, <2>1 DEF HInv
    <2>2. CASE d = c
        <3>1. m = <<"fromClient", i>>
            BY <1>7, <1>17, <2>2
        <3>2. o \in Sound(g, id, Announced)
            BY <1>5, <1>6, <3>1
        <3>3. c \in Password /\ i \in Announced
            BY <1>2, <1>6, <3>1, <3>2 DEF Sound
        <3>4. <<"connectClient", i>> # Ready /\ Ready # Gone
            BY DEF Ready, Gone
        <3> QED  BY <1>7, <2>2, <3>3, <3>4 DEF Announced, Reached
    <2> QED  BY <2>1, <2>2
<1>18. \A d \in Conn : writer'[d] = Gone => conn'[d] = "nil"
    <2>1. m # Gone
        BY DEF Message, Gone
    <2> QED  BY <1>1, <1>7, <2>1 DEF HInv
<1>19. \A d \in Conn : /\ Hello(todo', d) \/ conn'[d] = "none" => id'[d] = 0
                       /\ id'[d] # 0 => HostCame'
                       /\ id'[d] > ID_HOST /\ d \notin ToSet(clients') => id'[d] \in Reported'
    BY <1>1, <1>10, <1>11, <1>12 DEF HInv
<1>20. /\ host' \in Password \cup {Nil}
       /\ \A k \in Goroutine : StackOK(todo, id, Announced, Reported, k)'
    BY <1>1, <1>13, <1>14, <1>15 DEF HInv
<1> QED  BY <1>16, <1>17, <1>18, <1>19, <1>20 DEF HInv

\* Steps in which the writers rest, and c comes or says HELLO: the stacks of the
\* others, and what the host has been told, stay.
LEMMA NewcomerStays ==
    ASSUME IInv, HInv, NEW c \in Conn, id[c] = 0,
           UNCHANGED <<writer, wrote>>, \A d \in Conn : d # c => id'[d] = id[d],
           HostCame /\ host = Nil => HostCame' /\ host' = Nil
    PROVE  /\ Announced' = Announced /\ Reported \subseteq Reported'
           /\ \A k \in Goroutine :
                 todo'[k] = todo[k] => StackOK(todo, id, Announced, Reported, k)'
<1>1. Announced' = Announced /\ Reported \subseteq Reported'
    BY DEF Announced, Reported, Reached
<1>2. \A d \in Conn : id[d] # 0 => id'[d] = id[d]
    OBVIOUS
<1>3. PICK td, x, A, R : td = todo' /\ x = id' /\ A = Announced' /\ R = Reported'
    OBVIOUS
<1>4. ASSUME NEW k \in Goroutine, todo'[k] = todo[k] PROVE StackOK(td, x, A, R, k)
    <2>1. StackOK(todo, id, Announced, Reported, k) /\ td[k] = todo[k]
        BY <1>3, <1>4 DEF HInv
    <2> QED  BY ONLY <1>1, <1>2, <1>3, <2>1, StackGrows, k \in Goroutine
<1> QED  BY <1>1, <1>3, <1>4

LEMMA AcceptReports ==
    ASSUME IInv, HInv, NEW c \in Conn, Accept(c) PROVE HInv'
<1>1. /\ conn[c] = "none" /\ id[c] = 0 /\ conn' = [conn EXCEPT ![c] = "open"]
      /\ todo' = [todo EXCEPT ![Deal(c)] = <<Do("hello", c)>>,
                              ![PingLoop(c)] = <<Do("ping", c)>>]
      /\ UNCHANGED <<id, writer, wrote, host, clients>>
    BY DEF Accept, gameVars, HInv
<1>2. /\ todo'[Deal(c)] = <<Do("hello", c)>> /\ todo'[PingLoop(c)] = <<Do("ping", c)>>
      /\ \A k \in Goroutine : k \notin {Deal(c), PingLoop(c)} => todo'[k] = todo[k]
    <2>1. todo \in [Goroutine -> Seq(Operation)]
        BY DEF IInv, TypeOK
    <2> QED  BY <1>1, <2>1, Goroutines
<1>3. \A d \in Conn : /\ d # c => conn'[d] = conn[d] /\ (Hello(todo', d) => Hello(todo, d))
                      /\ conn'[d] # "none" \/ d # c
    BY <1>1, <1>2, Goroutines DEF Hello, IInv, TypeOK
<1>4. HostCame => HostCame'
    <2> SUFFICES ASSUME HostCame, NEW h \in Password PROVE ~Hello(todo', h) /\ conn'[h] # "none"
        BY DEF HostCame
    <2>1. h # c /\ h \in Conn /\ ~Hello(todo, h) /\ conn[h] # "none"
        BY <1>1, ConnAssumption DEF HostCame
    <2> QED  BY <1>3, <2>1
<1>5. /\ Announced' = Announced /\ Reported \subseteq Reported'
      /\ \A k \in Goroutine \ {Deal(c), PingLoop(c)} : StackOK(todo, id, Announced, Reported, k)'
    BY <1>1, <1>2, <1>4, NewcomerStays
<1>6. StackOK(todo, id, Announced, Reported, Deal(c))'
    BY <1>2 DEF StackOK, Hello
<1>7. StackOK(todo, id, Announced, Reported, PingLoop(c))'
    <2>1. <<Do("ping", c)>> \in Seq(Plain)
        BY PlainOperations
    <2> QED  BY <1>2, <2>1, PlainStack DEF StackOK
<1>8. ASSUME NEW d \in Conn PROVE GreetedOK(d)'
    BY <1>1, <1>5 DEF HInv, GreetedOK
<1>9. \A d \in Conn :
          /\ Hello(todo', d) \/ conn'[d] = "none" => id'[d] = 0
          /\ id'[d] # 0 => HostCame'
          /\ writer'[d] = Gone => conn'[d] = "nil"
          /\ \A i \in Id : writer'[d] = <<"fromClient", i>> => <<"connectClient", i>> \in wrote'[d]
          /\ id'[d] > ID_HOST /\ d \notin ToSet(clients') => id'[d] \in Reported'
    <2>1. ASSUME NEW d \in Conn PROVE writer'[d] = Gone => conn'[d] = "nil"
        BY <1>1, <1>3 DEF HInv
    <2>2. \A d \in Conn : Hello(todo', d) \/ conn'[d] = "none" => id'[d] = 0
        BY <1>1, <1>3 DEF HInv
    <2> QED  BY <1>1, <1>4, <1>5, <2>1, <2>2 DEF HInv
<1>10. host' \in Password \cup {Nil}
    BY <1>1 DEF HInv
<1> QED  BY <1>5, <1>6, <1>7, <1>8, <1>9, <1>10 DEF HInv

LEMMA AddHostReports ==
    ASSUME OneHost, IInv, AInv, HInv, NEW c \in Conn, AddHost(c) PROVE HInv'
<1>1. /\ At(Deal(c), "hello") /\ c \in Password
      /\ host' = c /\ id' = [id EXCEPT ![c] = ID_HOST]
      /\ todo' = [todo EXCEPT ![Read(c)] = <<Do("loop", Nil)>>, ![Deal(c)] = <<Welcome(c)>>]
      /\ UNCHANGED <<conn, writer, wrote, clients>>
    BY DEF AddHost, HasGame, Welcome
<1>2. Hello(todo, c) /\ conn[c] # "none" /\ id[c] = 0
    BY <1>1, AtHello DEF HInv
<1>3. /\ todo'[Deal(c)] = <<Welcome(c)>> /\ todo'[Read(c)] = <<Do("loop", Nil)>>
      /\ \A k \in Goroutine : k \notin {Deal(c), Read(c)} => todo'[k] = todo[k]
    <2>1. todo \in [Goroutine -> Seq(Operation)]
        BY DEF IInv, TypeOK
    <2> QED  BY <1>1, <2>1, Goroutines
<1>4. id'[c] = ID_HOST /\ \A d \in Conn : d # c => id'[d] = id[d]
    BY <1>1 DEF IInv, TypeOK
<1>5. ~HostCame
    BY <1>1, <1>2 DEF HostCame
<1>6. ~Hello(todo', c)
    BY <1>3 DEF Hello, Welcome, Do, Send
<1>7. HostCame'
    BY <1>1, <1>2, <1>6 DEF HostCame, OneHost
<1>8. /\ Announced' = Announced /\ Reported \subseteq Reported'
      /\ \A k \in Goroutine \ {Deal(c), Read(c)} : StackOK(todo, id, Announced, Reported, k)'
    BY <1>1, <1>2, <1>3, <1>4, <1>5, NewcomerStays
<1>9. StackOK(todo, id, Announced, Reported, Deal(c))'
    <2>1. id'[c] # 0
        BY <1>4 DEF ID_HOST
    <2>2. Introducing(todo', id', Announced', c)
        BY <1>1, <1>3, <2>1 DEF Introducing
    <2> QED  BY <2>2 DEF StackOK
<1>10. StackOK(todo, id, Announced, Reported, Read(c))'
    <2>1. <<Do("loop", Nil)>> \in Seq(Plain)
        BY PlainOperations
    <2> QED  BY <1>3, <2>1, PlainStack DEF StackOK
<1>11. ASSUME NEW d \in Conn PROVE GreetedOK(d)'
    BY <1>1, <1>2, <1>4, <1>8, <1>11 DEF HInv, GreetedOK
<1>12. \A d \in Conn : Hello(todo', d) => Hello(todo, d) /\ d # c
    BY <1>3, <1>6, Goroutines DEF Hello
<1>13. \A d \in Conn :
          /\ Hello(todo', d) \/ conn'[d] = "none" => id'[d] = 0
          /\ writer'[d] = Gone => conn'[d] = "nil"
          /\ \A i \in Id : writer'[d] = <<"fromClient", i>> => <<"connectClient", i>> \in wrote'[d]
    BY <1>1, <1>2, <1>4, <1>12 DEF HInv
<1>14. ASSUME NEW d \in Conn, id'[d] > ID_HOST, d \notin ToSet(clients')
       PROVE  id'[d] \in Reported'
    <2>1. d # c
        BY <1>4, <1>14 DEF ID_HOST
    <2> QED  BY <1>1, <1>4, <1>8, <1>14, <2>1 DEF HInv
<1>15. host' \in Password \cup {Nil}
    BY <1>1
<1> QED  BY <1>7, <1>8, <1>9, <1>10, <1>11, <1>13, <1>14, <1>15 DEF HInv

LEMMA AddClientReports ==
    ASSUME OneHost, IInv, AInv, HInv, NEW c \in Conn, AddClient(c) PROVE HInv'
<1>1. /\ At(Deal(c), "hello") /\ host # Nil
      /\ id' = [id EXCEPT ![c] = nextClientId] /\ clients' = Append(clients, c)
      /\ todo' = [todo EXCEPT ![Read(c)] = <<Do("read", c)>>,
                              ![Deal(c)] = <<Send(host, <<"connectClient", nextClientId>>),
                                             Welcome(c)>>]
      /\ UNCHANGED <<conn, writer, wrote, host>>
    BY DEF AddClient, Join, HasGame, Announcement
<1>2. Hello(todo, c) /\ conn[c] # "none" /\ id[c] = 0
    BY <1>1, AtHello DEF HInv
<1>3. /\ todo'[Read(c)] = <<Do("read", c)>>
      /\ todo'[Deal(c)] = <<Send(host, <<"connectClient", nextClientId>>), Welcome(c)>>
      /\ \A k \in Goroutine : k \notin {Deal(c), Read(c)} => todo'[k] = todo[k]
    <2>1. todo \in [Goroutine -> Seq(Operation)]
        BY DEF IInv, TypeOK
    <2> QED  BY <1>1, <2>1, Goroutines
<1>4. /\ id'[c] = nextClientId /\ id'[c] # 0
      /\ \A d \in Conn : d # c => id'[d] = id[d]
    <2>1. nextClientId \in (ID_HOST + 1)..IdLimit
        BY DEF IInv, IdsOK
    <2> QED  BY <1>1, <2>1, IdAssumption DEF IInv, TypeOK, ID_HOST
<1>5. host \in Password /\ host \in Conn /\ c \notin Password
    BY <1>1, <1>2, ConnAssumption DEF HInv, AInv, HostOK, OneHost
<1>6. \A d \in Conn : Hello(todo', d) => Hello(todo, d) /\ d # c
    <2>1. ~Hello(todo', c)
        <3>1. Head(todo'[Deal(c)]).do = "send"
            <4>1. Head(todo'[Deal(c)]) = Send(host, <<"connectClient", nextClientId>>)
                BY <1>3
            <4> QED  BY <4>1 DEF Send
        <3> QED  BY <3>1 DEF Hello, Do
    <2> QED  BY <1>3, <2>1, Goroutines DEF Hello
<1>7. HostCame'
    <2>1. ~Hello(todo, host) /\ conn[host] # "none"
        BY <1>5 DEF AInv, HostOK
    <2> QED  BY <1>1, <1>5, <1>6, <2>1 DEF HostCame, OneHost
<1>8. /\ Announced' = Announced /\ Reported \subseteq Reported'
      /\ \A k \in Goroutine \ {Deal(c), Read(c)} : StackOK(todo, id, Announced, Reported, k)'
    BY <1>1, <1>2, <1>3, <1>4, NewcomerStays
<1>9. StackOK(todo, id, Announced, Reported, Deal(c))'
    <2>1. Introducing(todo', id', Announced', c)
        BY <1>3, <1>4, <1>5 DEF Introducing
    <2> QED  BY <2>1 DEF StackOK
<1>10. StackOK(todo, id, Announced, Reported, Read(c))'
    <2>1. PICK x, A, R, g : x = id' /\ A = Announced' /\ R = Reported' /\ g = Read(c)
        OBVIOUS
    <2>2. Do("read", c) \in Sound(g, x, A)
        BY <1>5, <2>1 DEF Sound, Do, Operation
    <2>3. PICK s : s = <<Do("read", c)>>
        OBVIOUS
    <2>4. s \in Seq(Sound(g, x, A)) /\ Len(s) = 1 /\ s[1].do = "read"
        BY <2>2, <2>3 DEF Do
    <2>5. \A p \in 1..Len(s) : s[p].do # "unlist"
        BY <2>4
    <2>6. ReportsFirst(s, x, R)
        BY <2>5 DEF ReportsFirst
    <2> QED  BY <1>3, <2>1, <2>3, <2>4, <2>6 DEF StackOK
<1>11. ASSUME NEW d \in Conn PROVE GreetedOK(d)'
    BY <1>1, <1>2, <1>4, <1>8, <1>11 DEF HInv, GreetedOK
<1>12. \A d \in Conn :
          /\ Hello(todo', d) \/ conn'[d] = "none" => id'[d] = 0
          /\ writer'[d] = Gone => conn'[d] = "nil"
          /\ \A i \in Id : writer'[d] = <<"fromClient", i>> => <<"connectClient", i>> \in wrote'[d]
    BY <1>1, <1>2, <1>4, <1>6 DEF HInv
<1>13. ASSUME NEW d \in Conn, id'[d] > ID_HOST, d \notin ToSet(clients')
       PROVE  id'[d] \in Reported'
    <2>1. c \in ToSet(clients') /\ ToSet(clients) \subseteq ToSet(clients')
        <3>1. /\ clients \in Seq(Conn) /\ clients' \in Seq(Conn)
              /\ Len(clients') = Len(clients) + 1 /\ clients'[Len(clients) + 1] = c
              /\ \A i \in 1..Len(clients) : clients'[i] = clients[i]
            BY <1>1, AppendProperties DEF IInv, TypeOK
        <3>2. /\ Len(clients) \in Nat /\ DOMAIN clients = 1..Len(clients)
              /\ DOMAIN clients' = 1..(Len(clients) + 1)
            BY <3>1, LenProperties
        <3>3. Len(clients) + 1 \in 1..(Len(clients) + 1)
              /\ 1..Len(clients) \subseteq 1..(Len(clients) + 1)
            BY <3>2
        <3> QED  BY <3>1, <3>2, <3>3 DEF ToSet
    <2> QED  BY <1>1, <1>4, <1>8, <1>13, <2>1 DEF HInv
<1>14. host' \in Password \cup {Nil}
    BY <1>1, <1>5
<1> QED  BY <1>7, <1>8, <1>9, <1>10, <1>11, <1>12, <1>13, <1>14 DEF HInv

-----------------------------------------------------------------------------

LEMMA RestReports ==
    ASSUME HInv, (\E c \in Conn : ClientPong(c) \/ HostCommandWithoutHost(c)) \/ UNCHANGED vars
    PROVE  HInv'
<1>1. UNCHANGED <<conn, id, writer, wrote, host, clients, todo>>
    BY DEF ClientPong, HostCommandWithoutHost, vars, clientVars, gameVars
<1> QED  BY <1>1 DEF HInv, GreetedOK, Announced, Reported, Reached, HostCame

LEMMA NextHInv == OneHost /\ IInv /\ AInv /\ HInv /\ [Next]_vars => HInv'
<1> SUFFICES ASSUME OneHost, IInv, AInv, HInv, [Next]_vars PROVE HInv'
    OBVIOUS
<1>1. ASSUME NEW g \in Goroutine, Internal(g) PROVE HInv'
    BY <1>1, SendCommandReports, CloseReports, DisconnectMemberReports, UnlistReports,
       HostGoneReports, DrainReports, DropHostReports, RemoveGameObjectReports,
       RemoveFromGamesReports, HostLoopReports DEF Internal
<1>2. ASSUME NEW c \in Conn,
             \/ Write(c) \/ Accept(c) \/ Refuse(c) \/ AddHost(c) \/ AddClient(c)
      PROVE  HInv'
    BY <1>2, WriteReports, AcceptReports, ServerReports, AddHostReports, AddClientReports
<1>3. ASSUME NEW c \in Conn,
             \/ Ping(c) \/ ClientLeaves(c) \/ ToHost(c) \/ ClientPong(c) \/ ClientRTT(c)
      PROVE  HInv'
    BY <1>3, PingReports, ClientLeavesReports, ToHostReports, RestReports, ClientRTTReports
<1>4. ASSUME NEW c \in Conn,
             \/ HostLeaves(c) \/ HostCommandWithoutHost(c) \/ ToClients(c) \/ HostPong(c)
             \/ HostRTT(c)
      PROVE  HInv'
    BY <1>4, HostLeavesReports, RestReports, HostReadsOnReports
<1>5. ASSUME (\E r \in Caller : RemoveGame(r)) \/ RemoveGameIfNoHostIsConnected PROVE HInv'
    BY <1>5, ServerReports
<1>6. ASSUME UNCHANGED vars PROVE HInv'
    BY <1>6, RestReports
<1> QED  BY <1>1, <1>2, <1>3, <1>4, <1>5, <1>6 DEF Next

LEMMA InitHInv == Init => HInv
<1> SUFFICES ASSUME Init PROVE HInv
    OBVIOUS
<1>1. \A c \in Conn : id[c] = 0 /\ writer[c] = Ready /\ wrote[c] = {}
    BY DEF Init
<1>2. Ready # Gone /\ Ready # <<"welcome", 0>> /\ \A i \in Id : Ready # <<"fromClient", i>>
    BY DEF Ready, Gone
<1>3. \A c \in Conn : GreetedOK(c)
    BY <1>1, <1>2 DEF GreetedOK
<1>4. ASSUME NEW g \in Goroutine PROVE StackOK(todo, id, Announced, Reported, g)
    <2>1. todo[g] \in {<<>>, <<Do("timer", Nil)>>, <<Do("call", Nil)>>}
        BY DEF Init
    <2>2. /\ <<>> \in Seq(Plain) /\ <<Do("timer", Nil)>> \in Seq(Plain)
          /\ <<Do("call", Nil)>> \in Seq(Plain)
        BY PlainOperations
    <2>3. todo[g] \in Seq(Plain)
        BY <2>1, <2>2
    <2> QED  BY <2>3, PlainStack DEF StackOK
<1>5. host = Nil /\ 0 > ID_HOST <=> FALSE
    BY DEF Init, ID_HOST
<1> QED  BY <1>1, <1>2, <1>3, <1>4, <1>5 DEF Init, HInv

LEMMA HostInvariant ==
    ASSUME OneHost PROVE Spec => []HInv
<1>1. IInv /\ AInv /\ HInv /\ [Next]_vars => HInv'
    BY NextHInv
<1> QED  BY <1>1, InitHInv, InitAInv, NextAInv, Invariant, PTL DEF Spec

\* As long as only one peer knows the password: the host has been told of whoever
\* sends to it, although a client's reader runs before the host is told.
THEOREM HostKnowsSenders ==
    ASSUME OneHost PROVE Spec => []HostKnowsSender
<1>1. HInv => HostKnowsSender
    BY DEF HInv, HostKnowsSender
<1> QED  BY <1>1, HostInvariant, PTL

\* As long as only one peer knows the password: whichever goroutines take a client
\* off the list, and however they interleave, the host has heard of it by then.
THEOREM HostHearsOfAllLeavers ==
    ASSUME OneHost PROVE Spec => []HostHearsOfLeavers
<1>1. HInv => HostHearsOfLeavers
    <2> SUFFICES ASSUME HInv, NEW c \in Conn, host # Nil, conn[host] = "open",
                        id[c] > ID_HOST, c \notin ToSet(clients)
                 PROVE  <<"disconnectClient", id[c]>> \in wrote[host] \cup {writer[host]}
        BY DEF HostHearsOfLeavers
    <2>1. host \in Password /\ host \in Conn
        BY ConnAssumption DEF HInv
    <2>2. id[c] \in Reported /\ writer[host] # Gone
        BY <2>1 DEF HInv
    <2> QED  BY <2>1, <2>2 DEF Reported, Reached
<1> QED  BY <1>1, HostInvariant, PTL
==============================================================================
