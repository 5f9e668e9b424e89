---------------------------------- MODULE Rpc ----------------------------------
(***************************************************************************)
(* The calls between metaserver and relay: wlnr/relayinterface.            *)
(*                                                                         *)
(* Each program keeps one connection to the other, in a field that all its *)
(* goroutines share without a lock (ClientRPC.relay in the metaserver,     *)
(* ServerRPC.client in the relay).  A goroutine that finds the connection  *)
(* shut down dials again, replaces the field and tries once more.  The two *)
(* programs differ in two things only, so one module stands for either     *)
(* direction: the metaserver is born connected, and the relay's methods    *)
(* may refuse a call.                                                      *)
(*                                                                         *)
(* Below is net/rpc, modelled from how it is used here: it says            *)
(* ErrShutdown, which is the one error that is retried, of a connection    *)
(* known to be closed, and before anything is sent; a call that waits when *)
(* the connection is lost gets another error; and every request that has   *)
(* arrived is served by a goroutine of its own, whatever becomes of the    *)
(* connection.                                                             *)
(***************************************************************************)
EXTENDS Integers, Sequences, FiniteSets

CONSTANTS
    Caller,     \* goroutines that call, each once
    Link,       \* connections that may be dialled: bounds the reconnects
    Nil         \* Go's nil

ASSUME LinkAssumption == Nil \notin Link

MaxTries == 2

VARIABLES
    role,       \* whose field it is: "wlms" or "wlnr"
    client,     \* the field: the connection in use, or Nil
    link,       \* link[k]: "new", "up" or "down"
    pc,         \* pc[c]: where caller c is
    try,        \* try[c]: how often it has found the connection shut down
    uses,       \* uses[c]: the connection c waits for, or has dialled
    sent,       \* requests on their way: <<c, k>> by c on connection k
    answers,    \* answers on their way back: <<c, k, says>>
    executed,   \* executed[c]: the answers given to c's call, one per execution
    outcome     \* outcome[c]: how the call ended for c, or "none"

callerVars == <<pc, try, uses, outcome>>
netVars == <<link, sent, answers, executed>>
vars == <<role, client, callerVars, netVars>>

Outcome == {"none", "success", "refused", "lost", "unreachable", "gaveUp"}

\* NewClientRPC has connected; NewServerRPC leaves that to the first call.
Init ==
    /\ role \in {"wlms", "wlnr"}
    /\ \/ /\ role = "wlnr"
          /\ client = Nil
          /\ link = [k \in Link |-> "new"]
       \/ /\ role = "wlms"
          /\ client \in Link
          /\ link = [k \in Link |-> IF k = client THEN "up" ELSE "new"]
    /\ pc = [c \in Caller |-> "start"]
    /\ try = [c \in Caller |-> 0]
    /\ uses = [c \in Caller |-> Nil]
    /\ sent = {} /\ answers = {}
    /\ executed = [c \in Caller |-> <<>>]
    /\ outcome = [c \in Caller |-> "none"]

-----------------------------------------------------------------------------
(* The caller                                                              *)

Return(c, how) ==
    /\ pc' = [pc EXCEPT ![c] = "done"]
    /\ outcome' = [outcome EXCEPT ![c] = how]

GoTo(c, where) ==
    /\ pc' = [pc EXCEPT ![c] = where]
    /\ UNCHANGED outcome

\* callClientMethod dials when there never was a connection.  Mutant: it relies
\* on the constructor to have done so.
StartConnected(c) ==
    /\ pc[c] = "start"
    /\ GoTo(c, "call")
    /\ UNCHANGED <<role, client, try, uses, netVars>>

Start(c) ==
    /\ pc[c] = "start"
    /\ GoTo(c, IF client = Nil THEN "connect" ELSE "call")
    /\ UNCHANGED <<role, client, try, uses, netVars>>

\* rpc.Client.Call on the connection that is in the field by now.
Call(c) ==
    /\ pc[c] = "call"
    /\ \/ /\ link[client] = "down"      \* ErrShutdown
          /\ GoTo(c, "reconnect")
          /\ try' = [try EXCEPT ![c] = @ + 1]
          /\ UNCHANGED <<uses, sent>>
       \/ /\ link[client] = "up"
          /\ GoTo(c, "wait")
          /\ uses' = [uses EXCEPT ![c] = client]
          /\ sent' = sent \cup {<<c, client>>}
          /\ UNCHANGED try
    /\ UNCHANGED <<role, client, link, answers, executed>>

\* The first half of connect.  Mutant: a failure is not the end of the call.
DialOnAndOn(c) ==
    /\ pc[c] \in {"connect", "reconnect"}
    /\ \E k \in Link :
          /\ link[k] = "new"
          /\ link' = [link EXCEPT ![k] = "up"]
          /\ uses' = [uses EXCEPT ![c] = k]
          /\ GoTo(c, IF pc[c] = "connect" THEN "connected" ELSE "reconnected")
    /\ UNCHANGED <<role, client, try, sent, answers, executed>>

Dial(c) ==
    /\ pc[c] \in {"connect", "reconnect"}
    /\ \/ Return(c, "unreachable") /\ UNCHANGED <<link, uses>>
       \/ \E k \in Link :
             /\ link[k] = "new"
             /\ link' = [link EXCEPT ![k] = "up"]
             /\ uses' = [uses EXCEPT ![c] = k]
             /\ GoTo(c, IF pc[c] = "connect" THEN "connected" ELSE "reconnected")
    /\ UNCHANGED <<role, client, try, sent, answers, executed>>

\* The second half of connect: the field gets the new connection, though another
\* goroutine may have replaced the old one in the meantime; then the loop goes on
\* or is over.  Mutant: the loop counts the reconnect as an attempt.
AssignAsAttempt(c) ==
    /\ pc[c] \in {"connected", "reconnected"}
    /\ client' = uses[c]
    /\ \/ try[c] + 1 < MaxTries /\ GoTo(c, "call")
       \/ try[c] + 1 >= MaxTries /\ Return(c, "gaveUp")
    /\ UNCHANGED <<role, try, uses, netVars>>

Assign(c) ==
    /\ pc[c] \in {"connected", "reconnected"}
    /\ client' = uses[c]
    /\ \/ try[c] < MaxTries /\ GoTo(c, "call")
       \/ try[c] = MaxTries /\ Return(c, "gaveUp")
    /\ UNCHANGED <<role, try, uses, netVars>>

\* The callee answers: err is nil, or what it says.
Answered(c) ==
    /\ pc[c] = "wait" /\ link[uses[c]] = "up"
    /\ \E says \in BOOLEAN :
          /\ <<c, uses[c], says>> \in answers
          /\ Return(c, IF says THEN "success" ELSE "refused")
    /\ UNCHANGED <<role, client, try, uses, netVars>>

\* The connection is lost while the call waits: io.ErrUnexpectedEOF.  Mutant:
\* this is retried like ErrShutdown.
LostRetried(c) ==
    /\ pc[c] = "wait" /\ link[uses[c]] = "down"
    /\ GoTo(c, "reconnect")
    /\ try' = [try EXCEPT ![c] = @ + 1]
    /\ UNCHANGED <<role, client, uses, netVars>>

Lost(c) ==
    /\ pc[c] = "wait" /\ link[uses[c]] = "down"
    /\ Return(c, "lost")
    /\ UNCHANGED <<role, client, try, uses, netVars>>

-----------------------------------------------------------------------------
(* The connection and the callee                                           *)

\* NewGame and RemoveGame of the relay return an error when the callback says
\* false; GameConnected and GameClosed of the metaserver never do.
ServerRPCMethods == BOOLEAN
ClientRPCMethods == {TRUE}

\* A goroutine of jsonrpc.ServeConn runs the method.
Execute(c, k) ==
    /\ <<c, k>> \in sent
    /\ sent' = sent \ {<<c, k>>}
    /\ \E says \in IF role = "wlms" THEN ServerRPCMethods ELSE ClientRPCMethods :
          /\ executed' = [executed EXCEPT ![c] = Append(@, says)]
          /\ answers' = answers \cup {<<c, k, says>>}
    /\ UNCHANGED <<role, client, callerVars, link>>

\* The connection is lost, and the client's reader has noticed.
Break(k) ==
    /\ link[k] = "up"
    /\ link' = [link EXCEPT ![k] = "down"]
    /\ UNCHANGED <<role, client, callerVars, sent, answers, executed>>

\* What had been sent on it may still arrive, or not.
LoseRequest(c, k) ==
    /\ <<c, k>> \in sent /\ link[k] = "down"
    /\ sent' = sent \ {<<c, k>>}
    /\ UNCHANGED <<role, client, callerVars, link, answers, executed>>

Goes(c) ==
    \/ Start(c) \/ Call(c) \/ Dial(c) \/ Assign(c) \/ Answered(c) \/ Lost(c)

Next ==
    \/ \E c \in Caller : Goes(c)
    \/ \E c \in Caller, k \in Link : Execute(c, k) \/ LoseRequest(c, k)
    \/ \E k \in Link : Break(k)

Spec == Init /\ [][Next]_vars

\* Goroutines go on, a dial ends within ten seconds, and the callee serves what
\* arrives (that holds for CreateGame, GameConnected and GameClosed, which wait
\* for nobody).  A connection may last for ever.
Fairness ==
    \A c \in Caller :
        /\ WF_vars(Goes(c))
        /\ \A k \in Link : WF_vars(Execute(c, k))

FairSpec == Spec /\ Fairness

-----------------------------------------------------------------------------
(* Properties                                                              *)

\* The fields and the requests hold what the code can put into them; a caller
\* that is about to call finds a connection in the field.
TypeOK ==
    /\ role \in {"wlms", "wlnr"}
    /\ client \in Link \cup {Nil}
    /\ link \in [Link -> {"new", "up", "down"}]
    /\ pc \in [Caller -> {"start", "connect", "reconnect", "connected", "reconnected",
                          "call", "wait", "done"}]
    /\ try \in [Caller -> 0..MaxTries]
    /\ uses \in [Caller -> Link \cup {Nil}]
    /\ sent \subseteq Caller \X Link
    /\ answers \subseteq Caller \X Link \X BOOLEAN
    /\ executed \in [Caller -> Seq(BOOLEAN)]
    /\ outcome \in [Caller -> Outcome]
    /\ \A c \in Caller : pc[c] = "call" => client # Nil /\ link[client] # "new"

\* However connections are lost, replaced and retried, a call is executed at most
\* once, and reported as successful only if it was executed and accepted.
Remote == INSTANCE RemoteCall WITH
    result <- [c \in Caller |-> CASE outcome[c] = "none"    -> "none"
                                  [] outcome[c] = "success" -> "success"
                                  [] OTHER                  -> "failure"]
IsRemoteCall == Remote!Spec

\* The second attempt is worth making: a caller that can dial does not give up
\* unsent because of a single lost connection, although others replace the
\* field at the same time.
OneLossIsSurvived ==
    Cardinality({k \in Link : link[k] = "down"}) <= 1
        => \A c \in Caller : outcome[c] # "gaveUp"

\* Nobody who calls waits for ever: the player who opens a game gets an answer.
CallsReturn == \A c \in Caller : pc[c] = "call" ~> pc[c] = "done"
================================================================================
