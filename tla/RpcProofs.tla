------------------------------- MODULE RpcProofs -------------------------------
(***************************************************************************)
(* Theorems about the calls between metaserver and relay, for any number   *)
(* of goroutines and of connections: types, that every call is the call of *)
(* RemoteCall, and that nobody gives up because of a single loss.          *)
(***************************************************************************)
EXTENDS Rpc, FiniteSetTheorems, TLAPS

\* Where a caller has not sent anything yet.
Unsent == {"start", "connect", "reconnect", "connected", "reconnected", "call"}

\* A call leaves one trace at a time: its request, or its execution and the answer
\* to it.  The connection of a caller that waits exists.
CallOK(c) ==
    /\ pc[c] \in Unsent => /\ executed[c] = <<>>
                           /\ \A k \in Link : <<c, k>> \notin sent
    /\ \A k \in Link : <<c, k>> \in sent =>
          /\ executed[c] = <<>>
          /\ \A j \in Link : <<c, j>> \in sent => j = k
    /\ \A k \in Link, says \in BOOLEAN :
          <<c, k, says>> \in answers => executed[c] = <<says>>
    /\ outcome[c] = "none" <=> pc[c] # "done"
    /\ pc[c] \in {"connected", "reconnected"} => uses[c] \in Link /\ link[uses[c]] # "new"
    /\ pc[c] = "wait" => uses[c] \in Link
    /\ pc[c] = "start" => try[c] = 0
    /\ pc[c] = "call" => try[c] < MaxTries

IInv ==
    /\ TypeOK
    /\ client # Nil => link[client] # "new"
    /\ \A c \in Caller : CallOK(c)

LEMMA InitIInv == Init => IInv
BY LinkAssumption DEF Init, IInv, TypeOK, CallOK, Unsent, MaxTries, Outcome

\* The steps of one caller leave the calls of the others alone.
LEMMA StartStep ==
    ASSUME IInv, NEW c \in Caller, Start(c) PROVE IInv'
<1>1. TypeOK'
    BY DEF Start, GoTo, netVars, IInv, TypeOK, CallOK, MaxTries
<1>2. \A d \in Caller : CallOK(d)'
    BY DEF Start, GoTo, netVars, IInv, TypeOK, CallOK, Unsent, MaxTries
<1> QED  BY <1>1, <1>2 DEF Start, GoTo, netVars, IInv, TypeOK

LEMMA CallStep ==
    ASSUME IInv, NEW c \in Caller, Call(c) PROVE IInv'
<1>0. client \in Link /\ pc[c] = "call" /\ try[c] + 1 \in 0..MaxTries
    <2>1. pc[c] = "call" /\ CallOK(c) /\ TypeOK
        BY DEF Call, IInv
    <2>2. try[c] \in 0..MaxTries /\ try[c] < MaxTries
        BY <2>1 DEF TypeOK, CallOK
    <2>3. client \in Link
        BY <2>1 DEF TypeOK
    <2> QED  BY <2>1, <2>2, <2>3 DEF MaxTries
<1>1. CASE link[client] = "down"
    <2>1. /\ pc' = [pc EXCEPT ![c] = "reconnect"]
          /\ try' = [try EXCEPT ![c] = @ + 1]
          /\ UNCHANGED <<role, client, uses, outcome, netVars>>
        BY <1>1 DEF Call, GoTo, netVars
    <2>2. TypeOK'
        BY <1>0, <2>1 DEF IInv, TypeOK, netVars
    <2>3. \A d \in Caller : CallOK(d)'
        BY <1>0, <2>1 DEF IInv, TypeOK, netVars, CallOK, Unsent
    <2> QED  BY <2>1, <2>2, <2>3 DEF IInv, netVars
<1>2. CASE link[client] = "up"
    <2>1. /\ pc' = [pc EXCEPT ![c] = "wait"]
          /\ uses' = [uses EXCEPT ![c] = client]
          /\ sent' = sent \cup {<<c, client>>}
          /\ UNCHANGED <<role, client, link, try, outcome, answers, executed>>
        BY <1>2 DEF Call, GoTo
    <2>2. TypeOK'
        BY <1>0, <2>1 DEF IInv, TypeOK
    <2>3. \A d \in Caller : CallOK(d)'
        BY <1>0, <2>1 DEF IInv, TypeOK, CallOK, Unsent
    <2> QED  BY <2>1, <2>2, <2>3 DEF IInv
<1> QED  BY <1>1, <1>2 DEF Call

LEMMA DialStep ==
    ASSUME IInv, NEW c \in Caller, Dial(c) PROVE IInv'
<1>1. CASE Return(c, "unreachable") /\ UNCHANGED <<link, uses>>
    <2>1. TypeOK'
        BY <1>1 DEF Dial, Return, IInv, TypeOK, Outcome
    <2>2. \A d \in Caller : CallOK(d)'
        BY <1>1 DEF Dial, Return, IInv, TypeOK, CallOK, Unsent
    <2> QED  BY <1>1, <2>1, <2>2 DEF Dial, IInv
<1>2. ASSUME NEW k \in Link, NEW next \in {"connected", "reconnected"}, link[k] = "new",
             link' = [link EXCEPT ![k] = "up"],
             uses' = [uses EXCEPT ![c] = k],
             GoTo(c, next)
      PROVE  IInv'
    <2>1. /\ link' \in [Link -> {"new", "up", "down"}] /\ uses' \in [Caller -> Link \cup {Nil}]
          /\ \A j \in Link : link[j] # "new" => link'[j] = link[j]
          /\ link'[k] = "up" /\ uses'[c] = k
        BY <1>2 DEF IInv, TypeOK
    <2>2. TypeOK'
        BY <1>2, <2>1 DEF Dial, GoTo, IInv, TypeOK
    <2>3. \A d \in Caller : CallOK(d)'
        BY <1>2, <2>1 DEF Dial, GoTo, IInv, TypeOK, CallOK, Unsent
    <2> QED  BY <2>1, <2>2, <2>3 DEF Dial, IInv, TypeOK
<1> QED  BY <1>1, <1>2 DEF Dial

LEMMA AssignStep ==
    ASSUME IInv, NEW c \in Caller, Assign(c) PROVE IInv'
<1>0. uses[c] \in Link /\ link[uses[c]] # "new" /\ client' = uses[c]
    BY DEF Assign, IInv, CallOK
<1>1. TypeOK'
    BY <1>0, LinkAssumption
    DEF Assign, GoTo, Return, netVars, MaxTries, IInv, TypeOK, Outcome
<1>2. \A d \in Caller : CallOK(d)'
    BY DEF Assign, GoTo, Return, netVars, MaxTries, IInv, TypeOK, CallOK, Unsent
<1> QED  BY <1>0, <1>1, <1>2 DEF Assign, netVars, IInv

LEMMA AnsweredStep ==
    ASSUME IInv, NEW c \in Caller, Answered(c) PROVE IInv'
<1>1. TypeOK'
    BY DEF Answered, Return, netVars, IInv, TypeOK, Outcome
<1>2. \A d \in Caller : CallOK(d)'
    BY DEF Answered, Return, netVars, IInv, TypeOK, CallOK, Unsent
<1> QED  BY <1>1, <1>2 DEF Answered, Return, netVars, IInv, TypeOK

LEMMA LostStep ==
    ASSUME IInv, NEW c \in Caller, Lost(c) PROVE IInv'
<1>1. TypeOK'
    BY DEF Lost, Return, netVars, IInv, TypeOK, Outcome
<1>2. \A d \in Caller : CallOK(d)'
    BY DEF Lost, Return, netVars, IInv, TypeOK, CallOK, Unsent
<1> QED  BY <1>1, <1>2 DEF Lost, Return, netVars, IInv, TypeOK

LEMMA ExecuteStep ==
    ASSUME IInv, NEW c \in Caller, NEW k \in Link, Execute(c, k) PROVE IInv'
<1>1. PICK says \in BOOLEAN :
          /\ executed' = [executed EXCEPT ![c] = Append(@, says)]
          /\ answers' = answers \cup {<<c, k, says>>}
    BY DEF Execute, ServerRPCMethods, ClientRPCMethods
<1>2. /\ <<c, k>> \in sent /\ executed[c] = <<>>
      /\ pc[c] \notin Unsent
      /\ \A j \in Link, s \in BOOLEAN : <<c, j, s>> \notin answers
    BY DEF Execute, IInv, TypeOK, CallOK
<1>3. executed' = [executed EXCEPT ![c] = <<says>>]
    BY <1>1, <1>2
<1>4. TypeOK'
    BY <1>1, <1>3 DEF Execute, callerVars, IInv, TypeOK
<1>5. ASSUME NEW d \in Caller PROVE CallOK(d)'
    <2>1. CASE d = c
        BY <1>1, <1>2, <1>3, <2>1 DEF Execute, callerVars, IInv, TypeOK, CallOK
    <2>2. CASE d # c
        BY <1>1, <1>3, <2>2 DEF Execute, callerVars, IInv, TypeOK, CallOK
    <2> QED  BY <2>1, <2>2
<1> QED  BY <1>4, <1>5 DEF Execute, callerVars, IInv

LEMMA LoseRequestStep ==
    ASSUME IInv, NEW c \in Caller, NEW k \in Link, LoseRequest(c, k) PROVE IInv'
<1>1. TypeOK'
    BY DEF LoseRequest, callerVars, IInv, TypeOK
<1>2. \A d \in Caller : CallOK(d)'
    BY DEF LoseRequest, callerVars, IInv, TypeOK, CallOK, Unsent
<1> QED  BY <1>1, <1>2 DEF LoseRequest, callerVars, IInv, TypeOK

LEMMA BreakStep ==
    ASSUME IInv, NEW k \in Link, Break(k) PROVE IInv'
<1>1. TypeOK'
    BY DEF Break, callerVars, IInv, TypeOK
<1>2. \A d \in Caller : CallOK(d)'
    BY DEF Break, callerVars, IInv, TypeOK, CallOK, Unsent
<1> QED  BY <1>1, <1>2 DEF Break, callerVars, IInv, TypeOK

LEMMA NextIInv == IInv /\ [Next]_vars => IInv'
<1> SUFFICES ASSUME IInv, [Next]_vars PROVE IInv'
    OBVIOUS
<1>1. ASSUME NEW c \in Caller, Goes(c) PROVE IInv'
    BY <1>1, StartStep, CallStep, DialStep, AssignStep, AnsweredStep, LostStep DEF Goes
<1>2. ASSUME NEW c \in Caller, NEW k \in Link, Execute(c, k) \/ LoseRequest(c, k)
      PROVE  IInv'
    BY <1>2, ExecuteStep, LoseRequestStep
<1>3. ASSUME NEW k \in Link, Break(k) PROVE IInv'
    BY <1>3, BreakStep
<1>4. ASSUME UNCHANGED vars PROVE IInv'
    BY <1>4 DEF vars, callerVars, netVars, IInv, TypeOK, CallOK
<1> QED  BY <1>1, <1>2, <1>3, <1>4 DEF Next

LEMMA Invariant == Spec => []IInv
BY InitIInv, NextIInv, PTL DEF Spec

\* The shared field is never nil, nor a connection that was not dialled, when a
\* goroutine calls through it.
THEOREM TypeCorrect == Spec => []TypeOK
<1>1. IInv => TypeOK
    BY DEF IInv
<1> QED  BY <1>1, Invariant, PTL

-----------------------------------------------------------------------------
(* Rpc implements RemoteCall                                               *)

LEMMA GoesRefines ==
    ASSUME IInv, NEW c \in Caller, Goes(c)
    PROVE  [Remote!Next]_(Remote!cvars)
<1>1. ASSUME UNCHANGED <<executed, outcome>> PROVE UNCHANGED Remote!cvars
    BY <1>1 DEF Remote!cvars
<1>2. ASSUME NEW how \in Outcome \ {"none", "success"}, Return(c, how),
             outcome[c] = "none", UNCHANGED executed
      PROVE  Remote!Fail(c)
    BY <1>2 DEF Return, Remote!Fail, IInv, TypeOK, Outcome
<1>3. ASSUME outcome[c] = "none", UNCHANGED executed,
             Return(c, "success"), executed[c] = <<TRUE>>
      PROVE  Remote!Succeed(c)
    BY <1>3 DEF Return, Remote!Succeed, IInv, TypeOK, Outcome
<1>4. pc[c] # "done" => outcome[c] = "none"
    BY DEF IInv, CallOK
<1>5. CASE Start(c) \/ Call(c)
    BY <1>1, <1>5 DEF Start, Call, GoTo, netVars
<1>6. CASE Dial(c)
    BY <1>1, <1>2, <1>4, <1>6 DEF Dial, GoTo, Outcome, Remote!Next
<1>7. CASE Assign(c)
    BY <1>1, <1>2, <1>4, <1>7 DEF Assign, GoTo, Outcome, netVars, Remote!Next
<1>8. CASE Answered(c)
    <2>1. PICK says \in BOOLEAN :
              /\ <<c, uses[c], says>> \in answers
              /\ Return(c, IF says THEN "success" ELSE "refused")
        BY <1>8 DEF Answered
    <2>2. executed[c] = <<says>> /\ UNCHANGED executed /\ outcome[c] = "none"
        BY <1>4, <1>8, <2>1 DEF Answered, IInv, CallOK, netVars
    <2>3. CASE says = TRUE
        BY <1>3, <2>1, <2>2, <2>3 DEF Remote!Next
    <2>4. CASE says = FALSE
        BY <1>2, <2>1, <2>2, <2>4 DEF Outcome, Remote!Next
    <2> QED  BY <2>3, <2>4
<1>9. CASE Lost(c)
    BY <1>2, <1>4, <1>9 DEF Lost, Outcome, netVars, Remote!Next
<1> QED  BY <1>5, <1>6, <1>7, <1>8, <1>9 DEF Goes

LEMMA ExecuteRefines ==
    ASSUME IInv, NEW c \in Caller, NEW k \in Link, Execute(c, k)
    PROVE  Remote!Execute(c)
<1>1. PICK says \in BOOLEAN : executed' = [executed EXCEPT ![c] = Append(@, says)]
    BY DEF Execute, ServerRPCMethods, ClientRPCMethods
<1>2. executed[c] = <<>>
    BY DEF Execute, IInv, CallOK
<1>3. executed' = [executed EXCEPT ![c] = <<says>>]
    BY <1>1, <1>2
<1> QED  BY <1>2, <1>3 DEF Execute, callerVars, Remote!Execute

\* Whatever is lost, retried or replaced by whom, a call between the programs is
\* executed at most once, and reported as successful only if it was executed and
\* accepted: every behaviour of Rpc is one of RemoteCall.
THEOREM ImplementsRemoteCall == Spec => IsRemoteCall
<1>1. Init => Remote!Init
    BY DEF Init, Remote!Init
<1>2. IInv /\ [Next]_vars => [Remote!Next]_(Remote!cvars)
    <2> SUFFICES ASSUME IInv, [Next]_vars PROVE [Remote!Next]_(Remote!cvars)
        OBVIOUS
    <2>1. ASSUME NEW c \in Caller, NEW k \in Link, LoseRequest(c, k) \/ Break(k)
          PROVE  UNCHANGED Remote!cvars
        BY <2>1 DEF LoseRequest, Break, callerVars, Remote!cvars
    <2>2. ASSUME UNCHANGED vars PROVE UNCHANGED Remote!cvars
        BY <2>2 DEF vars, callerVars, netVars, Remote!cvars
    <2>3. ASSUME NEW k \in Link, Break(k) PROVE UNCHANGED Remote!cvars
        BY <2>3 DEF Break, callerVars, Remote!cvars
    <2> QED  BY <2>1, <2>2, <2>3, GoesRefines, ExecuteRefines DEF Next, Remote!Next
<1> QED  BY <1>1, <1>2, Invariant, PTL DEF Spec, IsRemoteCall, Remote!Spec

-----------------------------------------------------------------------------
(* One lost connection makes nobody give up.                               *)

\* Caller d has dialled connection k and not put it into the field yet.
Dialled(d, k) == pc[d] \in {"connected", "reconnected"} /\ uses[d] = k

\* A connection that is lost and will never be in the field again.
DeadFor(c, k) ==
    /\ link[k] = "down"
    /\ \A d \in Caller : ~Dialled(d, k)
    /\ client = k => pc[c] \in {"reconnect", "reconnected"}

\* Why each attempt needs a loss of its own: what has been dialled is in the hands
\* of one caller, so a lost connection that was in the field never comes back to it.
LossInv ==
    /\ IsFiniteSet({k \in Link : link[k] = "down"})
    /\ \A d \in Caller : ~Dialled(d, client)
    /\ \A d, e \in Caller, k \in Link : Dialled(d, k) /\ Dialled(e, k) => d = e
    /\ \A c \in Caller : try[c] >= 1 /\ pc[c] # "done" => \E k \in Link : DeadFor(c, k)
    /\ \A c \in Caller : try[c] >= 2 =>
          \E j, k \in Link : j # k /\ link[j] = "down" /\ link[k] = "down"
    /\ \A c \in Caller : outcome[c] = "gaveUp" => try[c] >= 2

LEMMA InitLossInv == Init => LossInv
<1> SUFFICES ASSUME Init PROVE LossInv
    OBVIOUS
<1>1. {k \in Link : link[k] = "down"} = {}
    BY DEF Init
<1>2. IsFiniteSet({k \in Link : link[k] = "down"})
    BY <1>1, FS_EmptySet
<1>3. \A c \in Caller : pc[c] = "start" /\ try[c] = 0 /\ outcome[c] = "none"
    BY DEF Init
<1> QED  BY <1>2, <1>3 DEF LossInv, Dialled

\* A step that leaves the connections and the field alone, and in which no caller
\* dials, finds a dead connection or is done with reconnecting.
LEMMA QuietStep ==
    ASSUME LossInv, UNCHANGED <<client, link, try, uses>>,
           \A d \in Caller :
               \/ pc'[d] = pc[d]
               \/ /\ pc'[d] \notin {"connected", "reconnected"}
                  /\ pc[d] = "reconnect" => pc'[d] = "done"
                  /\ pc[d] = "done" => pc'[d] = "done"
                  /\ pc[d] # "reconnected",
           \A d \in Caller : outcome'[d] = "gaveUp" => outcome[d] = "gaveUp"
    PROVE  LossInv'
<1>1. ASSUME NEW d \in Caller, NEW k, Dialled(d, k)' PROVE Dialled(d, k)
    BY <1>1 DEF Dialled
<1>2. ASSUME NEW c \in Caller, NEW k \in Link, DeadFor(c, k), pc'[c] # "done"
      PROVE  DeadFor(c, k)'
    BY <1>1, <1>2 DEF DeadFor
<1>3. \A c \in Caller : try'[c] >= 1 /\ pc'[c] # "done" => \E k \in Link : DeadFor(c, k)'
    BY <1>2 DEF LossInv
<1> QED  BY <1>1, <1>3 DEF LossInv

LEMMA LossCallStep ==
    ASSUME IInv, LossInv, NEW c \in Caller, Call(c) PROVE LossInv'
<1>1. CASE link[client] = "up" /\ UNCHANGED try
    <2>1. /\ pc[c] = "call" /\ pc' = [pc EXCEPT ![c] = "wait"]
          /\ uses' = [uses EXCEPT ![c] = client]
          /\ UNCHANGED <<client, link, try, outcome>>
        BY <1>1 DEF Call, GoTo
    <2>2. \A d \in Caller : \A k : Dialled(d, k)' => Dialled(d, k)
        BY <2>1 DEF Dialled, IInv, TypeOK
    <2>3. \A d \in Caller : pc'[d] # "done" => pc[d] # "done"
        <3>1. pc = [d \in Caller |-> pc[d]]
            BY DEF IInv, TypeOK
        <3> QED  BY <2>1, <3>1
    <2>4. \A d \in Caller, k \in Link : DeadFor(d, k) => DeadFor(d, k)'
        BY <2>1, <2>2 DEF DeadFor, IInv, TypeOK
    <2> QED  BY <2>1, <2>2, <2>3, <2>4 DEF LossInv
<1>2. CASE link[client] = "down"
    <2>1. /\ pc[c] = "call" /\ pc' = [pc EXCEPT ![c] = "reconnect"]
          /\ try' = [try EXCEPT ![c] = @ + 1]
          /\ UNCHANGED <<client, link, uses, outcome>>
        BY <1>2 DEF Call, GoTo
    <2>2. client \in Link /\ try \in [Caller -> 0..MaxTries] /\ pc = [d \in Caller |-> pc[d]]
          /\ try[c] \in 0..MaxTries
        BY <2>1 DEF IInv, TypeOK
    <2>3. \A d \in Caller : \A k : Dialled(d, k)' => Dialled(d, k)
        BY <2>1, <2>2 DEF Dialled
    <2>4. DeadFor(c, client)'
        BY <1>2, <2>1, <2>2, <2>3 DEF DeadFor, LossInv
    <2>5. ASSUME NEW d \in Caller, try'[d] >= 1, pc'[d] # "done"
          PROVE  \E k \in Link : DeadFor(d, k)'
        <3>1. CASE d = c
            BY <3>1, <2>1, <2>2, <2>4
        <3>2. CASE d # c
            <4>1. PICK k \in Link : DeadFor(d, k)
                BY <3>2, <2>5, <2>1, <2>2 DEF LossInv
            <4> QED  BY <4>1, <3>2, <2>1, <2>2, <2>3 DEF DeadFor
        <3> QED  BY <3>1, <3>2
    <2>6. ASSUME NEW d \in Caller, try'[d] >= 2
          PROVE  \E j, k \in Link : j # k /\ link[j] = "down" /\ link[k] = "down"
        <3>1. CASE try[d] >= 2
            BY <3>1 DEF LossInv
        <3>2. CASE try[d] < 2
            <4>1. d = c /\ try[c] >= 1
                BY <3>2, <2>6, <2>1, <2>2, try[d] \in 0..MaxTries DEF MaxTries
            <4>2. PICK k \in Link : DeadFor(c, k)
                BY <4>1, <2>1 DEF LossInv
            <4> QED  BY <4>2, <2>1, <2>2, <1>2 DEF DeadFor
        <3> QED  BY <3>1, <3>2, <2>2, try[d] \in 0..MaxTries DEF MaxTries
    <2>7. \A d \in Caller : outcome'[d] = "gaveUp" => try'[d] >= 2
        BY <2>1, <2>2 DEF LossInv, MaxTries
    <2> QED  BY <2>1, <2>3, <2>5, <2>6, <2>7 DEF LossInv
<1> QED  BY <1>1, <1>2 DEF Call

LEMMA LossDialStep ==
    ASSUME IInv, LossInv, NEW c \in Caller, Dial(c) PROVE LossInv'
<1>1. CASE Return(c, "unreachable") /\ UNCHANGED <<link, uses>>
    <2>1. /\ pc' = [pc EXCEPT ![c] = "done"] /\ pc[c] \in {"connect", "reconnect"}
          /\ outcome' = [outcome EXCEPT ![c] = "unreachable"]
          /\ UNCHANGED <<client, link, try, uses>>
        BY <1>1 DEF Dial, Return
    <2>2. pc = [d \in Caller |-> pc[d]] /\ outcome \in [Caller -> Outcome]
        BY DEF IInv, TypeOK
    <2>3. \A d \in Caller : \/ pc'[d] = pc[d]
                            \/ pc'[d] = "done" /\ pc[d] # "reconnected"
        BY <2>1, <2>2
    <2>4. \A d \in Caller : outcome'[d] = "gaveUp" => outcome[d] = "gaveUp"
        BY <2>1, <2>2
    <2> QED  BY <2>1, <2>3, <2>4, QuietStep
<1>2. ASSUME NEW k \in Link, NEW next \in {"connected", "reconnected"}, link[k] = "new",
             pc[c] \in {"connect", "reconnect"},
             next = "connected" <=> pc[c] = "connect",
             link' = [link EXCEPT ![k] = "up"],
             uses' = [uses EXCEPT ![c] = k],
             pc' = [pc EXCEPT ![c] = next],
             UNCHANGED <<client, try, outcome>>
      PROVE  LossInv'
    <2>1. /\ pc = [d \in Caller |-> pc[d]] /\ uses \in [Caller -> Link \cup {Nil}]
          /\ link \in [Link -> {"new", "up", "down"}]
        BY DEF IInv, TypeOK
    <2>2. \A j \in Link : link'[j] = "down" <=> link[j] = "down"
        BY <1>2, <2>1
    <2>3. {j \in Link : link'[j] = "down"} = {j \in Link : link[j] = "down"}
        BY <2>2
    <2>4. Dialled(c, k)' /\ \A j : Dialled(c, j)' => j = k
        BY <1>2, <2>1 DEF Dialled
    <2>5. \A d \in Caller : \A j : d # c => (Dialled(d, j)' <=> Dialled(d, j))
        BY <1>2, <2>1 DEF Dialled
    <2>6. \A d \in Caller : ~Dialled(d, k)
        BY <1>2 DEF IInv, CallOK, Dialled
    <2>7. client # k
        BY <1>2, LinkAssumption DEF IInv
    <2>8. ASSUME NEW d \in Caller, NEW j \in Link, DeadFor(d, j) PROVE DeadFor(d, j)'
        <3>1. j # k
            BY <1>2, <2>8 DEF DeadFor
        <3>2. link'[j] = "down"
            BY <2>2, <2>8 DEF DeadFor
        <3>3. \A e \in Caller : ~Dialled(e, j)'
            BY <3>1, <2>4, <2>5, <2>8 DEF DeadFor
        <3>4. client' = j => pc'[d] \in {"reconnect", "reconnected"}
            BY <1>2, <2>1, <2>8 DEF DeadFor
        <3> QED  BY <3>2, <3>3, <3>4 DEF DeadFor
    <2>9. \A d \in Caller : ~Dialled(d, client)'
        BY <1>2, <2>4, <2>5, <2>7 DEF LossInv
    <2>10. \A d, e \in Caller, j \in Link : Dialled(d, j)' /\ Dialled(e, j)' => d = e
        BY <2>4, <2>5, <2>6 DEF LossInv
    <2>11. \A d \in Caller : pc'[d] # "done" => pc[d] # "done"
        BY <1>2, <2>1
    <2> QED  BY <1>2, <2>2, <2>3, <2>8, <2>9, <2>10, <2>11 DEF LossInv
<1> QED  BY <1>1, <1>2 DEF Dial, GoTo

LEMMA LossAssignStep ==
    ASSUME IInv, LossInv, NEW c \in Caller, Assign(c) PROVE LossInv'
<1>1. /\ uses[c] \in Link /\ Dialled(c, uses[c]) /\ client' = uses[c]
      /\ UNCHANGED <<link, try, uses>>
    BY DEF Assign, IInv, CallOK, Dialled, netVars
<1>2. /\ pc = [d \in Caller |-> pc[d]] /\ outcome \in [Caller -> Outcome]
      /\ try \in [Caller -> 0..MaxTries]
    BY DEF IInv, TypeOK
<1>3. /\ pc'[c] \in {"call", "done"} /\ \A d \in Caller : d # c => pc'[d] = pc[d]
      /\ outcome'[c] = "gaveUp" => try[c] >= 2 \/ outcome[c] = "gaveUp"
      /\ \A d \in Caller : d # c => outcome'[d] = outcome[d]
    BY <1>2 DEF Assign, GoTo, Return, MaxTries
<1>4. \A d \in Caller : \A j : Dialled(d, j)' => d # c /\ Dialled(d, j)
    BY <1>1, <1>3 DEF Dialled
<1>5. \A d \in Caller : ~Dialled(d, client)'
    BY <1>1, <1>4 DEF LossInv
<1>6. ASSUME NEW d \in Caller, NEW j \in Link, DeadFor(d, j) PROVE DeadFor(d, j)'
    <2>1. client' # j
        BY <1>1, <1>6 DEF DeadFor
    <2> QED  BY <2>1, <1>1, <1>4, <1>6 DEF DeadFor
<1>7. \A d \in Caller : pc'[d] # "done" => pc[d] # "done"
    BY <1>1, <1>3 DEF Dialled
<1>8. \A d \in Caller : outcome'[d] = "gaveUp" => try'[d] >= 2
    BY <1>1, <1>3 DEF LossInv
<1>9. \A d \in Caller : try'[d] >= 1 /\ pc'[d] # "done" => \E k \in Link : DeadFor(d, k)'
    BY <1>1, <1>6, <1>7 DEF LossInv
<1> QED  BY <1>1, <1>4, <1>5, <1>8, <1>9 DEF LossInv

LEMMA LossBreakStep ==
    ASSUME IInv, LossInv, NEW k \in Link, Break(k) PROVE LossInv'
<1>1. /\ link' = [link EXCEPT ![k] = "down"]
      /\ UNCHANGED <<client, pc, try, uses, outcome>>
    BY DEF Break, callerVars
<1>2. \A j \in Link : link'[j] = "down" <=> j = k \/ link[j] = "down"
    BY <1>1 DEF IInv, TypeOK
<1>3. {j \in Link : link'[j] = "down"} = {j \in Link : link[j] = "down"} \cup {k}
    BY <1>2
<1>4. IsFiniteSet({j \in Link : link'[j] = "down"})
    BY <1>3, FS_AddElement DEF LossInv
<1>5. \A d \in Caller : \A j : Dialled(d, j)' <=> Dialled(d, j)
    BY <1>1 DEF Dialled
<1>6. \A d \in Caller, j \in Link : DeadFor(d, j) => DeadFor(d, j)'
    BY <1>1, <1>2, <1>5 DEF DeadFor
<1>7. \A d \in Caller : ~Dialled(d, client)'
    BY <1>1, <1>5 DEF LossInv
<1> QED  BY <1>1, <1>2, <1>4, <1>5, <1>6, <1>7 DEF LossInv

LEMMA NextLossInv == IInv /\ LossInv /\ [Next]_vars => LossInv'
<1> SUFFICES ASSUME IInv, LossInv, [Next]_vars PROVE LossInv'
    OBVIOUS
<1>0. pc = [d \in Caller |-> pc[d]] /\ outcome = [d \in Caller |-> outcome[d]]
    BY DEF IInv, TypeOK
<1>1. ASSUME NEW c \in Caller, Goes(c) PROVE LossInv'
    <2>1. CASE Start(c)
        <3>1. /\ UNCHANGED <<client, link, try, uses, outcome>>
              /\ \A d \in Caller : \/ pc'[d] = pc[d]
                                   \/ pc'[d] \in {"connect", "call"} /\ pc[d] = "start"
            BY <1>0, <2>1 DEF Start, GoTo, netVars
        <3> QED  BY <3>1, QuietStep
    <2>2. CASE Answered(c) \/ Lost(c)
        <3>1. /\ UNCHANGED <<client, link, try, uses>>
              /\ \A d \in Caller : \/ pc'[d] = pc[d]
                                   \/ pc'[d] = "done" /\ pc[d] = "wait"
              /\ \A d \in Caller : outcome'[d] = "gaveUp" => outcome[d] = "gaveUp"
            BY <1>0, <2>2 DEF Answered, Lost, Return, netVars
        <3> QED  BY <3>1, QuietStep
    <2> QED  BY <1>1, <2>1, <2>2, LossCallStep, LossDialStep, LossAssignStep DEF Goes
<1>2. ASSUME NEW c \in Caller, NEW k \in Link, Execute(c, k) \/ LoseRequest(c, k)
      PROVE  LossInv'
    <2>1. UNCHANGED <<client, link, callerVars>>
        BY <1>2 DEF Execute, LoseRequest
    <2> QED  BY <2>1, QuietStep DEF callerVars
<1>3. ASSUME NEW k \in Link, Break(k) PROVE LossInv'
    BY <1>3, LossBreakStep
<1>4. ASSUME UNCHANGED vars PROVE LossInv'
    BY <1>4, QuietStep DEF vars, callerVars, netVars
<1> QED  BY <1>1, <1>2, <1>3, <1>4 DEF Next

\* A caller that gives up has found two connections lost, not the same one twice,
\* whatever the others put into the shared field: the second attempt of
\* callClientMethod and callServerMethod covers every single loss.
THEOREM OneLossIsNotEnough == Spec => []OneLossIsSurvived
<1>1. LossInv => OneLossIsSurvived
    <2> SUFFICES ASSUME LossInv, NEW c \in Caller, outcome[c] = "gaveUp"
                 PROVE  ~ Cardinality({k \in Link : link[k] = "down"}) <= 1
        BY DEF OneLossIsSurvived
    <2> DEFINE Down == {k \in Link : link[k] = "down"}
    <2>1. PICK j, k \in Link : j # k /\ link[j] = "down" /\ link[k] = "down"
        BY DEF LossInv
    <2>2. IsFiniteSet(Down) /\ {j, k} \subseteq Down
        BY <2>1 DEF LossInv
    <2>3. IsFiniteSet({j}) /\ Cardinality({j}) = 1
        BY FS_Singleton
    <2>4. Cardinality({j} \cup {k}) = 2
        <3>1. k \notin {j}
            BY <2>1
        <3>2. Cardinality({j} \cup {k}) = Cardinality({j}) + 1
            BY ONLY <2>3, <3>1, FS_AddElement
        <3> QED  BY ONLY <2>3, <3>2
    <2>5. Cardinality({j, k}) <= Cardinality(Down) /\ {j} \cup {k} = {j, k}
        BY <2>2, FS_Subset
    <2>6. Cardinality(Down) \in Nat
        BY <2>2, FS_CardinalityType
    <2> QED  BY <2>4, <2>5, <2>6
<1> QED  BY <1>1, InitIInv, InitLossInv, NextIInv, NextLossInv, PTL DEF Spec
================================================================================
