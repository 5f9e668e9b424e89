------------------------------ MODULE RemoteCall ------------------------------
(***************************************************************************)
(* What metaserver and relay may expect of a call to the other: the        *)
(* abstract specification of Rpc.                                          *)
(*                                                                         *)
(* A call is executed at most once, and success is reported only of a call *)
(* that has been executed and was accepted.  Failure may be reported of    *)
(* any call, even of one that has been executed, or still will be.         *)
(***************************************************************************)
EXTENDS Sequences

CONSTANT Caller     \* goroutines, each with one call

VARIABLES
    executed,   \* executed[c]: what the callee answered, each time it ran the call
    result      \* result[c]: what the caller has been told

cvars == <<executed, result>>

Init ==
    /\ executed = [c \in Caller |-> <<>>]
    /\ result = [c \in Caller |-> "none"]

Execute(c) ==
    /\ executed[c] = <<>>
    /\ \E says \in BOOLEAN : executed' = [executed EXCEPT ![c] = <<says>>]
    /\ UNCHANGED result

Succeed(c) ==
    /\ result[c] = "none" /\ executed[c] = <<TRUE>>
    /\ result' = [result EXCEPT ![c] = "success"]
    /\ UNCHANGED executed

Fail(c) ==
    /\ result[c] = "none"
    /\ result' = [result EXCEPT ![c] = "failure"]
    /\ UNCHANGED executed

Next == \E c \in Caller : Execute(c) \/ Succeed(c) \/ Fail(c)

Spec == Init /\ [][Next]_cvars
===============================================================================
