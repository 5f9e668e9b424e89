------------------------------- MODULE MCRelay -------------------------------
(***************************************************************************)
(* Values of the constants for the runs of Relay: h is the peer that knows *)
(* the password of the host, a and b are players who join.                 *)
(***************************************************************************)
EXTENDS Relay

CONSTANTS h, a, b, r1

HostOnly == {h}
Players == Permutations({a, b})

\* A run under this constraint follows the game until its host is let go or it
\* is shut down.
Running == ~shuttingDown /\ conn[h] # "nil"
==============================================================================
