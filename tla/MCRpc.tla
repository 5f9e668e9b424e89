--------------------------------- MODULE MCRpc ---------------------------------
(* Values of the constants for the run of Rpc. *)
EXTENDS Rpc

CONSTANTS c1, c2, c3, k1, k2, k3, k4
================================================================================
