--------------------------------- MODULE MCFeed ---------------------------------
(* Values of the constants for the runs of Feed. *)
EXTENDS Feed

CONSTANTS p, q, m, n
================================================================================
