-------------------------------- MODULE MCGames --------------------------------
(* Values of the constants for the run of Games: an old and a newer client. *)
EXTENDS Games

CONSTANTS old, new, n1, n2
================================================================================
