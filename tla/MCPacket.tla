-------------------------------- MODULE MCPacket --------------------------------
(***************************************************************************)
(* Values of the constants for the run of Packet.  With three values of a  *)
(* byte a length is at most 8; of the packets two are short, one is of the *)
(* greatest length and one is longer.                                      *)
(***************************************************************************)
EXTENDS Packet

Fields == {<< <<>> >>, << <<2>>, <<>> >>, << <<1, 2>>, <<2>>, <<>> >>,
           << <<1, 2, 1, 1, 2, 1, 2>> >>}
NoCommand == {<<0, 2>>, <<1, 0, 1>>}
================================================================================
