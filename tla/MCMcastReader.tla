--------------------------- MODULE MCMcastReader ----------------------------
(* Three users, so that a broadcast can serve one, drop one and leave one  *)
(* waiting; channels of two packets.                                       *)
EXTENDS McastReader
CONSTANTS u1, u2, u3
MCUsers == {u1, u2, u3}
=============================================================================
