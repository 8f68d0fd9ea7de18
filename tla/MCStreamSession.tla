-------------------------- MODULE MCStreamSession --------------------------
(* One channel, one rule target, one replacement.                          *)
EXTENDS StreamSession
CONSTANTS s1, s2, a, b, r
=============================================================================
