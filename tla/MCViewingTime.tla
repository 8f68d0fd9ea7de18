---------------------------- MODULE MCViewingTime ----------------------------
(* Days of three seconds, seconds of two ticks; from a Saturday through a  *)
(* Sunday into the Monday of the next week.  The instants are odd and even *)
(* ones, the two midnights, and pauses of exactly and of just over a rest. *)
EXTENDS ViewingTime, TLC
CONSTANTS s1, s2
MCStreams == {s1, s2}
MCInstants == {1, 4, 6, 9, 12, 15}
Symmetry == Permutations(MCStreams)
MCDaySets == {{}, {0}, {6, 1}}
MCRule == [start |-> 2, end |-> 1, days |-> {0}]
MCWeekdayMax == [d \in 0..6 |-> IF d = 0 THEN 2 ELSE 0]
=============================================================================
