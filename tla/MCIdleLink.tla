----------------------------- MODULE MCIdleLink -----------------------------
(* Three consumers: one that leaves last, one that comes meanwhile and one *)
(* that dials.  All watch or all record; the mixture is a run of its own.  *)
EXTENDS IdleLink
CONSTANTS c1, c2, c3
MCConsumers == {c1, c2, c3}
MCPure == {[c \in MCConsumers |-> k] : k \in Kinds}
MCMixed == {[c \in MCConsumers |-> IF c = c1 THEN "recording" ELSE "viewer"]}
=============================================================================
