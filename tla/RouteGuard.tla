----------------------------- MODULE RouteGuard -----------------------------
(***************************************************************************)
(* From a saved setting to the kernel: settings.Store.Update (settings.go) *)
(* with the onChange callback main.go gives it, and routeguard.Guard       *)
(* (guard.go), whose passes run every five seconds and once more at the    *)
(* end of each update, side by side: RunOnce copies the configuration      *)
(* under g.mu and works without it.                                        *)
(*                                                                         *)
(* Of a configuration only what the DROP rule is about is kept: the PPPoE  *)
(* unit (a ppp interface) and whether its input is to be dropped.  The     *)
(* kernel's table is external: how many DROP rules each interface has.  It *)
(* outlives the process.  A pass also deletes the interface's default      *)
(* routes and writes rp_filter: no other step reads or writes either, so   *)
(* they are left out.                                                      *)
(***************************************************************************)
EXTENDS Naturals, FiniteSets

CONSTANTS Savers,      \* web requests that save settings
          Ticker,      \* the guard's own goroutine
          Ifaces,
          Stored,      \* configurations settings.json may hold at first
          MaxUpdates, MaxFailures, MaxRestarts   \* bounds

ASSUME RouteGuardAssumption ==
    /\ IsFiniteSet(Savers) /\ Ticker \notin Savers
    /\ Stored \subseteq [iface : Ifaces, block : BOOLEAN]
    /\ {MaxUpdates, MaxFailures, MaxRestarts} \subseteq Nat

Procs == Savers \cup {Ticker}
Configs == [iface : Ifaces, block : BOOLEAN]
Unread == CHOOSE c \in Configs : TRUE    \* for locals nobody will read

VARIABLES cfg,       \* settings: s.cfg
          file,      \* settings.json
          unit,      \* pppoe: m.cfg.Unit, as IfaceName() gives it
          guard,     \* guard: pppIface and blockPPPoE
          pc,        \* where a saver is in Update, a process in RunOnce
          mine,      \* the configuration it carries: a saver's argument (its
                     \* interface that of IfaceName() once that was called),
                     \* then the copy its pass made
          saw,       \* what its iptables -C reported
          drops,     \* kernel: DROP rules of an interface
          updates, failures, restarts,           \* counted up to the bounds
          overlapped \* history: two updates ran at once

store  == <<cfg, file, unit, guard>>
local  == <<mine, saw>>
tally  == <<updates, failures, restarts>>
vars == <<store, pc, local, drops, tally, overlapped>>

Init == /\ file \in Stored
        /\ cfg = file /\ guard = file /\ unit = file.iface
        /\ pc = [p \in Procs |-> "idle"]
        /\ mine = [p \in Procs |-> Unread]
        /\ saw = [p \in Procs |-> FALSE]
        /\ drops = [i \in Ifaces |-> 0]
        /\ updates = 0 /\ failures = 0 /\ restarts = 0
        /\ overlapped = FALSE

Goto(p, from, to) == pc[p] = from /\ pc' = [pc EXCEPT ![p] = to]

(* What p carried is forgotten as it becomes idle.                         *)
Return(p) == /\ pc' = [pc EXCEPT ![p] = "idle"]
             /\ mine' = [mine EXCEPT ![p] = Unread]
             /\ saw' = [saw EXCEPT ![p] = FALSE]

CountFailure == /\ failures < MaxFailures
                /\ failures' = failures + 1
                /\ UNCHANGED <<updates, restarts>>

-----------------------------------------------------------------------------
(* Update                                                                  *)

Updating == {p \in Savers : pc[p] \in {"save", "unit", "name", "iface", "block"}}

Update(p, c) == /\ updates < MaxUpdates
                /\ Goto(p, "idle", "save")
                /\ cfg' = c
                /\ mine' = [mine EXCEPT ![p] = c]
                /\ overlapped' = (overlapped \/ Updating # {})
                /\ updates' = updates + 1
                /\ UNCHANGED <<file, unit, guard, saw, drops, failures, restarts>>

(* Save writes the configuration of this moment.                           *)
Save(p) == /\ Goto(p, "save", "unit")
           /\ file' = cfg
           /\ UNCHANGED <<cfg, unit, guard, local, drops, tally, overlapped>>

(* The error return: s.cfg is new, the file and all managers are old.      *)
SaveFails(p) == /\ pc[p] = "save"
                /\ Return(p)
                /\ CountFailure
                /\ UNCHANGED <<store, drops, overlapped>>

(* onChange: pppoeMgr.UpdateConfig ... guard.UpdateConfig, SetBlockPPPoE.  *)
SetUnit(p) == /\ Goto(p, "unit", "name")
              /\ unit' = mine[p].iface
              /\ UNCHANGED <<cfg, file, guard, local, drops, tally, overlapped>>

IfaceName(p) == /\ Goto(p, "name", "iface")
                /\ mine' = [mine EXCEPT ![p].iface = unit]
                /\ UNCHANGED <<store, saw, drops, tally, overlapped>>

UpdateConfigLost(p) ==              \* bug: the guard is told of block only
    /\ Goto(p, "iface", "block")
    /\ UNCHANGED <<store, local, drops, tally, overlapped>>

UpdateConfig(p) == /\ Goto(p, "iface", "block")
                   /\ guard' = [guard EXCEPT !.iface = mine[p].iface]
                   /\ UNCHANGED <<cfg, file, unit, local, drops, tally,
                                  overlapped>>

SetBlock(p) == /\ Goto(p, "block", "snapshot")
               /\ guard' = [guard EXCEPT !.block = mine[p].block]
               /\ UNCHANGED <<cfg, file, unit, local, drops, tally, overlapped>>

-----------------------------------------------------------------------------
(* RunOnce, by a saver at the end of its update or by the ticker's loop    *)

Snapshot(p) == /\ Goto(p, IF p = Ticker THEN "idle" ELSE "snapshot", "check")
               /\ mine' = [mine EXCEPT ![p] = guard]
               /\ UNCHANGED <<store, saw, drops, tally, overlapped>>

(* iptables -C; its failure reads as "no such rule".                       *)
Check(p) == /\ Goto(p, "check", "change")
            /\ saw' = [saw EXCEPT ![p] = drops[mine[p].iface] > 0]
            /\ UNCHANGED <<store, mine, drops, tally, overlapped>>

CheckFails(p) == /\ drops[mine[p].iface] > 0
                 /\ Goto(p, "check", "change")
                 /\ CountFailure
                 /\ UNCHANGED <<store, local, drops, overlapped>>

AddUnchecked(p) ==                  \* bug: -A without looking at -C
    /\ pc[p] = "change" /\ Return(p)
    /\ LET i == mine[p].iface IN
       drops' = IF mine[p].block THEN [drops EXCEPT ![i] = @ + 1]
                ELSE IF saw[p] /\ drops[i] > 0 THEN [drops EXCEPT ![i] = @ - 1]
                ELSE drops
    /\ UNCHANGED <<store, tally, overlapped>>

(* -A when a rule is wanted and none was seen, -D (of one rule, if there   *)
(* still is one) when one was seen and none is wanted.                     *)
Change(p) ==
    /\ pc[p] = "change" /\ Return(p)
    /\ LET i == mine[p].iface IN
       drops' = IF mine[p].block /\ ~saw[p] THEN [drops EXCEPT ![i] = @ + 1]
                ELSE IF ~mine[p].block /\ saw[p] /\ drops[i] > 0
                     THEN [drops EXCEPT ![i] = @ - 1]
                ELSE drops
    /\ UNCHANGED <<store, tally, overlapped>>

ChangeFails(p) == /\ pc[p] = "change" /\ mine[p].block # saw[p]
                  /\ Return(p)
                  /\ CountFailure
                  /\ UNCHANGED <<store, drops, overlapped>>

-----------------------------------------------------------------------------
(* The process ends anywhere; main starts from the file.                   *)
Restart == /\ restarts < MaxRestarts
           /\ restarts' = restarts + 1
           /\ cfg' = file /\ guard' = file /\ unit' = file.iface
           /\ pc' = [p \in Procs |-> "idle"]
           /\ mine' = [p \in Procs |-> Unread]
           /\ saw' = [p \in Procs |-> FALSE]
           /\ overlapped' = FALSE
           /\ UNCHANGED <<file, drops, updates, failures>>

Pass(p) == \/ Snapshot(p) \/ Check(p) \/ CheckFails(p) \/ Change(p) \/ ChangeFails(p)

Apply(p) == \/ Save(p) \/ SaveFails(p) \/ SetUnit(p) \/ IfaceName(p)
            \/ UpdateConfig(p) \/ SetBlock(p)

Next == \/ \E p \in Savers : Apply(p) \/ \E c \in Configs : Update(p, c)
        \/ \E p \in Procs : Pass(p)
        \/ Restart

Spec == Init /\ [][Next]_vars

(* Commands return, the ticker ticks, a save goes on.                      *)
Fairness == /\ \A p \in Savers : WF_vars(Apply(p))
            /\ \A p \in Procs : WF_vars(Pass(p))

FairSpec == Spec /\ Fairness

-----------------------------------------------------------------------------
TypeOK == /\ {cfg, file, guard} \subseteq Configs
          /\ unit \in Ifaces
          /\ pc \in [Procs -> {"idle", "save", "unit", "name", "iface", "block",
                               "snapshot", "check", "change"}]
          /\ mine \in [Procs -> Configs]
          /\ saw \in [Procs -> BOOLEAN]
          /\ drops \in [Ifaces -> Nat]
          /\ updates \in 0..MaxUpdates /\ failures \in 0..MaxFailures
          /\ restarts \in 0..MaxRestarts /\ overlapped \in BOOLEAN

(* -C and -A are two commands, so passes that run together may each add a  *)
(* rule, and so does each -C that fails.  No more than that: a rule for    *)
(* each process and each failure, however often the guard looks.           *)
FewDuplicates ==
    \A i \in Ifaces : drops[i] <= Cardinality(Procs) + failures

(* Whatever happened, when no more settings come the guard makes the       *)
(* kernel what it is configured to: a rule on its interface just when it   *)
(* blocks (duplicates of a time when it did are taken away one per pass).  *)
(* And what it is configured to is what the file says, unless two updates  *)
(* overlapped: also after a save that failed, and after a restart in the   *)
(* middle of an update.                                                    *)
GuardConverges ==
    /\ \A c \in Configs :
          <>[](guard = c) => <>[](drops[c.iface] > 0 <=> c.block)
    /\ <>[](guard = file \/ overlapped)
=============================================================================
