------------------------------- MODULE Pppoe -------------------------------
(***************************************************************************)
(* pppoe.Manager (internal/pppoe/pppoe.go): one pppd child driven by       *)
(*   - callers: Start (main, a stream or recording that finds the link     *)
(*     down), Retry (the web page), Shutdown (main's last defer), and the  *)
(*     idle timer's Stop;                                                  *)
(*   - one waitLoop goroutine per launched pppd;                           *)
(*   - reconnect goroutines, here one chain per waitLoop that asked for it *)
(*     (a chain that fails reschedules itself).                            *)
(* Every critical section of m.mu is one step; signals, launches and waits *)
(* happen between them.  A pppd, its waitLoop and the chain it may start   *)
(* are numbered by the generation of the Start that launched it.           *)
(***************************************************************************)
EXTENDS Integers, FiniteSets

CONSTANTS Callers,      \* goroutines that call the manager, one call at a time
          Calls,        \* what they call: a subset of {"start", "retry", "shutdown"}
          Modes,        \* the values of the on-demand setting
          MaxGen        \* bound: how many times Start gets past its checks

ASSUME MaxGenAssumption == MaxGen \in Nat \ {0}
ASSUME ModesAssumption == Modes \subseteq BOOLEAN
ASSUME CallersAssumption == Callers \cap (0..MaxGen) = {}

Gens    == 1..MaxGen
Chains  == Gens             \* reconnect chain g was started by waitLoop g
Threads == Callers \cup Chains
None    == 0                \* nil: no process, no channel

VARIABLES
  \* the fields of Manager under m.mu
  cmd, starting, status, stopped, terminated, gen, onDemand,
  idleTimer,          \* m.idleTimer is running
  cancel,             \* m.reconnectCancel: the chain it would cancel, or None
  \* the pppd processes and their waitLoops
  proc,               \* [Gens -> {"none", "alive", "term", "dead"}]
  loop,               \* where waitLoop g is
  chan,               \* the stopCh it captured: "none", "current", "closed", "lost"
  \* the goroutines that run Start, Stop, Retry, Shutdown and the reconnect
  pc,
  then,               \* where the thread goes when the Stop it runs returns
  my,                 \* Start's generation; Stop's copy of m.cmd
  voided,             \* m.epoch is no longer the one a chain remembers
  cancelled,          \* a chain's cancel channel is closed
  overtaken           \* history: the chains whose wait a Stop has come into

manager == <<cmd, starting, status, stopped, terminated, gen, onDemand,
             idleTimer, cancel>>
pppd    == <<proc, loop, chan>>
threads == <<pc, then, my, voided, cancelled, overtaken>>
vars    == <<manager, pppd, threads>>

Init ==
    /\ cmd = None /\ starting = FALSE /\ status = "idle"
    /\ stopped = FALSE /\ terminated = FALSE /\ gen = 0
    /\ onDemand \in Modes /\ idleTimer = FALSE /\ cancel = None
    /\ proc = [g \in Gens |-> "none"]
    /\ loop = [g \in Gens |-> "none"]
    /\ chan = [g \in Gens |-> "none"]
    /\ pc = [t \in Threads |-> "idle"]
    /\ then = [t \in Threads |-> "idle"]
    /\ my = [t \in Threads |-> None]
    /\ voided = [c \in Chains |-> FALSE]
    /\ cancelled = [c \in Chains |-> FALSE]
    /\ overtaken = {}

-----------------------------------------------------------------------------
(* Helpers                                                                 *)

Goto(t, l) == pc' = [pc EXCEPT ![t] = l]

(* A Start or a Stop is over and its locals with it.                       *)
Return(t, l) == /\ Goto(t, l)
                /\ my' = [my EXCEPT ![t] = None]
                /\ then' = [then EXCEPT ![t] = "idle"]

AfterAnyone(t, ok) == IF ok THEN "idle" ELSE "resched"  \* bug

(* Where Start returns to: a reconnect chain looks at the error.           *)
After(t, ok) == IF t \in Chains /\ ~ok THEN "resched" ELSE "idle"

Signalled(g) == IF g # None /\ proc[g] = "alive"
                THEN [proc EXCEPT ![g] = "term"] ELSE proc

(* waitWg's counter is the number of waitLoops that run.                   *)
AllEnded(ls) == \A g \in Gens : ls[g] = "none"

(* close of chain c's cancel channel; only a sleeping chain listens to it. *)
Closing(c) == IF c # None /\ pc[c] = "sleep"
              THEN [cancelled EXCEPT ![c] = TRUE] ELSE cancelled

(* close(m.reconnectCancel), if there is one, and forget it.               *)
CancelReconnect ==
    /\ cancelled' = Closing(cancel)
    /\ cancel' = None

-----------------------------------------------------------------------------
(* Start                                                                   *)

Refuse(t) ==
    /\ pc[t] = "start"
    /\ terminated \/ cmd # None \/ starting
    /\ Return(t, After(t, FALSE))
    /\ UNCHANGED <<manager, pppd, voided, overtaken, cancelled>>

(* The "starting" place is taken, and the manager reset, under the lock.   *)
ReserveIf(t, free) ==
    /\ pc[t] = "start"
    /\ free
    /\ gen < MaxGen
    /\ starting' = TRUE
    /\ gen' = gen + 1
    /\ status' = "connecting"
    /\ stopped' = FALSE
    /\ chan' = [g \in Gens |-> IF chan[g] = "current" THEN "lost" ELSE chan[g]]
    /\ CancelReconnect
    /\ my' = [my EXCEPT ![t] = gen + 1]
    /\ Goto(t, "launch")
    /\ UNCHANGED <<cmd, terminated, onDemand, idleTimer, proc, loop, then,
                   voided, overtaken>>

ReserveTwice(t) == ReserveIf(t, ~terminated /\ cmd = None)  \* bug
ReserveLate(t)  == ReserveIf(t, cmd = None /\ ~starting)    \* bug

Reserve(t) == ReserveIf(t, ~terminated /\ cmd = None /\ ~starting)

Launch(t) ==
    /\ pc[t] = "launch"
    /\ proc' = [proc EXCEPT ![my[t]] = "alive"]
    /\ Goto(t, "register")
    /\ UNCHANGED <<manager, loop, chan, then, my, voided, overtaken, cancelled>>

(* Writing the secrets or the options, or cmd.Start, failed: fail().       *)
LaunchFail(t) ==
    /\ pc[t] = "launch"
    /\ starting' = FALSE
    /\ Goto(t, "failed")
    /\ UNCHANGED <<cmd, status, stopped, terminated, gen, onDemand,
                   idleTimer, cancel, pppd, then, my, voided, overtaken, cancelled>>

Failed(t) ==
    /\ pc[t] = "failed"
    /\ status' = "error"
    /\ Return(t, After(t, FALSE))
    /\ UNCHANGED <<cmd, starting, stopped, terminated, gen, onDemand,
                   idleTimer, cancel, pppd, voided, overtaken, cancelled>>

RegisterAnyway(t) ==            \* bug: a Stop during the launch goes unseen
    /\ pc[t] = "register"
    /\ starting' = FALSE
    /\ cmd' = my[t]
    /\ idleTimer' = FALSE
    /\ loop' = [loop EXCEPT ![my[t]] = "begin"]
    /\ Goto(t, "iface")
    /\ UNCHANGED <<status, stopped, terminated, gen, onDemand, cancel,
                   proc, chan, then, my, voided, overtaken, cancelled>>

(* The process is registered, its waitLoop counted under the same lock.    *)
Register(t) == ~stopped /\ RegisterAnyway(t)

(* Stop came while starting: the process is killed, never registered.      *)
Disown(t) ==
    /\ pc[t] = "register"
    /\ stopped
    /\ starting' = FALSE
    /\ Goto(t, "kill")
    /\ UNCHANGED <<cmd, status, stopped, terminated, gen, onDemand,
                   idleTimer, cancel, pppd, then, my, voided, overtaken, cancelled>>

Kill(t) ==
    /\ pc[t] = "kill"
    /\ proc' = Signalled(my[t])
    /\ Return(t, After(t, FALSE))
    /\ UNCHANGED <<manager, loop, chan, voided, overtaken, cancelled>>

(* waitForIface saw ppp<unit>, which some pppd holds.                      *)
IfaceReady(t) ==
    /\ pc[t] = "iface"
    /\ \E g \in Gens : proc[g] \in {"alive", "term"}
    /\ Goto(t, "confirm")
    /\ UNCHANGED <<manager, pppd, then, my, voided, overtaken, cancelled>>

(* 15 seconds without it: Start stops its own attempt.                     *)
IfaceTimeout(t) ==
    /\ pc[t] = "iface"
    /\ Goto(t, "stop")
    /\ then' = [then EXCEPT ![t] = After(t, FALSE)]
    /\ UNCHANGED <<manager, pppd, my, voided, overtaken, cancelled>>

Confirm(t) ==
    /\ pc[t] = "confirm"
    /\ IF stopped \/ status = "error"
       THEN Return(t, After(t, FALSE)) /\ UNCHANGED status
       ELSE Return(t, After(t, TRUE)) /\ status' = "up"
    /\ UNCHANGED <<cmd, starting, stopped, terminated, gen, onDemand,
                   idleTimer, cancel, pppd, voided, overtaken, cancelled>>

-----------------------------------------------------------------------------
(* Stop                                                                    *)

StopNothing(t) ==
    /\ pc[t] = "stop"
    /\ stopped
    /\ Return(t, then[t])
    /\ UNCHANGED <<manager, pppd, voided, overtaken, cancelled>>

(* A chain that is scheduled and has not been through its check.           *)
Waiting(c) == pc[c] \in {"sleep", "check"}

(* The manager lets go of its process; old reconnects are voided.          *)
StopVoiding(t, old) ==
    /\ pc[t] = "stop"
    /\ ~stopped
    /\ stopped' = TRUE
    /\ voided' = [c \in Chains |-> c \in old]
    /\ overtaken' = {c \in Chains : Waiting(c)}
    /\ my' = [my EXCEPT ![t] = cmd]
    /\ cmd' = None
    /\ status' = "idle"
    /\ idleTimer' = FALSE
    /\ chan' = [g \in Gens |-> IF chan[g] = "current" THEN "closed" ELSE chan[g]]
    /\ CancelReconnect
    /\ Goto(t, "sigterm")
    /\ UNCHANGED <<starting, terminated, gen, onDemand, proc, loop, then>>

(* bug: relies on the cancel channel, which only the last reconnect has    *)
StopByChannel(t) == StopVoiding(t, {c \in Chains : voided[c]})

StopBegin(t) == StopVoiding(t, {c \in Chains : Waiting(c)})

Sigterm(t) ==
    /\ pc[t] = "sigterm"
    /\ proc' = Signalled(my[t])
    /\ Goto(t, "wait")
    /\ UNCHANGED <<manager, loop, chan, then, my, voided, overtaken, cancelled>>

(* waitWg.Wait with nobody to wait for; otherwise the last waitLoop to end *)
(* wakes the waiters (LoopEnds).                                           *)
NoWait(t) ==
    /\ pc[t] = "wait"
    /\ AllEnded(loop)
    /\ Return(t, then[t])
    /\ UNCHANGED <<manager, pppd, voided, overtaken, cancelled>>

-----------------------------------------------------------------------------
(* Callers, Shutdown and the idle timer                                    *)

CallStart(t) ==
    /\ "start" \in Calls
    /\ pc[t] = "idle" /\ t \in Callers
    /\ Goto(t, "start")
    /\ UNCHANGED <<manager, pppd, then, my, voided, overtaken, cancelled>>

CallRetry(t) ==
    /\ "retry" \in Calls
    /\ pc[t] = "idle" /\ t \in Callers
    /\ Goto(t, "stop")
    /\ then' = [then EXCEPT ![t] = "start"]
    /\ UNCHANGED <<manager, pppd, my, voided, overtaken, cancelled>>

CallShutdown(t) ==
    /\ "shutdown" \in Calls
    /\ pc[t] = "idle" /\ t \in Callers
    /\ ~terminated
    /\ terminated' = TRUE
    /\ cancel' = None
    /\ my' = [my EXCEPT ![t] = cancel]
    /\ Goto(t, "cancel")
    /\ UNCHANGED <<cmd, starting, status, stopped, gen, onDemand,
                   idleTimer, pppd, then, voided, overtaken, cancelled>>

ShutdownCancel(t) ==
    /\ pc[t] = "cancel"
    /\ cancelled' = Closing(my[t])
    /\ my' = [my EXCEPT ![t] = None]
    /\ then' = [then EXCEPT ![t] = "reconwait"]
    /\ Goto(t, "stop")
    /\ UNCHANGED <<manager, pppd, voided, overtaken>>

(* reconnWg.Wait, given up after 5 seconds; main then returns.             *)
ShutdownReturn(t) ==
    /\ pc[t] = "reconwait"
    /\ Goto(t, "exit")
    /\ UNCHANGED <<manager, pppd, then, my, voided, overtaken, cancelled>>

NotifyActivity ==
    /\ idleTimer
    /\ idleTimer' = FALSE
    /\ UNCHANGED <<cmd, starting, status, stopped, terminated, gen,
                   onDemand, cancel, pppd, threads>>

NotifyIdle ==
    /\ onDemand
    /\ idleTimer' = TRUE
    /\ UNCHANGED <<cmd, starting, status, stopped, terminated, gen,
                   onDemand, cancel, pppd, threads>>

(* The timer's goroutine calls Stop; nothing recalls it once it runs.      *)
IdleFires(t) ==
    /\ idleTimer
    /\ pc[t] = "idle" /\ t \in Callers
    /\ idleTimer' = FALSE
    /\ Goto(t, "stop")
    /\ then' = [then EXCEPT ![t] = "idle"]
    /\ UNCHANGED <<cmd, starting, status, stopped, terminated, gen,
                   onDemand, cancel, pppd, my, voided, overtaken, cancelled>>

-----------------------------------------------------------------------------
(* pppd (external) and its waitLoop                                        *)

Crash(g) ==
    /\ proc[g] = "alive"
    /\ proc' = [proc EXCEPT ![g] = "dead"]
    /\ UNCHANGED <<manager, loop, chan, threads>>

ObeySigterm(g) ==
    /\ proc[g] = "term"
    /\ proc' = [proc EXCEPT ![g] = "dead"]
    /\ UNCHANGED <<manager, loop, chan, threads>>

(* The goroutine reads m.stopCh only once it runs: a Stop before that has  *)
(* already closed the channel it should have seen, and made a new one.     *)
LoopBegin(g) ==
    /\ loop[g] = "begin"
    /\ chan' = [chan EXCEPT ![g] = "current"]
    /\ loop' = [loop EXCEPT ![g] = "select"]
    /\ UNCHANGED <<manager, proc, threads>>

LoopSeesExit(g) ==
    /\ loop[g] = "select"
    /\ proc[g] = "dead"
    /\ loop' = [loop EXCEPT ![g] = "exited"]
    /\ UNCHANGED <<manager, proc, chan, threads>>

LoopSeesStop(g) ==
    /\ loop[g] = "select"
    /\ chan[g] = "closed"
    /\ loop' = [loop EXCEPT ![g] = "stopping"]
    /\ UNCHANGED <<manager, proc, chan, threads>>

(* Five seconds after the stop signal: SIGKILL.                            *)
LoopSigkill(g) ==
    /\ loop[g] = "stopping"
    /\ proc[g] # "dead"
    /\ proc' = [proc EXCEPT ![g] = "dead"]
    /\ UNCHANGED <<manager, loop, chan, threads>>

(* waitWg.Done: the last one releases everybody who waits in Stop.         *)
Released(t) == pc[t] = "wait" /\ AllEnded(loop')

LoopEnds(g) ==
    /\ loop' = [loop EXCEPT ![g] = "none"]
    /\ chan' = [chan EXCEPT ![g] = "none"]
    /\ pc' = [t \in Threads |-> IF Released(t) THEN then[t] ELSE pc[t]]
    /\ my' = [t \in Threads |-> IF Released(t) THEN None ELSE my[t]]
    /\ then' = [t \in Threads |-> IF Released(t) THEN "idle" ELSE then[t]]

LoopStopped(g) ==
    /\ loop[g] = "stopping"
    /\ proc[g] = "dead"
    /\ LoopEnds(g)
    /\ UNCHANGED <<manager, proc, voided, overtaken, cancelled>>

(* pppd exited by itself: one critical section reads the flags and drops   *)
(* the registration; what follows acts on the copies.                      *)
ClearCmd(g) == cmd' = IF gen = g /\ cmd = g THEN None ELSE cmd

LoopExitIgnored(g) ==
    /\ loop[g] = "exited"
    /\ stopped \/ gen # g
    /\ ClearCmd(g)
    /\ LoopEnds(g)
    /\ UNCHANGED <<starting, status, stopped, terminated, gen, onDemand,
                   idleTimer, cancel, proc, voided, overtaken, cancelled>>

LoopExitNoted(g) ==
    /\ loop[g] = "exited"
    /\ ~stopped /\ gen = g
    /\ ClearCmd(g)
    /\ loop' = [loop EXCEPT ![g] = IF onDemand THEN "toidle" ELSE "toerror"]
    /\ UNCHANGED <<starting, status, stopped, terminated, gen, onDemand,
                   idleTimer, cancel, proc, chan, threads>>

LoopIdle(g) ==
    /\ loop[g] = "toidle"
    /\ status' = "idle"
    /\ LoopEnds(g)
    /\ UNCHANGED <<cmd, starting, stopped, terminated, gen, onDemand,
                   idleTimer, cancel, proc, voided, overtaken, cancelled>>

LoopError(g) ==
    /\ loop[g] = "toerror"
    /\ status' = "error"
    /\ loop' = [loop EXCEPT ![g] = "schedule"]
    /\ UNCHANGED <<cmd, starting, stopped, terminated, gen, onDemand,
                   idleTimer, cancel, proc, chan, threads>>

-----------------------------------------------------------------------------
(* scheduleReconnect                                                       *)

MaySchedule == ~stopped /\ ~terminated

(* Chain c's next attempt: a new cancel channel, m.epoch remembered.       *)
Schedule(c) ==
    /\ MaySchedule
    /\ cancel' = c
    /\ voided' = [voided EXCEPT ![c] = FALSE]
    /\ cancelled' = [cancelled EXCEPT ![c] = FALSE]
    /\ overtaken' = overtaken \ {c}

LoopSchedules(g) ==
    /\ loop[g] = "schedule"
    /\ Schedule(g)
    /\ loop' = [loop EXCEPT ![g] = "done"]
    /\ Goto(g, "sleep")
    /\ UNCHANGED <<cmd, starting, status, stopped, terminated, gen,
                   onDemand, idleTimer, proc, chan, then, my>>

LoopDone(g) ==
    /\ loop[g] = "done"
    /\ LoopEnds(g)
    /\ UNCHANGED <<manager, proc, voided, overtaken, cancelled>>

LoopGivesUp(g) ==
    /\ loop[g] = "schedule"
    /\ ~MaySchedule
    /\ LoopEnds(g)
    /\ UNCHANGED <<manager, proc, voided, overtaken, cancelled>>

Wake(c) ==
    /\ pc[c] = "sleep"
    /\ Goto(c, "check")
    /\ cancelled' = [cancelled EXCEPT ![c] = FALSE]
    /\ UNCHANGED <<manager, pppd, then, my, voided, overtaken>>

WakeCancelled(c) ==
    /\ pc[c] = "sleep"
    /\ cancelled[c]
    /\ Goto(c, "idle")
    /\ cancelled' = [cancelled EXCEPT ![c] = FALSE]
    /\ voided' = [voided EXCEPT ![c] = FALSE]
    /\ overtaken' = overtaken \ {c}
    /\ UNCHANGED <<manager, pppd, then, my>>

(* The epoch is checked in one critical section, Start runs in another: a  *)
(* Stop that comes between finds nothing to void.                          *)
CheckEpoch(c) ==
    /\ pc[c] = "check"
    /\ Goto(c, IF terminated \/ voided[c] THEN "idle" ELSE "start")
    /\ voided' = [voided EXCEPT ![c] = FALSE]
    /\ overtaken' = IF pc'[c] = "idle" THEN overtaken \ {c} ELSE overtaken
    /\ UNCHANGED <<manager, pppd, then, my, cancelled>>

Reschedule(c) ==
    /\ pc[c] = "resched"
    /\ Schedule(c)
    /\ Goto(c, "sleep")
    /\ UNCHANGED <<cmd, starting, status, stopped, terminated, gen,
                   onDemand, idleTimer, pppd, then, my>>

GiveUp(c) ==
    /\ pc[c] = "resched"
    /\ ~MaySchedule
    /\ Goto(c, "idle")
    /\ UNCHANGED <<manager, pppd, then, my, voided, overtaken, cancelled>>

SetOnDemand ==
    /\ onDemand' \in Modes \ {onDemand}
    /\ UNCHANGED <<cmd, starting, status, stopped, terminated, gen,
                   idleTimer, cancel, pppd, threads>>

-----------------------------------------------------------------------------
StartStep(t) == \/ Refuse(t) \/ Reserve(t) \/ Launch(t) \/ LaunchFail(t)
                \/ Failed(t) \/ Register(t) \/ Disown(t) \/ Kill(t)
                \/ IfaceReady(t) \/ IfaceTimeout(t) \/ Confirm(t)
StopStep(t)  == StopNothing(t) \/ StopBegin(t) \/ Sigterm(t) \/ NoWait(t)
Call(t)      == \/ CallStart(t) \/ CallRetry(t) \/ CallShutdown(t)
                \/ IdleFires(t)
ShutStep(t)  == ShutdownCancel(t) \/ ShutdownReturn(t)
LoopStep(g)  == \/ LoopBegin(g) \/ LoopSeesExit(g) \/ LoopSeesStop(g)
                \/ LoopSigkill(g) \/ LoopStopped(g) \/ LoopExitIgnored(g)
                \/ LoopExitNoted(g) \/ LoopIdle(g) \/ LoopError(g)
                \/ LoopSchedules(g) \/ LoopDone(g) \/ LoopGivesUp(g)
ChainStep(c) == \/ Wake(c) \/ WakeCancelled(c) \/ CheckEpoch(c)
                \/ Reschedule(c) \/ GiveUp(c)

Next == \/ \E t \in Threads : StartStep(t) \/ StopStep(t)
        \/ \E t \in Callers : Call(t) \/ ShutStep(t)
        \/ \E g \in Gens : Crash(g) \/ ObeySigterm(g) \/ LoopStep(g)
        \/ \E c \in Chains : ChainStep(c)
        \/ NotifyActivity \/ NotifyIdle \/ SetOnDemand

Spec == Init /\ [][Next]_vars

-----------------------------------------------------------------------------
StartStates == {"idle", "start", "launch", "register", "kill", "failed",
                "iface", "confirm", "stop", "sigterm", "wait"}

TypeOK ==
    /\ cmd \in 0..MaxGen /\ gen \in 0..MaxGen /\ cancel \in 0..MaxGen
    /\ {starting, stopped, terminated, onDemand, idleTimer} \subseteq BOOLEAN
    /\ status \in {"idle", "connecting", "up", "error"}
    /\ proc \in [Gens -> {"none", "alive", "term", "dead"}]
    /\ loop \in [Gens -> {"none", "begin", "select", "stopping", "exited",
                          "toidle", "toerror", "schedule", "done"}]
    /\ chan \in [Gens -> {"none", "current", "closed", "lost"}]
    /\ pc \in [Threads -> StartStates \cup {"cancel", "reconwait", "exit",
                                          "sleep", "check", "resched"}]
    /\ \A t \in Callers : pc[t] \notin {"sleep", "check", "resched"}
    /\ \A c \in Chains : pc[c] \notin {"cancel", "reconwait", "exit"}
    /\ then \in [Threads -> {"idle", "start", "reconwait", "resched"}]
    /\ my \in [Threads -> 0..MaxGen]
    /\ voided \in [Chains -> BOOLEAN] /\ cancelled \in [Chains -> BOOLEAN]
    /\ overtaken \subseteq Chains

(* Start's comment (109-111): concurrent Starts (manual retry, on-demand   *)
(* dialling, reconnect) launch one pppd between them.  One thread at most  *)
(* is between taking the place and registering, and nothing is registered  *)
(* meanwhile, although Stop may come and go.                               *)
StartIsExclusive ==
    /\ \A t, u \in Threads :
         pc[t] \in {"launch", "register"} /\ pc[u] \in {"launch", "register"} => t = u
    /\ \A t \in Threads :
         pc[t] \in {"launch", "register"} => starting /\ cmd = None

(* No pppd escapes: one that runs unsignalled is registered and Stop would *)
(* act on it, or some thread is about to register or to signal it.  (A     *)
(* Stop in the launch window finds no process, and is remembered.)         *)
NoStrayPppd == \A g \in Gens : proc[g] = "alive" =>
    \/ cmd = g /\ ~stopped /\ loop[g] # "none"
    \/ \E t \in Threads : my[t] = g /\ pc[t] \in {"register", "kill", "sigterm"}

(* What the epoch is for (447): a reconnect that a Stop finds asleep or    *)
(* before its check, also one whose cancel channel was overwritten by a    *)
(* later one, never gets to Start, whatever Starts and Stops follow; and   *)
(* none is scheduled while the Stop stands.  One that is between its check *)
(* (455) and Start (458) is not held back: NoDialAfterStop.                *)
StopVoidsReconnects ==
    /\ \A c \in overtaken : Waiting(c)
    /\ stopped => \A c \in Chains : Waiting(c) => c \in overtaken

(* Shutdown's comment (241-243): no pppd outlives it, wherever a           *)
(* reconnect, a retry or an on-demand Start was when it came.  Once it has *)
(* returned nothing is registered and the stop still stands; by            *)
(* NoStrayPppd a pppd that is left is about to get its signal.             *)
ShutdownIsFinal ==
    (\E t \in Callers : pc[t] = "exit") => terminated /\ stopped /\ cmd = None

-----------------------------------------------------------------------------
(* What comments in the code say and the code does not do.                 *)

(* "Once Stop() returns it is safe to Start() again" (237): while no Stop  *)
(* is under way, two pppd never run at once.  The pppd of a launch that    *)
(* Stop overtook is in nobody's waitLoop (164-171).                        *)
StopUnderWay == \E t \in Threads : pc[t] \in {"sigterm", "wait"}
OnePppd == ~StopUnderWay =>
    Cardinality({g \in Gens : proc[g] \in {"alive", "term"}}) <= 1

(* "Stop() has waited until waitLoop is done" (271), Retry says before it  *)
(* calls Start: also when its Stop finds another one under way.            *)
EveryStopWaits ==
    [][\A t \in Threads :
         StopNothing(t) /\ then[t] = "start" => AllEnded(loop)]_vars

(* The epoch check is there because "otherwise this goroutine would call   *)
(* Start after Stop has returned", and Start resets stopped (447-448): no  *)
(* reconnect takes the place from under a Stop that is over.               *)
NoDialAfterStop ==
    [][\A c \in Chains : Reserve(c) /\ stopped => StopUnderWay]_vars

(* generation keeps "an old waitLoop from overwriting the status" (64).    *)
StaleLoopIsSilent ==
    [][\A g \in Gens : loop[g] \in {"toidle", "toerror"} /\ status' # status
          => gen = g]_vars

(* "Reconnect with exponential backoff" (423, 460), in a configuration     *)
(* where nobody calls Stop: a failed attempt schedules the next one.       *)
ReconnectGoesOn ==
    [][\A c \in Chains : pc[c] = "resched" => pc'[c] # "idle"]_vars
=============================================================================
