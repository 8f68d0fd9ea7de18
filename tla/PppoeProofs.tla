----------------------------- MODULE PppoeProofs -----------------------------
(* One launch at a time, no pppd out of reach, a Stop that voids the       *)
(* reconnects still at their sleep or check and a Shutdown that is final,  *)
(* for any number of callers and launches.                                 *)
EXTENDS Pppoe, TLAPS

(* A caller and a reconnect chain return from Stop to places of their own. *)
Returning ==
    /\ \A t \in Callers : then[t] \in {"idle", "start", "reconwait"}
    /\ \A c \in Chains : then[c] \in {"idle", "resched"}

(* Whoever launches has the newest generation, which has no waitLoop yet   *)
(* and no reconnect chain.                                                 *)
Newest == \A t \in Threads : pc[t] \in {"launch", "register"} =>
    /\ my[t] = gen /\ gen \in Gens
    /\ loop[gen] = "none" /\ pc[gen] = "idle"

(* A chain runs only when the waitLoop that starts it is at its end.       *)
Chained == \A c \in Chains :
    /\ gen < c => loop[c] = "none" /\ pc[c] = "idle"
    /\ loop[c] \notin {"none", "done"} => pc[c] = "idle"

(* A waitLoop that is past its select has seen its pppd exit.              *)
Ended == \A g \in Gens :
    loop[g] \in {"exited", "toidle", "toerror", "schedule", "done"}
       => proc[g] = "dead"

(* A chain that a Stop found waiting remembers an epoch that is gone, until*)
(* it sees so: Starts that follow do not bring the epoch back.             *)
Voids == \A c \in overtaken : voided[c]

(* Stop lets go of the process, and nothing is registered after it.        *)
LetGo == stopped => cmd = None

(* Shutdown forbids every Start before it stops, so its Stop stands.       *)
Shutting == \A t \in Callers :
    /\ pc[t] = "cancel" \/ then[t] = "reconwait" => terminated
    /\ \/ pc[t] \in {"reconwait", "exit"}
       \/ then[t] = "reconwait" /\ pc[t] \in {"sigterm", "wait"}
       => terminated /\ stopped

Types    == TypeOK /\ Returning
Launches == StartIsExclusive /\ Newest /\ Chained
Children == NoStrayPppd /\ Ended
Stops    == StopVoidsReconnects /\ Voids /\ LetGo /\ Shutting

PInv == Types /\ Launches /\ Children /\ Stops

-----------------------------------------------------------------------------
LEMMA Apart == \A t \in Callers, c \in Chains : t # c
  BY CallersAssumption, MaxGenAssumption DEF Chains, Gens

(* Start returns, with the link up or, after a Stop or an exit, without.   *)
LEMMA WhenConfirmed == \A t \in Threads : Confirm(t) =>
    /\ pc[t] = "confirm" /\ pppd' = pppd
    /\ my' = [my EXCEPT ![t] = None] /\ then' = [then EXCEPT ![t] = "idle"]
    /\ cmd' = cmd /\ starting' = starting /\ stopped' = stopped
    /\ terminated' = terminated /\ gen' = gen /\ onDemand' = onDemand
    /\ idleTimer' = idleTimer /\ cancel' = cancel
    /\ voided' = voided /\ cancelled' = cancelled /\ overtaken' = overtaken
    /\ status' \in {status, "up"}
    /\ \/ pc' = [pc EXCEPT ![t] = "idle"]
       \/ t \in Chains /\ pc' = [pc EXCEPT ![t] = "resched"]
<1> TAKE t \in Threads
<1> HAVE Confirm(t)
<1>1. CASE stopped \/ status = "error"
  BY <1>1 DEF Confirm, Return, Goto, After, pppd
<1>2. CASE ~(stopped \/ status = "error")
  BY <1>2 DEF Confirm, Return, Goto, After, pppd
<1> QED
  BY <1>1, <1>2

(* The end of a waitLoop: those who waited for the last one go on.         *)
LEMMA WhenLoopEnds ==
    ASSUME Types, NEW g \in Gens, LoopEnds(g)
    PROVE  /\ loop' = [loop EXCEPT ![g] = "none"]
           /\ chan' = [chan EXCEPT ![g] = "none"]
           /\ \A t \in Threads :
                \/ pc'[t] = pc[t] /\ my'[t] = my[t] /\ then'[t] = then[t]
                \/ /\ pc[t] = "wait" /\ pc'[t] = then[t]
                   /\ my'[t] = None /\ then'[t] = "idle"
  BY DEF LoopEnds, Released

LEMMA LoopEndsTypes ==
    ASSUME Types, NEW g \in Gens, LoopEnds(g),
           cmd' \in 0..MaxGen, gen' = gen, cancel' = cancel, proc' = proc,
           starting' = starting, stopped' = stopped, terminated' = terminated,
           onDemand' = onDemand, idleTimer' = idleTimer,
           status' \in {"idle", "connecting", "up", "error"},
           voided' = voided, cancelled' = cancelled, overtaken' = overtaken
    PROVE  Types'
<1> USE CallersAssumption DEF Types, TypeOK, Returning, StartStates
<1>1. /\ loop' \in [Gens -> {"none", "begin", "select", "stopping", "exited",
                             "toidle", "toerror", "schedule", "done"}]
      /\ chan' \in [Gens -> {"none", "current", "closed", "lost"}]
  BY DEF LoopEnds
<1>2. \A t \in Threads :
        /\ pc'[t] \in {pc[t], then[t]} /\ my'[t] \in {None, my[t]}
        /\ then'[t] \in {"idle", then[t]}
  BY DEF LoopEnds
<1>3. /\ pc' = [t \in Threads |-> pc'[t]] /\ my' = [t \in Threads |-> my'[t]]
      /\ then' = [t \in Threads |-> then'[t]]
  BY DEF LoopEnds
<1>4. \A t \in Threads : my'[t] \in 0..MaxGen
  BY <1>2, MaxGenAssumption DEF None
<1>5. /\ pc' \in [Threads -> StartStates \cup {"cancel", "reconwait", "exit",
                                              "sleep", "check", "resched"}]
      /\ then' \in [Threads -> {"idle", "start", "reconwait", "resched"}]
      /\ my' \in [Threads -> 0..MaxGen]
  <2>1. \A t \in Threads : /\ then[t] \in {"idle", "start", "reconwait", "resched"}
                            /\ pc[t] \in StartStates \cup {"cancel", "reconwait", "exit",
                                              "sleep", "check", "resched"}
    OBVIOUS
  <2> QED
    BY <1>2, <1>3, <1>4, <2>1
<1>6. \A t \in Callers : /\ pc'[t] \notin {"sleep", "check", "resched"}
                          /\ then'[t] \in {"idle", "start", "reconwait"}
  BY <1>2 DEF Threads
<1>7. \A c \in Chains : /\ pc'[c] \notin {"cancel", "reconwait", "exit"}
                         /\ then'[c] \in {"idle", "resched"}
  BY <1>2 DEF Threads
<1> QED
  BY <1>1, <1>5, <1>6, <1>7

(* Every step keeps the types: one step of the proof per action, with the *)
(* cases that touch many fields broken up.                                 *)
LEMMA StepTypes ==
    ASSUME Types, [Next]_vars PROVE Types'
<1> USE MaxGenAssumption, ModesAssumption, CallersAssumption
        DEF Types, TypeOK, Returning, StartStates, Threads, Chains, Gens, None
<1>1. ASSUME NEW t \in Threads, Refuse(t) PROVE Types'
  BY <1>1 DEF Refuse, Goto, Return, After, manager, pppd
<1>2. ASSUME NEW t \in Threads, Reserve(t) PROVE Types'
  <2>1. gen' \in 0..MaxGen /\ my' \in [Threads -> 0..MaxGen]
    BY <1>2 DEF Reserve, ReserveIf
  <2>2. chan' \in [Gens -> {"none", "current", "closed", "lost"}]
    BY <1>2 DEF Reserve, ReserveIf
  <2>3. cancelled' \in [Chains -> BOOLEAN] /\ cancel' \in 0..MaxGen
    BY <1>2 DEF Reserve, ReserveIf, CancelReconnect, Closing
  <2>4. pc' = [pc EXCEPT ![t] = "launch"]
    BY <1>2 DEF Reserve, ReserveIf, Goto
  <2> QED
    BY <1>2, <2>1, <2>2, <2>3, <2>4 DEF Reserve, ReserveIf
<1>3. ASSUME NEW t \in Threads, Launch(t) PROVE Types'
  BY <1>3 DEF Launch, Goto, manager
<1>4. ASSUME NEW t \in Threads, LaunchFail(t) PROVE Types'
  BY <1>4 DEF LaunchFail, Goto, pppd
<1>5. ASSUME NEW t \in Threads, Failed(t) PROVE Types'
  BY <1>5 DEF Failed, Goto, Return, After, pppd
<1>6. ASSUME NEW t \in Threads, Register(t) PROVE Types'
  BY <1>6 DEF Register, Goto, RegisterAnyway
<1>7. ASSUME NEW t \in Threads, Disown(t) PROVE Types'
  BY <1>7 DEF Disown, Goto, pppd
<1>8. ASSUME NEW t \in Threads, Kill(t) PROVE Types'
  BY <1>8 DEF Kill, Goto, Return, After, Signalled, manager
<1>9. ASSUME NEW t \in Threads, IfaceReady(t) PROVE Types'
  BY <1>9 DEF IfaceReady, Goto, manager, pppd
<1>10. ASSUME NEW t \in Threads, IfaceTimeout(t) PROVE Types'
  BY <1>10 DEF IfaceTimeout, Goto, After, manager, pppd
<1>11. ASSUME NEW t \in Threads, Confirm(t) PROVE Types'
  <2>1. /\ my' = [my EXCEPT ![t] = None] /\ then' = [then EXCEPT ![t] = "idle"]
        /\ status' \in {status, "up"}
    BY <1>11, WhenConfirmed
  <2>2. /\ my' \in [Threads -> 0..MaxGen]
        /\ then' \in [Threads -> {"idle", "start", "reconwait", "resched"}]
        /\ status' \in {"idle", "connecting", "up", "error"}
    <3>1. 0 \in 0..MaxGen
      OBVIOUS
    <3> QED
      BY <2>1, <3>1
  <2>3. Returning'
    BY <2>1
  <2>4. \/ pc' = [pc EXCEPT ![t] = "idle"]
        \/ t \in Chains /\ pc' = [pc EXCEPT ![t] = "resched"]
    BY <1>11, WhenConfirmed
  <2>5. pc' \in [Threads -> StartStates \cup {"cancel", "reconwait", "exit",
                                            "sleep", "check", "resched"}]
    BY <2>4
  <2>6. \A u \in Callers : pc'[u] \notin {"sleep", "check", "resched"}
    BY <2>4, Apart
  <2>7. \A c \in Chains : pc'[c] \notin {"cancel", "reconwait", "exit"}
    BY <2>4
  <2>8. /\ pppd' = pppd /\ cmd' = cmd /\ starting' = starting /\ stopped' = stopped
        /\ terminated' = terminated /\ gen' = gen /\ onDemand' = onDemand
        /\ idleTimer' = idleTimer /\ cancel' = cancel
        /\ voided' = voided /\ cancelled' = cancelled /\ overtaken' = overtaken
    BY <1>11, WhenConfirmed
  <2> QED
    BY <2>2, <2>3, <2>5, <2>6, <2>7, <2>8 DEF pppd
<1>12. ASSUME NEW t \in Threads, StopNothing(t) PROVE Types'
  BY <1>12 DEF StopNothing, Goto, Return, manager, pppd
<1>13. ASSUME NEW t \in Threads, StopBegin(t) PROVE Types'
  <2>1. chan' \in [Gens -> {"none", "current", "closed", "lost"}]
    BY <1>13 DEF StopBegin, StopVoiding
  <2>2. cancelled' \in [Chains -> BOOLEAN] /\ cancel' \in 0..MaxGen
    BY <1>13 DEF StopBegin, StopVoiding, CancelReconnect, Closing
  <2>3. voided' \in [Chains -> BOOLEAN] /\ my' \in [Threads -> 0..MaxGen]
    BY <1>13 DEF StopBegin, StopVoiding
  <2>4. pc' = [pc EXCEPT ![t] = "sigterm"]
    BY <1>13 DEF StopBegin, StopVoiding, Goto
  <2>5. /\ stopped' = TRUE /\ cmd' = 0 /\ status' = "idle" /\ idleTimer' = FALSE
        /\ starting' = starting /\ terminated' = terminated /\ gen' = gen
        /\ onDemand' = onDemand /\ proc' = proc /\ loop' = loop /\ then' = then
    BY <1>13 DEF StopBegin, StopVoiding
  <2>6. 0 \in 0..MaxGen /\ Returning' /\ overtaken' \subseteq Chains
    BY <1>13, <2>5 DEF StopBegin, StopVoiding
  <2>7. /\ pc' \in [Threads -> StartStates \cup {"cancel", "reconwait", "exit",
                                              "sleep", "check", "resched"}]
        /\ \A u \in Callers : pc'[u] \notin {"sleep", "check", "resched"}
        /\ \A c \in Chains : pc'[c] \notin {"cancel", "reconwait", "exit"}
    BY <2>4
  <2> QED
    BY <2>1, <2>2, <2>3, <2>5, <2>6, <2>7
<1>14. ASSUME NEW t \in Threads, Sigterm(t) PROVE Types'
  BY <1>14 DEF Sigterm, Goto, Signalled, manager
<1>15. ASSUME NEW t \in Threads, NoWait(t) PROVE Types'
  BY <1>15 DEF NoWait, Goto, Return, AllEnded, manager, pppd
<1>16. ASSUME NEW t \in Callers, CallStart(t) PROVE Types'
  BY <1>16 DEF CallStart, Goto, manager, pppd
<1>17. ASSUME NEW t \in Callers, CallRetry(t) PROVE Types'
  <2>1. pc' = [pc EXCEPT ![t] = "stop"] /\ then' = [then EXCEPT ![t] = "start"]
    BY <1>17 DEF CallRetry, Goto
  <2>2. \A c \in Chains : then'[c] = then[c] /\ pc'[c] = pc[c]
    BY <2>1, Apart
  <2> QED
    BY <1>17, <2>1, <2>2 DEF CallRetry, manager, pppd
<1>18. ASSUME NEW t \in Callers, CallShutdown(t) PROVE Types'
  <2>1. /\ pc' = [pc EXCEPT ![t] = "cancel"] /\ my' = [my EXCEPT ![t] = cancel]
        /\ cancel' = 0 /\ terminated' = TRUE
    BY <1>18 DEF CallShutdown, Goto
  <2>2. \A c \in Chains : pc'[c] = pc[c]
    BY <2>1, Apart
  <2> QED
    BY <1>18, <2>1, <2>2 DEF CallShutdown, pppd
<1>19. ASSUME NEW t \in Callers, IdleFires(t) PROVE Types'
  BY <1>19 DEF IdleFires, Goto, pppd
<1>20. ASSUME NEW t \in Callers, ShutdownCancel(t) PROVE Types'
  BY <1>20 DEF ShutdownCancel, Goto, Closing, manager, pppd
<1>21. ASSUME NEW t \in Callers, ShutdownReturn(t) PROVE Types'
  BY <1>21 DEF ShutdownReturn, Goto, manager, pppd
<1>22. ASSUME NEW g \in Gens, Crash(g) PROVE Types'
  BY <1>22 DEF Crash, manager, threads
<1>23. ASSUME NEW g \in Gens, ObeySigterm(g) PROVE Types'
  BY <1>23 DEF ObeySigterm, manager, threads
<1>24. ASSUME NEW g \in Gens, LoopBegin(g) PROVE Types'
  BY <1>24 DEF LoopBegin, manager, threads
<1>25. ASSUME NEW g \in Gens, LoopSeesExit(g) PROVE Types'
  BY <1>25 DEF LoopSeesExit, manager, threads
<1>26. ASSUME NEW g \in Gens, LoopSeesStop(g) PROVE Types'
  BY <1>26 DEF LoopSeesStop, manager, threads
<1>27. ASSUME NEW g \in Gens, LoopSigkill(g) PROVE Types'
  BY <1>27 DEF LoopSigkill, manager, threads
<1>28. ASSUME NEW g \in Gens, LoopStopped(g) PROVE Types'
  BY <1>28, LoopEndsTypes DEF LoopStopped, ClearCmd, manager
<1>29. ASSUME NEW g \in Gens, LoopExitIgnored(g) PROVE Types'
  BY <1>29, LoopEndsTypes DEF LoopExitIgnored, ClearCmd, manager
<1>30. ASSUME NEW g \in Gens, LoopExitNoted(g) PROVE Types'
  BY <1>30 DEF LoopExitNoted, ClearCmd, threads
<1>31. ASSUME NEW g \in Gens, LoopIdle(g) PROVE Types'
  BY <1>31, LoopEndsTypes DEF LoopIdle, ClearCmd, manager
<1>32. ASSUME NEW g \in Gens, LoopError(g) PROVE Types'
  BY <1>32 DEF LoopError, threads
<1>33. ASSUME NEW g \in Gens, LoopSchedules(g) PROVE Types'
  <2>1. /\ pc' = [pc EXCEPT ![g] = "sleep"]
        /\ loop' = [loop EXCEPT ![g] = "done"]
    BY <1>33 DEF LoopSchedules, Goto
  <2>2. \A t \in Callers : pc'[t] = pc[t]
    BY <2>1, Apart
  <2> QED
    BY <1>33, <2>1, <2>2 DEF LoopSchedules, Schedule
<1>34. ASSUME NEW g \in Gens, LoopDone(g) PROVE Types'
  BY <1>34, LoopEndsTypes DEF LoopDone, ClearCmd, manager
<1>35. ASSUME NEW g \in Gens, LoopGivesUp(g) PROVE Types'
  BY <1>35, LoopEndsTypes DEF LoopGivesUp, ClearCmd, manager
<1>36. ASSUME NEW c \in Chains, Wake(c) PROVE Types'
  BY <1>36 DEF Wake, Goto, manager, pppd
<1>37. ASSUME NEW c \in Chains, WakeCancelled(c) PROVE Types'
  BY <1>37 DEF WakeCancelled, Goto, manager, pppd
<1>38. ASSUME NEW c \in Chains, CheckEpoch(c) PROVE Types'
  BY <1>38 DEF CheckEpoch, Goto, manager, pppd
<1>39. ASSUME NEW c \in Chains, Reschedule(c) PROVE Types'
  BY <1>39 DEF Reschedule, Goto, MaySchedule, Schedule, pppd
<1>40. ASSUME NEW c \in Chains, GiveUp(c) PROVE Types'
  BY <1>40 DEF GiveUp, Goto, MaySchedule, manager, pppd
<1>41. CASE NotifyActivity
  BY <1>41 DEF NotifyActivity, pppd, threads
<1>42. CASE NotifyIdle
  BY <1>42 DEF NotifyIdle, pppd, threads
<1>43. CASE SetOnDemand
  BY <1>43 DEF SetOnDemand, pppd, threads
<1>44. CASE UNCHANGED vars
  BY <1>44 DEF vars, manager, pppd, threads
<1> QED
  BY <1>1, <1>2, <1>3, <1>4, <1>5, <1>6, <1>7, <1>8, <1>9, <1>10, <1>11,
     <1>12, <1>13, <1>14, <1>15, <1>16, <1>17, <1>18, <1>19, <1>20, <1>21,
     <1>22, <1>23, <1>24, <1>25, <1>26, <1>27, <1>28, <1>29, <1>30, <1>31,
     <1>32, <1>33, <1>34, <1>35, <1>36, <1>37, <1>38, <1>39, <1>40, <1>41,
     <1>42, <1>43, <1>44
  DEF Next, StartStep, StopStep, Call, ShutStep, LoopStep, ChainStep

-----------------------------------------------------------------------------
(* The end of a waitLoop sends nobody to a reconnect's sleep, and only     *)
(* Shutdown's own thread to where Shutdown goes on.                        *)
LEMMA LoopEndsStops ==
    ASSUME Types, Stops, NEW g \in Gens, LoopEnds(g), cmd' \in {cmd, None},
           stopped' = stopped, terminated' = terminated,
           voided' = voided, overtaken' = overtaken
    PROVE  Stops'
<1>1. \A t \in Threads :
        \/ pc'[t] = pc[t] /\ then'[t] = then[t]
        \/ pc[t] = "wait" /\ pc'[t] = then[t] /\ then'[t] = "idle"
  BY WhenLoopEnds
<1>2. \A c \in Chains : Waiting(c)' <=> Waiting(c)
  BY <1>1 DEF Waiting, Types, Returning, Threads
<1>3. StopVoidsReconnects' /\ Voids'
  BY <1>2 DEF Stops, StopVoidsReconnects, Voids, Types, TypeOK
<1>4. LetGo'
  BY DEF Stops, LetGo
<1>5. Shutting'
  BY <1>1 DEF Stops, Shutting, Types, Returning, Threads
<1> QED
  BY <1>3, <1>4, <1>5 DEF Stops

(* Only Stop sets stopped, only a Start that Shutdown has not yet forbidden*)
(* clears it, and only a chain that is scheduled while it is clear sleeps. *)
LEMMA StepStops ==
    ASSUME Types, Types', Stops, [Next]_vars PROVE Stops'
<1> USE CallersAssumption
        DEF Types, TypeOK, Returning, Stops, StopVoidsReconnects, Voids, Waiting,
            LetGo, Shutting, Threads, Chains, Gens, None
<1>1. ASSUME NEW t \in Threads, Refuse(t) PROVE Stops'
  BY <1>1 DEF Refuse, Goto, Return, After, manager, pppd
<1>2. ASSUME NEW t \in Threads, Reserve(t) PROVE Stops'
  BY <1>2 DEF Reserve, Goto, Closing, CancelReconnect, ReserveIf
<1>3. ASSUME NEW t \in Threads, Launch(t) PROVE Stops'
  BY <1>3 DEF Launch, Goto, manager
<1>4. ASSUME NEW t \in Threads, LaunchFail(t) PROVE Stops'
  BY <1>4 DEF LaunchFail, Goto, pppd
<1>5. ASSUME NEW t \in Threads, Failed(t) PROVE Stops'
  BY <1>5 DEF Failed, Goto, Return, After, pppd
<1>6. ASSUME NEW t \in Threads, Register(t) PROVE Stops'
  BY <1>6 DEF Register, Goto, RegisterAnyway
<1>7. ASSUME NEW t \in Threads, Disown(t) PROVE Stops'
  BY <1>7 DEF Disown, Goto, pppd
<1>8. ASSUME NEW t \in Threads, Kill(t) PROVE Stops'
  BY <1>8 DEF Kill, Goto, Return, After, Signalled, manager
<1>9. ASSUME NEW t \in Threads, IfaceReady(t) PROVE Stops'
  BY <1>9 DEF IfaceReady, Goto, manager, pppd
<1>10. ASSUME NEW t \in Threads, IfaceTimeout(t) PROVE Stops'
  BY <1>10 DEF IfaceTimeout, Goto, After, manager, pppd
<1>11. ASSUME NEW t \in Threads, Confirm(t) PROVE Stops'
  <2>1. /\ pc[t] = "confirm" /\ then' = [then EXCEPT ![t] = "idle"]
        /\ cmd' = cmd /\ stopped' = stopped /\ terminated' = terminated
        /\ voided' = voided /\ overtaken' = overtaken
    BY <1>11, WhenConfirmed
  <2>2. \/ pc' = [pc EXCEPT ![t] = "idle"]
        \/ t \in Chains /\ pc' = [pc EXCEPT ![t] = "resched"]
    BY <1>11, WhenConfirmed
  <2>3. \A c \in Chains : Waiting(c)' <=> Waiting(c)
    BY <1>11, <2>1, <2>2, WhenConfirmed DEF Waiting
  <2>4. StopVoidsReconnects' /\ Voids' /\ LetGo'
    BY <2>1, <2>3
  <2>5. Shutting'
    BY <2>1, <2>2, Apart
  <2> QED
    BY <2>4, <2>5
<1>12. ASSUME NEW t \in Threads, StopNothing(t) PROVE Stops'
  BY <1>12 DEF StopNothing, Goto, Return, manager, pppd
<1>13. ASSUME NEW t \in Threads, StopBegin(t) PROVE Stops'
  BY <1>13 DEF StopBegin, Goto, Closing, CancelReconnect, StopVoiding
<1>14. ASSUME NEW t \in Threads, Sigterm(t) PROVE Stops'
  BY <1>14 DEF Sigterm, Goto, Signalled, manager
<1>15. ASSUME NEW t \in Threads, NoWait(t) PROVE Stops'
  BY <1>15 DEF NoWait, Goto, Return, AllEnded, manager, pppd
<1>16. ASSUME NEW t \in Callers, CallStart(t) PROVE Stops'
  BY <1>16 DEF CallStart, Goto, manager, pppd
<1>17. ASSUME NEW t \in Callers, CallRetry(t) PROVE Stops'
  BY <1>17 DEF CallRetry, Goto, manager, pppd
<1>18. ASSUME NEW t \in Callers, CallShutdown(t) PROVE Stops'
  BY <1>18 DEF CallShutdown, Goto, pppd
<1>19. ASSUME NEW t \in Callers, IdleFires(t) PROVE Stops'
  BY <1>19 DEF IdleFires, Goto, pppd
<1>20. ASSUME NEW t \in Callers, ShutdownCancel(t) PROVE Stops'
  BY <1>20 DEF ShutdownCancel, Goto, Closing, manager, pppd
<1>21. ASSUME NEW t \in Callers, ShutdownReturn(t) PROVE Stops'
  BY <1>21 DEF ShutdownReturn, Goto, manager, pppd
<1>22. ASSUME NEW g \in Gens, Crash(g) PROVE Stops'
  BY <1>22 DEF Crash, manager, threads
<1>23. ASSUME NEW g \in Gens, ObeySigterm(g) PROVE Stops'
  BY <1>23 DEF ObeySigterm, manager, threads
<1>24. ASSUME NEW g \in Gens, LoopBegin(g) PROVE Stops'
  BY <1>24 DEF LoopBegin, manager, threads
<1>25. ASSUME NEW g \in Gens, LoopSeesExit(g) PROVE Stops'
  BY <1>25 DEF LoopSeesExit, manager, threads
<1>26. ASSUME NEW g \in Gens, LoopSeesStop(g) PROVE Stops'
  BY <1>26 DEF LoopSeesStop, manager, threads
<1>27. ASSUME NEW g \in Gens, LoopSigkill(g) PROVE Stops'
  BY <1>27 DEF LoopSigkill, manager, threads
<1>28. ASSUME NEW g \in Gens, LoopStopped(g) PROVE Stops'
  BY <1>28, LoopEndsStops DEF LoopStopped, manager
<1>29. ASSUME NEW g \in Gens, LoopExitIgnored(g) PROVE Stops'
  BY <1>29, LoopEndsStops DEF LoopExitIgnored, ClearCmd, manager
<1>30. ASSUME NEW g \in Gens, LoopExitNoted(g) PROVE Stops'
  BY <1>30 DEF LoopExitNoted, ClearCmd, threads
<1>31. ASSUME NEW g \in Gens, LoopIdle(g) PROVE Stops'
  BY <1>31, LoopEndsStops DEF LoopIdle
<1>32. ASSUME NEW g \in Gens, LoopError(g) PROVE Stops'
  BY <1>32 DEF LoopError, threads
<1>33. ASSUME NEW g \in Gens, LoopSchedules(g) PROVE Stops'
  BY <1>33 DEF LoopSchedules, Goto, MaySchedule, Schedule
<1>34. ASSUME NEW g \in Gens, LoopDone(g) PROVE Stops'
  BY <1>34, LoopEndsStops DEF LoopDone, manager
<1>35. ASSUME NEW g \in Gens, LoopGivesUp(g) PROVE Stops'
  BY <1>35, LoopEndsStops DEF LoopGivesUp, manager
<1>36. ASSUME NEW c \in Chains, Wake(c) PROVE Stops'
  BY <1>36 DEF Wake, Goto, manager, pppd
<1>37. ASSUME NEW c \in Chains, WakeCancelled(c) PROVE Stops'
  BY <1>37 DEF WakeCancelled, Goto, manager, pppd
<1>38. ASSUME NEW c \in Chains, CheckEpoch(c) PROVE Stops'
  BY <1>38 DEF CheckEpoch, Goto, manager, pppd
<1>39. ASSUME NEW c \in Chains, Reschedule(c) PROVE Stops'
  BY <1>39 DEF Reschedule, Goto, MaySchedule, Schedule, pppd
<1>40. ASSUME NEW c \in Chains, GiveUp(c) PROVE Stops'
  BY <1>40 DEF GiveUp, Goto, MaySchedule, manager, pppd
<1>41. CASE NotifyActivity
  BY <1>41 DEF NotifyActivity, pppd, threads
<1>42. CASE NotifyIdle
  BY <1>42 DEF NotifyIdle, pppd, threads
<1>43. CASE SetOnDemand
  BY <1>43 DEF SetOnDemand, pppd, threads
<1>44. CASE UNCHANGED vars
  BY <1>44 DEF vars, manager, pppd, threads
<1> QED
  BY <1>1, <1>2, <1>3, <1>4, <1>5, <1>6, <1>7, <1>8, <1>9, <1>10, <1>11,
     <1>12, <1>13, <1>14, <1>15, <1>16, <1>17, <1>18, <1>19, <1>20, <1>21,
     <1>22, <1>23, <1>24, <1>25, <1>26, <1>27, <1>28, <1>29, <1>30, <1>31,
     <1>32, <1>33, <1>34, <1>35, <1>36, <1>37, <1>38, <1>39, <1>40, <1>41,
     <1>42, <1>43, <1>44
  DEF Next, StartStep, StopStep, Call, ShutStep, LoopStep, ChainStep

LEMMA LoopEndsLaunches ==
    ASSUME Types, Launches, NEW g \in Gens, LoopEnds(g), loop[g] # "none",
           starting' = starting, gen' = gen, cmd' \in {None, cmd}
    PROVE  Launches'
<1>1. \A t \in Threads : pc[t] # pc'[t] =>
         pc'[t] \notin {"launch", "register"} /\ pc[t] = "wait"
  BY WhenLoopEnds DEF Types, TypeOK
<1>2. \A t \in Threads : pc'[t] \in {"launch", "register"} =>
         pc[t] = pc'[t] /\ my'[t] = my[t]
  BY <1>1, WhenLoopEnds
<1>3. \A h \in Gens : loop'[h] = IF h = g THEN "none" ELSE loop[h]
  BY WhenLoopEnds DEF Types, TypeOK
<1>4. \A c \in Chains : pc[c] = "idle" => pc'[c] = "idle"
  BY <1>1 DEF Threads
<1>5. StartIsExclusive'
  BY <1>2 DEF Launches, StartIsExclusive
<1>6. Newest'
  BY <1>2, <1>3, <1>4 DEF Launches, Newest, Chains
<1>7. Chained'
  BY <1>3, <1>4 DEF Launches, Chained, Chains
<1> QED
  BY <1>5, <1>6, <1>7 DEF Launches

(* starting is taken under the lock and given back by the thread that has  *)
(* it; the new generation is nobody's until then.                          *)
LEMMA StepLaunches ==
    ASSUME Types, Types', Launches, Stops, [Next]_vars PROVE Launches'
<1> USE CallersAssumption
        DEF Types, TypeOK, Returning, Launches, StartIsExclusive, Newest, Chained,
            Threads, Chains, Gens, None
<1>1. ASSUME NEW t \in Threads, Refuse(t) PROVE Launches'
  BY <1>1 DEF Refuse, Goto, Return, After, manager, pppd
<1>2. ASSUME NEW t \in Threads, Reserve(t) PROVE Launches'
  BY <1>2 DEF Reserve, Goto, Closing, CancelReconnect, ReserveIf
<1>3. ASSUME NEW t \in Threads, Launch(t) PROVE Launches'
  BY <1>3 DEF Launch, Goto, manager
<1>4. ASSUME NEW t \in Threads, LaunchFail(t) PROVE Launches'
  BY <1>4 DEF LaunchFail, Goto, pppd
<1>5. ASSUME NEW t \in Threads, Failed(t) PROVE Launches'
  BY <1>5 DEF Failed, Goto, Return, After, pppd
<1>6. ASSUME NEW t \in Threads, Register(t) PROVE Launches'
  BY <1>6 DEF Register, Goto, RegisterAnyway
<1>7. ASSUME NEW t \in Threads, Disown(t) PROVE Launches'
  BY <1>7 DEF Disown, Goto, pppd
<1>8. ASSUME NEW t \in Threads, Kill(t) PROVE Launches'
  BY <1>8 DEF Kill, Goto, Return, After, Signalled, manager
<1>9. ASSUME NEW t \in Threads, IfaceReady(t) PROVE Launches'
  BY <1>9 DEF IfaceReady, Goto, manager, pppd
<1>10. ASSUME NEW t \in Threads, IfaceTimeout(t) PROVE Launches'
  BY <1>10 DEF IfaceTimeout, Goto, After, manager, pppd
<1>11. ASSUME NEW t \in Threads, Confirm(t) PROVE Launches'
  <2>1. /\ pc[t] = "confirm" /\ loop' = loop /\ my' = [my EXCEPT ![t] = None]
        /\ cmd' = cmd /\ starting' = starting /\ gen' = gen
    BY <1>11, WhenConfirmed DEF pppd
  <2>2. \/ pc' = [pc EXCEPT ![t] = "idle"]
        \/ t \in Chains /\ pc' = [pc EXCEPT ![t] = "resched"]
    BY <1>11, WhenConfirmed
  <2>3. \A u \in Threads :
          \/ pc'[u] = pc[u] /\ my'[u] = my[u]
          \/ u = t /\ pc'[u] \in {"idle", "resched"}
    BY <2>1, <2>2
  <2>4. StartIsExclusive'
    BY <2>1, <2>3
  <2>5. Newest'
    BY <2>1, <2>3
  <2>6. Chained'
    BY <2>1, <2>3
  <2> QED
    BY <2>4, <2>5, <2>6
<1>12. ASSUME NEW t \in Threads, StopNothing(t) PROVE Launches'
  BY <1>12 DEF StopNothing, Goto, Return, manager, pppd
<1>13. ASSUME NEW t \in Threads, StopBegin(t) PROVE Launches'
  BY <1>13 DEF StopBegin, Goto, Closing, CancelReconnect, StopVoiding
<1>14. ASSUME NEW t \in Threads, Sigterm(t) PROVE Launches'
  BY <1>14 DEF Sigterm, Goto, Signalled, manager
<1>15. ASSUME NEW t \in Threads, NoWait(t) PROVE Launches'
  BY <1>15 DEF NoWait, Goto, Return, AllEnded, manager, pppd
<1>16. ASSUME NEW t \in Callers, CallStart(t) PROVE Launches'
  <2>1. /\ pc[t] = "idle" /\ pc' = [pc EXCEPT ![t] = "start"]
        /\ my' = my /\ loop' = loop /\ cmd' = cmd
        /\ starting' = starting /\ gen' = gen
    BY <1>16 DEF CallStart, Goto, manager, pppd
  <2> QED
    BY <2>1, Apart
<1>17. ASSUME NEW t \in Callers, CallRetry(t) PROVE Launches'
  BY <1>17 DEF CallRetry, Goto, manager, pppd
<1>18. ASSUME NEW t \in Callers, CallShutdown(t) PROVE Launches'
  BY <1>18 DEF CallShutdown, Goto, pppd
<1>19. ASSUME NEW t \in Callers, IdleFires(t) PROVE Launches'
  BY <1>19 DEF IdleFires, Goto, pppd
<1>20. ASSUME NEW t \in Callers, ShutdownCancel(t) PROVE Launches'
  BY <1>20 DEF ShutdownCancel, Goto, Closing, manager, pppd
<1>21. ASSUME NEW t \in Callers, ShutdownReturn(t) PROVE Launches'
  BY <1>21 DEF ShutdownReturn, Goto, manager, pppd
<1>22. ASSUME NEW g \in Gens, Crash(g) PROVE Launches'
  BY <1>22 DEF Crash, manager, threads
<1>23. ASSUME NEW g \in Gens, ObeySigterm(g) PROVE Launches'
  BY <1>23 DEF ObeySigterm, manager, threads
<1>24. ASSUME NEW g \in Gens, LoopBegin(g) PROVE Launches'
  BY <1>24 DEF LoopBegin, manager, threads
<1>25. ASSUME NEW g \in Gens, LoopSeesExit(g) PROVE Launches'
  BY <1>25 DEF LoopSeesExit, manager, threads
<1>26. ASSUME NEW g \in Gens, LoopSeesStop(g) PROVE Launches'
  BY <1>26 DEF LoopSeesStop, manager, threads
<1>27. ASSUME NEW g \in Gens, LoopSigkill(g) PROVE Launches'
  BY <1>27 DEF LoopSigkill, manager, threads
<1>28. ASSUME NEW g \in Gens, LoopStopped(g) PROVE Launches'
  BY <1>28, LoopEndsLaunches DEF LoopStopped, ClearCmd, manager
<1>29. ASSUME NEW g \in Gens, LoopExitIgnored(g) PROVE Launches'
  BY <1>29, LoopEndsLaunches DEF LoopExitIgnored, ClearCmd, manager
<1>30. ASSUME NEW g \in Gens, LoopExitNoted(g) PROVE Launches'
  BY <1>30 DEF LoopExitNoted, ClearCmd, threads
<1>31. ASSUME NEW g \in Gens, LoopIdle(g) PROVE Launches'
  BY <1>31, LoopEndsLaunches DEF LoopIdle, ClearCmd, manager
<1>32. ASSUME NEW g \in Gens, LoopError(g) PROVE Launches'
  BY <1>32 DEF LoopError, threads
<1>33. ASSUME NEW g \in Gens, LoopSchedules(g) PROVE Launches'
  BY <1>33 DEF LoopSchedules, Goto, MaySchedule, Schedule
<1>34. ASSUME NEW g \in Gens, LoopDone(g) PROVE Launches'
  BY <1>34, LoopEndsLaunches DEF LoopDone, ClearCmd, manager
<1>35. ASSUME NEW g \in Gens, LoopGivesUp(g) PROVE Launches'
  BY <1>35, LoopEndsLaunches DEF LoopGivesUp, ClearCmd, manager
<1>36. ASSUME NEW c \in Chains, Wake(c) PROVE Launches'
  BY <1>36 DEF Wake, Goto, manager, pppd
<1>37. ASSUME NEW c \in Chains, WakeCancelled(c) PROVE Launches'
  BY <1>37 DEF WakeCancelled, Goto, manager, pppd
<1>38. ASSUME NEW c \in Chains, CheckEpoch(c) PROVE Launches'
  BY <1>38 DEF CheckEpoch, Goto, manager, pppd
<1>39. ASSUME NEW c \in Chains, Reschedule(c) PROVE Launches'
  BY <1>39 DEF Reschedule, Goto, MaySchedule, Schedule, pppd
<1>40. ASSUME NEW c \in Chains, GiveUp(c) PROVE Launches'
  BY <1>40 DEF GiveUp, Goto, MaySchedule, manager, pppd
<1>41. CASE NotifyActivity
  BY <1>41 DEF NotifyActivity, pppd, threads
<1>42. CASE NotifyIdle
  BY <1>42 DEF NotifyIdle, pppd, threads
<1>43. CASE SetOnDemand
  BY <1>43 DEF SetOnDemand, pppd, threads
<1>44. CASE UNCHANGED vars
  BY <1>44 DEF vars, manager, pppd, threads
<1> QED
  BY <1>1, <1>2, <1>3, <1>4, <1>5, <1>6, <1>7, <1>8, <1>9, <1>10, <1>11,
     <1>12, <1>13, <1>14, <1>15, <1>16, <1>17, <1>18, <1>19, <1>20, <1>21,
     <1>22, <1>23, <1>24, <1>25, <1>26, <1>27, <1>28, <1>29, <1>30, <1>31,
     <1>32, <1>33, <1>34, <1>35, <1>36, <1>37, <1>38, <1>39, <1>40, <1>41,
     <1>42, <1>43, <1>44
  DEF Next, StartStep, StopStep, Call, ShutStep, LoopStep, ChainStep

(* A pppd that runs stays in reach when nobody about to register or to     *)
(* signal one moves.                                                       *)
LEMMA StillInReach ==
    ASSUME NoStrayPppd,
           \A g \in Gens : proc'[g] = "alive" => proc[g] = "alive",
           \A g \in Gens : proc'[g] = "alive" /\ cmd = g /\ ~stopped /\ loop[g] # "none"
              => cmd' = g /\ ~stopped' /\ loop'[g] # "none",
           \A t \in Threads : pc[t] \in {"register", "kill", "sigterm"}
              => pc'[t] = pc[t] /\ my'[t] = my[t]
    PROVE  NoStrayPppd'
  BY DEF NoStrayPppd

LEMMA LoopEndsChildren ==
    ASSUME Types, Children, NEW g \in Gens, LoopEnds(g), proc' = proc,
           stopped' = stopped, proc[g] = "dead", cmd' = cmd \/ cmd = g
    PROVE  Children'
<1>1. \A h \in Gens : loop'[h] = IF h = g THEN "none" ELSE loop[h]
  BY WhenLoopEnds DEF Types, TypeOK
<1>2. \A t \in Threads : pc[t] \in {"register", "kill", "sigterm"}
         => pc'[t] = pc[t] /\ my'[t] = my[t]
  BY WhenLoopEnds
<1>3. NoStrayPppd'
  BY <1>1, <1>2, StillInReach DEF Children
<1>4. Ended'
  BY <1>1 DEF Children, Ended
<1> QED
  BY <1>3, <1>4 DEF Children

(* A pppd comes alive in its launcher's hands, passes to the registration  *)
(* and from there to the Stop that takes it over.                          *)
LEMMA StepChildren ==
    ASSUME Types, Types', Launches, Stops, Children, [Next]_vars PROVE Children'
<1> USE CallersAssumption
        DEF Types, TypeOK, Children, Ended, Threads, Chains, Gens, None
<1>1. ASSUME NEW t \in Threads, Refuse(t) PROVE Children'
  <2>1. NoStrayPppd'
    BY <1>1, StillInReach DEF Refuse, Goto, Return, After, manager, pppd
  <2> QED
    BY <1>1, <2>1 DEF Refuse, Goto, Return, After, manager, pppd
<1>2. ASSUME NEW t \in Threads, Reserve(t) PROVE Children'
  <2>1. NoStrayPppd'
    BY <1>2, StillInReach DEF Reserve, ReserveIf, Goto
  <2> QED
    BY <1>2, <2>1 DEF Reserve, ReserveIf
<1>3. ASSUME NEW t \in Threads, Launch(t) PROVE Children'
  <2>1. /\ my[t] \in Gens /\ pc' = [pc EXCEPT ![t] = "register"]
        /\ proc' = [proc EXCEPT ![my[t]] = "alive"]
        /\ loop' = loop /\ cmd' = cmd /\ stopped' = stopped /\ my' = my
        /\ pc[t] = "launch" /\ loop[my[t]] = "none"
    BY <1>3 DEF Launch, Goto, manager, Launches, Newest
  <2>2. NoStrayPppd'
    <3> SUFFICES ASSUME NEW g \in Gens, proc'[g] = "alive"
                 PROVE  \/ cmd' = g /\ ~stopped' /\ loop'[g] # "none"
                        \/ \E u \in Threads : /\ my'[u] = g
                              /\ pc'[u] \in {"register", "kill", "sigterm"}
      BY DEF NoStrayPppd
    <3>1. CASE g = my[t]
      BY <2>1, <3>1
    <3>2. CASE g # my[t]
      <4>1. proc[g] = "alive"
        BY <2>1, <3>2
      <4>2. CASE cmd = g /\ ~stopped /\ loop[g] # "none"
        BY <2>1, <4>2
      <4>3. CASE \E u \in Threads : my[u] = g /\ pc[u] \in {"register", "kill", "sigterm"}
        BY <2>1, <4>3
      <4> QED
        BY <4>1, <4>2, <4>3 DEF NoStrayPppd
    <3> QED
      BY <3>1, <3>2
  <2>3. Ended'
    BY <2>1
  <2> QED
    BY <2>2, <2>3
<1>4. ASSUME NEW t \in Threads, LaunchFail(t) PROVE Children'
  <2>1. NoStrayPppd'
    BY <1>4, StillInReach DEF LaunchFail, Goto, pppd
  <2> QED
    BY <1>4, <2>1 DEF LaunchFail, Goto, pppd
<1>5. ASSUME NEW t \in Threads, Failed(t) PROVE Children'
  <2>1. NoStrayPppd'
    BY <1>5, StillInReach DEF Failed, Goto, Return, After, pppd
  <2> QED
    BY <1>5, <2>1 DEF Failed, Goto, Return, After, pppd
<1>6. ASSUME NEW t \in Threads, Register(t) PROVE Children'
  <2>1. /\ my[t] \in Gens /\ cmd' = my[t] /\ cmd = None /\ ~stopped'
        /\ loop' = [loop EXCEPT ![my[t]] = "begin"] /\ proc' = proc
        /\ pc' = [pc EXCEPT ![t] = "iface"] /\ my' = my
    BY <1>6 DEF Register, RegisterAnyway, Goto, Launches, Newest, StartIsExclusive
  <2>2. NoStrayPppd'
    <3> SUFFICES ASSUME NEW g \in Gens, proc[g] = "alive", g # my[t]
                 PROVE  \E u \in Threads : /\ my'[u] = g
                              /\ pc'[u] \in {"register", "kill", "sigterm"}
      BY <2>1 DEF NoStrayPppd
    <3> QED
      BY <2>1 DEF NoStrayPppd
  <2>3. Ended'
    BY <2>1
  <2> QED
    BY <2>2, <2>3
<1>7. ASSUME NEW t \in Threads, Disown(t) PROVE Children'
  BY <1>7 DEF NoStrayPppd, Disown, Goto, pppd
<1>8. ASSUME NEW t \in Threads, Kill(t) PROVE Children'
  BY <1>8 DEF NoStrayPppd, Kill, Goto, Return, After, Signalled, manager
<1>9. ASSUME NEW t \in Threads, IfaceReady(t) PROVE Children'
  <2>1. NoStrayPppd'
    BY <1>9, StillInReach DEF IfaceReady, Goto, manager, pppd
  <2> QED
    BY <1>9, <2>1 DEF IfaceReady, Goto, manager, pppd
<1>10. ASSUME NEW t \in Threads, IfaceTimeout(t) PROVE Children'
  <2>1. NoStrayPppd'
    BY <1>10, StillInReach DEF IfaceTimeout, Goto, After, manager, pppd
  <2> QED
    BY <1>10, <2>1 DEF IfaceTimeout, Goto, After, manager, pppd
<1>11. ASSUME NEW t \in Threads, Confirm(t) PROVE Children'
  <2>1. NoStrayPppd'
    BY <1>11, WhenConfirmed, StillInReach DEF pppd
  <2> QED
    BY <1>11, <2>1, WhenConfirmed DEF pppd
<1>12. ASSUME NEW t \in Threads, StopNothing(t) PROVE Children'
  <2>1. NoStrayPppd'
    BY <1>12, StillInReach DEF StopNothing, Goto, Return, manager, pppd
  <2> QED
    BY <1>12, <2>1 DEF StopNothing, Goto, Return, manager, pppd
<1>13. ASSUME NEW t \in Threads, StopBegin(t) PROVE Children'
  BY <1>13 DEF NoStrayPppd, StopBegin, Goto, Closing, CancelReconnect, StopVoiding
<1>14. ASSUME NEW t \in Threads, Sigterm(t) PROVE Children'
  BY <1>14 DEF NoStrayPppd, Sigterm, Goto, Signalled, manager
<1>15. ASSUME NEW t \in Threads, NoWait(t) PROVE Children'
  <2>1. NoStrayPppd'
    BY <1>15, StillInReach DEF NoWait, Goto, Return, AllEnded, manager, pppd
  <2> QED
    BY <1>15, <2>1 DEF NoWait, Goto, Return, AllEnded, manager, pppd
<1>16. ASSUME NEW t \in Callers, CallStart(t) PROVE Children'
  <2>1. NoStrayPppd'
    BY <1>16, StillInReach DEF CallStart, Goto, manager, pppd
  <2> QED
    BY <1>16, <2>1 DEF CallStart, Goto, manager, pppd
<1>17. ASSUME NEW t \in Callers, CallRetry(t) PROVE Children'
  <2>1. NoStrayPppd'
    BY <1>17, StillInReach DEF CallRetry, Goto, manager, pppd
  <2> QED
    BY <1>17, <2>1 DEF CallRetry, Goto, manager, pppd
<1>18. ASSUME NEW t \in Callers, CallShutdown(t) PROVE Children'
  <2>1. NoStrayPppd'
    BY <1>18, StillInReach DEF CallShutdown, Goto, pppd
  <2> QED
    BY <1>18, <2>1 DEF CallShutdown, Goto, pppd
<1>19. ASSUME NEW t \in Callers, IdleFires(t) PROVE Children'
  <2>1. NoStrayPppd'
    BY <1>19, StillInReach DEF IdleFires, Goto, pppd
  <2> QED
    BY <1>19, <2>1 DEF IdleFires, Goto, pppd
<1>20. ASSUME NEW t \in Callers, ShutdownCancel(t) PROVE Children'
  <2>1. NoStrayPppd'
    BY <1>20, StillInReach DEF ShutdownCancel, Goto, Closing, manager, pppd
  <2> QED
    BY <1>20, <2>1 DEF ShutdownCancel, Goto, Closing, manager, pppd
<1>21. ASSUME NEW t \in Callers, ShutdownReturn(t) PROVE Children'
  <2>1. NoStrayPppd'
    BY <1>21, StillInReach DEF ShutdownReturn, Goto, manager, pppd
  <2> QED
    BY <1>21, <2>1 DEF ShutdownReturn, Goto, manager, pppd
<1>22. ASSUME NEW g \in Gens, Crash(g) PROVE Children'
  <2>1. NoStrayPppd'
    BY <1>22, StillInReach DEF Crash, manager, threads
  <2> QED
    BY <1>22, <2>1 DEF Crash, manager, threads
<1>23. ASSUME NEW g \in Gens, ObeySigterm(g) PROVE Children'
  <2>1. NoStrayPppd'
    BY <1>23, StillInReach DEF ObeySigterm, manager, threads
  <2> QED
    BY <1>23, <2>1 DEF ObeySigterm, manager, threads
<1>24. ASSUME NEW g \in Gens, LoopBegin(g) PROVE Children'
  <2>1. NoStrayPppd'
    BY <1>24, StillInReach DEF LoopBegin, manager, threads
  <2> QED
    BY <1>24, <2>1 DEF LoopBegin, manager, threads
<1>25. ASSUME NEW g \in Gens, LoopSeesExit(g) PROVE Children'
  <2>1. NoStrayPppd'
    BY <1>25, StillInReach DEF LoopSeesExit, manager, threads
  <2> QED
    BY <1>25, <2>1 DEF LoopSeesExit, manager, threads
<1>26. ASSUME NEW g \in Gens, LoopSeesStop(g) PROVE Children'
  <2>1. NoStrayPppd'
    BY <1>26, StillInReach DEF LoopSeesStop, manager, threads
  <2> QED
    BY <1>26, <2>1 DEF LoopSeesStop, manager, threads
<1>27. ASSUME NEW g \in Gens, LoopSigkill(g) PROVE Children'
  <2>1. NoStrayPppd'
    BY <1>27, StillInReach DEF LoopSigkill, manager, threads
  <2> QED
    BY <1>27, <2>1 DEF LoopSigkill, manager, threads
<1>28. ASSUME NEW g \in Gens, LoopStopped(g) PROVE Children'
  BY <1>28, LoopEndsChildren DEF LoopStopped, ClearCmd, manager
<1>29. ASSUME NEW g \in Gens, LoopExitIgnored(g) PROVE Children'
  BY <1>29, LoopEndsChildren DEF LoopExitIgnored, ClearCmd, manager
<1>30. ASSUME NEW g \in Gens, LoopExitNoted(g) PROVE Children'
  <2>1. NoStrayPppd'
    BY <1>30, StillInReach DEF LoopExitNoted, ClearCmd, threads
  <2> QED
    BY <1>30, <2>1 DEF LoopExitNoted, ClearCmd, threads
<1>31. ASSUME NEW g \in Gens, LoopIdle(g) PROVE Children'
  BY <1>31, LoopEndsChildren DEF LoopIdle, ClearCmd, manager
<1>32. ASSUME NEW g \in Gens, LoopError(g) PROVE Children'
  <2>1. NoStrayPppd'
    BY <1>32, StillInReach DEF LoopError, threads
  <2> QED
    BY <1>32, <2>1 DEF LoopError, threads
<1>33. ASSUME NEW g \in Gens, LoopSchedules(g) PROVE Children'
  <2>1. NoStrayPppd'
    BY <1>33, StillInReach DEF LoopSchedules, Goto, MaySchedule, Schedule,
       Launches, Chained
  <2> QED
    BY <1>33, <2>1 DEF LoopSchedules, Goto, MaySchedule, Schedule
<1>34. ASSUME NEW g \in Gens, LoopDone(g) PROVE Children'
  BY <1>34, LoopEndsChildren DEF LoopDone, ClearCmd, manager
<1>35. ASSUME NEW g \in Gens, LoopGivesUp(g) PROVE Children'
  BY <1>35, LoopEndsChildren DEF LoopGivesUp, ClearCmd, manager
<1>36. ASSUME NEW c \in Chains, Wake(c) PROVE Children'
  <2>1. NoStrayPppd'
    BY <1>36, StillInReach DEF Wake, Goto, manager, pppd
  <2> QED
    BY <1>36, <2>1 DEF Wake, Goto, manager, pppd
<1>37. ASSUME NEW c \in Chains, WakeCancelled(c) PROVE Children'
  <2>1. NoStrayPppd'
    BY <1>37, StillInReach DEF WakeCancelled, Goto, manager, pppd
  <2> QED
    BY <1>37, <2>1 DEF WakeCancelled, Goto, manager, pppd
<1>38. ASSUME NEW c \in Chains, CheckEpoch(c) PROVE Children'
  <2>1. NoStrayPppd'
    BY <1>38, StillInReach DEF CheckEpoch, Goto, manager, pppd
  <2> QED
    BY <1>38, <2>1 DEF CheckEpoch, Goto, manager, pppd
<1>39. ASSUME NEW c \in Chains, Reschedule(c) PROVE Children'
  <2>1. NoStrayPppd'
    BY <1>39, StillInReach DEF Reschedule, Goto, MaySchedule, Schedule, pppd
  <2> QED
    BY <1>39, <2>1 DEF Reschedule, Goto, MaySchedule, Schedule, pppd
<1>40. ASSUME NEW c \in Chains, GiveUp(c) PROVE Children'
  <2>1. NoStrayPppd'
    BY <1>40, StillInReach DEF GiveUp, Goto, MaySchedule, manager, pppd
  <2> QED
    BY <1>40, <2>1 DEF GiveUp, Goto, MaySchedule, manager, pppd
<1>41. CASE NotifyActivity
  <2>1. NoStrayPppd'
    BY <1>41, StillInReach DEF NotifyActivity, pppd, threads
  <2> QED
    BY <1>41, <2>1 DEF NotifyActivity, pppd, threads
<1>42. CASE NotifyIdle
  <2>1. NoStrayPppd'
    BY <1>42, StillInReach DEF NotifyIdle, pppd, threads
  <2> QED
    BY <1>42, <2>1 DEF NotifyIdle, pppd, threads
<1>43. CASE SetOnDemand
  <2>1. NoStrayPppd'
    BY <1>43, StillInReach DEF SetOnDemand, pppd, threads
  <2> QED
    BY <1>43, <2>1 DEF SetOnDemand, pppd, threads
<1>44. CASE UNCHANGED vars
  BY <1>44 DEF vars, manager, pppd, threads, NoStrayPppd
<1> QED
  BY <1>1, <1>2, <1>3, <1>4, <1>5, <1>6, <1>7, <1>8, <1>9, <1>10, <1>11,
     <1>12, <1>13, <1>14, <1>15, <1>16, <1>17, <1>18, <1>19, <1>20, <1>21,
     <1>22, <1>23, <1>24, <1>25, <1>26, <1>27, <1>28, <1>29, <1>30, <1>31,
     <1>32, <1>33, <1>34, <1>35, <1>36, <1>37, <1>38, <1>39, <1>40, <1>41,
     <1>42, <1>43, <1>44
  DEF Next, StartStep, StopStep, Call, ShutStep, LoopStep, ChainStep

-----------------------------------------------------------------------------
LEMMA InitPInv == Init => PInv
<1> SUFFICES ASSUME Init PROVE PInv
  OBVIOUS
<1> USE MaxGenAssumption, ModesAssumption, CallersAssumption
<1>1. 0 \in 0..MaxGen
  OBVIOUS
<1>2. Types
  BY <1>1 DEF Init, Types, TypeOK, Returning, StartStates, None, Threads
<1>3. Launches
  BY DEF Init, Launches, StartIsExclusive, Newest, Chained, Threads, Chains
<1>4. Children
  BY DEF Init, Children, NoStrayPppd, Ended
<1>5. Stops
  BY DEF Init, Stops, StopVoidsReconnects, Voids, Waiting, LetGo, Shutting, Threads
<1> QED
  BY <1>2, <1>3, <1>4, <1>5 DEF PInv

THEOREM PppoeInv == Spec => []PInv
<1>1. PInv /\ [Next]_vars => PInv'
  <2> SUFFICES ASSUME PInv, [Next]_vars PROVE PInv'
    OBVIOUS
  <2>1. Types'
    BY StepTypes DEF PInv
  <2>2. Stops' /\ Launches'
    BY <2>1, StepStops, StepLaunches DEF PInv
  <2>3. Children'
    BY <2>1, StepChildren DEF PInv
  <2> QED
    BY <2>1, <2>2, <2>3 DEF PInv
<1> QED
  BY <1>1, InitPInv, PTL DEF Spec

(* The manager's fields, the waitLoops and the goroutines in Start and     *)
(* Stop stay where the code can be.                                        *)
THEOREM ManagerTypeOK == Spec => []TypeOK
<1>1. PInv => TypeOK
  BY DEF PInv, Types
<1> QED
  BY <1>1, PppoeInv, PTL

(* Concurrent Starts launch one pppd between them (the place taken at 117).*)
THEOREM OneLaunch == Spec => []StartIsExclusive
<1>1. PInv => StartIsExclusive
  BY DEF PInv, Launches
<1> QED
  BY <1>1, PppoeInv, PTL

(* A pppd that runs is registered, or somebody is about to register or     *)
(* signal it, whatever Stop, waitLoop and reconnects do meanwhile.         *)
THEOREM NoneEscapes == Spec => []NoStrayPppd
<1>1. PInv => NoStrayPppd
  BY DEF PInv, Children
<1> QED
  BY <1>1, PppoeInv, PTL

(* A reconnect that a Stop finds asleep or before its epoch check (448-454)*)
(* ends there, however many Starts and Stops follow, and none is scheduled *)
(* while the Stop stands.  Nothing is said of one that has passed the check*)
(* and not yet called Start (455-458): that one may dial after the Stop.   *)
THEOREM StopVoidsTheWaiting == Spec => []StopVoidsReconnects
<1>1. PInv => StopVoidsReconnects
  BY DEF PInv, Stops
<1> QED
  BY <1>1, PppoeInv, PTL

(* Once Shutdown has returned nothing is registered (241-243).             *)
THEOREM ShutdownStands == Spec => []ShutdownIsFinal
<1>1. PInv => ShutdownIsFinal
  BY DEF PInv, Stops, LetGo, Shutting, ShutdownIsFinal
<1> QED
  BY <1>1, PppoeInv, PTL
=============================================================================
