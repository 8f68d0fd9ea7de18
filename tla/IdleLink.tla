------------------------------ MODULE IdleLink ------------------------------
(***************************************************************************)
(* Dialling on demand and hanging up when idle: how relay.Manager          *)
(* (ServeHTTP, AcquireSource, idleIfConsumersGone) and pppoe.Manager       *)
(* (Start, Stop, NotifyActivity, NotifyIdle, the idle timer) keep the line *)
(* up while somebody uses it, in on-demand mode.                           *)
(*                                                                         *)
(* A consumer is a viewer (ServeHTTP) or a recording (AcquireSource and    *)
(* Release).  Neither manager knows what the other is about to do: a       *)
(* consumer dials, opens its reader, registers and reports activity in     *)
(* four separate critical sections, and at its end counts, saves and       *)
(* reports idleness in three.  Pppoe has the manager's inside; here its    *)
(* link is what IsUp and Stop make of it.                                  *)
(***************************************************************************)
EXTENDS Naturals

CONSTANTS Consumers,
          Mixes,       \* the kinds of consumers to look at: functions
          MaxFirings   \* bound: idle timers that fired and still wait for m.mu

Kinds == {"viewer", "recording"}

ASSUME MixesAssumption == Mixes \subseteq [Consumers -> Kinds]
ASSUME MaxFiringsAssumption == MaxFirings \in Nat \ {0}

VARIABLES kind,      \* what a consumer is
          link,      \* "starting": m.starting; then m.cmd, first without IsUp
          stopped,   \* m.stopped
          timer,     \* m.idleTimer is running
          firings,   \* goroutines of fired idle timers before m.Stop
          pc,        \* where a consumer is
          streams,   \* relay's m.streams
          subs,      \* subscribers of all readers
          forsaken   \* history: who dialled last left by an error return

line == <<link, stopped, timer, firings>>
vars == <<kind, line, pc, streams, subs, forsaken>>

Places == {"out", "dial", "launch", "wait", "open", "register", "notify",
           "using", "saveLast", "save", "unsub", "check", "arm"}

Init == /\ kind \in Mixes
        /\ link = "down"
        /\ stopped = FALSE
        /\ timer = FALSE
        /\ firings = 0
        /\ pc = [c \in Consumers |-> "out"]
        /\ streams = {}
        /\ subs = {}
        /\ forsaken = FALSE

Goto(c, from, to) == pc[c] = from /\ pc' = [pc EXCEPT ![c] = to]

-----------------------------------------------------------------------------
(* pppoe.Manager                                                           *)

(* Stop: once per Start, and without a process it is Start that reacts.    *)
StopLink == IF stopped
            THEN UNCHANGED <<link, stopped, timer>>
            ELSE /\ stopped' = TRUE
                 /\ timer' = FALSE
                 /\ link' = IF link = "starting" THEN link ELSE "down"

TimerFires == /\ timer /\ firings < MaxFirings
              /\ timer' = FALSE
              /\ firings' = firings + 1
              /\ UNCHANGED <<kind, link, stopped, pc, streams, subs, forsaken>>

FiringStops == /\ firings > 0
               /\ firings' = firings - 1
               /\ StopLink
               /\ UNCHANGED <<kind, pc, streams, subs, forsaken>>

(* pppd exits by itself; on demand, nobody reconnects.                     *)
LinkDrops == /\ link \in {"registered", "up"}
             /\ link' = "down"
             /\ UNCHANGED <<kind, stopped, timer, firings, pc, streams, subs,
                            forsaken>>

-----------------------------------------------------------------------------
(* A consumer comes: ServeHTTP and AcquireSource begin alike.              *)

Request(c) == /\ Goto(c, "out", IF link = "up" THEN "open" ELSE "dial")
              /\ UNCHANGED <<kind, line, streams, subs, forsaken>>

(* Start refuses while a link is there or coming; either way one goes on.  *)
Dial(c) == /\ IF link = "down"
              THEN /\ Goto(c, "dial", "launch")
                   /\ link' = "starting" /\ stopped' = FALSE
              ELSE /\ Goto(c, "dial", "open")
                   /\ UNCHANGED <<link, stopped>>
           /\ UNCHANGED <<kind, timer, firings, streams, subs, forsaken>>

LaunchFails(c) == /\ Goto(c, "launch", "open")
                  /\ link' = "down"
                  /\ UNCHANGED <<kind, stopped, timer, firings, streams, subs,
                                 forsaken>>

LaunchForgetsStop(c) ==             \* bug: a Stop during the launch is lost
    /\ Goto(c, "launch", "wait")
    /\ link' = "registered" /\ timer' = FALSE
    /\ UNCHANGED <<kind, stopped, firings, streams, subs, forsaken>>

(* Registering pppd voids the timer; a Stop meanwhile voids the launch.    *)
Launch(c) == /\ IF stopped
                THEN /\ Goto(c, "launch", "open")
                     /\ link' = "down" /\ UNCHANGED timer
                ELSE /\ Goto(c, "launch", "wait")
                     /\ link' = "registered" /\ timer' = FALSE
             /\ UNCHANGED <<kind, stopped, firings, streams, subs, forsaken>>

Confirm(c) == /\ Goto(c, "wait", "open")
              /\ link' = IF link = "registered" THEN "up" ELSE link
              /\ UNCHANGED <<kind, stopped, timer, firings, streams, subs,
                             forsaken>>

IfaceTimeout(c) == /\ Goto(c, "wait", "open")
                   /\ StopLink
                   /\ UNCHANGED <<kind, firings, streams, subs, forsaken>>

(* getOrCreateReader and Subscribe; both kinds are sure to decide now.     *)
Open(c) == /\ Goto(c, "open", IF kind[c] = "viewer" THEN "register"
                              ELSE "notify")
           /\ subs' = subs \cup {c}
           /\ forsaken' = FALSE
           /\ UNCHANGED <<kind, line, streams>>

(* The error return, before anything is deferred that could hang up.       *)
OpenFails(c) == /\ Goto(c, "open", "out")
                /\ forsaken' = TRUE
                /\ UNCHANGED <<kind, line, streams, subs>>

Register(c) == /\ Goto(c, "register", "notify")
               /\ streams' = streams \cup {c}
               /\ UNCHANGED <<kind, line, subs, forsaken>>

NotifyActivity(c) == /\ Goto(c, "notify", "using")
                     /\ timer' = FALSE
                     /\ UNCHANGED <<kind, link, stopped, firings, streams,
                                    subs, forsaken>>

-----------------------------------------------------------------------------
(* A consumer goes.                                                        *)

NotifyIdle == /\ timer' = TRUE
              /\ forsaken' = FALSE
              /\ UNCHANGED <<link, stopped, firings>>

(* ServeHTTP's defer: count under relay's lock, save the statistics and    *)
(* the limits without it, then report.                                     *)
EndCountingFirst(c) ==              \* bug: counts itself
    /\ kind[c] = "viewer"
    /\ Goto(c, "using", IF streams = {} THEN "saveLast" ELSE "save")
    /\ streams' = streams \ {c}
    /\ UNCHANGED <<kind, line, subs, forsaken>>

EndListed(c) ==                     \* bug: the stream stays in the list
    /\ kind[c] = "viewer"
    /\ Goto(c, "using", IF streams = {c} THEN "saveLast" ELSE "save")
    /\ UNCHANGED <<kind, line, streams, subs, forsaken>>

End(c) == /\ kind[c] = "viewer"
          /\ Goto(c, "using", IF streams = {c} THEN "saveLast" ELSE "save")
          /\ streams' = streams \ {c}
          /\ UNCHANGED <<kind, line, subs, forsaken>>

LastSaved(c) == /\ Goto(c, "saveLast", "unsub")
                /\ NotifyIdle
                /\ UNCHANGED <<kind, streams, subs>>

Saved(c) == /\ Goto(c, "save", "unsub")
            /\ UNCHANGED <<kind, line, streams, subs, forsaken>>

(* Release of a recording begins with unsub.                               *)
EndRecording(c) == /\ kind[c] = "recording"
                   /\ Goto(c, "using", "unsub")
                   /\ UNCHANGED <<kind, line, streams, subs, forsaken>>

(* The subscription was dropped: it ends as any other does, soon.          *)
Overflow(c) == /\ pc[c] = "using" /\ c \in subs
               /\ subs' = subs \ {c}
               /\ UNCHANGED <<kind, line, pc, streams, forsaken>>

(* unsub and releaseReader.                                                *)
Unsub(c) == /\ Goto(c, "unsub", IF kind[c] = "viewer" THEN "out" ELSE "check")
            /\ subs' = subs \ {c}
            /\ UNCHANGED <<kind, line, streams, forsaken>>

(* idleIfConsumersGone                                                     *)
CheckGone(c) == /\ Goto(c, "check", IF streams = {} /\ subs = {} THEN "arm"
                                    ELSE "out")
                /\ UNCHANGED <<kind, line, streams, subs, forsaken>>

Arm(c) == /\ Goto(c, "arm", "out")
          /\ NotifyIdle
          /\ UNCHANGED <<kind, streams, subs>>

-----------------------------------------------------------------------------
Come(c) == \/ Dial(c) \/ Launch(c) \/ LaunchFails(c)
           \/ Confirm(c) \/ IfaceTimeout(c)
           \/ Open(c) \/ OpenFails(c)
           \/ Register(c) \/ NotifyActivity(c)

Go(c) == \/ LastSaved(c) \/ Saved(c) \/ Unsub(c) \/ CheckGone(c) \/ Arm(c)

Next == \/ TimerFires \/ FiringStops \/ LinkDrops
        \/ \E c \in Consumers : \/ Request(c) \/ Come(c) \/ Overflow(c)
                                \/ End(c) \/ EndRecording(c) \/ Go(c)

Spec == Init /\ [][Next]_vars

(* Goroutines and timers run; that consumers come and go, and that links   *)
(* drop, is up to the world.                                               *)
Fairness == /\ WF_vars(TimerFires)
            /\ WF_vars(FiringStops)
            /\ \A c \in Consumers : WF_vars(Come(c)) /\ WF_vars(Go(c))

FairSpec == Spec /\ Fairness

-----------------------------------------------------------------------------
TypeOK == /\ kind \in Mixes
          /\ link \in {"down", "starting", "registered", "up"}
          /\ stopped \in BOOLEAN
          /\ timer \in BOOLEAN
          /\ firings \in 0..MaxFirings
          /\ pc \in [Consumers -> Places]
          /\ streams = {c \in Consumers :
                          kind[c] = "viewer" /\ pc[c] \in {"notify", "using"}}
          /\ subs \in SUBSET {c \in Consumers :
                pc[c] \in {"register", "notify", "using", "saveLast", "save",
                           "unsub"}}
          /\ forsaken \in BOOLEAN

(* Consumers that have yet to look whether they are the last.              *)
Deciding == {c \in Consumers :
    \/ pc[c] \in {"dial", "launch", "wait", "open", "register", "notify",
                  "using", "saveLast"}
    \/ kind[c] = "recording" /\ pc[c] \in {"unsub", "check", "arm"}}

(* A line that is up is somebody's: a timer runs, or a fired one is about  *)
(* to stop it, or a consumer is there that will yet see whether it is the  *)
(* last.  The count of one, the dialling of another and the activity of a  *)
(* third, in any order, leave no line to nobody.  (Not when the reader of  *)
(* the one that dialled cannot be opened: relay.go:370.)                   *)
LinkIsWatched ==
    link = "up" => timer \/ firings > 0 \/ Deciding # {} \/ forsaken

(* On demand means: once nobody watches or records any more, the line goes *)
(* down.                                                                   *)
IdleLinkGoesDown ==
    <>[](\A c \in Consumers : pc[c] = "out") => <>[](link = "down" \/ forsaken)

(* Idle is when there is neither a stream nor a subscription: so Release   *)
(* says (relay.go:240) and a test insists (relay_test.go:46).  The idle    *)
(* timer does not run while somebody watches or records.                   *)
NoTimerUnderUse == \A c \in Consumers : pc[c] = "using" => ~timer
=============================================================================
