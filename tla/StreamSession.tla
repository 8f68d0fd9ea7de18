--------------------------- MODULE StreamSession ---------------------------
(***************************************************************************)
(* The streams of one channel: relay.Manager.ServeHTTP                     *)
(* (internal/relay/relay.go:324-782).  A stream plays its current source;  *)
(* every three seconds a tick compares it with what the rules and the      *)
(* viewing limits want and, when they want another, subscribes to a        *)
(* candidate that takes over once its IDR has been seen, or is dropped     *)
(* after five seconds.                                                     *)
(* One pass of the select loop is one step, the tick two (the rules, then  *)
(* the limits: each opens a reader and may block); so is each defer.  What *)
(* the readers are is ReaderPool's business: here a reference is counted   *)
(* per address.  What is in a packet is StreamSwitcher's: here a candidate *)
(* is refused, is not ready yet, or is ready.                              *)
(***************************************************************************)
EXTENDS Integers, FiniteSets

CONSTANTS Streams,
          home,          \* multicastAddr: the address the viewers asked for
          RuleTargets,   \* what a rule may send it to
          PoolAddrs,     \* what the replacement pool may hold
          None,          \* "", nil
          maxConsecutiveBadPkts

ASSUME NoneAssumption == None \notin {home} \cup RuleTargets \cup PoolAddrs
ASSUME BadAssumption == maxConsecutiveBadPkts \in Nat \ {0}

Addrs   == {home} \cup RuleTargets \cup PoolAddrs
Targets == {home} \cup RuleTargets

VARIABLES
  \* the stores, edited from the console and by the clock
  rule,           \* rules.Resolve(home)
  limited,        \* limits.HasLimit(home)
  exceeded,       \* whether the viewing time is used up
  poolSet,        \* limits.pool
  \* m.limitBlocked[home]
  limitBlocked,
  \* the locals of a stream's handler
  phase,
  current,        \* currentRealAddr
  byRule,         \* rulesResolvedAddr # multicastAddr
  override,       \* limitOverrideAddr
  pending,        \* pendingRealAddr, and newEntry with it
  limitSwitchPending,
  timer,          \* switchTimeout is armed
  waiting,        \* the switcher has a candidate
  badPkts,
  refs            \* [Addrs -> Nat]: reader references not given back

stores == <<rule, limited, exceeded, poolSet>>
cand   == <<pending, limitSwitchPending, timer, waiting, refs>>
vars   == <<stores, limitBlocked, phase, current, byRule, override, badPkts, cand>>

Running == {"loop", "limits"}
NoRefs  == [a \in Addrs |-> 0]

Init ==
    /\ rule = home /\ limited \in BOOLEAN /\ exceeded = FALSE
    /\ poolSet \in SUBSET PoolAddrs
    /\ limitBlocked = FALSE
    /\ phase = [s \in Streams |-> "off"]
    /\ current = [s \in Streams |-> home]
    /\ byRule = [s \in Streams |-> FALSE]
    /\ override = [s \in Streams |-> None]
    /\ pending = [s \in Streams |-> None]
    /\ limitSwitchPending = [s \in Streams |-> FALSE]
    /\ timer = [s \in Streams |-> FALSE]
    /\ waiting = [s \in Streams |-> FALSE]
    /\ badPkts = [s \in Streams |-> 0]
    /\ refs = [s \in Streams |-> NoRefs]

-----------------------------------------------------------------------------
(* Helpers                                                                 *)

CheckLimit == limited /\ exceeded

(* PickReplacement: any address of the pool but the current one, which is  *)
(* taken when there is no other.                                           *)
Replacements(cur) == IF poolSet \ {cur} # {} THEN poolSet \ {cur} ELSE poolSet

Goto(s, p) == phase' = [phase EXCEPT ![s] = p]
Acquired(r, a) == [r EXCEPT ![a] = @ + 1]
Released(r, a) == IF a = None THEN r ELSE [r EXCEPT ![a] = @ - 1]

(* The candidate's locals become p, l, armed; its references r.            *)
SetCandidate(s, p, l, armed, r) ==
    /\ pending' = [pending EXCEPT ![s] = p]
    /\ limitSwitchPending' = [limitSwitchPending EXCEPT ![s] = l]
    /\ timer' = [timer EXCEPT ![s] = armed]
    /\ waiting' = [waiting EXCEPT ![s] = p # None]
    /\ refs' = [refs EXCEPT ![s] = r]

CancelKeepingTimer(s) ==        \* bug: the timer is not stopped
    SetCandidate(s, None, FALSE, timer[s], Released(refs[s], pending[s]))

(* cancelPendingSwitch *)
CancelPendingSwitch(s) ==
    SetCandidate(s, None, FALSE, FALSE, Released(refs[s], pending[s]))

(* A reader of a is subscribed, the switcher waits, the timer runs; dropped*)
(* is the candidate that was cancelled earlier in the same step, or None.  *)
BeginSwitch(s, a, byLimit, dropped) ==
    SetCandidate(s, a, byLimit, TRUE, Acquired(Released(refs[s], dropped), a))

-----------------------------------------------------------------------------
(* Connecting                                                              *)

(* Rules first; the limit is looked at only where no rule matched.         *)
Begin(s) ==
    /\ phase[s] = "off"
    /\ byRule' = [byRule EXCEPT ![s] = rule # home]
    /\ badPkts' = [badPkts EXCEPT ![s] = 0]
    /\ \/ /\ rule # home
          /\ current' = [current EXCEPT ![s] = rule]
          /\ override' = [override EXCEPT ![s] = None]
          /\ UNCHANGED limitBlocked
       \/ /\ rule = home /\ CheckLimit
          /\ \E a \in Replacements(home) :
               /\ current' = [current EXCEPT ![s] = a]
               /\ override' = [override EXCEPT ![s] = a]
          /\ limitBlocked' = FALSE
       \/ /\ rule = home /\ ~(CheckLimit /\ poolSet # {})
          /\ current' = [current EXCEPT ![s] = home]
          /\ override' = [override EXCEPT ![s] = None]
          /\ limitBlocked' = CheckLimit
    /\ Goto(s, "opening")
    /\ UNCHANGED <<stores, cand>>

OpenCurrent(s) ==
    /\ phase[s] = "opening"
    /\ refs' = [refs EXCEPT ![s] = Acquired(@, current[s])]
    /\ Goto(s, "loop")
    /\ UNCHANGED <<stores, limitBlocked, current, byRule, override, badPkts,
                   pending, limitSwitchPending, timer, waiting>>

OpenFails(s) ==
    /\ phase[s] = "opening"
    /\ Goto(s, "off")
    /\ UNCHANGED <<stores, limitBlocked, current, byRule, override, badPkts, cand>>

-----------------------------------------------------------------------------
(* The select loop: packets                                                *)

GoodPacket(s) ==
    /\ phase[s] = "loop"
    /\ badPkts' = [badPkts EXCEPT ![s] = 0]
    /\ UNCHANGED <<stores, limitBlocked, phase, current, byRule, override, cand>>

BadPacketUpTo(s, n) ==
    /\ phase[s] = "loop"
    /\ badPkts' = [badPkts EXCEPT ![s] = @ + 1]
    /\ IF badPkts[s] + 1 >= n
       THEN CancelPendingSwitch(s) /\ Goto(s, "ending")
       ELSE UNCHANGED <<cand, phase>>
    /\ UNCHANGED <<stores, limitBlocked, current, byRule, override>>

BadPacketLate(s) ==             \* bug: off by one
    BadPacketUpTo(s, maxConsecutiveBadPkts + 1)

BadPacket(s) == BadPacketUpTo(s, maxConsecutiveBadPkts)

(* A write failed, the TS could not be processed, the subscription         *)
(* overflowed, or the viewer left.                                         *)
End(s) ==
    /\ phase[s] = "loop"
    /\ CancelPendingSwitch(s)
    /\ Goto(s, "ending")
    /\ UNCHANGED <<stores, limitBlocked, current, byRule, override, badPkts>>

(* Refused packet or stream, overflow of the candidate's queue, or five    *)
(* seconds without an IDR.                                                 *)
CandidateFails(s) ==
    /\ phase[s] = "loop"
    /\ pending[s] # None
    /\ CancelPendingSwitch(s)
    /\ UNCHANGED <<stores, limitBlocked, phase, current, byRule, override, badPkts>>

SwitchTimeout(s) == timer[s] /\ CandidateFails(s)

(* The batch is written, the old reader released, ownership transferred.   *)
SwitchReleasing(s, old) ==
    /\ phase[s] = "loop"
    /\ waiting[s]
    /\ SetCandidate(s, None, FALSE, FALSE, Released(refs[s], old))
    /\ current' = [current EXCEPT ![s] = pending[s]]
    /\ override' = [override EXCEPT ![s] =
                      IF limitSwitchPending[s] THEN pending[s] ELSE @]
    /\ UNCHANGED <<stores, limitBlocked, phase, byRule, badPkts>>

SwitchReleasingNew(s) == SwitchReleasing(s, pending[s])  \* bug: swapped order

CandidateReady(s) == SwitchReleasing(s, current[s])

-----------------------------------------------------------------------------
(* The select loop: the tick                                               *)

(* The limit was removed or disabled: the override ends.                   *)
Lifted(s) == override[s] # None /\ ~limited

RuleTickIf(s, mayStart, lifted) ==
    LET dropped == IF rule # pending[s] THEN pending[s] ELSE None
    IN /\ phase[s] = "loop"
       /\ override' = [override EXCEPT ![s] = IF lifted THEN None ELSE @]
       /\ limitBlocked' = (limitBlocked /\ ~lifted)
       /\ \/ /\ mayStart /\ rule # current[s]
             /\ pending[s] \in {None, dropped}
             /\ BeginSwitch(s, rule, FALSE, dropped)
          \/ IF dropped # None THEN CancelPendingSwitch(s) ELSE UNCHANGED cand
       /\ Goto(s, "limits")
       /\ UNCHANGED <<stores, current, byRule, badPkts>>

RuleTickAlways(s) == RuleTickIf(s, TRUE, Lifted(s))  \* bug: rules beat limits
RuleTickKeeping(s) ==           \* bug: the override outlives its limit
    RuleTickIf(s, override[s] = None, FALSE)

(* The second disjunct of RuleTickIf is also the candidate that could not  *)
(* be opened: the stream keeps its source and tries again at the next tick.*)
RuleTick(s) == RuleTickIf(s, override[s] = None \/ Lifted(s), Lifted(s))

MayLimit(s) == pending[s] = None /\ override[s] = None /\ ~byRule[s]

LimitTick(s) ==
    /\ phase[s] = "limits"
    /\ \/ /\ ~MayLimit(s)
          /\ UNCHANGED <<cand, limitBlocked>>
       \/ /\ MayLimit(s) /\ CheckLimit
          /\ \E a \in Replacements(current[s]) : BeginSwitch(s, a, TRUE, None)
          /\ limitBlocked' = FALSE
       \/ /\ MayLimit(s) /\ CheckLimit /\ poolSet # {}     \* the reader did not open
          /\ UNCHANGED <<cand, limitBlocked>>
       \/ /\ MayLimit(s) /\ ~(CheckLimit /\ poolSet # {})
          /\ limitBlocked' = CheckLimit
          /\ UNCHANGED cand
    /\ Goto(s, "loop")
    /\ UNCHANGED <<stores, current, byRule, override, badPkts>>

-----------------------------------------------------------------------------
(* The defers, last registered first                                       *)

Deregister(s) ==
    /\ phase[s] = "ending"
    /\ Goto(s, "releasing")
    /\ UNCHANGED <<stores, limitBlocked, current, byRule, override, badPkts, cand>>

ReleaseCurrent(s) ==
    /\ phase[s] = "releasing"
    /\ refs' = [refs EXCEPT ![s] = Released(@, current[s])]
    /\ Goto(s, "off")
    /\ UNCHANGED <<stores, limitBlocked, current, byRule, override, badPkts,
                   pending, limitSwitchPending, timer, waiting>>

-----------------------------------------------------------------------------
(* The stores                                                              *)

EditRules == /\ rule' \in Targets \ {rule}
             /\ UNCHANGED <<limited, exceeded, poolSet>>
EditLimits == /\ limited' = ~limited
              /\ UNCHANGED <<rule, exceeded, poolSet>>
EditPool == /\ poolSet' \in (SUBSET PoolAddrs) \ {poolSet}
            /\ UNCHANGED <<rule, limited, exceeded>>
(* Time is watched, or a new day or week begins.                           *)
TimePasses == /\ exceeded' = ~exceeded
              /\ UNCHANGED <<rule, limited, poolSet>>

Stores == /\ EditRules \/ EditLimits \/ EditPool \/ TimePasses
          /\ UNCHANGED <<limitBlocked, phase, current, byRule, override,
                         badPkts, cand>>

Stream(s) ==
    \/ Begin(s) \/ OpenCurrent(s) \/ OpenFails(s)
    \/ GoodPacket(s) \/ BadPacket(s) \/ End(s)
    \/ CandidateFails(s) \/ SwitchTimeout(s) \/ CandidateReady(s)
    \/ RuleTick(s) \/ LimitTick(s)
    \/ Deregister(s) \/ ReleaseCurrent(s)

Next == Stores \/ \E s \in Streams : Stream(s)

Spec == Init /\ [][Next]_vars

(* The handler runs: its ticker, its timer and its defers are served.  The *)
(* sources can be relied on: one that is opened again and again opens, one *)
(* that is a candidate again and again shows its IDR in time.              *)
Fairness == \A s \in Streams :
    /\ WF_vars(RuleTick(s)) /\ WF_vars(LimitTick(s)) /\ WF_vars(SwitchTimeout(s))
    /\ WF_vars(Deregister(s)) /\ WF_vars(ReleaseCurrent(s))
    /\ SF_vars(RuleTick(s) /\ pending'[s] # None)
    /\ SF_vars(LimitTick(s) /\ pending'[s] # None)
    /\ SF_vars(CandidateReady(s))

FairSpec == Spec /\ Fairness

-----------------------------------------------------------------------------
TypeOK ==
    /\ rule \in Targets
    /\ limited \in BOOLEAN /\ exceeded \in BOOLEAN /\ limitBlocked \in BOOLEAN
    /\ poolSet \subseteq PoolAddrs
    /\ phase \in [Streams -> {"off", "opening", "ending", "releasing"} \cup Running]
    /\ current \in [Streams -> Addrs]
    /\ override \in [Streams -> Addrs \cup {None}]
    /\ pending \in [Streams -> Addrs \cup {None}]
    /\ byRule \in [Streams -> BOOLEAN] /\ limitSwitchPending \in [Streams -> BOOLEAN]
    /\ timer \in [Streams -> BOOLEAN] /\ waiting \in [Streams -> BOOLEAN]
    /\ badPkts \in [Streams -> 0..maxConsecutiveBadPkts]
    /\ refs \in [Streams -> [Addrs -> Int]]

(* A stream's references are its current source and its candidate, through *)
(* every cancel, timeout, refusal, switch and way to end, whichever comes  *)
(* first; nothing is left when the handler returns (releaseReader would    *)
(* otherwise keep a multicast group joined, or close one in use).          *)
One(b) == IF b THEN 1 ELSE 0
ClaimsMatchSources == \A s \in Streams, a \in Addrs :
    refs[s][a] = One(phase[s] \in Running \cup {"ending", "releasing"} /\ current[s] = a)
                 + One(pending[s] = a)

(* The four locals that together mean "a switch is under way" agree: the   *)
(* timer that would drop a candidate and the switcher that would accept it *)
(* exist exactly while there is one, and only a candidate can be a limit's.*)
CandidateIsWatched == \A s \in Streams :
    /\ waiting[s] <=> pending[s] # None
    /\ timer[s] <=> pending[s] # None
    /\ limitSwitchPending[s] => pending[s] # None

(* "The limit has priority" (703-704): while a limit's override stands the *)
(* stream plays the replacement, and no candidate of a rule is waiting to  *)
(* take it back to the channel that is used up.                            *)
OverridePlays == \A s \in Streams :
    phase[s] \in Running /\ override[s] # None =>
        current[s] = override[s] /\ pending[s] = None

(* Dynamic switching (README:13): a rule that stays in force, with no      *)
(* limit in its way, is what the stream plays in the end, whatever         *)
(* candidates, overrides and failures came before.                         *)
RuleTakesEffect == \A s \in Streams, a \in Targets :
    <>[](rule = a /\ ~limited /\ phase[s] \in Running) => <>[](current[s] = a)

-----------------------------------------------------------------------------
(* What comments and the README say and the code does not do.              *)

(* A candidate is dropped after five seconds without an IDR (470), or at   *)
(* once when its target changed (679): not at the next tick because the    *)
(* rules do not know a limit's replacement.                                *)
LimitSwitchKept ==
    [][\A s \in Streams :
         limitSwitchPending[s] /\ phase[s] = "loop" /\ phase'[s] = "limits"
           => pending'[s] = pending[s]]_vars

(* "When the time is used up it switches to another source" (README:14).   *)
LimitTakesEffect == \A s \in Streams :
    <>[](rule = home /\ CheckLimit /\ poolSet = PoolAddrs /\ phase[s] \in Running)
      => <>(current[s] \in PoolAddrs)
=============================================================================
