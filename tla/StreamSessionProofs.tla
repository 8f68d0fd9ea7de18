------------------------- MODULE StreamSessionProofs -------------------------
(* The handler of a stream keeps its references, its candidate and its     *)
(* override consistent, for any number of streams, addresses and tolerated *)
(* bad packets, and however the stores change under it.                    *)
EXTENDS StreamSession, TLAPS

(* What a stream owes to each address: its references to it.               *)
Owes(s, a) == One(phase[s] \in Running \cup {"ending", "releasing"} /\ current[s] = a)
              + One(pending[s] = a)

(* The three properties for one stream, and what makes them inductive: a   *)
(* handler outside its loop has no candidate, one inside it has not yet    *)
(* counted as many bad packets as end it, and the override a stream begins *)
(* with is the source it will open.                                        *)
Watched(s) ==
    /\ waiting[s] <=> pending[s] # None
    /\ timer[s] <=> pending[s] # None
    /\ limitSwitchPending[s] => pending[s] # None

Plays(s) ==
    /\ phase[s] \notin Running => pending[s] = None
    /\ phase[s] \in Running \cup {"opening"} =>
         /\ badPkts[s] < maxConsecutiveBadPkts
         /\ override[s] # None => current[s] = override[s] /\ pending[s] = None

Counted(s) == \A a \in Addrs : refs[s][a] = Owes(s, a)

StreamOK(s) == Watched(s) /\ Plays(s) /\ Counted(s)

SInv == TypeOK /\ \A s \in Streams : StreamOK(s)

-----------------------------------------------------------------------------
(* The address None is no address, and so owed nothing.                    *)
LEMMA NoneIsNoAddress == None \notin Addrs /\ Targets \subseteq Addrs /\ PoolAddrs \subseteq Addrs
  BY NoneAssumption DEF Addrs, Targets

(* Acquiring and releasing move the count of one address by one.           *)
LEMMA AcquiredCounts ==
    ASSUME NEW r \in [Addrs -> Int], NEW a \in Addrs
    PROVE  /\ Acquired(r, a) \in [Addrs -> Int]
           /\ \A b \in Addrs : Acquired(r, a)[b] = r[b] + One(a = b)
  BY DEF Acquired, One

LEMMA ReleasedCounts ==
    ASSUME NEW r \in [Addrs -> Int], NEW a \in Addrs \cup {None}
    PROVE  /\ Released(r, a) \in [Addrs -> Int]
           /\ \A b \in Addrs : Released(r, a)[b] = r[b] - One(a = b)
  BY NoneIsNoAddress DEF Released, One

(* A step of stream s leaves the locals of the others alone.               *)
Others(s) == \A t \in Streams \ {s} :
    /\ phase'[t] = phase[t] /\ current'[t] = current[t]
    /\ override'[t] = override[t] /\ pending'[t] = pending[t]
    /\ limitSwitchPending'[t] = limitSwitchPending[t]
    /\ timer'[t] = timer[t] /\ waiting'[t] = waiting[t]
    /\ badPkts'[t] = badPkts[t] /\ refs'[t] = refs[t]

LEMMA OneStreamMoves ==
    ASSUME SInv, NEW s \in Streams, TypeOK', Others(s), StreamOK(s)'
    PROVE  SInv'
<1>1. ASSUME NEW t \in Streams \ {s}
      PROVE  StreamOK(t)'
  <2>1. Watched(t)'
    BY <1>1 DEF SInv, StreamOK, Watched, Others
  <2>2. Plays(t)'
    BY <1>1 DEF SInv, StreamOK, Plays, Others
  <2>3. Counted(t)'
    BY <1>1 DEF SInv, StreamOK, Counted, Others, Owes
  <2> QED
    BY <2>1, <2>2, <2>3 DEF StreamOK
<1> QED
  BY <1>1 DEF SInv

-----------------------------------------------------------------------------
LEMMA InitSInv == Init => SInv
<1> SUFFICES ASSUME Init
             PROVE  SInv
  OBVIOUS
<1>1. TypeOK
  <2>1. /\ rule \in Targets /\ poolSet \subseteq PoolAddrs
        /\ limited \in BOOLEAN /\ exceeded \in BOOLEAN /\ limitBlocked \in BOOLEAN
    BY DEF Init, Targets
  <2>2. /\ phase \in [Streams -> {"off", "opening", "ending", "releasing"} \cup Running]
        /\ current \in [Streams -> Addrs]
        /\ override \in [Streams -> Addrs \cup {None}]
        /\ pending \in [Streams -> Addrs \cup {None}]
    BY DEF Init, Addrs
  <2>3. /\ byRule \in [Streams -> BOOLEAN] /\ limitSwitchPending \in [Streams -> BOOLEAN]
        /\ timer \in [Streams -> BOOLEAN] /\ waiting \in [Streams -> BOOLEAN]
    BY DEF Init
  <2>4. badPkts \in [Streams -> 0..maxConsecutiveBadPkts]
    BY BadAssumption DEF Init
  <2>5. refs \in [Streams -> [Addrs -> Int]]
    BY DEF Init, NoRefs
  <2> QED
    BY <2>1, <2>2, <2>3, <2>4, <2>5 DEF TypeOK
<1>2. ASSUME NEW s \in Streams
      PROVE  StreamOK(s)
  <2>1. Watched(s)
    BY DEF Init, Watched
  <2>2. Plays(s)
    BY BadAssumption DEF Init, Plays, Running
  <2>3. Counted(s)
    BY NoneIsNoAddress DEF Init, Counted, Owes, One, NoRefs, Running
  <2> QED
    BY <2>1, <2>2, <2>3 DEF StreamOK
<1> QED
  BY <1>1, <1>2 DEF SInv

(* The steps that touch neither the candidate nor the sources in use.      *)
LEMMA PlainStep ==
    ASSUME SInv, NEW s \in Streams,
           OpenFails(s) \/ GoodPacket(s) \/ Deregister(s)
    PROVE  SInv'
<1> USE BadAssumption, NoneIsNoAddress DEF SInv, StreamOK
<1>1. TypeOK' /\ Others(s)
  BY DEF OpenFails, GoodPacket, Deregister, Goto, TypeOK, Others, cand, stores, Running
<1>2. UNCHANGED <<current, override, cand>>
  BY DEF OpenFails, GoodPacket, Deregister, cand
<1>3. Watched(s)'
  BY <1>2 DEF cand, Watched
<1>4. Plays(s)'
  BY <1>2 DEF cand, Plays, OpenFails, GoodPacket, Deregister, Goto, Running, TypeOK
<1>5. Counted(s)'
  BY <1>2 DEF cand, Counted, Owes, One, OpenFails, GoodPacket, Deregister, Goto,
              Running, TypeOK
<1> QED
  BY <1>1, <1>3, <1>4, <1>5, OneStreamMoves

(* A stream chooses its first source, then opens it, at the end returns it.*)
LEMMA BeginStep ==
    ASSUME SInv, NEW s \in Streams, Begin(s)
    PROVE  SInv'
<1> USE BadAssumption, NoneIsNoAddress DEF SInv, StreamOK
<1>1. Replacements(home) \subseteq Addrs
  BY DEF Replacements, TypeOK
<1>2. /\ UNCHANGED <<stores, cand>>
      /\ phase' = [phase EXCEPT ![s] = "opening"]
      /\ badPkts' = [badPkts EXCEPT ![s] = 0]
      /\ byRule' = [byRule EXCEPT ![s] = rule # home]
      /\ limitBlocked' \in BOOLEAN
      /\ \E a \in Addrs, o \in Addrs \cup {None} :
           /\ current' = [current EXCEPT ![s] = a]
           /\ override' = [override EXCEPT ![s] = o]
           /\ o # None => o = a
  <2>1. home \in Addrs /\ rule \in Addrs
    BY DEF Addrs, TypeOK, Targets
  <2>2. CASE rule # home
    BY <2>1, <2>2 DEF Begin, Goto, TypeOK
  <2>3. CASE rule = home /\ CheckLimit /\ poolSet # {}
    BY <1>1, <2>1, <2>3 DEF Begin, Goto, TypeOK
  <2>4. CASE rule = home /\ ~(CheckLimit /\ poolSet # {})
    BY <1>1, <2>1, <2>4 DEF Begin, Goto, TypeOK, CheckLimit, Replacements
  <2> QED
    BY <2>2, <2>3, <2>4
<1>3. TypeOK' /\ Others(s)
  BY <1>2 DEF TypeOK, Others, cand, stores, Running
<1>4. phase[s] = "off" /\ pending[s] = None
  BY DEF Begin, Plays, Running
<1>5. Watched(s)'
  BY <1>2 DEF cand, Watched
<1>6. Plays(s)'
  BY <1>2, <1>4 DEF cand, Plays, Running, TypeOK
<1>7. Counted(s)'
  BY <1>2, <1>4 DEF cand, Counted, Owes, One, Running, TypeOK
<1> QED
  BY <1>3, <1>5, <1>6, <1>7, OneStreamMoves

LEMMA OpenStep ==
    ASSUME SInv, NEW s \in Streams, OpenCurrent(s)
    PROVE  SInv'
<1> USE BadAssumption, NoneIsNoAddress DEF SInv, StreamOK
<1>1. /\ Acquired(refs[s], current[s]) \in [Addrs -> Int]
      /\ \A b \in Addrs : Acquired(refs[s], current[s])[b]
                            = refs[s][b] + One(current[s] = b)
  BY AcquiredCounts DEF TypeOK
<1>2. /\ phase[s] = "opening" /\ pending[s] = None
      /\ phase' = [phase EXCEPT ![s] = "loop"]
      /\ refs' = [refs EXCEPT ![s] = Acquired(refs[s], current[s])]
      /\ UNCHANGED <<stores, limitBlocked, current, byRule, override, badPkts,
                     pending, limitSwitchPending, timer, waiting>>
  BY DEF OpenCurrent, Goto, Plays, Running
<1>3. TypeOK' /\ Others(s)
  BY <1>1, <1>2 DEF TypeOK, Others, stores, Running
<1>4. Watched(s)'
  BY <1>2 DEF Watched
<1>5. Plays(s)'
  BY <1>2 DEF Plays, Running, TypeOK
<1>6. ASSUME NEW a \in Addrs
      PROVE  refs'[s][a] = Owes(s, a)'
  <2>1. refs[s][a] = 0
    BY <1>2 DEF Counted, Owes, One, Running
  <2>2. refs'[s][a] = One(current[s] = a)
    BY <1>1, <1>2, <2>1 DEF TypeOK, One
  <2>3. Owes(s, a)' = One(current[s] = a)
    BY <1>2 DEF Owes, One, Running, TypeOK
  <2> QED
    BY <2>2, <2>3
<1> QED
  BY <1>3, <1>4, <1>5, <1>6, OneStreamMoves DEF Counted

LEMMA ReturnStep ==
    ASSUME SInv, NEW s \in Streams, ReleaseCurrent(s)
    PROVE  SInv'
<1> USE BadAssumption, NoneIsNoAddress DEF SInv, StreamOK
<1>1. /\ Released(refs[s], current[s]) \in [Addrs -> Int]
      /\ \A b \in Addrs : Released(refs[s], current[s])[b]
                            = refs[s][b] - One(current[s] = b)
  BY ReleasedCounts DEF TypeOK
<1>2. /\ phase[s] = "releasing" /\ pending[s] = None
      /\ phase' = [phase EXCEPT ![s] = "off"]
      /\ refs' = [refs EXCEPT ![s] = Released(refs[s], current[s])]
      /\ UNCHANGED <<stores, limitBlocked, current, byRule, override, badPkts,
                     pending, limitSwitchPending, timer, waiting>>
  BY DEF ReleaseCurrent, Goto, Plays, Running
<1>3. TypeOK' /\ Others(s)
  BY <1>1, <1>2 DEF TypeOK, Others, stores, Running
<1>4. Watched(s)'
  BY <1>2 DEF Watched
<1>5. Plays(s)'
  BY <1>2 DEF Plays, Running, TypeOK
<1>6. Counted(s)'
  BY <1>1, <1>2 DEF Counted, Owes, One, Running, TypeOK
<1> QED
  BY <1>3, <1>4, <1>5, <1>6, OneStreamMoves

-----------------------------------------------------------------------------
(* What SetCandidate leaves behind when no candidate is left.              *)
CandidateTyped ==
    /\ pending' \in [Streams -> Addrs \cup {None}]
    /\ limitSwitchPending' \in [Streams -> BOOLEAN]
    /\ timer' \in [Streams -> BOOLEAN] /\ waiting' \in [Streams -> BOOLEAN]
    /\ refs' \in [Streams -> [Addrs -> Int]]

CandidateOthers(s) == \A t \in Streams \ {s} :
    /\ pending'[t] = pending[t] /\ limitSwitchPending'[t] = limitSwitchPending[t]
    /\ timer'[t] = timer[t] /\ waiting'[t] = waiting[t] /\ refs'[t] = refs[t]

LEMMA CandidateGone ==
    ASSUME SInv, NEW s \in Streams, NEW r \in [Addrs -> Int],
           SetCandidate(s, None, FALSE, FALSE, r)
    PROVE  /\ CandidateTyped /\ CandidateOthers(s) /\ Watched(s)'
           /\ pending'[s] = None /\ refs'[s] = r
<1> USE DEF SInv, TypeOK, SetCandidate
<1>1. pending'[s] = None /\ refs'[s] = r
  OBVIOUS
<1>2. waiting'[s] = FALSE /\ timer'[s] = FALSE /\ limitSwitchPending'[s] = FALSE
  OBVIOUS
<1>3. Watched(s)'
  BY <1>1, <1>2 DEF Watched
<1>4. pending' \in [Streams -> Addrs \cup {None}] /\ refs' \in [Streams -> [Addrs -> Int]]
  OBVIOUS
<1>5. limitSwitchPending' \in [Streams -> BOOLEAN]
  OBVIOUS
<1>6. timer' \in [Streams -> BOOLEAN] /\ waiting' \in [Streams -> BOOLEAN]
  OBVIOUS
<1>7. CandidateOthers(s)
  BY DEF CandidateOthers
<1> QED
  BY <1>1, <1>3, <1>4, <1>5, <1>6, <1>7 DEF CandidateTyped

(* A cancelled candidate leaves the reference of the current source only.  *)
LEMMA Cancelled ==
    ASSUME SInv, NEW s \in Streams, CancelPendingSwitch(s)
    PROVE  /\ CandidateTyped /\ CandidateOthers(s) /\ Watched(s)'
           /\ pending'[s] = None
           /\ \A a \in Addrs : refs'[s][a] = refs[s][a] - One(pending[s] = a)
<1>1. /\ Released(refs[s], pending[s]) \in [Addrs -> Int]
      /\ \A a \in Addrs : Released(refs[s], pending[s])[a]
                            = refs[s][a] - One(pending[s] = a)
  BY ReleasedCounts DEF SInv, TypeOK
<1>2. SetCandidate(s, None, FALSE, FALSE, Released(refs[s], pending[s]))
  BY DEF CancelPendingSwitch
<1> QED
  BY <1>1, <1>2, CandidateGone

(* A new candidate, perhaps after an old one has been dropped: BeginSwitch *)
(* whoever asked for it.                                                   *)
Begins(s, p, dropped) ==
    /\ pending' = [pending EXCEPT ![s] = p]
    /\ limitSwitchPending' \in [Streams -> BOOLEAN]
    /\ \A t \in Streams \ {s} : limitSwitchPending'[t] = limitSwitchPending[t]
    /\ timer' = [timer EXCEPT ![s] = TRUE]
    /\ waiting' = [waiting EXCEPT ![s] = TRUE]
    /\ refs' = [refs EXCEPT ![s] = Acquired(Released(refs[s], dropped), p)]

LEMMA Begun ==
    ASSUME SInv, NEW s \in Streams, NEW p \in Addrs,
           NEW dropped \in Addrs \cup {None}, Begins(s, p, dropped)
    PROVE  /\ CandidateTyped /\ CandidateOthers(s) /\ Watched(s)'
           /\ pending'[s] = p
           /\ \A a \in Addrs :
                refs'[s][a] = refs[s][a] - One(dropped = a) + One(p = a)
<1> DEFINE r1 == Released(refs[s], dropped)
           r2 == Acquired(r1, p)
<1>1. r1 \in [Addrs -> Int] /\ \A a \in Addrs : r1[a] = refs[s][a] - One(dropped = a)
  BY ReleasedCounts DEF SInv, TypeOK
<1>2. r2 \in [Addrs -> Int] /\ \A a \in Addrs : r2[a] = r1[a] + One(p = a)
  BY <1>1, AcquiredCounts
<1>3. refs' = [refs EXCEPT ![s] = r2]
  BY DEF Begins
<1> HIDE DEF r1, r2
<1> USE NoneIsNoAddress DEF SInv, TypeOK, Begins
<1>4. pending'[s] = p /\ p # None /\ refs'[s] = r2
  BY <1>3
<1>5. waiting'[s] = TRUE /\ timer'[s] = TRUE
  OBVIOUS
<1>6. Watched(s)'
  BY <1>4, <1>5 DEF Watched
<1>7. pending' \in [Streams -> Addrs \cup {None}] /\ refs' \in [Streams -> [Addrs -> Int]]
  BY <1>2, <1>3
<1>8. limitSwitchPending' \in [Streams -> BOOLEAN]
  OBVIOUS
<1>9. timer' \in [Streams -> BOOLEAN] /\ waiting' \in [Streams -> BOOLEAN]
  OBVIOUS
<1>10. CandidateOthers(s)
  BY <1>3 DEF CandidateOthers
<1> QED
  BY <1>1, <1>2, <1>4, <1>6, <1>7, <1>8, <1>9, <1>10 DEF CandidateTyped

(* The counts are integers and, in the loop, those of the current source   *)
(* and the candidate.                                                      *)
LEMMA LoopCounts ==
    ASSUME SInv, NEW s \in Streams, phase[s] \in Running, NEW a \in Addrs
    PROVE  refs[s][a] = One(current[s] = a) + One(pending[s] = a)
  BY DEF SInv, StreamOK, Counted, Owes, One, Running

(* The stream ends, or its candidate fails.                                *)
LEMMA CancelStep ==
    ASSUME SInv, NEW s \in Streams,
           \/ BadPacket(s) /\ badPkts[s] + 1 >= maxConsecutiveBadPkts
           \/ End(s) \/ CandidateFails(s)
    PROVE  SInv'
<1> USE BadAssumption, NoneIsNoAddress
<1>1. /\ CancelPendingSwitch(s) /\ phase[s] = "loop"
      /\ UNCHANGED <<stores, limitBlocked, current, byRule, override>>
      /\ \/ phase' = [phase EXCEPT ![s] = "ending"]
         \/ phase' = phase /\ badPkts' = badPkts
      /\ \/ badPkts' = badPkts
         \/ /\ badPkts' = [badPkts EXCEPT ![s] = @ + 1]
            /\ badPkts[s] < maxConsecutiveBadPkts
  BY DEF BadPacket, BadPacketUpTo, End, CandidateFails, Goto, SInv, StreamOK, Plays, Running
<1>2. /\ CandidateTyped /\ CandidateOthers(s) /\ Watched(s)'
      /\ pending'[s] = None
      /\ \A a \in Addrs : refs'[s][a] = refs[s][a] - One(pending[s] = a)
  BY <1>1, Cancelled
<1>3. phase'[s] \in {"loop", "ending"} /\ current'[s] = current[s] /\ override'[s] = override[s]
  BY <1>1 DEF SInv, TypeOK
<1>4. badPkts' \in [Streams -> 0..maxConsecutiveBadPkts]
  BY <1>1 DEF SInv, TypeOK
<1>5. phase' \in [Streams -> {"off", "opening", "ending", "releasing"} \cup Running]
  BY <1>1 DEF SInv, TypeOK
<1>6. TypeOK'
  BY <1>1, <1>2, <1>4, <1>5 DEF SInv, TypeOK, CandidateTyped, stores
<1>7. Others(s)
  BY <1>1, <1>2 DEF Others, CandidateOthers, SInv, TypeOK
<1>8. Plays(s)'
  BY <1>1, <1>2, <1>3 DEF Plays, SInv, StreamOK, Running, TypeOK
<1>9. ASSUME NEW a \in Addrs
      PROVE  refs'[s][a] = Owes(s, a)'
  <2>1. refs[s][a] = One(current[s] = a) + One(pending[s] = a)
    BY <1>1, LoopCounts DEF Running
  <2>2. refs'[s][a] = One(current[s] = a)
    BY <1>2, <2>1 DEF One
  <2>3. Owes(s, a)' = One(current[s] = a)
    BY <1>2, <1>3 DEF Owes, One, Running
  <2> QED
    BY <2>2, <2>3
<1> QED
  BY <1>2, <1>6, <1>7, <1>8, <1>9, OneStreamMoves DEF StreamOK, Counted

(* A bad packet that is tolerated.                                         *)
LEMMA BadPacketStep ==
    ASSUME SInv, NEW s \in Streams, BadPacket(s),
           ~(badPkts[s] + 1 >= maxConsecutiveBadPkts)
    PROVE  SInv'
<1> USE BadAssumption, NoneIsNoAddress DEF SInv, StreamOK
<1>1. /\ UNCHANGED <<stores, limitBlocked, phase, current, byRule, override, cand>>
      /\ badPkts' = [badPkts EXCEPT ![s] = @ + 1]
  BY DEF BadPacket, BadPacketUpTo
<1>2. TypeOK' /\ Others(s)
  BY <1>1 DEF TypeOK, Others, cand, stores
<1>3. Watched(s)'
  BY <1>1 DEF cand, Watched
<1>4. Plays(s)'
  BY <1>1 DEF cand, Plays, TypeOK
<1>5. Counted(s)'
  BY <1>1 DEF cand, Counted, Owes
<1> QED
  BY <1>2, <1>3, <1>4, <1>5, OneStreamMoves

(* The candidate takes over: its reference becomes the current source's.   *)
LEMMA ReadyStep ==
    ASSUME SInv, NEW s \in Streams, CandidateReady(s)
    PROVE  SInv'
<1> USE BadAssumption, NoneIsNoAddress
<1>1. /\ phase[s] = "loop" /\ pending[s] \in Addrs /\ override[s] = None
      /\ SetCandidate(s, None, FALSE, FALSE, Released(refs[s], current[s]))
      /\ current' = [current EXCEPT ![s] = pending[s]]
      /\ UNCHANGED <<stores, limitBlocked, phase, byRule, badPkts>>
  BY DEF CandidateReady, SwitchReleasing, SInv, StreamOK, Watched, Plays, TypeOK, Running
<1>2. /\ override' \in [Streams -> Addrs \cup {None}]
      /\ override'[s] \in {None, pending[s]}
      /\ \A t \in Streams \ {s} : override'[t] = override[t]
  BY <1>1 DEF CandidateReady, SwitchReleasing, SInv, TypeOK
<1>3. /\ Released(refs[s], current[s]) \in [Addrs -> Int]
      /\ \A a \in Addrs : Released(refs[s], current[s])[a]
                            = refs[s][a] - One(current[s] = a)
  BY ReleasedCounts DEF SInv, TypeOK
<1>4. /\ CandidateTyped /\ CandidateOthers(s) /\ Watched(s)'
      /\ pending'[s] = None /\ refs'[s] = Released(refs[s], current[s])
  BY <1>1, <1>3, CandidateGone
<1>5. current' \in [Streams -> Addrs] /\ current'[s] = pending[s]
  BY <1>1 DEF SInv, TypeOK
<1>6. TypeOK'
  BY <1>1, <1>2, <1>4, <1>5 DEF SInv, TypeOK, CandidateTyped, stores
<1>7. Others(s)
  BY <1>1, <1>2, <1>4 DEF Others, CandidateOthers, SInv, TypeOK
<1>8. Plays(s)'
  BY <1>1, <1>2, <1>4, <1>5 DEF Plays, SInv, StreamOK, Running
<1>9. ASSUME NEW a \in Addrs
      PROVE  refs'[s][a] = Owes(s, a)'
  <2>1. refs[s][a] = One(current[s] = a) + One(pending[s] = a)
    BY <1>1, LoopCounts DEF Running
  <2>2. refs'[s][a] = One(pending[s] = a)
    BY <1>3, <1>4, <2>1 DEF One
  <2>3. Owes(s, a)' = One(pending[s] = a)
    BY <1>1, <1>4, <1>5 DEF Owes, One, Running
  <2> QED
    BY <2>2, <2>3
<1> QED
  BY <1>4, <1>6, <1>7, <1>8, <1>9, OneStreamMoves DEF StreamOK, Counted

(* Both halves of a tick end in one of three ways for the candidate; what  *)
(* is left to show in each is that the references follow.                  *)
LEMMA TickStep ==
    ASSUME SInv, NEW s \in Streams, phase[s] \in Running,
           NEW q \in Running, phase' = [phase EXCEPT ![s] = q],
           NEW o \in Addrs \cup {None}, override' = [override EXCEPT ![s] = o],
           o \in {None, override[s]},
           limitBlocked' \in BOOLEAN, UNCHANGED <<stores, current, byRule, badPkts>>,
           CandidateTyped, CandidateOthers(s), Watched(s)',
           pending'[s] # None => o = None,
           \A a \in Addrs :
             refs'[s][a] = refs[s][a] - One(pending[s] = a) + One(pending'[s] = a)
    PROVE  SInv'
<1> USE BadAssumption, NoneIsNoAddress
<1>1. phase'[s] = q /\ override'[s] = o
  BY DEF SInv, TypeOK
<1>2. phase' \in [Streams -> {"off", "opening", "ending", "releasing"} \cup Running]
  BY DEF SInv, TypeOK
<1>3. override' \in [Streams -> Addrs \cup {None}]
  BY DEF SInv, TypeOK
<1>4. TypeOK'
  BY <1>2, <1>3 DEF SInv, TypeOK, CandidateTyped, stores
<1>5. Others(s)
  BY DEF Others, CandidateOthers, SInv, TypeOK
<1>6. Plays(s)'
  BY <1>1 DEF Plays, SInv, StreamOK
<1>7. ASSUME NEW a \in Addrs
      PROVE  refs'[s][a] = Owes(s, a)'
  <2>1. refs[s][a] = One(current[s] = a) + One(pending[s] = a)
    BY LoopCounts
  <2>2. refs'[s][a] = One(current[s] = a) + One(pending'[s] = a)
    BY <2>1 DEF One
  <2>3. Owes(s, a)' = One(current[s] = a) + One(pending'[s] = a)
    BY <1>1 DEF Owes, One, Running
  <2> QED
    BY <2>2, <2>3
<1> QED
  BY <1>4, <1>5, <1>6, <1>7, OneStreamMoves DEF StreamOK, Counted

(* The candidate stays as it is.                                           *)
LEMMA Kept ==
    ASSUME SInv, NEW s \in Streams, UNCHANGED cand
    PROVE  /\ CandidateTyped /\ CandidateOthers(s) /\ Watched(s)'
           /\ pending'[s] = pending[s]
           /\ \A a \in Addrs :
                refs'[s][a] = refs[s][a] - One(pending[s] = a) + One(pending'[s] = a)
<1>1. CandidateTyped
  BY DEF CandidateTyped, cand, SInv, TypeOK
<1>2. CandidateOthers(s)
  BY DEF CandidateOthers, cand
<1>3. Watched(s)'
  BY DEF cand, SInv, StreamOK, Watched
<1>4. \A a \in Addrs :
        refs'[s][a] = refs[s][a] - One(pending[s] = a) + One(pending'[s] = a)
  BY DEF cand, SInv, TypeOK, One
<1> QED
  BY <1>1, <1>2, <1>3, <1>4 DEF cand

LEMMA RuleStep ==
    ASSUME SInv, NEW s \in Streams, RuleTick(s)
    PROVE  SInv'
<1> DEFINE dropped == IF rule # pending[s] THEN pending[s] ELSE None
           o == IF Lifted(s) THEN None ELSE override[s]
<1>1. /\ phase[s] = "loop" /\ phase[s] \in Running /\ "limits" \in Running
      /\ phase' = [phase EXCEPT ![s] = "limits"]
      /\ override' = [override EXCEPT ![s] = o]
      /\ UNCHANGED <<stores, current, byRule, badPkts>>
  BY DEF RuleTick, RuleTickIf, Goto, Running
<1>2. limitBlocked' \in BOOLEAN
  BY DEF RuleTick, RuleTickIf
<1>3. o \in Addrs \cup {None} /\ o \in {None, override[s]}
  BY DEF SInv, TypeOK
<1>4. /\ rule \in Addrs /\ rule # None
      /\ pending[s] \in Addrs \cup {None} /\ dropped \in Addrs \cup {None}
  BY NoneIsNoAddress DEF SInv, TypeOK
<1>5. pending[s] # None => override[s] = None
  BY <1>1 DEF SInv, StreamOK, Plays
<1>6. CASE /\ override[s] = None \/ Lifted(s)
           /\ pending[s] \in {None, dropped}
           /\ BeginSwitch(s, rule, FALSE, dropped)
  <2>1. dropped = pending[s] /\ o = None
    BY <1>4, <1>6
  <2> HIDE DEF dropped, o
  <2>2. Begins(s, rule, pending[s])
    BY <1>4, <1>6, <2>1 DEF BeginSwitch, SetCandidate, Begins, SInv, TypeOK
  <2>3. /\ CandidateTyped /\ CandidateOthers(s) /\ Watched(s)'
        /\ pending'[s] = rule
        /\ \A a \in Addrs :
             refs'[s][a] = refs[s][a] - One(pending[s] = a) + One(rule = a)
    BY <1>4, <2>2, Begun
  <2> QED
    BY <1>1, <1>2, <1>3, <2>1, <2>3, TickStep
<1>7. CASE dropped # None /\ CancelPendingSwitch(s)
  <2> HIDE DEF dropped, o
  <2>1. /\ CandidateTyped /\ CandidateOthers(s) /\ Watched(s)'
        /\ pending'[s] = None
        /\ \A a \in Addrs : refs'[s][a] = refs[s][a] - One(pending[s] = a)
    BY <1>7, Cancelled
  <2>2. \A a \in Addrs :
          refs'[s][a] = refs[s][a] - One(pending[s] = a) + One(pending'[s] = a)
    BY <2>1, NoneIsNoAddress DEF SInv, TypeOK, One
  <2> QED
    BY <1>1, <1>2, <1>3, <2>1, <2>2, TickStep
<1>8. CASE UNCHANGED cand
  <2> HIDE DEF dropped
  <2>1. pending'[s] # None => o = None
    BY <1>5, <1>8 DEF cand
  <2> HIDE DEF o
  <2> QED
    BY <1>1, <1>2, <1>3, <1>8, <2>1, Kept, TickStep
<1> QED
  BY <1>6, <1>7, <1>8 DEF RuleTick, RuleTickIf

LEMMA LimitStep ==
    ASSUME SInv, NEW s \in Streams, LimitTick(s)
    PROVE  SInv'
<1>1. /\ phase[s] = "limits" /\ phase[s] \in Running /\ "loop" \in Running
      /\ phase' = [phase EXCEPT ![s] = "loop"]
      /\ UNCHANGED <<stores, current, byRule, override, badPkts>>
  BY DEF LimitTick, Goto, Running
<1>2. limitBlocked' \in BOOLEAN
  BY DEF LimitTick, CheckLimit, SInv, TypeOK
<1>3. override[s] \in Addrs \cup {None} /\ override' = [override EXCEPT ![s] = override[s]]
  BY <1>1 DEF SInv, TypeOK
<1>4. pending[s] # None => override[s] = None
  BY <1>1 DEF SInv, StreamOK, Plays
<1>5. ASSUME MayLimit(s), NEW a \in Replacements(current[s]), BeginSwitch(s, a, TRUE, None)
      PROVE  SInv'
  <2>1. pending[s] = None /\ override[s] = None
    BY <1>5 DEF MayLimit
  <2>2. a \in Addrs
    BY NoneIsNoAddress DEF Replacements, SInv, TypeOK
  <2>3. Begins(s, a, None)
    BY <1>5, <2>2, NoneIsNoAddress DEF BeginSwitch, SetCandidate, Begins, SInv, TypeOK
  <2>4. /\ CandidateTyped /\ CandidateOthers(s) /\ Watched(s)'
        /\ pending'[s] = a
        /\ \A b \in Addrs :
             refs'[s][b] = refs[s][b] - One(None = b) + One(a = b)
    BY <2>2, <2>3, Begun
  <2>5. \A b \in Addrs :
          refs'[s][b] = refs[s][b] - One(pending[s] = b) + One(pending'[s] = b)
    BY <2>1, <2>4 DEF One
  <2> QED
    BY <1>1, <1>2, <1>3, <2>1, <2>4, <2>5, TickStep
<1>6. CASE UNCHANGED cand
  <2>1. pending'[s] # None => override[s] = None
    BY <1>4, <1>6 DEF cand
  <2> QED
    BY <1>1, <1>2, <1>3, <1>6, <2>1, Kept, TickStep
<1> QED
  BY <1>5, <1>6 DEF LimitTick

(* The stores change under the streams, or nothing does.                   *)
LEMMA StoresStep ==
    ASSUME SInv, Stores \/ UNCHANGED vars
    PROVE  SInv'
<1>1. UNCHANGED <<limitBlocked, phase, current, byRule, override, badPkts, cand>>
  BY DEF Stores, vars
<1>2. TypeOK'
  BY <1>1 DEF Stores, EditRules, EditLimits, EditPool, TimePasses, vars, stores, cand,
              SInv, TypeOK
<1>3. ASSUME NEW s \in Streams
      PROVE  StreamOK(s)'
  <2>1. Watched(s)'
    BY <1>1 DEF cand, SInv, StreamOK, Watched
  <2>2. Plays(s)'
    BY <1>1 DEF cand, SInv, StreamOK, Plays
  <2>3. Counted(s)'
    BY <1>1 DEF cand, SInv, StreamOK, Counted, Owes
  <2> QED
    BY <2>1, <2>2, <2>3 DEF StreamOK
<1> QED
  BY <1>2, <1>3 DEF SInv

LEMMA NextSInv == SInv /\ [Next]_vars => SInv'
<1> SUFFICES ASSUME SInv, [Next]_vars
             PROVE  SInv'
  OBVIOUS
<1>1. ASSUME NEW s \in Streams, BadPacket(s)
      PROVE  SInv'
  BY <1>1, CancelStep, BadPacketStep
<1>2. ASSUME NEW s \in Streams, SwitchTimeout(s)
      PROVE  SInv'
  BY <1>2, CancelStep DEF SwitchTimeout
<1>3. ASSUME NEW s \in Streams, Stream(s)
      PROVE  SInv'
  BY <1>1, <1>2, <1>3, BeginStep, OpenStep, PlainStep, CancelStep, ReadyStep,
     RuleStep, LimitStep, ReturnStep DEF Stream
<1> QED
  BY <1>3, StoresStep DEF Next

(* SInv holds in every reachable state.                                    *)
THEOREM SessionInvariance == Spec => []SInv
  BY InitSInv, NextSInv, PTL DEF Spec

-----------------------------------------------------------------------------
(* The locals of the handlers keep their types; the bad packets never pass *)
(* the number that ends a stream (TypeOK).                                 *)
THEOREM SessionTypes == Spec => []TypeOK
<1>1. SInv => TypeOK
  BY DEF SInv
<1> QED
  BY SessionInvariance, <1>1, PTL

(* A stream's reader references are its current source and its candidate,  *)
(* on every path through the handler (ClaimsMatchSources).                 *)
THEOREM ReferencesBalance == Spec => []ClaimsMatchSources
<1>1. SInv => ClaimsMatchSources
  BY DEF SInv, StreamOK, Counted, Owes, ClaimsMatchSources
<1> QED
  BY SessionInvariance, <1>1, PTL

(* There is a timer and a waiting switcher exactly while there is a        *)
(* candidate (CandidateIsWatched).                                         *)
THEOREM CandidatesAreWatched == Spec => []CandidateIsWatched
<1>1. SInv => CandidateIsWatched
  BY DEF SInv, StreamOK, Watched, CandidateIsWatched
<1> QED
  BY SessionInvariance, <1>1, PTL

(* While a limit's override stands its replacement plays, and no rule's    *)
(* candidate waits to take the stream back (OverridePlays).                *)
THEOREM LimitsBeatRules == Spec => []OverridePlays
<1>1. SInv => OverridePlays
  BY DEF SInv, StreamOK, Plays, OverridePlays
<1> QED
  BY SessionInvariance, <1>1, PTL
=============================================================================
