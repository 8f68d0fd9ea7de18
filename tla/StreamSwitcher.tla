--------------------------- MODULE StreamSwitcher ---------------------------
(***************************************************************************)
(* mcast.StreamSwitcher (internal/mcast/stream_switcher.go): one viewer's  *)
(* program, kept while its sources change.  The first source is passed on  *)
(* and observed; a candidate is buffered from the start of a frame until   *)
(* the frame turns out to be an IDR, then it becomes the source and its    *)
(* packets are rewritten into the program, its clocks and its counters.    *)
(* A call is one step, as in relay.ServeHTTP, which also gives up a        *)
(* candidate that was refused and ends the stream on an error.             *)
(***************************************************************************)
EXTENDS TransportStream

CONSTANTS First,           \* the source the viewer begins with
          MaxPCRGap,       \* 18000 in the code
          MaxStep,         \* 90000
          DefaultStep,     \* 3600
          spsWindowTicks,  \* 180000
          MaxDatagram,     \* bound: packets in a datagram
          MaxPos           \* bound: packets of a source

ASSUME BoundAssumption == MaxPos \in Nat
ASSUME StepAssumption == MaxStep \in Nat /\ MaxStep < Clock /\ DefaultStep \in 1..MaxStep
ASSUME FirstAssumption == First \in Sources /\ None \notin Sources

VARIABLES
  tables,     \* canonical, canonicalPAT, canonicalPMT, canonicalSPS/PPS, psiVersion
  clock,      \* lastVideoPTS, videoStep, lastPCR
  lastCC,
  active,     \* sourceTransform, or None
  candidate,  \* candidateState with its source, or None
  current,    \* the source the viewer watches, None when the stream has ended
  pos,        \* how far each source has sent
  out,        \* what the last call returned
  viewer      \* history: what the viewer's decoder has seen

switcher     == <<tables, clock, lastCC, active>>
switcherVars == <<switcher, candidate, current, pos, out, viewer>>

Packets == [s \in Sources |-> [n \in 0..MaxPos |-> Packet(s, n)]]

(* splitTSPackets: the next m packets of s.                                *)
Datagram(s, m) == [i \in 1..m |-> Packets[s][pos[s] + i - 1]]

NewCandidate(s) ==
    [src |-> s, pmtKnown |-> FALSE, profile |-> FALSE, refused |-> FALSE,
     buffering |-> FALSE, pkts |-> <<>>, pts |-> None, par |-> None,
     parPts |-> 0, idr |-> FALSE, pcr |-> None, cc |-> [k \in Kinds |-> None],
     newest |-> [k \in Kinds |-> None]]  \* history: the packet cc is from

SwitcherInit ==
    /\ tables = [level |-> "none", pat |-> None, pmt |-> None, par |-> None, version |-> 0]
    /\ clock = [pts |-> None, step |-> 0, pcr |-> None]
    /\ lastCC = [k \in Kinds |-> None]
    /\ active = None /\ candidate = None /\ current = First
    /\ pos = [s \in Sources |-> 0]
    /\ out = <<>>
    /\ viewer = [pat |-> FALSE, version |-> None, par |-> None, pts |-> None,
                 pcr |-> None, cc |-> [k \in Kinds |-> None]]

-----------------------------------------------------------------------------
(* The viewer: a decoder that knows the program from its PAT and PMT.      *)

See(v, p) ==
    LET w == IF p.pay THEN [v EXCEPT !.cc[p.kind] = p.cc] ELSE v
    IN CASE p.kind = "pat" -> [w EXCEPT !.pat = TRUE]
         [] p.kind = "pmt" /\ v.pat -> [w EXCEPT !.version = p.version]
         [] p.kind = "video" /\ v.version # None ->
              [w EXCEPT !.par = Program[p.src].par,
                        !.pts = IF p.pts # None THEN p.pts ELSE @,
                        !.pcr = IF p.pcr # None THEN p.pcr ELSE @]
         [] OTHER -> w

Seen(v, pkts) == FoldLeft(See, v, pkts)
Deliver(pkts) == out' = pkts /\ viewer' = Seen(viewer, pkts)

-----------------------------------------------------------------------------
(* Observing what goes out                                                 *)

(* observeTimestamps; its caller sees to it that the program is known.     *)
ObserveTimestamps(c, p) ==
    LET delta == ClockPlus(p.pts, -c.pts)
    IN [pts  |-> IF p.pts # None THEN p.pts ELSE c.pts,
        step |-> IF p.pts # None /\ c.pts # None /\ delta \in 1..MaxStep
                 THEN delta ELSE c.step,
        pcr  |-> IF p.pcr # None THEN p.pcr ELSE c.pcr]

(* observeInitial: the tables and parameters of the first source.          *)
ObserveInitial(t, p) ==
    CASE p.kind = "pat" ->
           [t EXCEPT !.level = IF @ = "none" THEN "pat" ELSE @,
                     !.version = p.version, !.pat = p.version]
      [] p.kind = "pmt" /\ t.level # "none" ->
           [t EXCEPT !.level = "full", !.pmt = t.version]
      [] p.kind = "video" /\ t.level = "full" /\ t.par = None ->
           [t EXCEPT !.par = p.par]
      [] OTHER -> t

(* One packet of the first source, with observeInitialOutput.              *)
Observe(st, p) ==
    LET t == ObserveInitial(st.tables, p)
    IN [tables |-> t,
        cc     |-> IF p.pay THEN [st.cc EXCEPT ![p.kind] = p.cc] ELSE st.cc,
        clock  |-> IF t.level = "full" THEN ObserveTimestamps(st.clock, p) ELSE st.clock]

Observed(st, pkts) == FoldLeft(Observe, st, pkts)

-----------------------------------------------------------------------------
(* Rewriting a source into the program                                     *)

NextCC(cc, p) ==                        \* rewriteContinuity
    CASE cc[p.kind] = None -> p.cc
      [] cc[p.kind] # None /\ p.pay -> (cc[p.kind] + 1) % CcSpace
      [] OTHER -> cc[p.kind]

Emit(st, p) ==
    LET c == NextCC(st.cc, p)
    IN [st EXCEPT !.cc[p.kind] = c, !.clock = ObserveTimestamps(@, p),
                  !.out = Append(@, [p EXCEPT !.cc = c])]

(* buildPATPacket, buildPMTPacket                                          *)
Table(k, t) ==
    [src |-> None, n |-> 0, kind |-> k, start |-> TRUE, pay |-> TRUE, cc |-> 0,
     pts |-> None, pcr |-> None, par |-> None, idr |-> FALSE, split |-> FALSE,
     version |-> IF k = "pat" THEN t.pat ELSE t.pmt, marked |-> FALSE]

ShiftUnmasked(t, d) ==                  \* bug: no & clockMask
    IF t = None THEN None ELSE t + d
Shift(t, d) == IF t = None THEN None ELSE ClockPlus(t, d)
Marks(tr, p) == tr.markDiscontinuity /\ p.kind = "video" /\ p.pcr # None

Transform(st, p) ==
    CASE p.kind \in {"pat", "pmt"} -> Emit(st, Table(p.kind, st.tables))
      [] p.kind = "audio" /\ st.tr.waitAudioPUSI /\ ~p.start -> st
      [] OTHER ->
           Emit([st EXCEPT !.tr.waitAudioPUSI = @ /\ p.kind # "audio",
                           !.tr.markDiscontinuity = @ /\ ~Marks(st.tr, p)],
                [p EXCEPT !.pts = Shift(@, st.tr.offset90),
                          !.pcr = Shift(@, st.tr.offset90),
                          !.marked = Marks(st.tr, p)])

Transformed(st, pkts) == FoldLeft(Transform, st, pkts)

Stage(tr, t) == [tr |-> tr, tables |-> t, cc |-> lastCC, clock |-> clock, out |-> <<>>]

(* The pass that comes first: every PES header must fit in its packet.     *)
ValidLayout(pkts) ==
    \A i \in DOMAIN pkts : ~(pkts[i].split /\ pkts[i].start)

Commit(st) ==
    /\ active' = st.tr /\ lastCC' = st.cc /\ clock' = st.clock
    /\ Deliver(st.out)

-----------------------------------------------------------------------------
(* ProcessCurrent                                                          *)

Sends(s, m) == /\ s # None /\ pos[s] + m <= MaxPos
               /\ pos' = [pos EXCEPT ![s] = @ + m]

PassOn(m) ==
    LET pkts == Datagram(current, m)
        st == Observed([tables |-> tables, cc |-> lastCC, clock |-> clock], pkts)
    IN /\ Sends(current, m)
       /\ active = None
       /\ tables' = st.tables /\ lastCC' = st.cc /\ clock' = st.clock
       /\ Deliver(pkts)
       /\ UNCHANGED <<active, candidate, current>>

Continue(m) ==
    LET pkts == Datagram(current, m) IN
    /\ Sends(current, m)
    /\ active # None /\ ValidLayout(pkts)
    /\ Commit(Transformed(Stage(active, tables), pkts))
    /\ UNCHANGED <<tables, candidate, current>>

(* The error ends the stream; its candidate goes with it.                  *)
Break(m) ==
    /\ Sends(current, m)
    /\ active # None /\ ~ValidLayout(Datagram(current, m))
    /\ current' = None /\ candidate' = None
    /\ Deliver(<<>>)
    /\ UNCHANGED switcher

-----------------------------------------------------------------------------
(* ProcessCandidate                                                        *)

StartWaiting(s) ==
    /\ candidate = None /\ current # None /\ s # current
    /\ candidate' = NewCandidate(s)
    /\ Deliver(<<>>)
    /\ UNCHANGED <<switcher, current, pos>>

AbortCandidate ==
    /\ candidate # None
    /\ candidate' = None
    /\ Deliver(<<>>)
    /\ UNCHANGED <<switcher, current, pos>>

DropAll(c) == [c EXCEPT !.pkts = <<>>, !.buffering = FALSE, !.idr = FALSE, !.par = None]
DropKeepingOn(c) ==                     \* bug: goes on buffering after a gap
    [c EXCEPT !.pkts = <<>>]
Drop(c) == DropAll(c)

CheckContinuity(c, p) ==
    LET gap == c.cc[p.kind] # None /\ p.cc # (c.cc[p.kind] + 1) % CcSpace
    IN CASE ~p.pay -> c
         [] p.pay /\ gap -> [Drop(c) EXCEPT !.cc[p.kind] = p.cc, !.newest[p.kind] = p.n]
         [] OTHER -> [c EXCEPT !.cc[p.kind] = p.cc, !.newest[p.kind] = p.n]

CheckCompatibility(s) == tables.level = "full" /\ Program[s].compatible

LearnProgram(c, p) ==
    CASE p.kind = "pat" -> [c EXCEPT !.pmtKnown = TRUE]
      [] p.kind = "pmt" /\ c.pmtKnown ->
           [c EXCEPT !.profile = TRUE, !.refused = ~CheckCompatibility(p.src)]
      [] OTHER -> c

BeginFrameKeepingPCR(c, p) ==           \* bug: the old frame's PCR is kept
    LET stale == c.par # None /\ p.pts # None
                   /\ ClockPlus(p.pts, -c.parPts) > spsWindowTicks
    IN [c EXCEPT !.pkts = <<>>, !.buffering = TRUE, !.idr = FALSE, !.pts = p.pts,
                 !.par = IF stale THEN None ELSE @]

BeginFrame(c, p) == [BeginFrameKeepingPCR(c, p) EXCEPT !.pcr = None]

Buffer(c, p) ==
    [c EXCEPT !.pkts = Append(@, p),
              !.pcr = IF @ = None THEN p.pcr ELSE @,
              !.idr = @ \/ p.idr,
              !.par = IF p.par # None THEN p.par ELSE @,
              !.parPts = IF p.par # None THEN (IF c.pts = None THEN 0 ELSE c.pts) ELSE @]

Collect(c, p) ==
    LET l == LearnProgram(CheckContinuity(c, p), p)
        f == IF p.kind = "video" /\ p.start THEN BeginFrame(l, p) ELSE l
    IN CASE c.refused -> c
         [] ~c.refused /\ (l.refused \/ ~l.profile) -> l
         [] OTHER -> IF f.buffering THEN Buffer(f, p) ELSE f

CollectedAll(c, pkts) == FoldLeft(Collect, c, pkts)
Collected(m) == CollectedAll(candidate, Datagram(candidate.src, m))

Complete(c) == /\ c.idr /\ c.pts # None /\ c.pcr # None
               /\ c.par # None /\ tables.par # None

(* New parameters get a new PSI version, which tells the viewer's decoder. *)
NewTables(c) ==
    LET v == (tables.version + 1) % 32
    IN IF c.par = tables.par THEN tables
       ELSE [tables EXCEPT !.par = c.par, !.version = v, !.pat = v, !.pmt = v]

Step == IF clock.step \in 1..MaxStep THEN clock.step ELSE DefaultStep

Offset(c) == ClockPlus(clock.pts, Step) - c.pts

Distance(a, b) ==
    LET d == ClockPlus(a, -b) IN IF d <= Clock \div 2 THEN d ELSE Clock - d

PCRFits(c) ==
    clock.pcr = None \/ Distance(ClockPlus(c.pcr, Offset(c)), clock.pcr) <= MaxPCRGap

Accepted(c) ==
    clock.pts # None /\ PCRFits(c) /\ ValidLayout(c.pkts)

(* makeTransform; the batch begins with the program's own PAT and PMT.     *)
Prefixed(c) ==
    LET t == NewTables(c)
        tr == [src |-> c.src, offset90 |-> Offset(c),
               waitAudioPUSI |-> TRUE, markDiscontinuity |-> TRUE]
    IN Emit(Emit(Stage(tr, t), Table("pat", t)), Table("pmt", t))

Wait(m) ==
    /\ candidate # None /\ Sends(candidate.src, m)
    /\ LET c == Collected(m) IN
       /\ ~c.refused /\ ~Complete(c)
       /\ candidate' = c
    /\ Deliver(<<>>)
    /\ UNCHANGED <<switcher, current>>

(* An error: the caller keeps its source and aborts the candidate.         *)
RefuseWith(m, counters) ==
    /\ candidate # None /\ Sends(candidate.src, m)
    /\ LET c == Collected(m) IN
       /\ c.refused \/ (Complete(c) /\ ~Accepted(c))
       /\ tables' = IF c.refused THEN tables ELSE NewTables(c)
       /\ lastCC' = counters
    /\ candidate' = None
    /\ Deliver(<<>>)
    /\ UNCHANGED <<clock, active, current>>

RefuseHalfWay(m) ==                     \* bug: validates while it rewrites
    LET c == Collected(m) IN
    RefuseWith(m,
      IF c.refused \/ clock.pts = None \/ ~PCRFits(c) THEN lastCC
      ELSE Transformed(Prefixed(c), SelectSeq(c.pkts, LAMBDA p : ~p.split)).cc)

Refuse(m) == RefuseWith(m, lastCC)

Switch(m) ==
    /\ candidate # None /\ Sends(candidate.src, m)
    /\ LET c == Collected(m) IN
       /\ ~c.refused /\ Complete(c) /\ Accepted(c)
       /\ tables' = NewTables(c)
       /\ Commit(Transformed(Prefixed(c), c.pkts))
       /\ current' = c.src
    /\ candidate' = None

-----------------------------------------------------------------------------
(* A packet of a source in use is lost on the way (external).  CcSpace     *)
(* packets of a PID in a row never are: the counter would not tell.        *)
Missed(s, k, n) == Count(s, pos[s], Payload(k)) - Count(s, n, Payload(k))
Telling(s) ==
    LET k == At(s, pos[s]).kind
    IN candidate # None /\ candidate.src = s /\ candidate.newest[k] # None
         => Missed(s, k, candidate.newest[k]) < CcSpace

Lose(s) ==
    /\ s = current \/ (candidate # None /\ s = candidate.src)
    /\ Sends(s, 1) /\ Telling(s)
    /\ Deliver(<<>>)
    /\ UNCHANGED <<switcher, candidate, current>>

SwitcherNext ==
    \/ \E m \in 1..MaxDatagram :
         PassOn(m) \/ Continue(m) \/ Break(m) \/ Wait(m) \/ Refuse(m) \/ Switch(m)
    \/ \E s \in Sources : StartWaiting(s) \/ Lose(s)
    \/ AbortCandidate

SwitcherSpec == SwitcherInit /\ [][SwitcherNext]_switcherVars

-----------------------------------------------------------------------------
SwitcherTypeOK ==
    /\ tables.level \in {"none", "pat", "full"} /\ tables.version \in 0..31
    /\ clock.pts # None => clock.pts \in 0..(Clock - 1)
    /\ clock.pcr # None => clock.pcr \in 0..(Clock - 1)
    /\ clock.step \in 0..MaxStep
    /\ lastCC \in [Kinds -> 0..(CcSpace - 1) \cup {None}]
    /\ current \in Sources \cup {None} /\ pos \in [Sources -> 0..MaxPos]
    /\ active # None => active.src = current \/ current = None
    /\ candidate # None => /\ candidate.src \in Sources \ {current}
                           /\ candidate.par # None => candidate.par = Program[candidate.src].par
                           /\ candidate.buffering \/ candidate.pkts = <<>>

Switched == current' \notin {current, None}
FirstWith(o, Test(_)) == o[CHOOSE i \in DOMAIN o : Test(o[i]) /\ \A j \in 1..(i - 1) : ~Test(o[j])]

(* "A single canonical batch beginning with PAT/PMT and the PES containing *)
(* a real H.264 IDR" (164-166): the frame comes from its first packet on,  *)
(* and between two packets of its payload none is missing, whatever was    *)
(* lost while the candidate was buffered.                                  *)
Same(p, q) == p.kind = q.kind /\ p.pay /\ q.pay
Whole(o) ==
    /\ Len(o) > 2 /\ o[1].kind = "pat" /\ o[2].kind = "pmt"
    /\ o[3].kind = "video" /\ o[3].start
    /\ \E i \in 3..Len(o) : o[i].idr
    /\ \A i, j \in 3..Len(o) : \A n \in (o[i].n + 1)..(o[j].n - 1) :
         o[i].kind \in {"video", "audio"} /\ Same(o[i], o[j]) /\ Same(o[i], At(o[i].src, n))
           => \E l \in 3..Len(o) : o[l].n = n
BatchIsWhole == [][Switched => Whole(out')]_switcherVars

(* The first picture of a new source is the next one of the program, and   *)
(* its first PCR is within 200 ms of the last and marked as a jump, across *)
(* the wrap of both clocks.                                                *)
SmoothSwitch ==
    [][Switched =>
         LET v == FirstWith(out', LAMBDA p : p.pts # None)
             r == FirstWith(out', LAMBDA p : p.pcr # None)
         IN /\ ClockPlus(v.pts, -viewer.pts) \in 1..MaxStep
            /\ r.marked
            /\ viewer.pcr # None => Distance(r.pcr, viewer.pcr) <= MaxPCRGap]_switcherVars

(* Once sources have changed, the viewer's continuity counters go on by    *)
(* one with every packet, over switches, losses and refused candidates.    *)
CountersContinue ==
    [][active' # None =>
         \A i \in DOMAIN out' :
           LET k == out'[i].kind
               before == {j \in 1..(i - 1) : out'[j].kind = k /\ out'[j].pay}
           IN out'[i].pay /\ viewer.cc[k] # None =>
                out'[i].cc = (viewer.cc[k] + Cardinality(before) + 1) % CcSpace]_switcherVars

-----------------------------------------------------------------------------
(* What a comment says and the code does not do.                           *)

(* New parameters come with a new PSI version, so that the client starts   *)
(* its decoder anew (279-280).                                             *)
NewParametersAnnounced ==
    [][viewer.par # None /\ viewer'.par # viewer.par
         => viewer'.version # viewer.version]_switcherVars
=============================================================================
