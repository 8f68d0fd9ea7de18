---------------------------- MODULE Depacketizer ----------------------------
(***************************************************************************)
(* rtp.Depacketizer (internal/rtp/depacketizer.go) behind a network that   *)
(* reorders, repeats and loses packets: the reorder buffer, the 16-bit     *)
(* sequence arithmetic and the reset on a new SSRC.                        *)
(* A packet is [src, n]: the n-th packet of a source.  On the wire it      *)
(* carries n modulo SeqSpace only; n is what tells the reader of this module *)
(* which payload came out.                                                 *)
(***************************************************************************)
EXTENDS Integers, FiniteSets, SequencesExt

CONSTANTS Sources,       \* SSRCs
          NoSource,      \* haveSeq = false
          SeqSpace,        \* 2^16 in the code
          reorderLimit,  \* 8 in the code
          Firsts,        \* where a source starts to count
          Span,          \* network: no packet is overtaken by Span others
          MaxSent,       \* bound: packets per source
          MaxLost        \* bound: packets the network loses

ASSUME SeqModAssumption == SeqSpace \in Nat /\ SeqSpace % 2 = 0
ASSUME LimitAssumption == reorderLimit \in Nat \ {0} /\ 2 * reorderLimit < SeqSpace
ASSUME SourceAssumption == NoSource \notin Sources
ASSUME BoundsAssumption == /\ Firsts \subseteq Nat
                           /\ Span \in Nat \ {0} /\ {MaxSent, MaxLost} \subseteq Nat

VARIABLES
  ssrc, lastSeq, pending,   \* the fields of Depacketizer
  verdict,                  \* what the last call answered
  out,                      \* the payloads released by the last step
  sent, net, lost,          \* the sources and the network
  last                      \* history: newest packet released since the reset

receiver == <<ssrc, lastSeq, pending, verdict, last>>
network  == <<sent, net, lost>>
vars     == <<receiver, out, network>>

Nothing == [src |-> NoSource, n |-> 0]
Seq16(p) == p.n % SeqSpace
AdvanceInt(a, k) == a + k                \* bug: not a uint16
Advance(a, k) == (a + k) % SeqSpace      \* uint16 addition
Minus(a, b) == (a - b) % SeqSpace       \* uint16 subtraction

Init == /\ ssrc = NoSource /\ lastSeq = 0 /\ pending = {}
        /\ verdict = "ok" /\ out = <<>> /\ last = Nothing
        /\ \E f \in Firsts : sent = [s \in Sources |-> [first |-> f, next |-> f]]
        /\ net = {} /\ lost = {}

-----------------------------------------------------------------------------
(* The network (external)                                                  *)

Send(s) ==
    LET p == [src |-> s, n |-> sent[s].next] IN
    /\ p.n - sent[s].first < MaxSent
    /\ \A q \in net : q.src = s => p.n - q.n < Span
    /\ net' = net \cup {p}
    /\ sent' = [sent EXCEPT ![s].next = @ + 1]
    /\ out' = <<>>
    /\ UNCHANGED <<receiver, lost>>

Lose(p) ==
    /\ Cardinality(lost) < MaxLost
    /\ lost' = lost \cup {p}
    /\ net' = net \ {p}
    /\ out' = <<>>
    /\ UNCHANGED <<receiver, sent>>

(* Packets the network may still repeat.                                   *)
Repeatable ==
    {p \in [src : Sources, n : 0..(SeqSpace + MaxSent)] \ (net \cup lost) :
       p.n >= sent[p.src].first /\ p.n \in (sent[p.src].next - Span)..(sent[p.src].next - 1)}

-----------------------------------------------------------------------------
(* Depacketize                                                             *)

(* The baseline a call works on: a new source resets it, so that its first *)
(* packet is the next one.                                                 *)
Resets(p) == ssrc # p.src

ResetForgetsNothing(p) ==       \* bug: the buffer survives a new SSRC
    IF Resets(p)
    THEN [last |-> Advance(Seq16(p), -1), held |-> pending, from |-> Nothing]
    ELSE [last |-> lastSeq, held |-> pending, from |-> last]

BaseOf(p) == IF Resets(p)
             THEN [last |-> Advance(Seq16(p), -1), held |-> {}, from |-> Nothing]
             ELSE [last |-> lastSeq, held |-> pending, from |-> last]

Held(p, base) == \E q \in base.held : Seq16(q) = Seq16(p)

Classified(p, base, window) ==
    LET delta == Minus(Seq16(p), base.last)
    IN IF delta = 0 THEN "duplicate"
       ELSE IF 2 * delta >= SeqSpace THEN "outoforder"
       ELSE IF delta > window THEN "gap"
       ELSE IF Held(p, base) THEN "duplicate" ELSE "ok"

ClassifyWide(p, base) == Classified(p, base, SeqSpace \div 2 - 1)  \* bug

Classify(p, base) == Classified(p, base, reorderLimit)

(* flushInOrder: the held payloads that follow lastSeq without a gap.      *)
FlushOne(base) ==               \* bug: the loop stops after one payload
    {q \in base.held : Minus(Seq16(q), base.last) = 1}

Flush(base) ==
    {q \in base.held : \A d \in 1..Minus(Seq16(q), base.last) :
        \E r \in base.held : Minus(Seq16(r), base.last) = d}

(* The released payloads in the order the loop finds them.                 *)
InSequence(ps, from) ==
    [i \in 1..Cardinality(ps) |-> CHOOSE p \in ps : Minus(Seq16(p), from) = i]

Depacketize(p) ==
    LET base == BaseOf(p)
        v    == Classify(p, base)
        kept == [base EXCEPT !.held = IF v = "ok" THEN @ \cup {p} ELSE @]
        done == IF v = "ok" THEN Flush(kept) ELSE {}
        rel  == InSequence(done, base.last)
    IN /\ ssrc' = p.src
       /\ verdict' = v
       /\ out' = rel
       /\ lastSeq' = Advance(base.last, Cardinality(done))
       /\ pending' = kept.held \ done
       /\ last' = IF rel = <<>> THEN base.from ELSE Last(rel)

Receive(p) == /\ Depacketize(p)
              /\ net' = net \ {p}
              /\ UNCHANGED <<sent, lost>>

(* A packet any of the header or payload checks refuses.                   *)
ReceiveMalformed ==
    /\ verdict' = "malformed" /\ out' = <<>>
    /\ UNCHANGED <<ssrc, lastSeq, pending, last, network>>

Next == \/ \E s \in Sources : Send(s)
        \/ \E p \in net : Lose(p) \/ Receive(p)
        \/ \E p \in Repeatable : Receive(p)
        \/ ReceiveMalformed

Spec == Init /\ [][Next]_vars

-----------------------------------------------------------------------------
Packets == [src : Sources, n : Nat]

TypeOK == /\ ssrc \in Sources \cup {NoSource}
          /\ lastSeq \in 0..(SeqSpace - 1)
          /\ \A p \in pending : p \in Packets
          /\ verdict \in {"ok", "duplicate", "outoforder", "gap", "malformed"}
          /\ \A i \in 1..Len(out) : out[i] \in Packets

(* The buffer holds the packets of one source, all of them inside the      *)
(* window (lastSeq+2 .. lastSeq+reorderLimit: lastSeq+1 would be out), so  *)
(* fewer than reorderLimit, whatever arrives.                              *)
BufferInWindow ==
    /\ \A p \in pending : p.src = ssrc /\ Minus(Seq16(p), lastSeq) \in 2..reorderLimit
    /\ Cardinality(pending) < reorderLimit

(* "Outputs the payloads in sequence order" (line 31): since the last      *)
(* change of SSRC each payload that comes out is the successor of the one  *)
(* before it: none repeated, none skipped, none late, however the network  *)
(* reorders and repeats packets.                                           *)
Successors ==
    \A i \in 1..Len(out') :
      LET before == IF i > 1 THEN out'[i-1]
                    ELSE IF ssrc' = ssrc THEN last ELSE Nothing
      IN before # Nothing => out'[i] = [before EXCEPT !.n = @ + 1]
InOrder == [][Successors]_vars

(* Without loss the buffer holds nothing back: it is empty once every      *)
(* packet of a source has arrived (by displacements within the window), so *)
(* reordering costs no payload.  A second sender on the group takes the    *)
(* baseline away, hence OneSource.                                         *)
OneSource == \A s \in Sources \ {ssrc} : sent[s].next = sent[s].first

NothingHeldBack ==
    lost = {} /\ net = {} /\ OneSource => pending = {}
=============================================================================
