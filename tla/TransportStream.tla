--------------------------- MODULE TransportStream ---------------------------
(***************************************************************************)
(* What the switcher (internal/mcast/stream_switcher.go) sees of a source: *)
(* an endless sequence of TS packets, some of which are lost on the way.   *)
(* PIDs are reduced to the role they have in their source's program, the   *)
(* parameter sets SPS and PPS to one value, a PSI table to its version.    *)
(***************************************************************************)
EXTENDS Integers, FiniteSets, SequencesExt

CONSTANTS Sources,
          Program,     \* what each source sends, a record for each
          None,        \* nil, have... = false
          Clock,       \* 2^33 in the code
          CcSpace,     \* 16 in the code
          FrameStep    \* clock ticks between two frames

(* A program repeats its pattern; base is its first time stamp, lead how   *)
(* far its frames' PTS is ahead of its PCR.                                *)
Kinds == {"pat", "pmt", "video", "audio"}
Template == [kind : Kinds, start : BOOLEAN, pay : BOOLEAN, pcr : BOOLEAN,
             idr : BOOLEAN, par : BOOLEAN, split : BOOLEAN]

ASSUME ProgramAssumption == \A s \in Sources :
    /\ Program[s].pattern \in Seq(Template) \ {<<>>}
    /\ \A i \in DOMAIN Program[s].pattern :
         LET t == Program[s].pattern[i] IN t.pcr => t.kind = "video"
    /\ Program[s].base \in 0..(Clock - 1) /\ Program[s].lead \in 0..(Clock - 1)
    /\ Program[s].version \in 0..31 /\ Program[s].compatible \in BOOLEAN
    /\ Program[s].par # None

ASSUME ClockAssumption == Clock \in Nat \ {0} /\ FrameStep \in Nat /\ CcSpace \in Nat \ {0}
ASSUME NoneAssumption == None \notin Int

At(s, n) ==
    LET p == Program[s].pattern IN p[(n % Len(p)) + 1]

(* How many packets of s up to the n-th are among the given ones.          *)
Count(s, n, chosen) == Cardinality({i \in 0..n : At(s, i) \in chosen})

Payload(k) == {t \in Template : t.kind = k /\ t.pay}
FrameStarts == {t \in Template : t.kind = "video" /\ t.start}

ClockPlus(t, d) == (t + d) % Clock      \* addClock: d may be negative

(* decodeTimestamp of the n-th packet's frame, and the PCR beside it.      *)
FramePts(s, n) ==
    ClockPlus(Program[s].base, FrameStep * Count(s, n, FrameStarts))

PacketPTS(s, n) ==
    LET t == At(s, n) IN
    IF t.kind = "video" /\ t.start /\ ~t.split THEN FramePts(s, n) ELSE None

PacketPCRBase(s, n) ==
    IF At(s, n).pcr THEN ClockPlus(FramePts(s, n), -Program[s].lead) ELSE None

(* scanH264 finds parameters and IDR slices in the packet's elementary     *)
(* stream; a PES header that does not fit in its packet hides them.        *)
ScanParameters(s, n) ==
    LET t == At(s, n) IN
    IF t.kind = "video" /\ t.par /\ ~t.split THEN Program[s].par ELSE None

ScanIDR(s, n) ==
    LET t == At(s, n) IN t.kind = "video" /\ t.idr /\ ~t.split

(* The n-th packet of s.  A packet without payload does not count.         *)
Packet(s, n) ==
    LET t == At(s, n)
    IN [src |-> s, n |-> n, kind |-> t.kind, start |-> t.start, pay |-> t.pay,
        cc |-> Count(s, n, Payload(t.kind)) % CcSpace,
        pts |-> PacketPTS(s, n), pcr |-> PacketPCRBase(s, n),
        par |-> ScanParameters(s, n), idr |-> ScanIDR(s, n),
        split |-> t.split, version |-> Program[s].version, marked |-> FALSE]
=============================================================================
