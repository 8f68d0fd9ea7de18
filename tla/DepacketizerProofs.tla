------------------------- MODULE DepacketizerProofs -------------------------
(***************************************************************************)
(* The reorder buffer stays inside its window, for any width of the        *)
(* sequence numbers, any window less than half of it and any network; and  *)
(* the payloads come out in order and complete, as far as numbers that     *)
(* come round and a network that loses packets allow.                      *)
(***************************************************************************)
EXTENDS Depacketizer, FiniteSetTheorems, TLAPS

Numbers == /\ lastSeq \in 0..(SeqSpace - 1)
           /\ pending \subseteq Packets /\ IsFiniteSet(pending)
           /\ net \subseteq Packets
           /\ sent \in [Sources -> [first : Nat, next : Nat]]

(* How far a packet is ahead of a baseline.                                *)
Ahead(p, l) == Minus(Seq16(p), l)

(* A buffer above the baseline l: no two of its packets look alike.        *)
Buffer(held, l, low) ==
    /\ held \subseteq Packets /\ IsFiniteSet(held)
    /\ \A p \in held : Ahead(p, l) \in low..reorderLimit
    /\ \A p, q \in held : Seq16(p) = Seq16(q) => p = q

DInv == /\ Numbers
        /\ \A p \in pending : p.src = ssrc
        /\ Buffer(pending, lastSeq, 2)

-----------------------------------------------------------------------------
(* The arithmetic of sequence numbers                                      *)

LEMMA Width == SeqSpace \in Nat \ {0} /\ reorderLimit \in 1..(SeqSpace - 1)
BY SeqModAssumption, LimitAssumption

LEMMA ModLow == ASSUME NEW S \in Nat \ {0}, NEW a \in 0..(S - 1)
                PROVE  a % S = a
OBVIOUS

LEMMA ModNegative == ASSUME NEW S \in Nat \ {0}, NEW a \in (0 - S)..(0 - 1)
                     PROVE  a % S = a + S
OBVIOUS

LEMMA ModHigh == ASSUME NEW S \in Nat \ {0}, NEW a \in S..(2 * S - 1)
                 PROVE  a % S = a - S
OBVIOUS

LEMMA ModRange == ASSUME NEW S \in Nat \ {0}, NEW a \in Int
                  PROVE  a % S \in 0..(S - 1)
OBVIOUS

LEMMA DivMod == ASSUME NEW S \in Nat \ {0}, NEW x \in Int
                PROVE  /\ x \div S \in Int /\ x % S \in 0..(S - 1)
                       /\ x = S * (x \div S) + (x % S)
OBVIOUS

LEMMA ModOfMultiple == ASSUME NEW S \in Nat \ {0}, NEW q \in Int, NEW r \in 0..(S - 1)
                       PROVE  (S * q + r) % S = r
OBVIOUS

LEMMA ModShift == ASSUME NEW S \in Nat \ {0}, NEW q \in Int, NEW r \in Int
                  PROVE  (S * q + r) % S = r % S
<1>1. /\ r \div S \in Int /\ r = S * (r \div S) + (r % S) /\ r % S \in 0..(S - 1)
  BY DivMod
<1>2. S * q + r = S * (q + r \div S) + (r % S)
  BY <1>1
<1>3. q + r \div S \in Int
  BY <1>1
<1> QED
  BY <1>1, <1>2, <1>3, ModOfMultiple

LEMMA ModAdd == ASSUME NEW S \in Nat \ {0}, NEW x \in Int, NEW k \in Int
                PROVE  ((x % S) + k) % S = (x + k) % S
<1>1. /\ x \div S \in Int /\ x = S * (x \div S) + (x % S) /\ x % S \in 0..(S - 1)
  BY DivMod
<1>2. x + k = S * (x \div S) + ((x % S) + k) /\ (x % S) + k \in Int
  BY <1>1
<1> QED
  BY <1>1, <1>2, ModShift

LEMMA ModMinus == ASSUME NEW S \in Nat \ {0}, NEW x \in Int, NEW y \in Int
                  PROVE  ((x % S) - (y % S)) % S = (x - y) % S
<1> DEFINE q == (x \div S) - (y \div S)
           r == (x % S) - (y % S)
<1>1. /\ x \div S \in Int /\ x = S * (x \div S) + (x % S) /\ x % S \in 0..(S - 1)
      /\ y \div S \in Int /\ y = S * (y \div S) + (y % S) /\ y % S \in 0..(S - 1)
  BY DivMod
<1>2. x - y = S * q + r
  BY <1>1
<1>3. q \in Int /\ r \in Int
  BY <1>1
<1> HIDE DEF q, r
<1>4. (S * q + r) % S = r % S
  BY <1>3, ModShift
<1> QED
  BY <1>2, <1>4 DEF r

LEMMA SeqRange == ASSUME NEW p \in Packets PROVE Seq16(p) \in 0..(SeqSpace - 1)
<1>1. p.n \in Int
  BY DEF Packets
<1>2. p.n % SeqSpace \in 0..(SeqSpace - 1)
  BY <1>1, ModRange, Width
<1> QED
  BY <1>2 DEF Seq16

LEMMA MinusIs ==
    ASSUME NEW a \in 0..(SeqSpace - 1), NEW b \in 0..(SeqSpace - 1)
    PROVE  Minus(a, b) = IF a < b THEN a - b + SeqSpace ELSE a - b
<1>1. CASE a < b
  BY <1>1, ModNegative, Width DEF Minus
<1>2. CASE ~(a < b)
  BY <1>2, ModLow, Width DEF Minus
<1> QED
  BY <1>1, <1>2

LEMMA AdvanceIs ==
    ASSUME NEW a \in 0..(SeqSpace - 1), NEW k \in 0..(SeqSpace - 1)
    PROVE  /\ Advance(a, k) = IF a + k < SeqSpace THEN a + k ELSE a + k - SeqSpace
           /\ Advance(a, k) \in 0..(SeqSpace - 1)
<1>1. CASE a + k < SeqSpace
  BY <1>1, ModLow, Width DEF Advance
<1>2. CASE ~(a + k < SeqSpace)
  BY <1>2, ModHigh, Width DEF Advance
<1> QED
  BY <1>1, <1>2

(* Moving the baseline towards a packet.                                   *)
LEMMA Closer ==
    ASSUME NEW a \in 0..(SeqSpace - 1), NEW l \in 0..(SeqSpace - 1),
           NEW k \in 0..(SeqSpace - 1), k <= Minus(a, l)
    PROVE  Minus(a, Advance(l, k)) = Minus(a, l) - k
<1>1. Advance(l, k) \in 0..(SeqSpace - 1)
  BY AdvanceIs
<1> DEFINE m == Advance(l, k)
<1>2. m = IF l + k < SeqSpace THEN l + k ELSE l + k - SeqSpace
  BY AdvanceIs
<1>3. /\ Minus(a, l) = IF a < l THEN a - l + SeqSpace ELSE a - l
      /\ Minus(a, m) = IF a < m THEN a - m + SeqSpace ELSE a - m
  BY <1>1, MinusIs
<1> HIDE DEF m
<1>4. Minus(a, m) = Minus(a, l) - k
  BY <1>2, <1>3, Width
<1> QED
  BY <1>4 DEF m

(* Packets equally far ahead bear the same number.                         *)
LEMMA SameDistance ==
    ASSUME NEW a \in 0..(SeqSpace - 1), NEW b \in 0..(SeqSpace - 1),
           NEW l \in 0..(SeqSpace - 1), Minus(a, l) = Minus(b, l)
    PROVE  a = b
BY MinusIs, Width

-----------------------------------------------------------------------------
(* flushInOrder                                                            *)

LEMMA AheadOfOne ==
    ASSUME NEW l \in 0..(SeqSpace - 1), NEW held, Buffer(held, l, 1),
           NEW p \in held, NEW q \in held, Ahead(p, l) = Ahead(q, l)
    PROVE  p = q
BY SeqRange, SameDistance DEF Buffer, Ahead

(* A buffer with packets from low to high has no more than these.          *)
LEMMA FewHeld ==
    ASSUME NEW l \in 0..(SeqSpace - 1), NEW held, Buffer(held, l, 1),
           NEW low \in Nat, NEW high \in Nat, low <= high + 1,
           NEW part \in SUBSET held, \A p \in part : Ahead(p, l) \in low..high
    PROVE  IsFiniteSet(part) /\ Cardinality(part) <= high - low + 1
<1>1. IsFiniteSet(part) /\ Cardinality(part) \in Nat
  BY FS_Subset, FS_CardinalityType DEF Buffer
<1>2. /\ IsFiniteSet(low..high)
      /\ Cardinality(low..high) = high - low + 1
  BY FS_Interval
<1> DEFINE f == [p \in part |-> Ahead(p, l)]
<1>3. f \in [part -> low..high]
  OBVIOUS
<1> HIDE DEF f
<1>4. ASSUME Cardinality(low..high) < Cardinality(part) PROVE FALSE
  <2>1. \E p, q \in part : p # q /\ f[p] = f[q]
    BY ONLY <1>1, <1>2, <1>3, <1>4, FS_PigeonHole
  <2> QED
    BY <2>1, AheadOfOne DEF f
<1> QED
  BY <1>1, <1>2, <1>4

(* What stays in the buffer is beyond a hole in front of the new baseline. *)
LEMMA Flushed ==
    ASSUME NEW base, base.last \in 0..(SeqSpace - 1),
           Buffer(base.held, base.last, 1)
    PROVE  LET k == Cardinality(Flush(base))
           IN  /\ k \in 0..(SeqSpace - 1)
               /\ Buffer(base.held \ Flush(base), Advance(base.last, k), 2)
<1> DEFINE l    == base.last
           held == base.held
           done == Flush(base)
           k    == Cardinality(done)
<1>1. done \in SUBSET held
  BY DEF Flush
<1>2. \A q \in held : Ahead(q, l) \in 1..reorderLimit
  BY DEF Buffer
<1>3. IsFiniteSet(done) /\ k \in Nat /\ k <= reorderLimit
  <2>1. \A q \in done : Ahead(q, l) \in 1..reorderLimit
    BY <1>1, <1>2
  <2>2. IsFiniteSet(done) /\ Cardinality(done) <= reorderLimit - 1 + 1
    BY <1>1, <2>1, FewHeld, Width
  <2> QED
    BY <2>2, FS_CardinalityType, Width
<1>4. k \in 0..(SeqSpace - 1)
  BY <1>3, Width
<1>5. ASSUME NEW q \in held \ done PROVE k + 2 <= Ahead(q, l)
  <2>1. PICK d \in 1..Ahead(q, l) : \A r \in held : Ahead(r, l) # d
    BY <1>5 DEF Flush, Ahead
  <2>2. d \in Nat /\ d # 0 /\ Ahead(q, l) \in Nat /\ d < Ahead(q, l)
    BY <1>2, <2>1
  <2>3. ASSUME NEW r \in done PROVE Ahead(r, l) \in 1..(d - 1)
    <3>1. Ahead(r, l) \in 1..reorderLimit
      BY <1>1, <1>2, <2>3
    <3>2. \A e \in 1..Ahead(r, l) : \E s \in held : Ahead(s, l) = e
      BY <2>3 DEF Flush, Ahead
    <3> QED
      BY <2>1, <2>2, <3>1, <3>2
  <2>4. k <= (d - 1) - 1 + 1
    BY <1>1, <2>2, <2>3, FewHeld
  <2> QED
    BY <1>3, <2>2, <2>4
<1>6. ASSUME NEW q \in held \ done
      PROVE  Ahead(q, Advance(l, k)) \in 2..reorderLimit
  <2>1. Seq16(q) \in 0..(SeqSpace - 1)
    BY <1>6, SeqRange DEF Buffer
  <2>2. Ahead(q, Advance(l, k)) = Ahead(q, l) - k
    BY <1>2, <1>3, <1>4, <1>5, <2>1, Closer DEF Ahead
  <2> QED
    BY <1>2, <1>3, <1>5, <2>2, Width
<1>7. IsFiniteSet(held \ done)
  BY FS_Subset DEF Buffer
<1> QED
  BY <1>4, <1>6, <1>7 DEF Buffer

-----------------------------------------------------------------------------
(* Depacketize                                                             *)

LEMMA BaseOK ==
    ASSUME DInv, NEW p \in Packets
    PROVE  LET base == BaseOf(p)
           IN  /\ base = [last |-> base.last, held |-> base.held, from |-> base.from]
               /\ base.last \in 0..(SeqSpace - 1)
               /\ Buffer(base.held, base.last, 2)
               /\ \A q \in base.held : q.src = p.src
<1>1. CASE Resets(p)
  <2>1. Advance(Seq16(p), -1) \in 0..(SeqSpace - 1)
    <3>1. Seq16(p) + (-1) \in Int
      BY SeqRange, Width
    <3>2. (Seq16(p) + (-1)) % SeqSpace \in 0..(SeqSpace - 1)
      BY <3>1, ModRange, Width
    <3> QED
      BY <3>2 DEF Advance
  <2> QED
    BY <1>1, <2>1, FS_EmptySet DEF BaseOf, Buffer
<1>2. CASE ~Resets(p)
  BY <1>2 DEF BaseOf, DInv, Numbers, Resets
<1> QED
  BY <1>1, <1>2

(* The answers, and what "ok" says of the packet.                          *)
LEMMA Answer ==
    ASSUME NEW p \in Packets, NEW base, base.last \in 0..(SeqSpace - 1)
    PROVE  Classify(p, base) = "ok"
             => Ahead(p, base.last) \in 1..reorderLimit /\ ~Held(p, base)
<1> DEFINE delta == Minus(Seq16(p), base.last)
<1>1. delta \in 0..(SeqSpace - 1)
  BY SeqRange, MinusIs, Width
<1> QED
  BY <1>1, Width DEF Classify, Classified, Ahead

(* An accepted packet joins the buffer above the baseline.                 *)
LEMMA KeptOK ==
    ASSUME DInv, NEW p \in Packets, Classify(p, BaseOf(p)) = "ok"
    PROVE  LET base == BaseOf(p)
               kept == [base EXCEPT !.held = @ \cup {p}]
           IN  /\ kept.last = base.last /\ kept.held = base.held \cup {p}
               /\ kept.last \in 0..(SeqSpace - 1)
               /\ Buffer(kept.held, kept.last, 1)
               /\ \A q \in kept.held : q.src = p.src
<1> DEFINE base == BaseOf(p)
           kept == [base EXCEPT !.held = @ \cup {p}]
<1>1. /\ base = [last |-> base.last, held |-> base.held, from |-> base.from]
      /\ base.last \in 0..(SeqSpace - 1)
      /\ Buffer(base.held, base.last, 2)
      /\ \A q \in base.held : q.src = p.src
  BY BaseOK
<1> HIDE DEF base
<1>2. kept.last = base.last /\ kept.held = base.held \cup {p}
  BY <1>1
<1>3. Ahead(p, base.last) \in 1..reorderLimit /\ ~Held(p, base)
  BY <1>1, Answer DEF base
<1> HIDE DEF kept
<1>4. IsFiniteSet(kept.held)
  BY <1>1, <1>2, FS_AddElement DEF Buffer
<1>5. \A q \in kept.held : Ahead(q, kept.last) \in 1..reorderLimit
  BY <1>1, <1>2, <1>3 DEF Buffer
<1>6. \A q, r \in kept.held : Seq16(q) = Seq16(r) => q = r
  BY <1>1, <1>2, <1>3 DEF Buffer, Held
<1>7. Buffer(kept.held, kept.last, 1)
  BY <1>1, <1>2, <1>4, <1>5, <1>6 DEF Buffer
<1> QED
  BY <1>1, <1>2, <1>7 DEF base, kept

LEMMA DepacketizeInv ==
    ASSUME DInv, NEW p \in Packets, Depacketize(p)
    PROVE  /\ lastSeq' \in 0..(SeqSpace - 1)
           /\ \A q \in pending' : q.src = ssrc'
           /\ Buffer(pending', lastSeq', 2)
<1> DEFINE base == BaseOf(p)
           v    == Classify(p, base)
           kept == [base EXCEPT !.held = IF v = "ok" THEN @ \cup {p} ELSE @]
           done == IF v = "ok" THEN Flush(kept) ELSE {}
<1>1. /\ base = [last |-> base.last, held |-> base.held, from |-> base.from]
      /\ base.last \in 0..(SeqSpace - 1)
      /\ Buffer(base.held, base.last, 2)
      /\ \A q \in base.held : q.src = p.src
  BY BaseOK
<1>2. /\ ssrc' = p.src
      /\ lastSeq' = Advance(base.last, Cardinality(done))
      /\ pending' = kept.held \ done
  BY DEF Depacketize
<1>3. kept.last = base.last
  BY <1>1
<1>4. CASE v = "ok"
  <2>1. kept = [base EXCEPT !.held = @ \cup {p}]
    BY <1>4
  <2>2. kept.held = base.held \cup {p}
    BY <1>1, <1>4
  <2>3. Buffer(kept.held, kept.last, 1)
    BY <1>4, <2>1, KeptOK
  <2> HIDE DEF base, v, kept
  <2>4. /\ Cardinality(Flush(kept)) \in 0..(SeqSpace - 1)
        /\ Buffer(kept.held \ Flush(kept),
                  Advance(kept.last, Cardinality(Flush(kept))), 2)
    BY <1>1, <1>3, <2>3, Flushed
  <2> QED
    BY <1>1, <1>2, <1>3, <1>4, <2>2, <2>4, AdvanceIs
<1>5. CASE v # "ok"
  <2>1. kept.held = base.held /\ done = {}
    BY <1>1, <1>5
  <2>2. Advance(base.last, Cardinality(done)) = base.last
    <3>1. Cardinality(done) = 0
      BY <2>1, FS_EmptySet
    <3>2. 0 \in 0..(SeqSpace - 1) /\ base.last + 0 = base.last
      BY <1>1, Width
    <3>3. Advance(base.last, 0) = base.last
      BY <1>1, <3>2, AdvanceIs, Width
    <3> QED
      BY <3>1, <3>3
  <2> QED
    BY <1>1, <1>2, <2>1, <2>2
<1> QED
  BY <1>4, <1>5

-----------------------------------------------------------------------------
LEMMA InitInv == Init => DInv
BY FS_EmptySet, Width, BoundsAssumption DEF Init, DInv, Numbers, Buffer, Packets

LEMMA NextInv == DInv /\ [Next]_vars => DInv'
<1> SUFFICES ASSUME DInv, [Next]_vars PROVE DInv'
  OBVIOUS
<1>1. ASSUME NEW s \in Sources, Send(s) PROVE DInv'
  <2>1. sent[s].next \in Nat /\ sent[s] \in [first : Nat, next : Nat]
    BY DEF DInv, Numbers
  <2>2. net' \subseteq Packets
    BY <1>1, <2>1 DEF Send, DInv, Numbers, Packets
  <2>3. sent' \in [Sources -> [first : Nat, next : Nat]]
    BY <1>1, <2>1 DEF Send, DInv, Numbers
  <2> QED
    BY <1>1, <2>2, <2>3 DEF Send, receiver, DInv, Numbers, Buffer, Ahead, Minus, Seq16
<1>2. ASSUME NEW p \in net, Lose(p) PROVE DInv'
  BY <1>2 DEF Lose, receiver, DInv, Numbers, Buffer, Ahead, Minus, Seq16
<1>3. ASSUME NEW p \in Packets, Receive(p) PROVE DInv'
  <2>1. /\ lastSeq' \in 0..(SeqSpace - 1)
        /\ \A q \in pending' : q.src = ssrc'
        /\ Buffer(pending', lastSeq', 2)
    BY <1>3, DepacketizeInv DEF Receive
  <2>2. net' \subseteq Packets /\ sent' = sent
    BY <1>3 DEF Receive, DInv, Numbers
  <2> QED
    BY <2>1, <2>2 DEF DInv, Numbers, Buffer, Ahead
<1>4. CASE ReceiveMalformed
  BY <1>4 DEF ReceiveMalformed, network, DInv, Numbers, Buffer, Ahead, Minus, Seq16
<1>5. CASE UNCHANGED vars
  BY <1>5 DEF vars, receiver, network, DInv, Numbers, Buffer, Ahead, Minus, Seq16
<1>6. Repeatable \subseteq Packets
  BY SeqModAssumption, BoundsAssumption DEF Repeatable, Packets
<1>7. net \subseteq Packets
  BY DEF DInv, Numbers
<1> QED
  BY <1>1, <1>2, <1>3, <1>4, <1>5, <1>6, <1>7 DEF Next

(* Whatever the network does, the reorder buffer holds packets of one      *)
(* source only, all inside the window, no two with the same number, and so *)
(* fewer than reorderLimit (depacketizer.go:112-134, 144-159).             *)
THEOREM BufferStaysInWindow == Spec => []BufferInWindow
<1>1. DInv => BufferInWindow
  <2> SUFFICES ASSUME DInv PROVE BufferInWindow
    OBVIOUS
  <2>1. \A p \in pending : Ahead(p, lastSeq) \in 2..reorderLimit
    BY DEF DInv, Buffer
  <2>2. Buffer(pending, lastSeq, 1)
    BY <2>1, Width DEF DInv, Buffer
  <2>3. Cardinality(pending) <= reorderLimit - 2 + 1
    BY <2>1, <2>2, FewHeld, Width DEF DInv, Numbers
  <2>4. Cardinality(pending) \in Nat
    BY FS_CardinalityType DEF DInv, Numbers
  <2> QED
    BY <2>1, <2>3, <2>4, Width DEF BufferInWindow, DInv, Ahead
<1> QED
  BY <1>1, InitInv, NextInv, PTL DEF Spec

-----------------------------------------------------------------------------
(* The payloads that are released                                          *)

(* The flushed packets are those at distances 1, 2, ... up to their number.*)
LEMMA FlushedAreFirst ==
    ASSUME NEW base, base.last \in 0..(SeqSpace - 1),
           Buffer(base.held, base.last, 1), NEW d \in Nat \ {0}
    PROVE  d <= Cardinality(Flush(base))
             <=> \E q \in Flush(base) : Ahead(q, base.last) = d
<1> DEFINE l    == base.last
           held == base.held
           done == Flush(base)
           k    == Cardinality(done)
<1>1. done \in SUBSET held
  BY DEF Flush
<1>2. \A q \in held : Ahead(q, l) \in 1..reorderLimit
  BY DEF Buffer
<1>3. IsFiniteSet(done) /\ k \in Nat
  BY <1>1, FS_Subset, FS_CardinalityType DEF Buffer
<1>4. ASSUME NEW q \in done, NEW e \in 1..Ahead(q, l)
      PROVE  \E r \in done : Ahead(r, l) = e
  <2>1. PICK r \in held : Ahead(r, l) = e
    BY <1>4 DEF Flush, Ahead
  <2>2. \A c \in 1..Ahead(r, l) : c \in 1..Ahead(q, l)
    BY <1>1, <1>2, <2>1
  <2>3. r \in done
    BY <1>4, <2>2 DEF Flush, Ahead
  <2> QED
    BY <2>1, <2>3
<1>5. ASSUME NEW q \in done, Ahead(q, l) = d PROVE d <= k
  <2> DEFINE f == [e \in 1..d |-> CHOOSE r \in done : Ahead(r, l) = e]
  <2>1. \A e \in 1..d : f[e] \in done /\ Ahead(f[e], l) = e
    BY <1>4, <1>5
  <2>2. f \in [1..d -> done]
    BY <2>1
  <2> HIDE DEF f
  <2>3. IsFiniteSet(1..d) /\ Cardinality(1..d) = d
    BY FS_Interval
  <2>4. ASSUME k < Cardinality(1..d) PROVE FALSE
    <3>1. \E a, b \in 1..d : a # b /\ f[a] = f[b]
      BY ONLY <1>3, <2>2, <2>3, <2>4, FS_PigeonHole
    <3> QED
      BY <2>1, <3>1
  <2> QED
    BY <1>3, <2>3, <2>4
<1>6. ASSUME d <= k, \A q \in done : Ahead(q, l) # d PROVE FALSE
  <2>1. ASSUME NEW q \in done PROVE Ahead(q, l) \in 1..(d - 1)
    BY <1>1, <1>2, <1>4, <1>6, <2>1
  <2>2. k <= (d - 1) - 1 + 1
    BY <1>1, <2>1, FewHeld
  <2> QED
    BY <1>3, <1>6, <2>2
<1> QED
  BY <1>5, <1>6

(* The sequence that comes out holds one after the other.                  *)
LEMMA Released ==
    ASSUME NEW base, base.last \in 0..(SeqSpace - 1),
           Buffer(base.held, base.last, 1)
    PROVE  LET k   == Cardinality(Flush(base))
               rel == InSequence(Flush(base), base.last)
           IN  /\ k \in Nat /\ rel \in [1..k -> Flush(base)]
               /\ rel \in Seq(base.held) /\ Len(rel) = k
               /\ \A i \in 1..k : Ahead(rel[i], base.last) = i
<1> DEFINE done == Flush(base)
           k    == Cardinality(done)
           rel  == InSequence(done, base.last)
<1>1. k \in Nat
  <2>1. k \in 0..(SeqSpace - 1)
    BY Flushed
  <2> QED
    BY <2>1, Width
<1>2. ASSUME NEW i \in 1..k PROVE \E q \in done : Ahead(q, base.last) = i
  BY <1>1, <1>2, FlushedAreFirst
<1>3. rel = [i \in 1..k |-> CHOOSE q \in done : Ahead(q, base.last) = i]
  BY DEF InSequence, Ahead
<1>4. \A i \in 1..k : rel[i] \in done /\ Ahead(rel[i], base.last) = i
  BY <1>2, <1>3
<1>5. rel \in [1..k -> done] /\ done \subseteq base.held
  BY <1>3, <1>4 DEF Flush
<1> HIDE DEF rel, done
<1>6. rel \in Seq(base.held) /\ Len(rel) = k
  <2> HIDE DEF k
  <2> QED
    BY <1>1, <1>5
<1> QED
  BY <1>1, <1>4, <1>5, <1>6 DEF rel, done


-----------------------------------------------------------------------------
(* The ordinals behind the numbers                                         *)

(* While a source is followed, last is the packet at lastSeq, and the      *)
(* packets held are as far ahead of it as their numbers say.               *)
OInv == /\ DInv
        /\ ssrc \in Sources \cup {NoSource}
        /\ ssrc = NoSource => pending = {}
        /\ ssrc # NoSource =>
             /\ last \in Packets /\ last.src = ssrc /\ lastSeq = Seq16(last)
             /\ \A q \in pending : q.n - last.n = Ahead(q, lastSeq)

(* A packet whose number says truly whether it is ahead.                   *)
Near(p) == p.n - last.n \in (reorderLimit - SeqSpace + 1)..(SeqSpace - reorderLimit - 1)

LEMMA AheadIs ==
    ASSUME NEW p \in Packets, NEW b \in Int
    PROVE  /\ Ahead(p, b % SeqSpace) = (p.n - b) % SeqSpace
           /\ p.n - b \in 0..(SeqSpace - 1) => Ahead(p, b % SeqSpace) = p.n - b
           /\ p.n - b \in (reorderLimit - SeqSpace + 1)..(SeqSpace - reorderLimit - 1)
                /\ Ahead(p, b % SeqSpace) \in 1..reorderLimit
                => Ahead(p, b % SeqSpace) = p.n - b
<1>1. p.n \in Int
  BY DEF Packets
<1>2. Ahead(p, b % SeqSpace) = (p.n - b) % SeqSpace
  BY <1>1, ModMinus, Width DEF Ahead, Minus, Seq16
<1>3. ASSUME p.n - b \in 0..(SeqSpace - 1) PROVE (p.n - b) % SeqSpace = p.n - b
  BY <1>3, ModLow, Width
<1>4. ASSUME p.n - b \in (reorderLimit - SeqSpace + 1)..(SeqSpace - reorderLimit - 1),
             (p.n - b) % SeqSpace \in 1..reorderLimit
      PROVE  (p.n - b) % SeqSpace = p.n - b
  <2>1. CASE p.n - b >= 0
    BY <1>1, <1>4, <2>1, ModLow, Width
  <2>2. CASE p.n - b < 0
    <3>1. p.n - b \in (0 - SeqSpace)..(0 - 1)
      BY <1>1, <1>4, <2>2, Width
    <3>2. (p.n - b) % SeqSpace = p.n - b + SeqSpace
      BY <3>1, ModNegative, Width
    <3> QED
      BY <1>1, <1>4, <3>2, Width
  <2> QED
    BY <1>1, <2>1, <2>2
<1> QED
  BY <1>2, <1>3, <1>4

LEMMA AdvanceOrdinal ==
    ASSUME NEW b \in Int, NEW k \in Int
    PROVE  Advance(b % SeqSpace, k) = (b + k) % SeqSpace
BY ModAdd, Width DEF Advance

LEMMA Successor ==
    ASSUME NEW p \in Packets, NEW q \in Packets, q.src = p.src, q.n = p.n + 1
    PROVE  q = [p EXCEPT !.n = @ + 1]
BY DEF Packets

(* The baseline's ordinal: the packet before the first that is to come.    *)
LEMMA BaseOrdinal ==
    ASSUME OInv, NEW p \in Packets, p.src = ssrc => Near(p)
    PROVE  LET b == IF Resets(p) THEN p.n - 1 ELSE last.n
               base == BaseOf(p)
           IN  /\ b \in Int /\ base.last = b % SeqSpace
               /\ \A q \in base.held : q.n - b = Ahead(q, base.last)
               /\ Classify(p, base) = "ok" => p.n - b = Ahead(p, base.last)
               /\ Resets(p) => Classify(p, base) = "ok" /\ Ahead(p, base.last) = 1
<1> DEFINE b == IF Resets(p) THEN p.n - 1 ELSE last.n
           base == BaseOf(p)
<1>1. p.n \in Int /\ p.src \in Sources
  BY DEF Packets
<1>2. CASE Resets(p)
  <2>1. base = [last |-> Advance(Seq16(p), -1), held |-> {}, from |-> Nothing]
    BY <1>2 DEF BaseOf
  <2>2. b = p.n - 1 /\ b \in Int
    BY <1>1, <1>2
  <2>3. Advance(p.n % SeqSpace, -1) = (p.n + (-1)) % SeqSpace
    BY <1>1, AdvanceOrdinal
  <2>4. base.last = b % SeqSpace
    BY <1>1, <2>1, <2>2, <2>3 DEF Seq16
  <2>5. p.n - b = 1 /\ 1 \in 0..(SeqSpace - 1) /\ 2 < SeqSpace
    BY <1>1, <2>2, LimitAssumption, SeqModAssumption
  <2>6. Ahead(p, b % SeqSpace) = 1
    BY <2>2, <2>5, AheadIs
  <2>7. ~Held(p, base)
    BY <2>1 DEF Held
  <2>8. Minus(Seq16(p), base.last) = 1
    BY <2>4, <2>6 DEF Ahead
  <2>9. Classify(p, base) = "ok"
    BY <2>5, <2>7, <2>8, LimitAssumption, SeqModAssumption DEF Classify, Classified
  <2> QED
    BY <2>1, <2>2, <2>4, <2>5, <2>6, <2>9
<1>3. CASE ~Resets(p)
  <2>1. base = [last |-> lastSeq, held |-> pending, from |-> last]
    BY <1>3 DEF BaseOf
  <2>2. ssrc = p.src /\ ssrc # NoSource
    BY <1>1, <1>3, SourceAssumption DEF Resets
  <2>3. last \in Packets /\ lastSeq = last.n % SeqSpace
    BY <2>2 DEF OInv, Seq16
  <2>4. b = last.n /\ b \in Int /\ base.last = b % SeqSpace
    BY <1>3, <2>1, <2>3 DEF Packets
  <2>5. \A q \in base.held : q.n - b = Ahead(q, base.last)
    BY <2>1, <2>2, <2>4 DEF OInv
  <2>6. Classify(p, base) = "ok" => Ahead(p, base.last) \in 1..reorderLimit
    <3>1. base.last \in 0..(SeqSpace - 1)
      BY <2>1 DEF OInv, DInv, Numbers
    <3> HIDE DEF base
    <3> QED
      BY <3>1, Answer
  <2>7. Classify(p, base) = "ok" => p.n - b = Ahead(p, base.last)
    BY <2>2, <2>4, <2>6, AheadIs DEF Near
  <2> QED
    BY <1>3, <2>4, <2>5, <2>7
<1> QED
  BY <1>2, <1>3

(* What a call does, in ordinals: the baseline moves over what comes out.  *)
LEMMA Moves ==
    ASSUME OInv, NEW p \in Packets, Depacketize(p), p.src = ssrc => Near(p)
    PROVE  LET b == IF Resets(p) THEN p.n - 1 ELSE last.n
               ok == Classify(p, BaseOf(p)) = "ok"
           IN  \E k \in Nat :
               /\ b \in Int /\ (Resets(p) => ok /\ k > 0)
               /\ lastSeq' = (b + k) % SeqSpace
               /\ out' \in Seq(Packets) /\ Len(out') = k
               /\ \A i \in 1..k : out'[i].src = p.src /\ out'[i].n = b + i
               /\ \A i \in 1..k : out'[i] \in pending \cup {p}
               /\ last' = IF k = 0 THEN last ELSE out'[k]
               /\ \A q \in pending' : q.n - b = k + Ahead(q, lastSeq')
               /\ \A q \in BaseOf(p).held : q \in pending' \/ q.n <= b + k
               /\ ok => p \in pending' \/ p.n <= b + k
<1> DEFINE b    == IF Resets(p) THEN p.n - 1 ELSE last.n
           base == BaseOf(p)
           ok   == Classify(p, base) = "ok"
<1>1. /\ b \in Int /\ base.last = b % SeqSpace
      /\ \A q \in base.held : q.n - b = Ahead(q, base.last)
      /\ ok => p.n - b = Ahead(p, base.last)
      /\ Resets(p) => ok /\ Ahead(p, base.last) = 1
  BY BaseOrdinal
<1>2. DInv /\ ~Resets(p) => base.from = last
  BY DEF BaseOf
<1>3. /\ base.last \in 0..(SeqSpace - 1)
      /\ Buffer(base.held, base.last, 2)
  BY BaseOK DEF OInv
<1>4. CASE ok
  <2> DEFINE kept == [base EXCEPT !.held = @ \cup {p}]
             done == Flush(kept)
             k    == Cardinality(done)
             rel  == InSequence(done, base.last)
  <2>1. /\ kept.last = base.last /\ kept.held = base.held \cup {p}
        /\ kept.last \in 0..(SeqSpace - 1)
        /\ Buffer(kept.held, kept.last, 1)
        /\ \A q \in kept.held : q.src = p.src
    BY <1>4, KeptOK DEF OInv
  <2>2. /\ out' = rel
        /\ lastSeq' = Advance(base.last, k)
        /\ pending' = kept.held \ done
        /\ last' = IF rel = <<>> THEN base.from ELSE Last(rel)
    BY <1>4 DEF Depacketize
  <2> HIDE DEF b, base, ok, kept
  <2>3. /\ k \in Nat /\ rel \in [1..k -> done] /\ rel \in Seq(kept.held) /\ Len(rel) = k
        /\ \A i \in 1..k : Ahead(rel[i], base.last) = i
    BY <2>1, Released
  <2>4. \A q \in kept.held : q.n - b = Ahead(q, base.last) /\ q.n \in Int
    BY <1>1, <1>4, <2>1 DEF Buffer, Packets
  <2>5. \A q \in done : Ahead(q, base.last) <= k /\ q \in kept.held
    <3>1. ASSUME NEW q \in done PROVE Ahead(q, base.last) <= k /\ q \in kept.held
      <4>1. q \in kept.held /\ Ahead(q, base.last) \in Nat \ {0}
        BY <2>1 DEF Flush, Buffer
      <4> QED
        BY <2>1, <4>1, FlushedAreFirst
    <3> QED
      BY <3>1
  <2>6. lastSeq' = (b + k) % SeqSpace
    BY <1>1, <2>2, <2>3, AdvanceOrdinal
  <2>7. out' \in Seq(Packets) /\ Len(out') = k
    BY <2>1, <2>2, <2>3 DEF Buffer
  <2>8. \A i \in 1..k : out'[i].src = p.src /\ out'[i].n = b + i
    <3>1. ASSUME NEW i \in 1..k PROVE out'[i].src = p.src /\ out'[i].n = b + i
      <4>1. rel[i] \in kept.held
        BY <2>3, <2>5
      <4>2. rel[i].n - b = i /\ rel[i].n \in Int
        BY <2>3, <2>4, <4>1
      <4> QED
        BY <1>1, <2>1, <2>2, <4>1, <4>2
    <3> QED
      BY <3>1
  <2>9. Resets(p) => k > 0
    <3>1. SUFFICES ASSUME Resets(p), k = 0 PROVE FALSE
      BY <2>3
    <3>2. p \in kept.held /\ Ahead(p, base.last) = 1
      BY <1>1, <2>1, <3>1
    <3>3. p \in done
      BY <2>1, <3>2 DEF Flush, Ahead
    <3> QED
      BY <2>5, <3>1, <3>2, <3>3
  <2>10. last' = IF k = 0 THEN last ELSE out'[k]
    <3>1. CASE k = 0
      BY <1>2, <2>2, <2>3, <2>9, <3>1 DEF OInv
    <3>2. CASE k # 0
      <4>1. rel # <<>>
        BY <2>3, <3>2
      <4> QED
        BY <2>2, <2>3, <3>2, <4>1 DEF Last
    <3> QED
      BY <3>1, <3>2
  <2>11. \A q \in pending' : q.n - b = k + Ahead(q, lastSeq')
    <3>1. ASSUME NEW q \in pending' PROVE q.n - b = k + Ahead(q, lastSeq')
      <4>1. q \in kept.held /\ q \in Packets
        BY <2>1, <2>2, <3>1 DEF Buffer
      <4>2. Ahead(q, base.last) \in 1..reorderLimit /\ k \in 0..(SeqSpace - 1)
        BY <2>1, <4>1, Flushed DEF Buffer
      <4>3. ~(Ahead(q, base.last) <= k)
        <5>1. SUFFICES ASSUME Ahead(q, base.last) <= k PROVE FALSE
          OBVIOUS
        <5>2. PICK r \in done : Ahead(r, base.last) = Ahead(q, base.last)
          BY <2>1, <4>2, <5>1, FlushedAreFirst
        <5>3. r = q
          BY <2>1, <2>5, <4>1, <5>2, AheadOfOne
        <5> QED
          BY <2>2, <3>1, <5>2, <5>3
      <4>4. k <= Minus(Seq16(q), base.last)
        BY <2>3, <4>2, <4>3 DEF Ahead
      <4>5. Ahead(q, lastSeq') = Ahead(q, base.last) - k
        BY <1>3, <2>2, <4>1, <4>2, <4>4, SeqRange, Closer DEF Ahead
      <4> QED
        BY <2>3, <2>4, <4>1, <4>2, <4>5
    <3> QED
      BY <3>1
  <2>12. \A q \in kept.held : q \in pending' \/ q.n <= b + k
    <3>1. ASSUME NEW q \in kept.held, q \in done PROVE q.n <= b + k
      BY <1>1, <2>3, <2>4, <2>5, <3>1
    <3> QED
      BY <2>2, <3>1
  <2>13. \A i \in 1..k : out'[i] \in pending \cup {p}
    <3>1. base.held \subseteq pending
      BY DEF base, BaseOf
    <3>2. \A i \in 1..k : out'[i] \in kept.held
      BY <2>2, <2>3, <2>5
    <3> QED
      BY <2>1, <3>1, <3>2
  <2> QED
    BY <1>1, <1>4, <2>1, <2>3, <2>6, <2>7, <2>8, <2>9, <2>10, <2>11, <2>12, <2>13
       DEF b, base, ok
<1>5. CASE ~ok
  <2>1. /\ out' = InSequence({}, base.last)
        /\ lastSeq' = Advance(base.last, Cardinality({}))
        /\ pending' = base.held
        /\ last' = IF InSequence({}, base.last) = <<>> THEN base.from ELSE Last(InSequence({}, base.last))
    <3>1. base = [last |-> base.last, held |-> base.held, from |-> base.from]
      BY BaseOK DEF OInv
    <3> QED
      BY <1>5, <3>1 DEF Depacketize
  <2>2. ~Resets(p)
    BY <1>1, <1>5
  <2> HIDE DEF base, b, ok
  <2>3. Cardinality({}) = 0
    BY FS_EmptySet
  <2>4. InSequence({}, base.last) = <<>>
    BY <2>3 DEF InSequence
  <2>5. lastSeq' = (b + 0) % SeqSpace
    BY <1>1, <2>1, <2>3, AdvanceOrdinal
  <2>6. lastSeq' = base.last
    BY <1>1, <2>5
  <2>7. \A q \in base.held : q.n - b = 0 + Ahead(q, lastSeq')
    BY <1>1, <1>3, <2>6 DEF Buffer
  <2>8. last' = last
    BY <1>2, <2>1, <2>2, <2>4 DEF OInv
  <2> DEFINE k == 0
  <2>9. /\ k \in Nat /\ k = 0
        /\ lastSeq' = (b + k) % SeqSpace
        /\ \A q \in pending' : q.n - b = k + Ahead(q, lastSeq')
    BY <2>1, <2>5, <2>7
  <2>10. out' \in Seq(Packets) /\ Len(out') = k
    <3>1. out' = <<>>
      BY <2>1, <2>4
    <3> QED
      BY <3>1
  <2> HIDE DEF k
  <2> QED
    BY <1>1, <1>5, <2>1, <2>2, <2>8, <2>9, <2>10 DEF b, base, ok
<1> QED
  BY <1>4, <1>5


(* A call on a packet whose number says the truth keeps the ordinals, puts *)
(* out successors only and drops nothing that is still to come.            *)
LEMMA OrderStep ==
    ASSUME OInv, NEW p \in Packets, Depacketize(p), p.src = ssrc => Near(p)
    PROVE  /\ ssrc' = p.src /\ last' \in Packets /\ last'.src = ssrc'
           /\ lastSeq' = Seq16(last')
           /\ \A q \in pending' : q.n - last'.n = Ahead(q, lastSeq')
           /\ last' \in pending \cup {p, last} /\ (Resets(p) => last' \in pending \cup {p})
           /\ Successors
           /\ Resets(p) => last'.n >= p.n
           /\ ~Resets(p) =>
                /\ last'.n >= last.n
                /\ \A q \in pending : q \in pending' \/ q.n <= last'.n
                /\ Classify(p, BaseOf(p)) = "ok" => p \in pending' \/ p.n <= last'.n
<1> DEFINE b  == IF Resets(p) THEN p.n - 1 ELSE last.n
           ok == Classify(p, BaseOf(p)) = "ok"
<1>1. PICK k \in Nat :
        /\ b \in Int /\ (Resets(p) => ok /\ k > 0)
        /\ lastSeq' = (b + k) % SeqSpace
        /\ out' \in Seq(Packets) /\ Len(out') = k
        /\ \A i \in 1..k : out'[i].src = p.src /\ out'[i].n = b + i
        /\ \A i \in 1..k : out'[i] \in pending \cup {p}
        /\ last' = IF k = 0 THEN last ELSE out'[k]
        /\ \A q \in pending' : q.n - b = k + Ahead(q, lastSeq')
        /\ \A q \in BaseOf(p).held : q \in pending' \/ q.n <= b + k
        /\ ok => p \in pending' \/ p.n <= b + k
  BY Moves
<1>2. ssrc' = p.src /\ p.src \in Sources /\ p.n \in Nat
  BY DEF Depacketize, Packets
<1>3. ~Resets(p) => /\ last \in Packets /\ last.src = p.src /\ b = last.n
                    /\ ssrc = p.src /\ BaseOf(p).held = pending
  BY <1>2, SourceAssumption DEF OInv, Resets, BaseOf
<1>4. \A i \in 1..k : out'[i] \in Packets
  BY <1>1
<1> HIDE DEF b, ok
<1>5. last' \in Packets /\ last'.src = ssrc' /\ last'.n = b + k
  <2>1. CASE k = 0
    BY <1>1, <1>2, <1>3, <2>1
  <2>2. CASE k # 0
    BY <1>1, <1>2, <1>4, <2>2
  <2> QED
    BY <2>1, <2>2
<1>6. \A q \in pending' : q.n - last'.n = Ahead(q, lastSeq')
  <2>1. ASSUME NEW q \in pending' PROVE q.n - last'.n = Ahead(q, lastSeq')
    <3>1. q \in Packets /\ Ahead(q, lastSeq') \in 2..reorderLimit
      BY <2>1, DepacketizeInv DEF OInv, Buffer
    <3>2. q.n - b = k + Ahead(q, lastSeq') /\ last'.n = b + k /\ b \in Int
      BY <1>1, <1>5, <2>1
    <3>3. q.n \in Int /\ Ahead(q, lastSeq') \in Int
      BY <3>1, Width DEF Packets
    <3> QED
      BY <3>2, <3>3
  <2> QED
    BY <2>1
<1>7. Successors
  <2> SUFFICES ASSUME NEW i \in 1..k,
                      NEW before, before = IF i > 1 THEN out'[i-1]
                                           ELSE IF ssrc' = ssrc THEN last ELSE Nothing,
                      before # Nothing
               PROVE  out'[i] = [before EXCEPT !.n = @ + 1]
    BY <1>1 DEF Successors
  <2>1. CASE i > 1
    <3>1. i - 1 \in 1..k
      BY <1>1, <2>1
    <3>2. out'[i-1].src = p.src /\ out'[i-1].n = b + (i - 1) /\ out'[i-1] \in Packets
      BY <1>1, <1>4, <3>1
    <3> QED
      BY <1>1, <1>4, <2>1, <3>2, Successor
  <2>2. CASE i = 1 /\ ssrc' = ssrc
    <3>1. before = last /\ ~Resets(p)
      BY <1>2, <2>2 DEF Resets
    <3> QED
      BY <1>1, <1>3, <1>4, <2>2, <3>1, Successor
  <2>3. CASE i = 1 /\ ssrc' # ssrc
    BY <2>3
  <2> QED
    BY <2>1, <2>2, <2>3
<1>8. lastSeq' = Seq16(last')
  BY <1>1, <1>5 DEF Seq16
<1>9. Resets(p) => last'.n >= p.n
  BY <1>1, <1>2, <1>5 DEF b
<1>10. ~Resets(p) => last'.n >= last.n
  BY <1>1, <1>3, <1>5
<1> QED
  BY <1>1, <1>2, <1>3, <1>5, <1>6, <1>7, <1>8, <1>9, <1>10 DEF ok


-----------------------------------------------------------------------------
(* What the network holds                                                  *)

(* Whatever is on its way, held or released was sent, and what is on its   *)
(* way is not overtaken by more than Span others.                          *)
SentBefore(p) == p \in Packets /\ p.n \in sent[p.src].first..(sent[p.src].next - 1)
Recent(p) == SentBefore(p) /\ p.n >= sent[p.src].next - Span

NetInv == /\ DInv
          /\ ssrc \in Sources \cup {NoSource}
          /\ ssrc = NoSource => pending = {}
          /\ ssrc # NoSource => sent[ssrc].next > sent[ssrc].first
          /\ \A s \in Sources : sent[s].next \in sent[s].first..(sent[s].first + MaxSent)
          /\ \A p \in net : Recent(p)
          /\ \A p \in pending : SentBefore(p)

LEMMA Arriving == ASSUME NetInv, NEW p \in net \cup Repeatable PROVE Recent(p)
<1>1. CASE p \in net
  BY <1>1 DEF NetInv
<1>2. CASE p \in Repeatable
  <2>1. /\ p \in [src : Sources, n : 0..(SeqSpace + MaxSent)]
        /\ p.n >= sent[p.src].first
        /\ p.n \in (sent[p.src].next - Span)..(sent[p.src].next - 1)
    BY <1>2 DEF Repeatable
  <2>2. p \in Packets /\ sent[p.src] \in [first : Nat, next : Nat]
    BY <2>1, SeqModAssumption, BoundsAssumption DEF Packets, NetInv, DInv, Numbers
  <2> QED
    BY <2>1, <2>2, BoundsAssumption DEF Recent, SentBefore
<1> QED
  BY <1>1, <1>2


LEMMA NetInit == Init => NetInv
<1> SUFFICES ASSUME Init PROVE NetInv
  OBVIOUS
<1>1. DInv
  BY InitInv
<1>2. \A s \in Sources : sent[s].next \in sent[s].first..(sent[s].first + MaxSent)
  BY BoundsAssumption DEF Init
<1> QED
  BY <1>1, <1>2 DEF Init, NetInv

LEMMA NetNext == NetInv /\ [Next]_vars => NetInv'
<1> SUFFICES ASSUME NetInv, [Next]_vars PROVE NetInv'
  OBVIOUS
<1>1. DInv'
  BY NextInv DEF NetInv
<1>2. sent \in [Sources -> [first : Nat, next : Nat]]
  BY DEF NetInv, DInv, Numbers
<1>3. ASSUME NEW s \in Sources, Send(s) PROVE NetInv'
  <2> DEFINE p == [src |-> s, n |-> sent[s].next]
  <2>1. /\ p.n - sent[s].first < MaxSent
        /\ \A q \in net : q.src = s => p.n - q.n < Span
        /\ net' = net \cup {p} /\ UNCHANGED receiver
        /\ sent' = [sent EXCEPT ![s].next = @ + 1]
    BY <1>3 DEF Send
  <2>2. /\ sent[s].first \in Nat /\ sent[s].next \in Nat
        /\ sent'[s] = [first |-> sent[s].first, next |-> sent[s].next + 1]
        /\ \A z \in Sources \ {s} : sent'[z] = sent[z]
    BY <1>2, <2>1
  <2>3. ASSUME NEW q \in Packets, SentBefore(q) PROVE SentBefore(q)'
    BY <1>2, <2>2, <2>3 DEF SentBefore, Packets
  <2>4. ASSUME NEW q \in net' PROVE Recent(q)'
    <3>1. CASE q = p
      <4>1. sent[s].first <= sent[s].next
        BY <2>2 DEF NetInv
      <4>2. q \in Packets /\ q.src = s /\ q.n = sent[s].next
        BY <2>2, <3>1 DEF Packets
      <4>3. /\ sent'[q.src].first = sent[s].first
            /\ sent'[q.src].next = q.n + 1
        BY <2>2, <4>2
      <4>4. q.n \in sent'[q.src].first..(sent'[q.src].next - 1)
        BY <2>2, <4>1, <4>2, <4>3
      <4>5. q.n >= sent'[q.src].next - Span
        BY <2>2, <4>2, <4>3, BoundsAssumption
      <4> QED
        BY <4>2, <4>4, <4>5 DEF Recent, SentBefore
    <3>2. CASE q \in net /\ q.src = s
      BY <1>2, <2>1, <2>2, <2>3, <3>2, BoundsAssumption DEF Recent, SentBefore, Packets, NetInv
    <3>3. CASE q \in net /\ q.src # s
      BY <1>2, <2>1, <2>2, <2>3, <3>3 DEF Recent, SentBefore, Packets, NetInv
    <3> QED
      BY <2>1, <3>1, <3>2, <3>3
  <2>5. \A z \in Sources : sent'[z].next \in sent'[z].first..(sent'[z].first + MaxSent)
    BY <1>2, <2>1, <2>2, BoundsAssumption DEF NetInv
  <2>6. \A q \in pending' : SentBefore(q)'
    BY <2>1, <2>3 DEF NetInv, SentBefore, receiver
  <2>7. ssrc # NoSource => sent'[ssrc].next > sent'[ssrc].first
    BY <1>2, <2>2 DEF NetInv
  <2> QED
    BY <1>1, <2>1, <2>4, <2>5, <2>6, <2>7 DEF NetInv, receiver
<1>4. ASSUME NEW p \in net \cup Repeatable, Receive(p) PROVE NetInv'
  <2>1. Recent(p) /\ SentBefore(p)
    BY <1>4, Arriving DEF Recent
  <2>2. p \in Packets /\ p.src \in Sources
    BY <2>1 DEF SentBefore, Packets
  <2>3. sent' = sent /\ net' \subseteq net /\ ssrc' = p.src
    BY <1>4 DEF Receive, Depacketize
  <2>4. pending' \subseteq pending \cup {p}
    <3>1. BaseOf(p).held \subseteq pending
      BY DEF BaseOf
    <3>2. BaseOf(p) = [last |-> BaseOf(p).last, held |-> BaseOf(p).held, from |-> BaseOf(p).from]
      BY DEF BaseOf
    <3> QED
      BY <1>4, <3>1, <3>2 DEF Receive, Depacketize
  <2>5. \A q \in pending' : SentBefore(q)'
    BY <2>1, <2>3, <2>4 DEF NetInv, SentBefore
  <2>6. \A q \in net' : Recent(q)'
    BY <2>3 DEF NetInv, Recent, SentBefore
  <2>7. sent[p.src].next > sent[p.src].first
    BY <1>2, <2>1, <2>2 DEF SentBefore, Packets
  <2> QED
    BY <1>1, <2>2, <2>3, <2>5, <2>6, <2>7, SourceAssumption DEF NetInv
<1>5. CASE UNCHANGED <<ssrc, pending, sent>> /\ net' \subseteq net
  BY <1>1, <1>5 DEF NetInv, Recent, SentBefore
<1>6. ASSUME NEW p \in net, Lose(p) PROVE NetInv'
  BY <1>5, <1>6 DEF Lose, receiver
<1>7. CASE ReceiveMalformed
  BY <1>5, <1>7 DEF ReceiveMalformed, network
<1>8. CASE UNCHANGED vars
  BY <1>5, <1>8 DEF vars, receiver, network
<1> QED
  BY <1>3, <1>4, <1>6, <1>7, <1>8 DEF Next


-----------------------------------------------------------------------------
(* In order                                                                *)

Followed == ssrc # NoSource => SentBefore(last)

(* As long as no number deceives, the ordinals stay right and what comes   *)
(* out is in order.                                                        *)
LEMMA FollowStep ==
    ASSUME NetInv, OInv, Followed, [Next]_vars,
           \A p \in net \cup Repeatable : p.src = ssrc => Near(p)
    PROVE  OInv' /\ Followed' /\ (Successors \/ UNCHANGED vars)
<1>1. DInv'
  BY NextInv DEF NetInv
<1>2. CASE \E p \in net \cup Repeatable : Receive(p)
  <2>1. PICK p \in net \cup Repeatable : Receive(p)
    BY <1>2
  <2>2. SentBefore(p) /\ p \in Packets
    BY Arriving DEF Recent, SentBefore
  <2>3. Depacketize(p) /\ sent' = sent
    BY <2>1 DEF Receive
  <2>4. /\ ssrc' = p.src /\ last' \in Packets /\ last'.src = ssrc'
        /\ lastSeq' = Seq16(last')
        /\ \A q \in pending' : q.n - last'.n = Ahead(q, lastSeq')
        /\ last' \in pending \cup {p, last} /\ (Resets(p) => last' \in pending \cup {p})
        /\ Successors
    BY <2>2, <2>3, OrderStep
  <2>5. ssrc' \in Sources /\ ssrc' # NoSource
    BY <2>2, <2>4, SourceAssumption DEF Packets
  <2>6. OInv'
    BY <1>1, <2>4, <2>5 DEF OInv, Ahead
  <2>7. ~Resets(p) => ssrc # NoSource
    BY <2>4, <2>5 DEF Resets
  <2>8. SentBefore(last')
    BY <2>2, <2>4, <2>7 DEF Followed, NetInv
  <2> QED
    BY <2>3, <2>4, <2>6, <2>8 DEF Followed, SentBefore
<1>3. CASE UNCHANGED receiver /\ out' = <<>> /\ ~UNCHANGED sent
  <2>1. PICK s \in Sources : Send(s)
    BY <1>3 DEF Next, vars, network, Receive, Lose, ReceiveMalformed
  <2>2. sent \in [Sources -> [first : Nat, next : Nat]]
    BY DEF NetInv, DInv, Numbers
  <2>3. /\ \A z \in Sources \ {s} : sent'[z] = sent[z]
        /\ sent'[s].first = sent[s].first /\ sent'[s].next = sent[s].next + 1
    BY <2>1, <2>2 DEF Send
  <2>4. SentBefore(last) => SentBefore(last)'
    BY <1>3, <2>2, <2>3 DEF SentBefore, Packets, receiver
  <2> QED
    BY <1>1, <1>3, <2>4 DEF OInv, Followed, Successors, receiver, Ahead, Minus, Seq16
<1>4. CASE UNCHANGED <<ssrc, lastSeq, pending, last, sent>> /\ out' = <<>>
  BY <1>1, <1>4 DEF OInv, Followed, SentBefore, Successors, Ahead, Minus, Seq16
<1>5. CASE UNCHANGED vars
  BY <1>1, <1>5 DEF OInv, Followed, SentBefore, vars, receiver, network, Ahead, Minus, Seq16
<1>6. (\E s \in Sources : Send(s)) => UNCHANGED receiver /\ out' = <<>>
  BY DEF Send
<1>7. (\E p \in net : Lose(p)) \/ ReceiveMalformed
        => UNCHANGED <<ssrc, lastSeq, pending, last, sent>> /\ out' = <<>>
  BY DEF Lose, receiver, ReceiveMalformed, network
<1>8. (\E s \in Sources : Send(s)) /\ UNCHANGED sent
        => UNCHANGED <<ssrc, lastSeq, pending, last, sent>> /\ out' = <<>>
  BY <1>6 DEF receiver
<1> QED
  BY <1>2, <1>3, <1>4, <1>5, <1>6, <1>7, <1>8 DEF Next

LEMMA FollowInit == Init => OInv /\ Followed
<1> SUFFICES ASSUME Init PROVE OInv /\ Followed
  OBVIOUS
<1>1. DInv
  BY InitInv
<1> QED
  BY <1>1 DEF Init, OInv, Followed

(* "Outputs the payloads in sequence order" (depacketizer.go:31): however  *)
(* the network reorders, repeats and loses packets and senders alternate,  *)
(* as long as no sender's numbers have come round: with as many packets as *)
(* there are numbers, less one window.                                     *)
THEOREM InOrderBeforeWrap ==
    ASSUME MaxSent <= SeqSpace - reorderLimit
    PROVE  Spec => InOrder
<1> DEFINE FInv == NetInv /\ OInv /\ Followed
<1>1. Init => FInv
  BY NetInit, FollowInit
<1>2. FInv /\ [Next]_vars => FInv' /\ [Successors]_vars
  <2> SUFFICES ASSUME FInv, [Next]_vars PROVE FInv' /\ [Successors]_vars
    OBVIOUS
  <2>1. ASSUME NEW p \in net \cup Repeatable, p.src = ssrc PROVE Near(p)
    <3>1. SentBefore(p) /\ p \in Packets
      BY Arriving DEF Recent, SentBefore
    <3>2. SentBefore(last) /\ last \in Packets /\ last.src = ssrc
      BY <2>1, <3>1, SourceAssumption DEF Followed, OInv, Packets
    <3>3. /\ sent[ssrc].first \in Nat /\ sent[ssrc].next \in Nat
          /\ sent[ssrc].next <= sent[ssrc].first + MaxSent
      BY <2>1, <3>1 DEF NetInv, DInv, Numbers, Packets
    <3>4. /\ p.n \in Int /\ last.n \in Int
          /\ p.n >= sent[ssrc].first /\ p.n < sent[ssrc].first + MaxSent
          /\ last.n >= sent[ssrc].first /\ last.n < sent[ssrc].first + MaxSent
      BY <2>1, <3>1, <3>2, <3>3, BoundsAssumption DEF SentBefore, Packets
    <3>5. MaxSent \in Nat /\ MaxSent <= SeqSpace - reorderLimit
      BY BoundsAssumption
    <3> QED
      BY <3>3, <3>4, <3>5, Width DEF Near
  <2> QED
    BY <2>1, NetNext, FollowStep
<1> QED
  BY <1>1, <1>2, PTL DEF Spec, InOrder


-----------------------------------------------------------------------------
(* Complete                                                                *)

(* Everything beyond the last payload that was sent is on its way or held. *)
Whole == IF ssrc = NoSource
         THEN \A s \in Sources : \A n \in sent[s].first..(sent[s].next - 1) :
                [src |-> s, n |-> n] \in net
         ELSE \A n \in (last.n + 1)..(sent[ssrc].next - 1) :
                [src |-> ssrc, n |-> n] \in net \cup pending

Lossless == lost = {} /\ (ssrc = NoSource \/ OneSource)
LInv == NetInv /\ (Lossless => OInv /\ Followed /\ Whole)

(* Nothing overtakes what is still missing by more than Span.              *)
LEMMA Close ==
    ASSUME NetInv, OInv, Followed, Whole, NEW p \in net \cup Repeatable, p.src = ssrc
    PROVE  /\ ssrc \in Sources /\ last \in Packets /\ p \in Packets
           /\ p.n - last.n \in (1 - Span)..Span
<1>1. Recent(p) /\ p \in Packets /\ ssrc \in Sources
  BY Arriving DEF Recent, SentBefore, Packets
<1>2. ssrc # NoSource /\ last \in Packets /\ SentBefore(last) /\ last.src = ssrc
  BY <1>1, SourceAssumption DEF OInv, Followed
<1>3. sent[ssrc].next \in Nat /\ sent[ssrc].first \in Nat /\ p.n \in Nat /\ last.n \in Nat
  BY <1>1, <1>2 DEF NetInv, DInv, Numbers, Packets
<1>4. /\ p.n >= sent[ssrc].next - Span /\ p.n <= sent[ssrc].next - 1
      /\ last.n <= sent[ssrc].next - 1 /\ last.n >= sent[ssrc].first
  BY <1>1, <1>2, <1>3 DEF Recent, SentBefore
<1>5. CASE last.n + 1 <= sent[ssrc].next - 1
  <2> DEFINE q == [src |-> ssrc, n |-> last.n + 1]
  <2>1. q \in net \cup pending
    BY <1>2, <1>3, <1>5 DEF Whole
  <2>2. q \notin pending
    BY <1>2, <1>3 DEF OInv, DInv, Buffer
  <2>3. q.n >= sent[q.src].next - Span
    BY <2>1, <2>2 DEF NetInv, Recent
  <2> QED
    BY <1>1, <1>2, <1>3, <1>4, <2>3, BoundsAssumption
<1>6. CASE ~(last.n + 1 <= sent[ssrc].next - 1)
  BY <1>1, <1>2, <1>3, <1>4, <1>6, BoundsAssumption
<1> QED
  BY <1>5, <1>6

(* A packet inside the window is accepted, or is held already.             *)
LEMMA Accepted ==
    ASSUME OInv, NEW p \in Packets, ~Resets(p),
           p.n - last.n \in 1..reorderLimit
    PROVE  Classify(p, BaseOf(p)) = "ok" \/ p \in pending
<1> DEFINE base == BaseOf(p)
<1>1. /\ base = [last |-> lastSeq, held |-> pending, from |-> last]
      /\ ssrc = p.src /\ p.src \in Sources /\ ssrc # NoSource
  BY SourceAssumption DEF BaseOf, Resets, Packets
<1>2. last \in Packets /\ last.n \in Int /\ p.n \in Int /\ lastSeq = last.n % SeqSpace
  BY <1>1 DEF OInv, Seq16, Packets
<1>3. Ahead(p, lastSeq) = p.n - last.n
  <2>1. p.n - last.n \in 0..(SeqSpace - 1)
    BY <1>2, Width
  <2> QED
    BY <1>2, <2>1, AheadIs
<1>4. CASE Held(p, base)
  <2>1. PICK q \in pending : Seq16(q) = Seq16(p)
    BY <1>1, <1>4 DEF Held
  <2>2. q.n - last.n = p.n - last.n /\ q.src = p.src /\ q \in Packets
    BY <1>1, <1>3, <2>1 DEF OInv, DInv, Ahead, Buffer
  <2>3. q = p
    BY <1>2, <2>2 DEF Packets
  <2> QED
    BY <2>1, <2>3
<1>5. CASE ~Held(p, base)
  <2>1. Minus(Seq16(p), base.last) \in 1..reorderLimit
    BY <1>1, <1>3 DEF Ahead
  <2> QED
    BY <1>5, <2>1, SeqModAssumption, LimitAssumption DEF Classify, Classified
<1> QED
  BY <1>4, <1>5

LEMMA WholeInit == Init => LInv
<1> SUFFICES ASSUME Init PROVE LInv
  OBVIOUS
<1>1. NetInv /\ OInv /\ Followed
  BY NetInit, FollowInit
<1>2. ssrc = NoSource /\ \A s \in Sources : sent[s].next = sent[s].first /\ sent[s].first \in Nat
  BY BoundsAssumption DEF Init
<1>3. Whole
  BY <1>2 DEF Whole
<1> QED
  BY <1>1, <1>3 DEF LInv

(* The source that is followed remains the only one.                       *)
LEMMA StaysAlone == LInv /\ [Next]_vars /\ Lossless' => Lossless
<1> SUFFICES ASSUME LInv, [Next]_vars, Lossless' PROVE Lossless
  OBVIOUS
<1>1. lost = {}
  BY DEF Lossless, Next, Send, Lose, Receive, ReceiveMalformed, network, vars
<1>2. sent \in [Sources -> [first : Nat, next : Nat]]
  BY DEF LInv, NetInv, DInv, Numbers
<1>3. SUFFICES ASSUME ssrc # NoSource PROVE OneSource
  BY <1>1 DEF Lossless
<1>4. ssrc \in Sources /\ sent[ssrc].next > sent[ssrc].first
  BY <1>3 DEF LInv, NetInv
<1>5. ASSUME NEW s \in Sources, Send(s) PROVE OneSource
  <2>1. /\ ssrc' = ssrc
        /\ \A z \in Sources \ {s} : sent'[z] = sent[z]
        /\ sent'[s].first = sent[s].first /\ sent'[s].next = sent[s].next + 1
    BY <1>2, <1>5 DEF Send, receiver
  <2>2. OneSource'
    BY <1>3, <2>1 DEF Lossless
  <2>3. \A z \in Sources \ {ssrc} : sent'[z].next = sent'[z].first
    BY <2>1, <2>2 DEF OneSource
  <2>4. s = ssrc \/ sent[s].next + 1 = sent[s].first
    BY <2>1, <2>3
  <2>5. s # ssrc => sent[s].first <= sent[s].next /\ sent[s].next \in Nat
    BY <1>2 DEF LInv, NetInv
  <2>6. s = ssrc
    BY <1>2, <2>4, <2>5
  <2> QED
    BY <2>1, <2>3, <2>6 DEF OneSource
<1>6. ASSUME NEW p \in net \cup Repeatable, Receive(p) PROVE OneSource
  <2>1. ssrc' = p.src /\ sent' = sent /\ p.src \in Sources
    BY <1>6, Arriving DEF Receive, Depacketize, LInv, Recent, SentBefore, Packets
  <2>2. OneSource'
    BY <2>1, SourceAssumption DEF Lossless
  <2>3. \A z \in Sources \ {p.src} : sent[z].next = sent[z].first
    BY <2>1, <2>2 DEF OneSource
  <2>4. ssrc = p.src
    BY <1>2, <1>4, <2>3
  <2> QED
    BY <2>3, <2>4 DEF OneSource
<1>7. CASE UNCHANGED <<ssrc, sent>>
  BY <1>3, <1>7 DEF Lossless, OneSource
<1> QED
  BY <1>5, <1>6, <1>7
     DEF Next, Lose, ReceiveMalformed, receiver, network, vars


LEMMA WholeStep ==
    ASSUME Span <= reorderLimit, LInv, [Next]_vars, Lossless'
    PROVE  /\ OInv' /\ Followed' /\ Whole'
           /\ Successors \/ UNCHANGED vars
<1>1. Lossless /\ NetInv /\ OInv /\ Followed /\ Whole
  BY StaysAlone DEF LInv
<1>2. ASSUME NEW p \in net \cup Repeatable, p.src = ssrc PROVE Near(p)
  <2>1. p.n - last.n \in (1 - Span)..Span /\ p.n \in Int /\ last.n \in Int
    BY <1>1, <1>2, Close DEF Packets
  <2> QED
    BY <2>1, Width, LimitAssumption, BoundsAssumption, SeqModAssumption DEF Near
<1>3. OInv' /\ Followed' /\ (Successors \/ UNCHANGED vars)
  BY <1>1, <1>2, FollowStep
<1>4. sent \in [Sources -> [first : Nat, next : Nat]] /\ ssrc \in Sources \cup {NoSource}
  BY <1>1 DEF NetInv, DInv, Numbers
<1>5. ssrc # NoSource => last \in Packets /\ last.n \in Nat
  BY <1>1 DEF OInv, Packets
<1>6. ASSUME NEW s \in Sources, Send(s) PROVE Whole'
  <2> DEFINE p == [src |-> s, n |-> sent[s].next]
  <2>1. /\ ssrc' = ssrc /\ pending' = pending /\ last' = last
        /\ \A z \in Sources \ {s} : sent'[z] = sent[z]
        /\ sent'[s].first = sent[s].first /\ sent'[s].next = sent[s].next + 1
        /\ sent[s].next \in Nat /\ sent[s].first \in Nat
        /\ net' = net \cup {p}
    BY <1>4, <1>6 DEF Send, receiver
  <2>2. CASE ssrc = NoSource
    <3>1. ASSUME NEW z \in Sources, NEW n \in sent'[z].first..(sent'[z].next - 1)
          PROVE  [src |-> z, n |-> n] \in net'
      <4>1. CASE z = s /\ n = sent[s].next
        BY <2>1, <4>1
      <4>2. CASE ~(z = s /\ n = sent[s].next)
        <5>1. n \in sent[z].first..(sent[z].next - 1)
          BY <1>4, <2>1, <3>1, <4>2
        <5> QED
          BY <1>1, <2>1, <2>2, <5>1 DEF Whole
      <4> QED
        BY <4>1, <4>2
    <3> QED
      BY <2>1, <2>2, <3>1 DEF Whole
  <2>3. CASE ssrc # NoSource
    <3>1. ASSUME NEW n \in (last.n + 1)..(sent'[ssrc].next - 1)
          PROVE  [src |-> ssrc, n |-> n] \in net' \cup pending
      <4>1. CASE ssrc = s /\ n = sent[s].next
        BY <2>1, <4>1
      <4>2. CASE ~(ssrc = s /\ n = sent[s].next)
        <5>1. n \in (last.n + 1)..(sent[ssrc].next - 1)
          BY <1>4, <1>5, <2>1, <2>3, <3>1, <4>2
        <5> QED
          BY <1>1, <2>1, <2>3, <5>1 DEF Whole
      <4> QED
        BY <4>1, <4>2
    <3> QED
      BY <2>1, <2>3, <3>1 DEF Whole
  <2> QED
    BY <2>2, <2>3
<1>7. ASSUME NEW p \in net, Lose(p) PROVE FALSE
  BY <1>7 DEF Lose, Lossless
<1>8. ASSUME NEW p \in net \cup Repeatable, Receive(p) PROVE Whole'
  <2>1. Depacketize(p) /\ net' = net \ {p} /\ sent' = sent
    BY <1>8 DEF Receive
  <2>2. p \in Packets /\ p.src \in Sources /\ SentBefore(p)
    BY <1>1, Arriving DEF Recent, SentBefore, Packets
  <2>3. /\ ssrc' = p.src /\ last' \in Packets
        /\ Resets(p) => last'.n >= p.n
        /\ ~Resets(p) =>
             /\ last'.n >= last.n
             /\ \A q \in pending : q \in pending' \/ q.n <= last'.n
             /\ Classify(p, BaseOf(p)) = "ok" => p \in pending' \/ p.n <= last'.n
    BY <1>1, <1>2, <2>1, <2>2, OrderStep
  <2>4. ssrc' # NoSource /\ sent[p.src].next \in Nat /\ last'.n \in Nat /\ p.n \in Nat
    BY <1>4, <2>2, <2>3, SourceAssumption DEF Packets
  <2>5. SUFFICES ASSUME NEW n \in (last'.n + 1)..(sent[p.src].next - 1)
                 PROVE  [src |-> p.src, n |-> n] \in net' \cup pending'
    BY <2>1, <2>3, <2>4 DEF Whole
  <2> DEFINE q == [src |-> p.src, n |-> n]
  <2>6. CASE ssrc = NoSource
    <3>1. Resets(p)
      BY <2>2, <2>6, SourceAssumption DEF Resets
    <3>2. n \in sent[p.src].first..(sent[p.src].next - 1) /\ n # p.n
      BY <1>4, <2>2, <2>3, <2>4, <3>1 DEF SentBefore
    <3>3. q \in net /\ q # p
      BY <1>1, <2>2, <2>6, <3>2 DEF Whole
    <3> QED
      BY <2>1, <3>3
  <2>7. CASE ssrc # NoSource
    <3>1. ssrc = p.src
      <4>1. OneSource /\ sent[p.src].next # sent[p.src].first
        BY <1>1, <1>4, <2>2, <2>7 DEF Lossless, SentBefore
      <4> QED
        BY <2>2, <4>1 DEF OneSource
    <3>2. ~Resets(p) /\ last.n \in Nat
      BY <1>5, <2>7, <3>1 DEF Resets
    <3>3. n \in (last.n + 1)..(sent[ssrc].next - 1)
      BY <2>3, <2>4, <3>1, <3>2
    <3>4. q \in net \cup pending
      BY <1>1, <2>7, <3>1, <3>3 DEF Whole
    <3>5. CASE q \in pending
      BY <2>3, <2>4, <3>2, <3>5
    <3>6. CASE q \in net /\ q # p
      BY <2>1, <3>6
    <3>7. CASE q = p
      <4>1. p.n - last.n \in (1 - Span)..Span
        BY <1>1, <3>1, Close
      <4>2. p.n - last.n \in 1..reorderLimit
        BY <2>4, <3>2, <3>3, <3>7, <4>1, BoundsAssumption, LimitAssumption
      <4>3. Classify(p, BaseOf(p)) = "ok" \/ p \in pending
        BY <1>1, <2>2, <3>2, <4>2, Accepted
      <4>4. p \in pending' \/ p.n <= last'.n
        BY <2>3, <3>2, <4>3
      <4> QED
        BY <2>4, <3>7, <4>4
    <3> QED
      BY <3>4, <3>5, <3>6, <3>7
  <2> QED
    BY <2>6, <2>7
<1>9. UNCHANGED <<ssrc, last, pending, net, sent>> => Whole'
  BY <1>1 DEF Whole
<1>10. ReceiveMalformed \/ UNCHANGED vars => UNCHANGED <<ssrc, last, pending, net, sent>>
  BY DEF ReceiveMalformed, network, receiver, vars
<1>11. Whole'
  BY <1>6, <1>7, <1>8, <1>9, <1>10 DEF Next
<1> QED
  BY <1>3, <1>11

(* As long as one source sends and nothing is lost, the buffer is empty    *)
(* once everything has arrived, however many packets that were and however *)
(* often the numbers came round, if the disorder stays within the window.  *)
THEOREM NothingIsHeldBack ==
    ASSUME Span <= reorderLimit
    PROVE  Spec => []NothingHeldBack
<1>1. LInv => NothingHeldBack
  <2> SUFFICES ASSUME LInv, lost = {}, net = {}, OneSource, NEW q \in pending
               PROVE  FALSE
    BY DEF NothingHeldBack
  <2>1. NetInv /\ OInv /\ Followed /\ Whole
    BY DEF LInv, Lossless
  <2>2. /\ ssrc \in Sources /\ ssrc # NoSource /\ last \in Packets /\ q \in Packets
        /\ q.src = ssrc /\ q.n - last.n = Ahead(q, lastSeq)
        /\ Ahead(q, lastSeq) \in 2..reorderLimit /\ SentBefore(q)
    BY <2>1 DEF OInv, NetInv, DInv, Buffer
  <2>3. /\ last.n \in Nat /\ q.n \in Nat /\ q.n <= sent[ssrc].next - 1
        /\ sent[ssrc].next \in Nat
    BY <2>1, <2>2 DEF SentBefore, Packets, NetInv, DInv, Numbers
  <2> DEFINE r == [src |-> ssrc, n |-> last.n + 1]
  <2>4. last.n + 1 \in (last.n + 1)..(sent[ssrc].next - 1)
    BY <2>2, <2>3, Width
  <2>5. r \in pending
    BY <2>1, <2>2, <2>4 DEF Whole
  <2>6. Ahead(r, lastSeq) = 1 /\ Ahead(r, lastSeq) \in 2..reorderLimit
    BY <2>1, <2>2, <2>3, <2>5 DEF OInv, DInv, Buffer
  <2> QED
    BY <2>6
<1>2. LInv /\ [Next]_vars => LInv'
  BY NetNext, WholeStep DEF LInv
<1> QED
  BY <1>1, <1>2, WholeInit, PTL DEF Spec

(* One source on a network that loses nothing, whose disorder stays within *)
(* the window: the output is in order for any number of packets, over any  *)
(* number of wraps.                                                        *)
THEOREM InOrderWithoutLoss ==
    ASSUME Span <= reorderLimit, MaxLost = 0, \A s, z \in Sources : s = z
    PROVE  Spec => InOrder
<1> DEFINE AInv == LInv /\ lost = {}
<1>1. Init => AInv
  BY WholeInit DEF Init
<1>2. AInv /\ [Next]_vars => AInv' /\ [Successors]_vars
  <2> SUFFICES ASSUME AInv, [Next]_vars PROVE AInv' /\ [Successors]_vars
    OBVIOUS
  <2>1. lost' = {}
    <3>1. ASSUME NEW p \in net, Lose(p) PROVE FALSE
      <4>1. Cardinality(lost) = 0
        BY FS_EmptySet
      <4> QED
        BY <3>1, <4>1 DEF Lose
    <3> QED
      BY <3>1 DEF Next, Send, Receive, ReceiveMalformed, network, vars
  <2>2. NetInv'
    BY NetNext DEF LInv
  <2>3. Lossless'
    BY <2>1, <2>2 DEF Lossless, OneSource, NetInv
  <2> QED
    BY <2>1, <2>2, <2>3, WholeStep DEF LInv
<1> QED
  BY <1>1, <1>2, PTL DEF Spec, InOrder

-----------------------------------------------------------------------------
(* The fields and the output keep their types: what comes out are packets, *)
(* under every disorder and loss.                                          *)
THEOREM DepacketizerTypeOK == Spec => []TypeOK
<1>1. Init => DInv /\ TypeOK
  <2> SUFFICES ASSUME Init PROVE DInv /\ TypeOK
    OBVIOUS
  <2>1. Len(out) = 0
    BY DEF Init
  <2> QED
    BY <2>1, InitInv, Width DEF Init, TypeOK
<1>2. DInv /\ TypeOK /\ [Next]_vars => DInv' /\ TypeOK'
  <2> SUFFICES ASSUME DInv, TypeOK, [Next]_vars PROVE TypeOK'
    BY NextInv
  <2>1. DInv'
    BY NextInv
  <2>2. lastSeq' \in 0..(SeqSpace - 1) /\ \A p \in pending' : p \in Packets
    BY <2>1 DEF DInv, Numbers
  <2>3. ASSUME NEW p \in net \cup Repeatable, Receive(p) PROVE TypeOK'
    <3>1. p \in Packets /\ p.src \in Sources
      BY SeqModAssumption, BoundsAssumption DEF Repeatable, DInv, Numbers, Packets
    <3> DEFINE base == BaseOf(p)
               kept == [base EXCEPT !.held = @ \cup {p}]
    <3>2. /\ ssrc' = p.src /\ verdict' = Classify(p, base)
          /\ Classify(p, base) = "ok" => out' = InSequence(Flush(kept), base.last)
          /\ Classify(p, base) # "ok" => out' = InSequence({}, base.last)
      BY <2>3 DEF Receive, Depacketize
    <3>3. verdict' \in {"ok", "duplicate", "outoforder", "gap"}
      BY <3>2 DEF Classify, Classified
    <3>4. out' \in Seq(Packets)
      <4>1. CASE Classify(p, base) = "ok"
        <5>1. kept.last = base.last /\ kept.last \in 0..(SeqSpace - 1) /\ Buffer(kept.held, kept.last, 1)
          BY <3>1, <4>1, KeptOK
        <5>2. InSequence(Flush(kept), kept.last) \in Seq(kept.held)
          <6> HIDE DEF kept
          <6> QED
            BY <5>1, Released
        <5>3. kept.held \subseteq Packets
          BY <5>1 DEF Buffer
        <5> HIDE DEF kept, base
        <5> QED
          BY <3>2, <4>1, <5>1, <5>2, <5>3
      <4>2. CASE Classify(p, base) # "ok"
        <5>1. InSequence({}, base.last) = <<>>
          BY FS_EmptySet DEF InSequence
        <5>2. out' = <<>>
          BY <3>2, <4>2, <5>1
        <5> QED
          BY <5>2
      <4> QED
        BY <4>1, <4>2
    <3>5. \A i \in 1..Len(out') : out'[i] \in Packets
      BY <3>4
    <3> QED
      BY <2>2, <3>1, <3>2, <3>3, <3>5 DEF TypeOK
  <2>4. CASE UNCHANGED <<ssrc, verdict>> /\ out' \in {<<>>, out}
    BY <2>2, <2>4 DEF TypeOK
  <2>5. CASE ReceiveMalformed
    BY <2>2, <2>5 DEF ReceiveMalformed, TypeOK
  <2>6. (\E s \in Sources : Send(s)) \/ (\E p \in net : Lose(p)) \/ UNCHANGED vars
          => UNCHANGED <<ssrc, verdict>> /\ out' \in {<<>>, out}
    BY DEF Send, Lose, receiver, vars
  <2> QED
    BY <2>3, <2>4, <2>5, <2>6 DEF Next
<1> QED
  BY <1>1, <1>2, PTL DEF Spec
=============================================================================
