-------------------------- MODULE ReaderPoolProofs --------------------------
(***************************************************************************)
(* The reader pool is correct for any finite set of claims and any set of  *)
(* addresses and reader objects.  The safety properties of ReaderPool are  *)
(* not inductive: what makes them hold is who is where in the creation     *)
(* protocol, which the parts of IInv say.                                  *)
(***************************************************************************)
EXTENDS ReaderPool, FiniteSetTheorems, TLAPS

Owning   == {"insert", "got", "using", "leaving"}
Creating == {"recheck", "open", "insert"}

(* A claim has an entry exactly between creating or sharing it and         *)
(* releasing it; the entry is the open reader of the address it asked for. *)
Owners == \A c \in Claims :
    /\ mine[c] # NoEntry <=> pc[c] \in Owning
    /\ mine[c] # NoEntry => /\ key[mine[c]] = addr[c]
                            /\ socket[mine[c]] = "open"

(* Inside the creation mutex; past the double check the address stays      *)
(* unmapped, and a reader not yet inserted is its creator's alone.         *)
Creators == \A c \in Claims :
    /\ pc[c] \in Creating => keyMu[addr[c]] = c
    /\ pc[c] \in {"open", "insert"} => readers[addr[c]] = NoEntry
    /\ pc[c] = "insert" => Holders(mine[c]) = {c}

(* The map holds open readers under their own key, and a claim past the    *)
(* creation protocol has the one that is mapped.                           *)
Mapped == /\ \A a \in Addrs : readers[a] # NoEntry =>
                 /\ key[readers[a]] = a
                 /\ socket[readers[a]] = "open"
          /\ \A c \in Claims : pc[c] \in {"got", "using", "leaving"} =>
                 readers[addr[c]] = mine[c]

OpenIsHeld == \A e \in Entries : socket[e] = "open" => Holders(e) # {}

IInv == TypeOK /\ RefsExact /\ Owners /\ Creators /\ Mapped /\ OpenIsHeld

-----------------------------------------------------------------------------
(* A set of claims is finite, and its cardinality moves by one with each   *)
(* claim that joins or leaves.                                             *)
LEMMA HoldersFinite ==
    ASSUME NEW e \in Entries
    PROVE  /\ IsFiniteSet(Holders(e))
           /\ Cardinality(Holders(e)) \in Nat
           /\ Cardinality(Holders(e)) = 0 <=> Holders(e) = {}
<1>1. Holders(e) \subseteq Claims
  BY DEF Holders
<1>2. IsFiniteSet(Holders(e))
  BY <1>1, FS_Subset, ClaimsAssumption
<1> QED
  BY <1>2, FS_CardinalityType, FS_EmptySet

LEMMA AddOne ==
    ASSUME NEW S, IsFiniteSet(S), NEW c, c \notin S
    PROVE  Cardinality(S \cup {c}) = Cardinality(S) + 1
BY FS_AddElement

LEMMA RemoveOne ==
    ASSUME NEW S, IsFiniteSet(S), NEW c \in S
    PROVE  /\ Cardinality(S \ {c}) = Cardinality(S) - 1
           /\ Cardinality(S) = 1 <=> S = {c}
<1>1. /\ Cardinality(S \ {c}) = Cardinality(S) - 1
      /\ Cardinality(S) \in Nat
  BY FS_RemoveElement, FS_CardinalityType
<1>2. IsFiniteSet(S \ {c}) /\ (Cardinality(S \ {c}) = 0 <=> S \ {c} = {})
  BY FS_RemoveElement, FS_EmptySet
<1>3. S \ {c} = {} <=> S = {c}
  OBVIOUS
<1> QED
  BY <1>1, <1>2, <1>3

(* A mapped reader has a positive count: nobody is ever swept.             *)
LEMMA MappedIsCounted ==
    ASSUME IInv, NEW a \in Addrs, readers[a] # NoEntry
    PROVE  /\ readers[a] \in Entries
           /\ Holders(readers[a]) # {}
           /\ refCnt[readers[a]] > 0
<1>1. readers[a] \in Entries
  BY DEF IInv, TypeOK
<1>2. Holders(readers[a]) # {}
  BY <1>1 DEF IInv, Mapped, OpenIsHeld
<1>3. refCnt[readers[a]] = Cardinality(Holders(readers[a]))
  BY <1>1, <1>2 DEF IInv, RefsExact
<1> QED
  BY <1>1, <1>2, <1>3, HoldersFinite

LEMMA SweepIsIdle ==
    ASSUME IInv, Sweep
    PROVE  UNCHANGED vars
<1>1. {a \in Unsubscribed : refCnt[readers[a]] <= 0} = {}
  <2>1. ASSUME NEW a \in Unsubscribed
        PROVE  ~(refCnt[readers[a]] <= 0)
    <3>1. a \in Addrs /\ readers[a] # NoEntry
      BY <2>1 DEF Unsubscribed
    <3>2. readers[a] \in Entries /\ refCnt[readers[a]] > 0
      BY <3>1, MappedIsCounted
    <3> QED
      BY <3>2 DEF IInv, TypeOK
  <2> QED
    BY <2>1
<1>2. Reclaim({})
  BY <1>1 DEF Sweep
<1>3. socket' = socket /\ readers' = readers
  BY <1>2 DEF Reclaim, IInv, TypeOK
<1> QED
  BY <1>2, <1>3 DEF Reclaim, vars

-----------------------------------------------------------------------------
LEMMA InitInv == Init => IInv
<1> SUFFICES ASSUME Init PROVE IInv
  OBVIOUS
<1>1. AnyAddr \in Addrs
  BY AddrsAssumption DEF AnyAddr
<1>2. TypeOK
  BY <1>1 DEF Init, TypeOK, States
<1>3. \A e \in Entries : Holders(e) = {}
  BY EntriesAssumption DEF Init, Holders
<1>4. RefsExact
  BY <1>3 DEF RefsExact
<1>5. Owners /\ Creators /\ Mapped
  BY DEF Init, Owners, Creators, Mapped, Owning, Creating
<1>6. OpenIsHeld
  BY DEF Init, OpenIsHeld
<1> QED
  BY <1>2, <1>4, <1>5, <1>6 DEF IInv

(* Steps that move a claim within the protocol and touch no reader.        *)
LEMMA QuietStep ==
    ASSUME IInv, NEW c \in Claims,
           UNCHANGED <<readers, key, refCnt, socket, mine>>,
           \/ \E a \in Addrs : Request(c, a)
           \/ FastMiss(c) \/ LockKey(c) \/ RecheckMiss(c) \/ OpenFail(c)
           \/ Subscribe(c) \/ Overflow(c) \/ Unsub(c)
    PROVE  IInv'
<1>1. TypeOK'
  <2>1. CASE \E a \in Addrs : Request(c, a)
    BY <2>1 DEF IInv, TypeOK, States, Request, pool
  <2>2. CASE FastMiss(c) \/ LockKey(c) \/ RecheckMiss(c)
    BY <2>2 DEF IInv, TypeOK, States, FastMiss, LockKey, RecheckMiss, pool
  <2>3. CASE OpenFail(c)
    BY <2>3 DEF IInv, TypeOK, States, OpenFail, Unlock, pool
  <2>4. CASE Subscribe(c) \/ Overflow(c) \/ Unsub(c)
    BY <2>4 DEF IInv, TypeOK, States, Subscribe, Overflow, Unsub
  <2> QED
    BY <2>1, <2>2, <2>3, <2>4
<1>2. \A e \in Entries : Holders(e)' = Holders(e)
  BY DEF Holders
<1>3. RefsExact' /\ OpenIsHeld'
  BY <1>2 DEF IInv, RefsExact, OpenIsHeld
<1>4. Owners'
  <2>1. CASE \E a \in Addrs : Request(c, a)
    BY <2>1 DEF IInv, TypeOK, Owners, Owning, Request
  <2>2. CASE FastMiss(c) \/ LockKey(c) \/ RecheckMiss(c) \/ OpenFail(c)
    BY <2>2 DEF IInv, TypeOK, Owners, Owning, FastMiss, LockKey, RecheckMiss, OpenFail
  <2>3. CASE Subscribe(c) \/ Overflow(c) \/ Unsub(c)
    BY <2>3 DEF IInv, TypeOK, Owners, Owning, Subscribe, Overflow, Unsub
  <2> QED
    BY <2>1, <2>2, <2>3
<1>5. Creators'
  <2>0. \A d \in Claims : Holders(mine[d])' = Holders(mine[d])
    BY DEF Holders
  <2>1. CASE \E a \in Addrs : Request(c, a)
    BY <2>0, <2>1 DEF IInv, TypeOK, Creators, Creating, Request
  <2>2. CASE FastMiss(c) \/ RecheckMiss(c)
    BY <2>0, <2>2 DEF IInv, TypeOK, Creators, Creating, FastMiss, RecheckMiss
  <2>3. CASE LockKey(c)
    BY <2>0, <2>3, ClaimsAssumption DEF IInv, TypeOK, Creators, Creating, LockKey
  <2>4. CASE OpenFail(c)
    BY <2>0, <2>4 DEF IInv, TypeOK, Creators, Creating, OpenFail, Unlock
  <2>5. CASE Subscribe(c) \/ Overflow(c) \/ Unsub(c)
    BY <2>0, <2>5 DEF IInv, TypeOK, Creators, Creating, Subscribe, Overflow, Unsub
  <2> QED
    BY <2>1, <2>2, <2>3, <2>4, <2>5
<1>6. Mapped'
  <2>1. CASE \E a \in Addrs : Request(c, a)
    BY <2>1 DEF IInv, TypeOK, Mapped, Request
  <2>2. CASE FastMiss(c) \/ LockKey(c) \/ RecheckMiss(c) \/ OpenFail(c)
    BY <2>2 DEF IInv, TypeOK, Mapped, FastMiss, LockKey, RecheckMiss, OpenFail
  <2>3. CASE Subscribe(c) \/ Overflow(c) \/ Unsub(c)
    BY <2>3 DEF IInv, TypeOK, Mapped, Subscribe, Overflow, Unsub
  <2> QED
    BY <2>1, <2>2, <2>3
<1> QED
  BY <1>1, <1>3, <1>4, <1>5, <1>6 DEF IInv

(* One more claim shares a mapped reader.                                  *)
LEMMA ShareStep ==
    ASSUME IInv, NEW c \in Claims,
           \/ FastHit(c)
           \/ RecheckHit(c)
    PROVE  IInv'
<1>0. /\ Share(c) /\ readers[addr[c]] # NoEntry
      /\ pc[c] \in {"lookup", "recheck"}
      /\ keyMu' = keyMu \/ (pc[c] = "recheck" /\ Unlock(c))
  BY DEF FastHit, RecheckHit
<1>a. addr[c] \in Addrs
  BY DEF IInv, TypeOK
<1>e. PICK e \in Entries : e = readers[addr[c]]
  BY <1>0, <1>a, MappedIsCounted
<1>1. /\ e \in Entries /\ Holders(e) # {} /\ addr[c] \in Addrs
      /\ mine[c] = NoEntry
      /\ key[e] = addr[c] /\ socket[e] = "open"
  BY <1>0, <1>a, <1>e, MappedIsCounted DEF IInv, TypeOK, Owners, Owning, Mapped
<1>2. /\ refCnt' = [refCnt EXCEPT ![e] = @ + 1]
      /\ mine' = [mine EXCEPT ![c] = e]
      /\ pc' = [pc EXCEPT ![c] = "got"]
      /\ UNCHANGED <<readers, key, socket, subs, addr>>
  BY <1>0, <1>e DEF Share
<1>3. TypeOK'
  <2>1. keyMu' \in [Addrs -> Claims \cup {Nobody}]
    BY <1>0, <1>1 DEF IInv, TypeOK, Unlock
  <2> QED
    BY <1>1, <1>2, <2>1 DEF IInv, TypeOK, States
<1>4. /\ Holders(e)' = Holders(e) \cup {c}
      /\ c \notin Holders(e)
      /\ \A f \in Entries \ {e} : Holders(f)' = Holders(f)
  BY <1>1, <1>2, EntriesAssumption DEF IInv, TypeOK, Holders
<1>5. RefsExact'
  <2>1. Cardinality(Holders(e)') = refCnt'[e]
    <3>1. refCnt[e] = Cardinality(Holders(e))
      BY <1>1 DEF IInv, RefsExact
    <3>2. Cardinality(Holders(e)') = Cardinality(Holders(e)) + 1
      BY <1>1, <1>4, HoldersFinite, AddOne
    <3> QED
      BY <1>1, <1>2, <3>1, <3>2 DEF IInv, TypeOK
  <2> QED
    BY <1>1, <1>2, <1>4, <2>1 DEF IInv, TypeOK, RefsExact
<1>6. Owners'
  BY <1>1, <1>2, EntriesAssumption DEF IInv, TypeOK, Owners, Owning
<1>7. Creators'
  <2>1. ASSUME NEW d \in Claims, pc'[d] \in Creating
        PROVE  keyMu'[addr'[d]] = d
    <3>1. d # c /\ pc[d] \in Creating /\ addr'[d] = addr[d]
      BY <1>2, <2>1 DEF IInv, TypeOK, Creating
    <3>2. keyMu[addr[d]] = d
      BY <3>1 DEF IInv, Creators
    <3>3. pc[c] = "recheck" => keyMu[addr[c]] = c
      BY DEF IInv, Creators, Creating
    <3> QED
      BY <1>0, <1>1, <3>1, <3>2, <3>3 DEF IInv, TypeOK, Unlock
  <2>2. ASSUME NEW d \in Claims, pc'[d] = "insert"
        PROVE  Holders(mine[d])' = {d}
    <3>1. d # c /\ pc[d] = "insert" /\ mine'[d] = mine[d]
      BY <1>2, <2>2 DEF IInv, TypeOK
    <3>2. mine[d] \in Entries /\ Holders(mine[d]) = {d}
      BY <3>1, EntriesAssumption DEF IInv, TypeOK, Owners, Owning, Creators
    <3>3. mine[d] # e
      <4>1. addr[d] # addr[c]
        BY <1>0, <1>e, <3>1 DEF IInv, Creators
      <4> QED
        BY <1>1, <3>1, <4>1, <3>2, EntriesAssumption DEF IInv, Owners
    <3> QED
      BY <1>4, <3>1, <3>2, <3>3
  <2>3. \A d \in Claims : pc'[d] \in {"open", "insert"} => readers'[addr'[d]] = NoEntry
    BY <1>2 DEF IInv, TypeOK, Creators
  <2> QED
    BY <2>1, <2>2, <2>3 DEF Creators
<1>8. Mapped'
  BY <1>1, <1>2, <1>e DEF IInv, TypeOK, Mapped
<1>9. OpenIsHeld'
  BY <1>2, <1>4 DEF IInv, OpenIsHeld
<1> QED
  BY <1>3, <1>5, <1>6, <1>7, <1>8, <1>9 DEF IInv

(* A creator opens a socket on a fresh reader object.                      *)
LEMMA OpenStep ==
    ASSUME IInv, NEW c \in Claims, Open(c)
    PROVE  IInv'
<1>1. PICK e \in Entries :
        /\ Unreferenced(e)
        /\ key' = [key EXCEPT ![e] = addr[c]]
        /\ refCnt' = [refCnt EXCEPT ![e] = 1]
        /\ socket' = [socket EXCEPT ![e] = "open"]
        /\ subs' = [subs EXCEPT ![e] = {}]
        /\ mine' = [mine EXCEPT ![c] = e]
  BY DEF Open, OpenCounting
<1>2. /\ pc[c] = "open"
      /\ pc' = [pc EXCEPT ![c] = "insert"]
      /\ UNCHANGED <<readers, keyMu, addr>>
  BY DEF Open, OpenCounting
<1>3. /\ mine[c] = NoEntry /\ addr[c] \in Addrs
      /\ Holders(e) = {} /\ \A a \in Addrs : readers[a] # e
      /\ \A d \in Claims : mine[d] # e
  BY <1>1, <1>2 DEF IInv, TypeOK, Owners, Owning, Unreferenced, Holders
<1>4. TypeOK'
  BY <1>1, <1>2, <1>3 DEF IInv, TypeOK, States
<1>5. /\ Holders(e)' = {c}
      /\ \A f \in Entries \ {e} : Holders(f)' = Holders(f)
  BY <1>1, <1>3, EntriesAssumption DEF IInv, TypeOK, Holders
<1>6. RefsExact'
  <2>1. Cardinality({c}) = 1
    BY FS_Singleton
  <2> QED
    BY <1>1, <1>5, <2>1 DEF IInv, TypeOK, RefsExact
<1>7. Owners'
  BY <1>1, <1>2, <1>3, EntriesAssumption DEF IInv, TypeOK, Owners, Owning
<1>8. Creators'
  <2>1. \A d \in Claims : pc'[d] = "insert" => Holders(mine[d])' = {d}
    <3>1. ASSUME NEW d \in Claims \ {c}, pc'[d] = "insert"
          PROVE  Holders(mine[d])' = {d}
      <4>1. pc[d] = "insert" /\ mine'[d] = mine[d]
        BY <1>1, <1>2, <3>1 DEF IInv, TypeOK
      <4>2. mine[d] \in Entries \ {e} /\ Holders(mine[d]) = {d}
        BY <1>3, <4>1, EntriesAssumption DEF IInv, TypeOK, Owners, Owning, Creators
      <4> QED
        BY <1>5, <4>1, <4>2
    <3>2. Holders(mine[c])' = {c}
      <4>1. mine'[c] = e
        BY <1>1 DEF IInv, TypeOK
      <4> QED
        BY <1>5, <4>1
    <3> QED
      BY <3>1, <3>2
  <2>2. \A d \in Claims : /\ pc'[d] \in Creating => keyMu'[addr'[d]] = d
                          /\ pc'[d] \in {"open", "insert"} => readers'[addr'[d]] = NoEntry
    BY <1>2 DEF IInv, TypeOK, Creators, Creating
  <2> QED
    BY <2>1, <2>2 DEF Creators
<1>9. Mapped'
  BY <1>1, <1>2, <1>3 DEF IInv, TypeOK, Mapped
<1>10. OpenIsHeld'
  BY <1>1, <1>5 DEF IInv, TypeOK, OpenIsHeld
<1> QED
  BY <1>4, <1>6, <1>7, <1>8, <1>9, <1>10 DEF IInv

(* The creator publishes its reader and leaves the creation mutex.         *)
LEMMA InsertStep ==
    ASSUME IInv, NEW c \in Claims, Insert(c)
    PROVE  IInv'
<1>1. /\ pc[c] = "insert"
      /\ readers' = [readers EXCEPT ![addr[c]] = mine[c]]
      /\ pc' = [pc EXCEPT ![c] = "got"]
      /\ keyMu' = [keyMu EXCEPT ![addr[c]] = Nobody]
      /\ UNCHANGED <<key, refCnt, socket, subs, addr, mine>>
  BY DEF Insert, Unlock
<1>2. /\ mine[c] \in Entries /\ addr[c] \in Addrs /\ Holders(mine[c]) = {c}
      /\ key[mine[c]] = addr[c] /\ socket[mine[c]] = "open"
      /\ readers[addr[c]] = NoEntry /\ keyMu[addr[c]] = c
  BY <1>1 DEF IInv, TypeOK, Owners, Owning, Creators, Creating
<1>3. \A e \in Entries : Holders(e)' = Holders(e)
  BY <1>1 DEF Holders
<1>4. TypeOK'
  BY <1>1, <1>2 DEF IInv, TypeOK, States
<1>5. RefsExact' /\ OpenIsHeld'
  BY <1>1, <1>3 DEF IInv, RefsExact, OpenIsHeld
<1>6. Owners'
  BY <1>1, <1>2 DEF IInv, TypeOK, Owners, Owning
<1>7. Creators'
  <2>1. \A d \in Claims : Holders(mine[d])' = Holders(mine[d])
    BY <1>1 DEF Holders
  <2> QED
    BY <1>1, <1>2, <2>1 DEF IInv, TypeOK, Creators, Creating
<1>8. Mapped'
  <2>1. ASSUME NEW d \in Claims, pc'[d] \in {"got", "using", "leaving"}
        PROVE  readers'[addr[d]] = mine[d]
    <3>1. CASE d = c
      BY <1>1, <1>2, <3>1 DEF IInv, TypeOK
    <3>2. CASE d # c
      <4>1. pc[d] \in {"got", "using", "leaving"} /\ mine[d] # NoEntry
        BY <1>1, <2>1, <3>2 DEF IInv, TypeOK, Owners, Owning
      <4>2. readers[addr[d]] = mine[d]
        BY <4>1 DEF IInv, Mapped
      <4>3. addr[d] # addr[c]
        BY <1>2, <4>1, <4>2
      <4> QED
        BY <1>1, <4>2, <4>3 DEF IInv, TypeOK
    <3> QED
      BY <3>1, <3>2
  <2> QED
    BY <1>1, <1>2, <2>1 DEF IInv, TypeOK, Mapped
<1> QED
  BY <1>4, <1>5, <1>6, <1>7, <1>8 DEF IInv

(* A claim gives its reference back; the last one closes the reader.       *)
LEMMA ReleaseStep ==
    ASSUME IInv, NEW c \in Claims, Release(c)
    PROVE  IInv'
<1>0. pc[c] = "leaving" /\ mine[c] \in Entries
  BY DEF Release, ReleaseAt, IInv, TypeOK, Owners, Owning
<1>e. PICK e \in Entries : e = mine[c]
  BY <1>0
<1>1. /\ pc[c] = "leaving"
      /\ refCnt' = [refCnt EXCEPT ![e] = @ - 1]
      /\ mine' = [mine EXCEPT ![c] = NoEntry]
      /\ pc' = [pc EXCEPT ![c] = "idle"]
      /\ UNCHANGED <<keyMu, key, subs, addr>>
      /\ IF refCnt[e] - 1 <= 0
         THEN /\ socket' = [socket EXCEPT ![e] = "closed"]
              /\ readers' = [readers EXCEPT ![key[e]] = NoEntry]
         ELSE UNCHANGED <<socket, readers>>
  BY <1>e DEF Release, ReleaseAt
<1>2. /\ e \in Entries /\ addr[c] \in Addrs /\ c \in Holders(e)
      /\ key[e] = addr[c] /\ socket[e] = "open" /\ readers[addr[c]] = e
  BY <1>1, <1>e, EntriesAssumption DEF IInv, TypeOK, Owners, Owning, Mapped, Holders
<1>3. /\ Holders(e)' = Holders(e) \ {c}
      /\ \A f \in Entries \ {e} : Holders(f)' = Holders(f)
  BY <1>1, <1>2, <1>e, EntriesAssumption DEF IInv, TypeOK, Holders
<1>4. /\ refCnt[e] = Cardinality(Holders(e))
      /\ Cardinality(Holders(e)) \in Nat
      /\ Cardinality(Holders(e) \ {c}) = Cardinality(Holders(e)) - 1
      /\ Cardinality(Holders(e)) = 1 <=> Holders(e) = {c}
      /\ Cardinality(Holders(e)) # 0
  <2>1. IsFiniteSet(Holders(e)) /\ Cardinality(Holders(e)) \in Nat
        /\ Cardinality(Holders(e)) # 0
    BY <1>2, HoldersFinite
  <2>2. /\ Cardinality(Holders(e) \ {c}) = Cardinality(Holders(e)) - 1
        /\ Cardinality(Holders(e)) = 1 <=> Holders(e) = {c}
    BY <1>2, <2>1, RemoveOne
  <2>3. refCnt[e] = Cardinality(Holders(e))
    BY <1>2 DEF IInv, RefsExact
  <2> QED
    BY <2>1, <2>2, <2>3
<1>5. refCnt[e] - 1 <= 0 <=> Holders(e) = {c}
  BY <1>4
<1>6. TypeOK'
  <2>0. refCnt[e] - 1 \in Nat
    BY <1>4
  <2>1. refCnt' \in [Entries -> Nat]
    BY <1>1, <1>2, <2>0 DEF IInv, TypeOK
  <2>2. socket' \in [Entries -> {"none", "open", "closed"}]
        /\ readers' \in [Addrs -> Entries \cup {NoEntry}]
    BY <1>1, <1>2 DEF IInv, TypeOK
  <2> QED
    BY <1>1, <2>1, <2>2 DEF IInv, TypeOK, States
<1>7. RefsExact'
  <2>1. refCnt'[e] = Cardinality(Holders(e)')
    BY <1>1, <1>2, <1>3, <1>4 DEF IInv, TypeOK
  <2> QED
    BY <1>1, <1>2, <1>3, <2>1 DEF IInv, TypeOK, RefsExact
<1>8. \A d \in Claims : mine[d] = e /\ d # c => Holders(e) # {c}
  BY DEF Holders
<1>9. Owners'
  BY <1>1, <1>2, <1>5, <1>8, <1>e, EntriesAssumption DEF IInv, TypeOK, Owners, Owning
<1>10. Creators'
  <2>1. ASSUME NEW d \in Claims, pc'[d] = "insert"
        PROVE  Holders(mine[d])' = {d}
    <3>1. d # c /\ pc[d] = "insert" /\ mine'[d] = mine[d]
      BY <1>1, <2>1 DEF IInv, TypeOK
    <3>2. mine[d] \in Entries /\ Holders(mine[d]) = {d}
      BY <3>1 DEF IInv, TypeOK, Owners, Owning, Creators
    <3>3. mine[d] # e
      BY <1>2, <3>1, <3>2
    <3> QED
      BY <1>3, <3>1, <3>2, <3>3
  <2>2. \A a \in Addrs : readers[a] = NoEntry => readers'[a] = NoEntry
    BY <1>1, <1>2 DEF IInv, TypeOK
  <2> QED
    BY <1>1, <2>1, <2>2 DEF IInv, TypeOK, Creators, Creating
<1>11. Mapped'
  <2>1. ASSUME NEW a \in Addrs, readers'[a] # NoEntry
        PROVE  key'[readers'[a]] = a /\ socket'[readers'[a]] = "open"
    <3>1. readers'[a] = readers[a]
      BY <1>1, <1>2, <2>1 DEF IInv, TypeOK
    <3>2. key[readers[a]] = a /\ socket[readers[a]] = "open" /\ readers[a] \in Entries
      BY <2>1, <3>1 DEF IInv, TypeOK, Mapped
    <3>3. refCnt[e] - 1 <= 0 => readers[a] # e
      BY <1>1, <1>2, <2>1, <3>1, <3>2, EntriesAssumption DEF IInv, TypeOK
    <3> QED
      BY <1>1, <3>1, <3>2, <3>3 DEF IInv, TypeOK
  <2>2. ASSUME NEW d \in Claims, pc'[d] \in {"got", "using", "leaving"}
        PROVE  readers'[addr'[d]] = mine'[d]
    <3>1. /\ d # c /\ pc[d] \in {"got", "using", "leaving"}
          /\ mine'[d] = mine[d] /\ addr'[d] = addr[d]
      BY <1>1, <2>2 DEF IInv, TypeOK
    <3>2. readers[addr[d]] = mine[d]
      BY <3>1 DEF IInv, Mapped
    <3>3. refCnt[e] - 1 <= 0 => addr[d] # key[e]
      BY <1>2, <1>5, <1>8, <3>1, <3>2
    <3> QED
      BY <1>1, <3>1, <3>2, <3>3 DEF IInv, TypeOK
  <2> QED
    BY <2>1, <2>2 DEF Mapped
<1>12. OpenIsHeld'
  BY <1>1, <1>2, <1>3, <1>5 DEF IInv, TypeOK, OpenIsHeld
<1> QED
  BY <1>6, <1>7, <1>9, <1>10, <1>11, <1>12 DEF IInv

LEMMA NextInv == IInv /\ [Next]_vars => IInv'
<1> SUFFICES ASSUME IInv, [Next]_vars
             PROVE  IInv'
  OBVIOUS
<1>1. ASSUME UNCHANGED vars
      PROVE  IInv'
  BY <1>1 DEF vars, IInv, TypeOK, RefsExact, Owners, Creators, Mapped, OpenIsHeld, Holders
<1>2. ASSUME NEW c \in Claims, NEW a \in Addrs, Request(c, a)
      PROVE  IInv'
  BY <1>2, QuietStep DEF Request, pool
<1>3. ASSUME NEW c \in Claims, FastHit(c) \/ RecheckHit(c)
      PROVE  IInv'
  BY <1>3, ShareStep
<1>4. ASSUME NEW c \in Claims, FastMiss(c) \/ LockKey(c) \/ RecheckMiss(c) \/ OpenFail(c)
      PROVE  IInv'
  <2>1. UNCHANGED <<readers, key, refCnt, socket, mine>>
    BY <1>4 DEF FastMiss, LockKey, RecheckMiss, OpenFail, pool
  <2> QED
    BY <1>4, <2>1, QuietStep
<1>5. ASSUME NEW c \in Claims, Subscribe(c) \/ Overflow(c) \/ Unsub(c)
      PROVE  IInv'
  <2>1. UNCHANGED <<readers, key, refCnt, socket, mine>>
    BY <1>5 DEF Subscribe, Overflow, Unsub
  <2> QED
    BY <1>5, <2>1, QuietStep
<1>6. ASSUME NEW c \in Claims, Open(c)
      PROVE  IInv'
  BY <1>6, OpenStep
<1>7. ASSUME NEW c \in Claims, Insert(c)
      PROVE  IInv'
  BY <1>7, InsertStep
<1>8. ASSUME NEW c \in Claims, Release(c)
      PROVE  IInv'
  BY <1>8, ReleaseStep
<1>9. ASSUME Sweep
      PROVE  IInv'
  BY <1>1, <1>9, SweepIsIdle
<1> QED
  BY <1>1, <1>2, <1>3, <1>4, <1>5, <1>6, <1>7, <1>8, <1>9 DEF Next, Acquire

THEOREM Invariance == Spec => []IInv
<1> QED
  BY InitInv, NextInv, PTL DEF Spec

-----------------------------------------------------------------------------
(* The hand-kept counts, the map and the sockets stay well formed for any  *)
(* number of claims, addresses and readers; no count goes below zero.      *)
THEOREM TypeCorrect == Spec => []TypeOK
<1>1. IInv => TypeOK
  BY DEF IInv
<1> QED
  BY Invariance, <1>1, PTL

(* A reader's count is the number of claims that hold it (relay.go's four  *)
(* increments and one decrement agree with who has the pointer).           *)
THEOREM CountsExact == Spec => []RefsExact
<1>1. IInv => RefsExact
  BY DEF IInv
<1> QED
  BY Invariance, <1>1, PTL

LEMMA UniqueOpenReader ==
    ASSUME IInv, NEW e \in Entries, NEW f \in Entries,
           socket[e] = "open", socket[f] = "open", key[e] = key[f]
    PROVE  e = f
<1>1. PICK c \in Claims : mine[c] = e
  BY DEF IInv, OpenIsHeld, Holders
<1>2. PICK d \in Claims : mine[d] = f
  BY DEF IInv, OpenIsHeld, Holders
<1>3. /\ addr[c] = key[e] /\ addr[d] = key[f]
      /\ pc[c] \in Owning /\ pc[d] \in Owning
  BY <1>1, <1>2, EntriesAssumption DEF IInv, Owners
<1>4. CASE pc[c] = "insert" /\ pc[d] = "insert"
  BY <1>1, <1>2, <1>3, <1>4 DEF IInv, Creators, Creating
<1>5. CASE pc[c] = "insert" /\ pc[d] # "insert"
  BY <1>1, <1>2, <1>3, <1>5, EntriesAssumption DEF IInv, Creators, Mapped, Owning
<1>6. CASE pc[c] # "insert" /\ pc[d] = "insert"
  BY <1>1, <1>2, <1>3, <1>6, EntriesAssumption DEF IInv, Creators, Mapped, Owning
<1>7. CASE pc[c] # "insert" /\ pc[d] # "insert"
  BY <1>1, <1>2, <1>3, <1>7 DEF IInv, Mapped, Owning
<1> QED
  BY <1>4, <1>5, <1>6, <1>7

(* No multicast address is ever bound by two sockets at a time.            *)
THEOREM NeverBoundTwice == Spec => []OneSocketPerAddr
<1>1. IInv => OneSocketPerAddr
  BY UniqueOpenReader DEF OneSocketPerAddr
<1> QED
  BY Invariance, <1>1, PTL

(* No release, failed creation, overflow or sweep stops or unmaps a reader *)
(* that some claim is using.                                               *)
THEOREM HeldIsLive == Spec => []HeldReaderIsLive
<1>1. IInv => HeldReaderIsLive
  BY DEF IInv, Owners, Owning, Mapped, HeldReaderIsLive
<1> QED
  BY Invariance, <1>1, PTL

(* When the last claim of a source is gone so is its socket: nothing is    *)
(* left to the sweep.                                                      *)
THEOREM NothingLeaks == Spec => []NoLeakedSocket
<1>1. ASSUME IInv
      PROVE  NoLeakedSocket
  <2>1. SUFFICES ASSUME NEW e \in Entries, socket[e] = "open",
                        ~ \E c \in Claims : pc[c] = "insert" /\ mine[c] = e
                 PROVE  readers[key[e]] = e /\ refCnt[e] > 0
    BY DEF NoLeakedSocket
  <2>2. PICK c \in Claims : mine[c] = e
    BY <1>1, <2>1 DEF IInv, OpenIsHeld, Holders
  <2>3. pc[c] \in {"got", "using", "leaving"} /\ addr[c] = key[e] /\ addr[c] \in Addrs
    BY <1>1, <2>1, <2>2, EntriesAssumption DEF IInv, TypeOK, Owners, Owning
  <2>4. readers[addr[c]] = e /\ e # NoEntry
    BY <1>1, <2>2, <2>3, EntriesAssumption DEF IInv, Mapped
  <2> QED
    BY <1>1, <2>3, <2>4, MappedIsCounted
<1> QED
  BY Invariance, <1>1, PTL

-----------------------------------------------------------------------------
(* The refinement mapping of ImplementsShared, by name.                    *)
Users(a)   == {c \in Claims : mine[c] # NoEntry /\ addr[c] = a}
Sockets(a) == {e \in Entries : socket[e] = "open" /\ key[e] = a}

(* The promise's actions in terms of Users and Sockets.                    *)
LEMMA JoinFrom ==
    ASSUME NEW c \in Claims, NEW a \in Addrs,
           \A b \in Addrs : c \notin Users(b),
           \A b \in Addrs : Users(b)' = IF b = a THEN Users(b) \cup {c} ELSE Users(b),
           \/ Users(a) # {} /\ \A b \in Addrs : Sockets(b)' = Sockets(b)
           \/ /\ Users(a) = {}
              /\ \E e \in Entries : \A b \in Addrs :
                    Sockets(b)' = IF b = a THEN {e} ELSE Sockets(b)
    PROVE  Shared!Join(c, a)
<1> DEFINE U == [b \in Addrs |-> Users(b)]
           S == [b \in Addrs |-> Sockets(b)]
<1>1. U' = [U EXCEPT ![a] = @ \cup {c}]
  <2>1. U' = [b \in Addrs |-> Users(b)']
    OBVIOUS
  <2> QED
    BY <2>1
<1>2. \/ U[a] # {} /\ S' = S
      \/ U[a] = {} /\ \E e \in Entries : S' = [S EXCEPT ![a] = {e}]
  <2>1. S' = [b \in Addrs |-> Sockets(b)']
    OBVIOUS
  <2> QED
    BY <2>1
<1>3. \A b \in Addrs : c \notin U[b]
  OBVIOUS
<1> QED
  BY <1>1, <1>2, <1>3, Zenon DEF Shared!Join, U, S, Users, Sockets

LEMMA LeaveFrom ==
    ASSUME NEW c \in Claims, NEW a \in Addrs,
           c \in Users(a),
           \A b \in Addrs : Users(b)' = IF b = a THEN Users(b) \ {c} ELSE Users(b),
           \A b \in Addrs :
             Sockets(b)' = IF b = a /\ Users(b) = {c} THEN {} ELSE Sockets(b)
    PROVE  Shared!Leave(c, a)
<1> DEFINE U == [b \in Addrs |-> Users(b)]
           S == [b \in Addrs |-> Sockets(b)]
<1>1. U' = [U EXCEPT ![a] = @ \ {c}]
  <2>1. U' = [b \in Addrs |-> Users(b)']
    OBVIOUS
  <2> QED
    BY <2>1
<1>2. S' = [S EXCEPT ![a] = IF U[a] = {c} THEN {} ELSE @]
  <2>1. S' = [b \in Addrs |-> Sockets(b)']
    OBVIOUS
  <2> QED
    BY <2>1
<1>3. c \in U[a]
  OBVIOUS
<1> QED
  BY <1>1, <1>2, <1>3, Zenon DEF Shared!Leave, U, S, Users, Sockets

(* A step that takes and gives no reference is a stutter of the promise.   *)
LEMMA QuietStutters ==
    ASSUME IInv, NEW c \in Claims, UNCHANGED <<key, socket, mine>>,
           addr' = addr \/ (mine[c] = NoEntry /\ \E a \in Addrs : addr' = [addr EXCEPT ![c] = a])
    PROVE  UNCHANGED Shared!vars
<1>1. ASSUME NEW a \in Addrs
      PROVE  Users(a)' = Users(a) /\ Sockets(a)' = Sockets(a)
  BY <1>1 DEF Users, Sockets, IInv, TypeOK
<1> QED
  BY <1>1 DEF Shared!vars, Users, Sockets

(* Sharing a mapped reader is a Join of an address already in use.         *)
LEMMA ShareJoins ==
    ASSUME IInv, NEW c \in Claims, Share(c), readers[addr[c]] # NoEntry,
           pc[c] \in {"lookup", "recheck"}
    PROVE  \E a \in Addrs : Shared!Join(c, a)
<1>1. /\ addr[c] \in Addrs /\ mine[c] = NoEntry
      /\ Holders(readers[addr[c]]) # {} /\ readers[addr[c]] \in Entries
      /\ key[readers[addr[c]]] = addr[c]
  BY MappedIsCounted DEF IInv, TypeOK, Owners, Owning, Mapped
<1>2. \A b \in Addrs : c \notin Users(b)
  BY <1>1 DEF Users
<1>3. Users(addr[c]) # {}
  <2>1. PICK d \in Claims : mine[d] = readers[addr[c]]
    BY <1>1 DEF Holders
  <2>2. addr[d] = addr[c] /\ mine[d] # NoEntry
    BY <1>1, <2>1, EntriesAssumption DEF IInv, Owners
  <2> QED
    BY <2>2 DEF Users
<1>4. \A a \in Addrs : /\ Users(a)' = IF a = addr[c] THEN Users(a) \cup {c} ELSE Users(a)
                       /\ Sockets(a)' = Sockets(a)
  BY <1>1, EntriesAssumption DEF Share, Users, Sockets, IInv, TypeOK
<1>5. PICK a \in Addrs : a = addr[c]
  BY <1>1
<1>6. Shared!Join(c, a)
  BY <1>2, <1>3, <1>4, <1>5, JoinFrom
<1> QED
  BY <1>6

(* Opening a socket is the Join of an address nobody uses.                 *)
LEMMA OpenJoins ==
    ASSUME IInv, NEW c \in Claims, Open(c)
    PROVE  \E a \in Addrs : Shared!Join(c, a)
<1>1. /\ addr[c] \in Addrs /\ mine[c] = NoEntry /\ pc[c] = "open"
      /\ readers[addr[c]] = NoEntry /\ keyMu[addr[c]] = c
  BY DEF Open, OpenCounting, IInv, TypeOK, Owners, Owning, Creators, Creating
<1>2. PICK e \in Entries :
        /\ Unreferenced(e)
        /\ key' = [key EXCEPT ![e] = addr[c]]
        /\ socket' = [socket EXCEPT ![e] = "open"]
        /\ mine' = [mine EXCEPT ![c] = e]
  BY DEF Open, OpenCounting
<1>3. addr' = addr /\ socket[e] # "open"
  BY <1>2 DEF Open, OpenCounting, Unreferenced
<1>4. \A b \in Addrs : c \notin Users(b)
  BY <1>1 DEF Users
<1>5. Users(addr[c]) = {}
  <2>1. SUFFICES ASSUME NEW d \in Claims, mine[d] # NoEntry, addr[d] = addr[c]
                 PROVE  FALSE
    BY DEF Users
  <2>2. pc[d] \in Owning
    BY <2>1 DEF IInv, Owners
  <2>3. CASE pc[d] = "insert"
    BY <1>1, <2>1, <2>3 DEF IInv, Creators, Creating
  <2>4. CASE pc[d] \in {"got", "using", "leaving"}
    BY <1>1, <2>1, <2>4 DEF IInv, Mapped
  <2> QED
    BY <2>2, <2>3, <2>4 DEF Owning
<1>6. Sockets(addr[c]) = {}
  <2>1. SUFFICES ASSUME NEW f \in Entries, socket[f] = "open", key[f] = addr[c]
                 PROVE  FALSE
    BY DEF Sockets
  <2>2. PICK d \in Claims : mine[d] = f
    BY <2>1 DEF IInv, OpenIsHeld, Holders
  <2>3. addr[d] = addr[c] /\ mine[d] # NoEntry
    BY <2>1, <2>2, EntriesAssumption DEF IInv, Owners
  <2> QED
    BY <1>5, <2>3 DEF Users
<1>7. \A a \in Addrs :
        /\ Users(a)' = IF a = addr[c] THEN Users(a) \cup {c} ELSE Users(a)
        /\ Sockets(a)' = IF a = addr[c] THEN {e} ELSE Sockets(a)
  BY <1>1, <1>2, <1>3, <1>6, EntriesAssumption DEF Users, Sockets, IInv, TypeOK
<1>8. PICK a \in Addrs : a = addr[c]
  BY <1>1
<1>9. Shared!Join(c, a)
  BY <1>4, <1>5, <1>7, <1>8, JoinFrom
<1> QED
  BY <1>9

(* Releasing a reference is a Leave; the socket closes with the last one.  *)
LEMMA ReleaseLeaves ==
    ASSUME IInv, NEW c \in Claims, Release(c)
    PROVE  \E a \in Addrs : Shared!Leave(c, a)
<1>1. /\ pc[c] = "leaving" /\ addr[c] \in Addrs /\ mine[c] \in Entries
      /\ key[mine[c]] = addr[c] /\ socket[mine[c]] = "open"
      /\ readers[addr[c]] = mine[c]
  BY DEF Release, ReleaseAt, IInv, TypeOK, Owners, Owning, Mapped
<1>2. PICK e \in Entries : e = mine[c]
  BY <1>1
<1>3. /\ mine' = [mine EXCEPT ![c] = NoEntry]
      /\ addr' = addr /\ key' = key
      /\ socket' = IF refCnt[e] - 1 <= 0 THEN [socket EXCEPT ![e] = "closed"] ELSE socket
  BY <1>2 DEF Release, ReleaseAt
<1>4. refCnt[e] - 1 <= 0 <=> Holders(e) = {c}
  <2>1. c \in Holders(e) /\ refCnt[e] = Cardinality(Holders(e))
    BY <1>2 DEF Holders, IInv, RefsExact
  <2>2. IsFiniteSet(Holders(e)) /\ Cardinality(Holders(e)) \in Nat
        /\ Cardinality(Holders(e)) # 0
    BY <2>1, HoldersFinite
  <2>3. Cardinality(Holders(e)) = 1 <=> Holders(e) = {c}
    BY <2>1, <2>2, RemoveOne
  <2> QED
    BY <2>1, <2>2, <2>3
<1>5. Users(addr[c]) = Holders(e)
  <2>1. ASSUME NEW d \in Claims, mine[d] # NoEntry, addr[d] = addr[c]
        PROVE  mine[d] = e
    <3>1. pc[d] \in Owning
      BY <2>1 DEF IInv, Owners
    <3>2. pc[d] # "insert"
      BY <1>1, <2>1, EntriesAssumption DEF IInv, Creators
    <3> QED
      BY <1>1, <1>2, <2>1, <3>1, <3>2 DEF IInv, Mapped, Owning
  <2>2. ASSUME NEW d \in Claims, mine[d] = e
        PROVE  mine[d] # NoEntry /\ addr[d] = addr[c]
    BY <1>1, <1>2, <2>2, EntriesAssumption DEF IInv, Owners
  <2> QED
    BY <2>1, <2>2 DEF Users, Holders
<1>6. Sockets(addr[c]) = {e}
  BY <1>1, <1>2, UniqueOpenReader DEF Sockets
<1>7. c \in Users(addr[c])
  BY <1>1, EntriesAssumption DEF Users
<1>8. \A a \in Addrs :
        /\ Users(a)' = IF a = addr[c] THEN Users(a) \ {c} ELSE Users(a)
        /\ Sockets(a)' = IF a = addr[c] /\ Users(a) = {c} THEN {} ELSE Sockets(a)
  <2>1. \A a \in Addrs : Users(a)' = IF a = addr[c] THEN Users(a) \ {c} ELSE Users(a)
    BY <1>1, <1>3 DEF Users, IInv, TypeOK
  <2>2. ASSUME NEW a \in Addrs
        PROVE  Sockets(a)' = IF a = addr[c] /\ Users(a) = {c} THEN {} ELSE Sockets(a)
    <3>1. CASE Holders(e) = {c}
      <4>1. socket' = [socket EXCEPT ![e] = "closed"]
        BY <1>3, <1>4, <3>1
      <4>2. Sockets(a)' = Sockets(a) \ {e}
        BY <1>3, <4>1 DEF Sockets, IInv, TypeOK
      <4>3. a # addr[c] => e \notin Sockets(a)
        BY <1>1, <1>2 DEF Sockets
      <4> QED
        BY <1>5, <1>6, <3>1, <4>2, <4>3
    <3>2. CASE Holders(e) # {c}
      BY <1>3, <1>4, <1>5, <3>2 DEF Sockets
    <3> QED
      BY <3>1, <3>2
  <2> QED
    BY <2>1, <2>2
<1>9. PICK a \in Addrs : a = addr[c]
  BY <1>1
<1>10. Shared!Leave(c, a)
  BY <1>7, <1>8, <1>9, LeaveFrom
<1> QED
  BY <1>10

LEMMA StepRefines == IInv /\ [Next]_vars => [Shared!Next]_(Shared!vars)
<1> SUFFICES ASSUME IInv, [Next]_vars
             PROVE  [Shared!Next]_(Shared!vars)
  OBVIOUS
<1>0. \A c \in Claims : addr[c] \in Addrs
  BY DEF IInv, TypeOK
<1>1. CASE UNCHANGED vars
  BY <1>1 DEF vars, Shared!vars
<1>2. ASSUME NEW c \in Claims, NEW a \in Addrs, Request(c, a)
      PROVE  UNCHANGED Shared!vars
  BY <1>2, QuietStutters DEF Request, pool, IInv, Owners, Owning
<1>3. ASSUME NEW c \in Claims, FastHit(c) \/ RecheckHit(c)
      PROVE  Shared!Next
  BY <1>0, <1>3, ShareJoins DEF FastHit, RecheckHit, Shared!Next
<1>4. ASSUME NEW c \in Claims, FastMiss(c) \/ LockKey(c) \/ RecheckMiss(c) \/ OpenFail(c)
      PROVE  UNCHANGED Shared!vars
  BY <1>4, QuietStutters DEF FastMiss, LockKey, RecheckMiss, OpenFail, pool
<1>5. ASSUME NEW c \in Claims, Insert(c) \/ Subscribe(c) \/ Overflow(c) \/ Unsub(c)
      PROVE  UNCHANGED Shared!vars
  BY <1>5, QuietStutters DEF Insert, Subscribe, Overflow, Unsub
<1>6. ASSUME NEW c \in Claims, Open(c)
      PROVE  Shared!Next
  BY <1>0, <1>6, OpenJoins DEF Shared!Next
<1>7. ASSUME NEW c \in Claims, Release(c)
      PROVE  Shared!Next
  BY <1>0, <1>7, ReleaseLeaves DEF Shared!Next
<1>8. ASSUME Sweep
      PROVE  UNCHANGED Shared!vars
  BY <1>8, SweepIsIdle DEF vars, Shared!vars
<1> QED
  BY <1>1, <1>2, <1>3, <1>4, <1>5, <1>6, <1>7, <1>8 DEF Next, Acquire

(* The pool implements SharedSource: whatever the interleaving, an address *)
(* has one socket exactly while somebody claims it.                        *)
THEOREM PoolImplementsShared == Spec => ImplementsShared
<1>1. Init => Shared!Init
  <2>1. SUFFICES ASSUME Init, NEW a \in Addrs
                 PROVE  Users(a) = {} /\ Sockets(a) = {}
    BY DEF Shared!Init, Users, Sockets
  <2> QED
    BY <2>1 DEF Init, Users, Sockets
<1> QED
  BY <1>1, StepRefines, Invariance, PTL DEF Spec, Shared!Spec, ImplementsShared
=============================================================================
