----------------------------- MODULE ReaderPool -----------------------------
(***************************************************************************)
(* The shared multicast readers of relay.Manager                           *)
(* (internal/relay/relay.go: getOrCreateReader, keyLock, releaseReader,    *)
(* sweepEmptyReaders) and the part of mcast.Reader they drive (Start,      *)
(* Stop, Subscribe, the removal of a slow subscriber).                     *)
(*                                                                         *)
(* A claim is one use of a source: a viewer's current source, the          *)
(* candidate it may switch to, or a recording (AcquireSource).  All three  *)
(* go through the same calls in the same order:                            *)
(*   getOrCreateReader ; Subscribe ; ... ; unsub ; releaseReader.          *)
(* Every critical section of m.mu is one step; the socket is opened        *)
(* between two of them, under a per-address creation mutex only.           *)
(***************************************************************************)
EXTENDS Integers, FiniteSets

CONSTANTS Claims, Addrs, Entries,
          Nobody,      \* an unlocked creation mutex
          NoEntry      \* a missing map entry, a nil *readerEntry

ASSUME ClaimsAssumption == IsFiniteSet(Claims) /\ Nobody \notin Claims
ASSUME EntriesAssumption == NoEntry \notin Entries
ASSUME AddrsAssumption == Addrs # {}

VARIABLES readers,   \* m.readers: [Addrs -> Entries \cup {NoEntry}]
          keyMu,     \* m.keyMu: who is inside the creation mutex of an address
          key,       \* entry.key
          refCnt,    \* entry.refCnt
          socket,    \* entry.reader's UDP socket
          subs,      \* entry.reader.subscribers
          pc,        \* where a claim is in the call sequence
          addr,      \* the address a claim asked for
          mine       \* the *readerEntry a claim got

vars == <<readers, keyMu, key, refCnt, socket, subs, pc, addr, mine>>

pool  == <<readers, key, refCnt, socket, subs>>

States == {"idle", "lookup", "queue", "recheck", "open", "insert",
           "got", "using", "leaving"}

(* The claims that own a reference to reader e.                            *)
Holders(e) == {c \in Claims : mine[c] = e}

(* An entry nothing points to any more: the garbage collector's.           *)
Unreferenced(e) == /\ Holders(e) = {}
                   /\ \A a \in Addrs : readers[a] # e
                   /\ socket[e] # "open"

AnyAddr == CHOOSE a \in Addrs : TRUE  \* what an unused object holds

Init == /\ readers = [a \in Addrs |-> NoEntry]
        /\ keyMu = [a \in Addrs |-> Nobody]
        /\ key = [e \in Entries |-> AnyAddr]
        /\ refCnt = [e \in Entries |-> 0]
        /\ socket = [e \in Entries |-> "none"]
        /\ subs = [e \in Entries |-> {}]
        /\ pc = [c \in Claims |-> "idle"]
        /\ addr = [c \in Claims |-> AnyAddr]
        /\ mine = [c \in Claims |-> NoEntry]

-----------------------------------------------------------------------------
(* getOrCreateReader                                                       *)

Request(c, a) ==
    /\ pc[c] = "idle"
    /\ pc' = [pc EXCEPT ![c] = "lookup"]
    /\ addr' = [addr EXCEPT ![c] = a]
    /\ UNCHANGED <<pool, keyMu, mine>>

(* c takes one more reference to the mapped reader of its address.         *)
Share(c) ==
    LET e == readers[addr[c]] IN
    /\ refCnt' = [refCnt EXCEPT ![e] = @ + 1]
    /\ mine' = [mine EXCEPT ![c] = e]
    /\ pc' = [pc EXCEPT ![c] = "got"]
    /\ UNCHANGED <<readers, key, socket, subs, addr>>

Unlock(c) == keyMu' = [keyMu EXCEPT ![addr[c]] = Nobody]

(* The fast path: the reader exists, one critical section of m.mu.         *)
FastHit(c) ==
    /\ pc[c] = "lookup"
    /\ readers[addr[c]] # NoEntry
    /\ Share(c)
    /\ UNCHANGED keyMu

FastMiss(c) ==
    /\ pc[c] = "lookup"
    /\ readers[addr[c]] = NoEntry
    /\ pc' = [pc EXCEPT ![c] = "queue"]
    /\ UNCHANGED <<pool, keyMu, addr, mine>>

LockKey(c) ==
    /\ pc[c] = "queue"
    /\ keyMu[addr[c]] = Nobody
    /\ keyMu' = [keyMu EXCEPT ![addr[c]] = c]
    /\ pc' = [pc EXCEPT ![c] = "recheck"]
    /\ UNCHANGED <<pool, addr, mine>>

(* The double check: somebody may have created the reader meanwhile.       *)
RecheckHitUncounted(c) ==           \* bug: a reference nobody counts
    /\ pc[c] = "recheck"
    /\ readers[addr[c]] # NoEntry
    /\ mine' = [mine EXCEPT ![c] = readers[addr[c]]]
    /\ pc' = [pc EXCEPT ![c] = "got"]
    /\ Unlock(c)
    /\ UNCHANGED <<pool, addr>>

RecheckHit(c) ==
    /\ pc[c] = "recheck"
    /\ readers[addr[c]] # NoEntry
    /\ Share(c)
    /\ Unlock(c)

RecheckMissBlind(c) ==              \* bug: no double check under the lock
    /\ pc[c] = "recheck"
    /\ pc' = [pc EXCEPT ![c] = "open"]
    /\ UNCHANGED <<pool, keyMu, addr, mine>>

RecheckMiss(c) ==
    /\ pc[c] = "recheck"
    /\ readers[addr[c]] = NoEntry
    /\ pc' = [pc EXCEPT ![c] = "open"]
    /\ UNCHANGED <<pool, keyMu, addr, mine>>

OpenCounting(c, n) ==
    /\ pc[c] = "open"
    /\ \E e \in Entries :
         /\ Unreferenced(e)
         /\ key' = [key EXCEPT ![e] = addr[c]]
         /\ refCnt' = [refCnt EXCEPT ![e] = n]
         /\ socket' = [socket EXCEPT ![e] = "open"]
         /\ subs' = [subs EXCEPT ![e] = {}]
         /\ mine' = [mine EXCEPT ![c] = e]
    /\ pc' = [pc EXCEPT ![c] = "insert"]
    /\ UNCHANGED <<readers, keyMu, addr>>

OpenUncounted(c) == OpenCounting(c, 0)  \* bug: the creator is not counted

(* NewReader and Start: outside m.mu, inside the creation mutex.           *)
Open(c) == OpenCounting(c, 1)

OpenFailLocked(c) ==                \* bug: returns with the mutex locked
    /\ pc[c] = "open"
    /\ pc' = [pc EXCEPT ![c] = "idle"]
    /\ UNCHANGED <<pool, keyMu, addr, mine>>

(* No such interface, ListenUDP or JoinGroup failed: the error return.     *)
OpenFail(c) ==
    /\ pc[c] = "open"
    /\ pc' = [pc EXCEPT ![c] = "idle"]
    /\ Unlock(c)
    /\ UNCHANGED <<pool, addr, mine>>

Insert(c) ==
    /\ pc[c] = "insert"
    /\ readers' = [readers EXCEPT ![addr[c]] = mine[c]]
    /\ pc' = [pc EXCEPT ![c] = "got"]
    /\ Unlock(c)
    /\ UNCHANGED <<key, refCnt, socket, subs, addr, mine>>

-----------------------------------------------------------------------------
(* Using the reader                                                        *)

Subscribe(c) ==
    /\ pc[c] = "got"
    /\ subs' = [subs EXCEPT ![mine[c]] = @ \cup {c}]
    /\ pc' = [pc EXCEPT ![c] = "using"]
    /\ UNCHANGED <<readers, keyMu, key, refCnt, socket, addr, mine>>

(* broadcast finds the claim's channel full and drops the subscription;    *)
(* the claim still holds its reference.                                    *)
Overflow(c) ==
    /\ pc[c] = "using"
    /\ c \in subs[mine[c]]
    /\ subs' = [subs EXCEPT ![mine[c]] = @ \ {c}]
    /\ UNCHANGED <<readers, keyMu, key, refCnt, socket, pc, addr, mine>>

Unsub(c) ==
    /\ pc[c] = "using"
    /\ subs' = [subs EXCEPT ![mine[c]] = @ \ {c}]
    /\ pc' = [pc EXCEPT ![c] = "leaving"]
    /\ UNCHANGED <<readers, keyMu, key, refCnt, socket, addr, mine>>

(* c gives its reference back; the reader is stopped and removed from the  *)
(* map, BY ITS KEY, when the count falls to limit.                         *)
ReleaseAt(c, limit) ==
    LET e == mine[c] IN
    /\ pc[c] = "leaving"
    /\ refCnt' = [refCnt EXCEPT ![e] = @ - 1]
    /\ IF refCnt[e] - 1 <= limit
       THEN /\ socket' = [socket EXCEPT ![e] = "closed"]
            /\ readers' = [readers EXCEPT ![key[e]] = NoEntry]
       ELSE UNCHANGED <<socket, readers>>
    /\ mine' = [mine EXCEPT ![c] = NoEntry]
    /\ pc' = [pc EXCEPT ![c] = "idle"]
    /\ UNCHANGED <<keyMu, key, subs, addr>>

ReleaseEarly(c) == ReleaseAt(c, 1)  \* bug: off by one
ReleaseLate(c) == ReleaseAt(c, -1)  \* bug: leaves the last one to the sweep

(* releaseReader: the last claim stops the reader.                         *)
Release(c) == ReleaseAt(c, 0)

(* Stop and unmap the readers of a set of addresses.                       *)
Reclaim(empty) ==
    /\ socket' = [e \in Entries |->
                    IF \E a \in empty : readers[a] = e THEN "closed"
                    ELSE socket[e]]
    /\ readers' = [a \in Addrs |->
                     IF a \in empty THEN NoEntry ELSE readers[a]]
    /\ UNCHANGED <<keyMu, key, refCnt, subs, pc, addr, mine>>

Unsubscribed == {a \in Addrs : readers[a] # NoEntry /\ subs[readers[a]] = {}}

SweepUnsubscribed == Reclaim(Unsubscribed)  \* bug: ignores the references

(* sweepEmptyReaders, every 30 seconds, in one critical section.           *)
Sweep == Reclaim({a \in Unsubscribed : refCnt[readers[a]] <= 0})

-----------------------------------------------------------------------------
Acquire(c) == \/ FastHit(c) \/ FastMiss(c) \/ LockKey(c)
              \/ RecheckHit(c) \/ RecheckMiss(c)
              \/ Open(c) \/ OpenFail(c) \/ Insert(c)

Next == \/ \E c \in Claims, a \in Addrs : Request(c, a)
        \/ \E c \in Claims : \/ Acquire(c)
                             \/ Subscribe(c) \/ Overflow(c)
                             \/ Unsub(c) \/ Release(c)
        \/ Sweep

Spec == Init /\ [][Next]_vars

(* A goroutine that can run does; a Go mutex in starvation mode hands      *)
(* itself to the longest waiter, so LockKey is strongly fair.  Ending a    *)
(* use and overflowing a channel are up to the outside world.              *)
Fairness == \A c \in Claims :
    /\ WF_vars(FastHit(c) \/ FastMiss(c) \/ RecheckHit(c) \/ RecheckMiss(c)
               \/ Open(c) \/ OpenFail(c) \/ Insert(c))
    /\ SF_vars(LockKey(c))
    /\ WF_vars(Subscribe(c) \/ Release(c))

FairSpec == Spec /\ Fairness

-----------------------------------------------------------------------------
TypeOK == /\ readers \in [Addrs -> Entries \cup {NoEntry}]
          /\ keyMu \in [Addrs -> Claims \cup {Nobody}]
          /\ key \in [Entries -> Addrs]
          /\ refCnt \in [Entries -> Nat]
          /\ socket \in [Entries -> {"none", "open", "closed"}]
          /\ subs \in [Entries -> SUBSET Claims]
          /\ pc \in [Claims -> States]
          /\ addr \in [Claims -> Addrs]
          /\ mine \in [Claims -> Entries \cup {NoEntry}]

(* The reference count, kept by hand in four places (fast path, double     *)
(* check, creation, release), is the number of claims that hold the        *)
(* reader: the last release, and only the last, brings it to zero.         *)
RefsExact == \A e \in Entries :
    Holders(e) # {} => refCnt[e] = Cardinality(Holders(e))

(* AcquireSource's comment (relay.go:210): never a second socket bound to  *)
(* one multicast address, however lookups, slow opens and releases of that *)
(* address interleave.                                                     *)
OneSocketPerAddr == \A e, f \in Entries :
    socket[e] = "open" /\ socket[f] = "open" /\ key[e] = key[f] => e = f

(* From getOrCreateReader's return to releaseReader a claim's reader stays *)
(* open and is the one the map gives to newcomers, although others release *)
(* it, overflow or are swept meanwhile (a claim that has not subscribed    *)
(* yet, or whose subscription was dropped, looks like nobody to SubCount). *)
HeldReaderIsLive == \A c \in Claims :
    pc[c] \in {"got", "using", "leaving"} =>
        socket[mine[c]] = "open" /\ readers[addr[c]] = mine[c]

(* No socket outlives its claims: an open reader is in the map with a      *)
(* positive count, or in the hands of the creator that is about to put it  *)
(* there.  (So the 30-second sweep never finds anything to do.)            *)
NoLeakedSocket == \A e \in Entries : socket[e] = "open" =>
    \/ readers[key[e]] = e /\ refCnt[e] > 0
    \/ \E c \in Claims : pc[c] = "insert" /\ mine[c] = e

(* The pool implements the promise of SharedSource.                        *)
Shared == INSTANCE SharedSource WITH
    users   <- [a \in Addrs |-> {c \in Claims : mine[c] # NoEntry /\ addr[c] = a}],
    sockets <- [a \in Addrs |-> {e \in Entries : socket[e] = "open" /\ key[e] = a}]
ImplementsShared == Shared!Spec

(* A request gets its reader or an error: no interleaving of creators,     *)
(* failures and releases leaves a creation mutex locked or a claim behind. *)
Served == \A c \in Claims : pc[c] = "lookup" ~> pc[c] \in {"idle", "using"}
=============================================================================
