------------------------------ MODULE McastProofs ------------------------------
(***************************************************************************)
(* The two halves of internal/mcast, for any users and any sources.  The   *)
(* reader keeps PacketFeed's promise: what a user holds and what waits in  *)
(* its channel are consecutive packets, and together they reach to the     *)
(* last packet broadcast, but for the one a running broadcast has not      *)
(* brought it yet.  The switcher makes one program of many sources: the    *)
(* viewer knows what the switcher knows (Fields), and what a candidate has *)
(* buffered is a frame without a hole (Waiting).                           *)
(***************************************************************************)
EXTENDS McastReader, StreamSwitcher, FiniteSetTheorems, WellFoundedInduction, TLAPS

-----------------------------------------------------------------------------
(***************************************************************************)
(* The reader                                                              *)
(***************************************************************************)
(* The channel continues what the user got, without a hole.                *)
Consecutive == \A u \in Users :
    \A i \in 1..Len(queue[u]) : queue[u][i] = got[u] + i

Held(u) == got[u] + Len(queue[u])

(* A subscriber has everything; a removed user has less than everything.   *)
UpToDate == \A u \in Users :
    /\ u \in subs => Held(u) = IF u \in unserved THEN count - 1 ELSE count
    /\ u \notin subs => Held(u) <= count

Bounded == \A u \in Users : Len(queue[u]) <= Capacity

(* Who is out is nowhere; only a running broadcast has anybody to serve.   *)
Places == /\ \A u \in Users : user[u] = "out" =>
                /\ u \notin subs /\ queue[u] = <<>>
                /\ ~errCh[u] /\ got[u] = 0
          /\ loop # "serving" => unserved = {}

IInv == TypeOK /\ Consecutive /\ UpToDate /\ Bounded /\ Places

-----------------------------------------------------------------------------
(* The invariant holds initially.                                          *)
LEMMA InitInv == Init => IInv
<1> SUFFICES ASSUME Init PROVE IInv
  OBVIOUS
<1>1. /\ count = 0 /\ subs = {} /\ unserved = {}
      /\ \A u \in Users : /\ queue[u] = <<>> /\ Len(queue[u]) = 0
                          /\ got[u] = 0 /\ ~errCh[u] /\ user[u] = "out"
  BY DEF Init
<1>2. TypeOK
  <2>1. queue \in [Users -> Seq(Nat)]
    BY DEF Init
  <2> QED
    BY <2>1 DEF Init, TypeOK
<1>3. Consecutive /\ Bounded /\ Places
  BY <1>1, CapacityAssumption DEF Consecutive, Bounded, Places
<1>4. UpToDate
  <2>1. 0 + 0 = 0 /\ 0 <= 0
    OBVIOUS
  <2>2. \A u \in Users : Held(u) = 0
    BY <1>1, <2>1 DEF Held
  <2> QED
    BY <1>1, <2>1, <2>2 DEF UpToDate
<1> QED
  BY <1>2, <1>3, <1>4 DEF IInv

(* Receiving takes the next number and leaves the rest consecutive.        *)
LEMMA HeadIsNext ==
    ASSUME TypeOK, Consecutive, NEW u \in Users, queue[u] # <<>>
    PROVE  /\ Head(queue[u]) = got[u] + 1
           /\ Tail(queue[u]) \in Seq(Nat)
           /\ Len(queue[u]) \in Nat \ {0}
           /\ Len(Tail(queue[u])) = Len(queue[u]) - 1
           /\ \A i \in 1..Len(Tail(queue[u])) :
                  Tail(queue[u])[i] = got[u] + 1 + i
<1> DEFINE q == queue[u]
<1>1. q \in Seq(Nat) /\ got[u] \in Nat
  BY DEF TypeOK
<1>2. /\ Tail(q) \in Seq(Nat)
      /\ Len(q) \in Nat \ {0}
      /\ Len(Tail(q)) = Len(q) - 1
      /\ Head(q) = q[1]
  BY <1>1
<1>3. \A i \in 1..Len(q) : q[i] = got[u] + i
  BY DEF Consecutive
<1>4. ASSUME NEW i \in 1..Len(Tail(q)) PROVE Tail(q)[i] = got[u] + 1 + i
  <2>1. i + 1 \in 1..Len(q) /\ Tail(q)[i] = q[i + 1]
    BY <1>1, <1>2
  <2> QED
    BY <1>1, <1>3, <2>1
<1> QED
  BY <1>1, <1>2, <1>3, <1>4

(* What moves from the channel to the user was held before.                *)
LEMMA ReceiveKeepsHeld ==
    ASSUME TypeOK, Consecutive, NEW u \in Users, Receive(u), NEW v \in Users
    PROVE  Held(v)' = Held(v)
<1>1. /\ queue[u] # <<>>
      /\ got' = [got EXCEPT ![u] = Head(queue[u])]
      /\ queue' = [queue EXCEPT ![u] = Tail(@)]
  BY DEF Receive
<1>2. /\ Head(queue[u]) = got[u] + 1
      /\ Len(queue[u]) \in Nat \ {0}
      /\ Len(Tail(queue[u])) = Len(queue[u]) - 1
      /\ got[u] \in Nat
  BY <1>1, HeadIsNext DEF TypeOK
<1>3. CASE v = u
  <2>1. got'[u] = got[u] + 1 /\ Len(queue'[u]) = Len(queue[u]) - 1
    BY <1>1, <1>2 DEF TypeOK
  <2>2. \A g, n \in Nat : (g + 1) + (n - 1) = g + n
    OBVIOUS
  <2>3. got'[u] + Len(queue'[u]) = got[u] + Len(queue[u])
    BY <1>2, <2>1, <2>2
  <2> QED
    BY <1>3, <2>3 DEF Held
<1>4. CASE v # u
  <2>1. got'[v] = got[v] /\ queue'[v] = queue[v]
    BY <1>1, <1>4 DEF TypeOK
  <2> QED
    BY <2>1 DEF Held
<1> QED
  BY <1>3, <1>4

(* The steps that leave the clients and the count alone.                   *)
LEMMA LoopKeepsInv ==
    ASSUME IInv, Check \/ Read \/ ReadError \/ EndBroadcast
                 \/ SignalDone \/ CloseSocket
    PROVE  IInv'
<1> USE DEF Check, Read, ReadError, EndBroadcast, SignalDone, CloseSocket,
            clients
<1>1. TypeOK'
  BY DEF IInv, TypeOK
<1>2. Consecutive' /\ UpToDate' /\ Bounded'
  BY DEF IInv, Consecutive, UpToDate, Bounded, Held
<1>3. Places'
  BY DEF IInv, Places
<1> QED
  BY <1>1, <1>2, <1>3 DEF IInv

(* A broadcast is one packet ahead of everybody it is going to serve.      *)
LEMMA BroadcastKeepsInv ==
    ASSUME IInv, Broadcast
    PROVE  IInv'
<1> USE DEF Broadcast, clients
<1>1. TypeOK'
  BY DEF IInv, TypeOK
<1>2. Consecutive' /\ Bounded'
  BY DEF IInv, Consecutive, Bounded
<1>3. UpToDate'
  <2> SUFFICES ASSUME NEW u \in Users
               PROVE  /\ u \in subs => Held(u) = count' - 1
                      /\ u \notin subs => Held(u) <= count'
    BY DEF UpToDate, Held
  <2>1. unserved = {} /\ count \in Nat /\ Held(u) \in Int
    BY DEF IInv, Places, TypeOK, Held
  <2> QED
    BY <2>1 DEF IInv, UpToDate
<1>4. Places'
  BY DEF IInv, Places
<1> QED
  BY <1>1, <1>2, <1>3, <1>4 DEF IInv

LEMMA EnqueueKeepsInv ==
    ASSUME IInv, NEW u \in Users, Enqueue(u)
    PROVE  IInv'
<1> USE DEF Enqueue, Serve
<1> DEFINE q == queue[u]
           qq == Append(q, count)
<1>1. /\ q \in Seq(Nat) /\ got[u] \in Nat /\ count \in Nat
      /\ u \in subs /\ u \in unserved
      /\ Len(q) \in Nat
      /\ got[u] + Len(q) = count - 1
  BY DEF IInv, TypeOK, UpToDate, Held
<1>2. /\ qq \in Seq(Nat) /\ Len(qq) = Len(q) + 1
      /\ qq[Len(q) + 1] = count
      /\ \A i \in 1..Len(q) : qq[i] = q[i]
  BY <1>1
<1>3. /\ queue' = [queue EXCEPT ![u] = qq]
      /\ queue'[u] = qq
      /\ \A v \in Users : v # u => queue'[v] = queue[v]
  BY DEF IInv, TypeOK
<1>4. TypeOK'
  BY <1>1, <1>2, <1>3 DEF IInv, TypeOK
<1>5. Consecutive'
  <2>1. ASSUME NEW i \in 1..Len(qq) PROVE qq[i] = got[u] + i
    <3>1. CASE i \in 1..Len(q)
      BY <1>2, <3>1 DEF IInv, Consecutive
    <3>2. CASE i = Len(q) + 1
      <4>1. \A g, n, c \in Nat : g + n = c - 1 => c = g + (n + 1)
        OBVIOUS
      <4>2. count = got[u] + (Len(q) + 1)
        BY <1>1, <4>1
      <4> QED
        BY <1>2, <3>2, <4>2
    <3> QED
      BY <1>1, <1>2, <3>1, <3>2
  <2>2. \A v \in Users : v # u => \A i \in 1..Len(queue'[v]) :
            queue'[v][i] = got[v] + i
    BY <1>3 DEF IInv, Consecutive
  <2> QED
    BY <1>3, <2>1, <2>2 DEF Consecutive
<1>6. UpToDate'
  <2>1. Held(u)' = count /\ u \notin unserved'
    BY <1>1, <1>2, <1>3 DEF Held
  <2>2. \A v \in Users : v # u => /\ Held(v)' = Held(v)
                                  /\ v \in unserved' <=> v \in unserved
    BY <1>3 DEF Held
  <2> QED
    BY <1>1, <2>1, <2>2 DEF IInv, UpToDate
<1>7. Bounded'
  BY <1>1, <1>2, <1>3, CapacityAssumption DEF IInv, Bounded
<1>8. Places'
  BY <1>1, <1>3 DEF IInv, Places
<1> QED
  BY <1>4, <1>5, <1>6, <1>7, <1>8 DEF IInv

LEMMA OverflowKeepsInv ==
    ASSUME IInv, NEW u \in Users, Overflow(u)
    PROVE  IInv'
<1> USE DEF Overflow, Serve
<1>1. /\ u \in subs /\ u \in unserved
      /\ got[u] + Len(queue[u]) = count - 1 /\ count \in Nat
  BY DEF IInv, TypeOK, UpToDate, Held
<1>2. TypeOK'
  BY DEF IInv, TypeOK
<1>3. Consecutive' /\ Bounded'
  BY DEF IInv, Consecutive, Bounded
<1>4. UpToDate'
  BY <1>1 DEF IInv, UpToDate, Held
<1>5. Places'
  BY <1>1 DEF IInv, TypeOK, Places
<1> QED
  BY <1>2, <1>3, <1>4, <1>5 DEF IInv

LEMMA ClientKeepsInv ==
    ASSUME IInv, NEW u \in Users, Client(u)
    PROVE  IInv'
<1> USE DEF reader, MuFree
<1>1. CASE Subscribe(u)
  <2> USE <1>1 DEF Subscribe
  <2>1. unserved = {} /\ queue[u] = <<>> /\ ~errCh[u] /\ count \in Nat
    BY DEF IInv, Places, TypeOK
  <2>2. TypeOK'
    BY DEF IInv, TypeOK
  <2>3. Consecutive' /\ Bounded'
    BY <2>1 DEF IInv, TypeOK, Consecutive, Bounded
  <2>4. UpToDate'
    <3>1. Held(u)' = count /\ u \notin unserved'
      BY <2>1 DEF IInv, TypeOK, Held
    <3>2. \A v \in Users : v # u => /\ Held(v)' = Held(v)
                                    /\ v \in subs' <=> v \in subs
      BY DEF IInv, TypeOK, Held
    <3> QED
      BY <2>1, <3>1, <3>2 DEF IInv, UpToDate
  <2>5. Places'
    BY <2>1 DEF IInv, TypeOK, Places
  <2> QED
    BY <2>2, <2>3, <2>4, <2>5 DEF IInv
<1>2. CASE Receive(u)
  <2> USE <1>2 DEF Receive
  <2> DEFINE q == queue[u]
  <2>1. /\ Head(q) = got[u] + 1
        /\ Tail(q) \in Seq(Nat)
        /\ Len(q) \in Nat \ {0}
        /\ Len(Tail(q)) = Len(q) - 1
        /\ \A i \in 1..Len(Tail(q)) : Tail(q)[i] = got[u] + 1 + i
    BY HeadIsNext DEF IInv
  <2>2. /\ got[u] \in Nat /\ got'[u] = got[u] + 1 /\ queue'[u] = Tail(q)
        /\ \A v \in Users : v # u => queue'[v] = queue[v] /\ got'[v] = got[v]
    BY <2>1 DEF IInv, TypeOK
  <2>3. TypeOK'
    BY <2>1, <2>2 DEF IInv, TypeOK
  <2>4. Consecutive'
    <3>1. \A i \in 1..Len(queue'[u]) : queue'[u][i] = got'[u] + i
      BY <2>1, <2>2
    <3>2. \A v \in Users : v # u => \A i \in 1..Len(queue'[v]) :
              queue'[v][i] = got'[v] + i
      BY <2>2 DEF IInv, Consecutive
    <3> QED
      BY <3>1, <3>2 DEF Consecutive
  <2>5. UpToDate'
    <3>1. \A v \in Users : Held(v)' = Held(v)
      BY <1>2, ReceiveKeepsHeld DEF IInv
    <3> QED
      BY <3>1 DEF IInv, UpToDate
  <2>6. Bounded'
    BY <2>1, <2>2, CapacityAssumption DEF IInv, Bounded
  <2>7. Places'
    BY <2>2 DEF IInv, Places
  <2> QED
    BY <2>3, <2>4, <2>5, <2>6, <2>7 DEF IInv
<1>3. CASE ReceiveError(u) \/ HangUp(u)
  <2> USE <1>3 DEF ReceiveError, HangUp
  <2>1. TypeOK'
    BY DEF IInv, TypeOK
  <2>2. Consecutive' /\ UpToDate' /\ Bounded'
    BY DEF IInv, Consecutive, UpToDate, Bounded, Held
  <2>3. Places'
    BY DEF IInv, TypeOK, Places
  <2> QED
    BY <2>1, <2>2, <2>3 DEF IInv
<1>4. CASE Unsub(u)
  <2> USE <1>4 DEF Unsub
  <2>1. unserved = {} /\ count \in Nat
    BY DEF IInv, Places, TypeOK
  <2>2. /\ queue'[u] = <<>> /\ got'[u] = 0 /\ ~errCh'[u]
        /\ \A v \in Users : v # u =>
              queue'[v] = queue[v] /\ got'[v] = got[v] /\ errCh'[v] = errCh[v]
    BY DEF IInv, TypeOK
  <2>3. TypeOK'
    BY <2>1 DEF IInv, TypeOK
  <2>4. Consecutive' /\ Bounded'
    BY <2>2, CapacityAssumption DEF IInv, Consecutive, Bounded
  <2>5. UpToDate'
    BY <2>1, <2>2 DEF IInv, UpToDate, Held
  <2>6. Places'
    BY <2>1, <2>2 DEF IInv, TypeOK, Places
  <2> QED
    BY <2>3, <2>4, <2>5, <2>6 DEF IInv
<1> QED
  BY <1>1, <1>2, <1>3, <1>4 DEF Client

LEMMA NextInv == IInv /\ [Next]_vars => IInv'
<1> SUFFICES ASSUME IInv, [Next]_vars PROVE IInv'
  OBVIOUS
<1>1. CASE UNCHANGED vars
  BY <1>1 DEF vars, reader, clients, IInv, TypeOK, Consecutive, UpToDate,
              Bounded, Places, Held
<1>2. CASE Loop
  BY <1>2, LoopKeepsInv, BroadcastKeepsInv, EnqueueKeepsInv, OverflowKeepsInv
     DEF Loop
<1>3. CASE SignalDone \/ CloseSocket
  BY <1>3, LoopKeepsInv
<1>4. CASE \E u \in Users : Client(u)
  BY <1>4, ClientKeepsInv
<1> QED
  BY <1>1, <1>2, <1>3, <1>4 DEF Next

(* TypeOK, for every value of the constants.                               *)
THEOREM ReaderTypeOK == Spec => []TypeOK
<1>1. IInv => TypeOK
  BY DEF IInv
<1> QED
  BY <1>1, InitInv, NextInv, PTL DEF Spec

(* Nothing a user is yet to receive is missing a packet, and a channel     *)
(* never holds more than it can.                                           *)
THEOREM NoHoles == Spec => [](Consecutive /\ Bounded)
<1>1. IInv => Consecutive /\ Bounded
  BY DEF IInv
<1> QED
  BY <1>1, InitInv, NextInv, PTL DEF Spec

-----------------------------------------------------------------------------
(* The refinement: every step is one of PacketFeed's or none.              *)

InFeed == {u \in Users : user[u] # "out"}
Ends   == [u \in Users |-> IF Removed(u) THEN Held(u) ELSE NoEnd]

LEMMA FeedInit == Init => Feed!Init
BY DEF Init, Feed!Init, Removed

LEMMA FeedStutters ==
    ASSUME IInv, Check \/ Read \/ ReadError \/ EndBroadcast
                 \/ SignalDone \/ CloseSocket \/ (\E u \in Users : Enqueue(u))
                 \/ (\E u \in Users : ReceiveError(u) \/ HangUp(u))
    PROVE  UNCHANGED <<count, InFeed, got, Ends>>
<1>1. CASE \E u \in Users : Enqueue(u)
  <2> PICK u \in Users : Enqueue(u)
    BY <1>1
  <2>1. /\ UNCHANGED <<count, user, got, subs>>
        /\ u \in subs
        /\ \A v \in Users : v # u => queue'[v] = queue[v]
    BY DEF Enqueue, Serve, IInv, TypeOK
  <2> QED
    BY <2>1 DEF InFeed, Ends, Removed, Held
<1>2. CASE \E u \in Users : ReceiveError(u) \/ HangUp(u)
  <2>1. /\ UNCHANGED <<count, got, subs, queue>>
        /\ \A v \in Users : user'[v] = "out" <=> user[v] = "out"
    BY <1>2 DEF ReceiveError, HangUp, IInv, TypeOK, reader
  <2> QED
    BY <2>1 DEF InFeed, Ends, Removed, Held
<1>3. CASE Check \/ Read \/ ReadError \/ EndBroadcast \/ SignalDone \/ CloseSocket
  BY <1>3 DEF Check, Read, ReadError, EndBroadcast, SignalDone, CloseSocket,
              clients, InFeed, Ends, Removed, Held
<1> QED
  BY <1>1, <1>2, <1>3

LEMMA FeedSend ==
    ASSUME IInv, Broadcast
    PROVE  count' = count + 1 /\ UNCHANGED <<InFeed, got, Ends>>
BY DEF Broadcast, clients, InFeed, Ends, Removed, Held

(* A removal cuts a user off that is a whole channel behind, at the last   *)
(* packet it holds.                                                        *)
LEMMA FeedCutOff ==
    ASSUME IInv, NEW u \in Users, Overflow(u)
    PROVE  /\ u \in InFeed /\ Ends[u] = NoEnd
           /\ count - got[u] > Capacity
           /\ Ends' = [Ends EXCEPT ![u] = count - 1]
           /\ UNCHANGED <<count, InFeed, got>>
<1>1. /\ u \in subs /\ Held(u) = count - 1 /\ Len(queue[u]) = Capacity
      /\ count \in Nat /\ got[u] \in Nat
  BY DEF Overflow, Serve, IInv, TypeOK, UpToDate
<1>2. u \in InFeed /\ Ends[u] = NoEnd
  BY <1>1 DEF InFeed, Ends, Removed, IInv, Places
<1>3. count - got[u] > Capacity
  BY <1>1, CapacityAssumption DEF Held
<1>4. UNCHANGED <<count, queue, user, got, InFeed>> /\ subs' = subs \ {u}
  BY DEF Overflow, Serve, InFeed
<1>5. Ends' = [Ends EXCEPT ![u] = count - 1]
  BY <1>1, <1>2, <1>4 DEF Ends, Removed, InFeed, Held
<1> QED
  BY <1>2, <1>3, <1>4, <1>5

LEMMA FeedJoin ==
    ASSUME IInv, NEW u \in Users, Subscribe(u)
    PROVE  /\ u \notin InFeed /\ InFeed' = InFeed \cup {u}
           /\ got' = [got EXCEPT ![u] = count]
           /\ UNCHANGED <<count, Ends>>
<1>1. /\ user[u] = "out" /\ user' = [user EXCEPT ![u] = "in"]
      /\ subs' = subs \cup {u} /\ got' = [got EXCEPT ![u] = count]
      /\ UNCHANGED <<count, queue>>
  BY DEF Subscribe, reader
<1>2. InFeed' = InFeed \cup {u} /\ u \notin InFeed
  BY <1>1 DEF InFeed, IInv, TypeOK
<1>3. \A v \in Users : /\ Removed(v)' <=> Removed(v)
                       /\ Removed(v) => Held(v)' = Held(v)
  BY <1>1 DEF Removed, Held, IInv, TypeOK
<1> QED
  BY <1>1, <1>2, <1>3 DEF Ends

LEMMA FeedGive ==
    ASSUME IInv, NEW u \in Users, Receive(u)
    PROVE  /\ u \in InFeed /\ got[u] < count /\ got[u] # Ends[u]
           /\ got' = [got EXCEPT ![u] = @ + 1]
           /\ UNCHANGED <<count, InFeed, Ends>>
<1>1. /\ user[u] = "in" /\ queue[u] # <<>>
      /\ got' = [got EXCEPT ![u] = Head(queue[u])]
      /\ queue' = [queue EXCEPT ![u] = Tail(@)]
      /\ UNCHANGED <<count, subs, user>>
  BY DEF Receive, reader
<1>2. /\ Head(queue[u]) = got[u] + 1
      /\ Len(queue[u]) \in Nat \ {0}
      /\ Len(Tail(queue[u])) = Len(queue[u]) - 1
      /\ got[u] \in Nat /\ count \in Nat
  BY <1>1, HeadIsNext DEF IInv, TypeOK
<1>3. got[u] < count
  BY <1>2 DEF IInv, UpToDate, Held
<1>4. u \in InFeed /\ got[u] # Ends[u]
  BY <1>1, <1>2, NoEndAssumption DEF InFeed, Ends, Held
<1>5. \A v \in Users : Held(v)' = Held(v)
  BY ReceiveKeepsHeld DEF IInv
<1>6. UNCHANGED <<count, InFeed, Ends>>
  BY <1>1, <1>5 DEF InFeed, Ends, Removed
<1> QED
  BY <1>1, <1>2, <1>3, <1>4, <1>6

LEMMA FeedPart ==
    ASSUME IInv, NEW u \in Users, Unsub(u)
    PROVE  /\ u \in InFeed /\ InFeed' = InFeed \ {u}
           /\ got' = [got EXCEPT ![u] = 0]
           /\ Ends' = [Ends EXCEPT ![u] = NoEnd]
           /\ UNCHANGED count
<1>1. /\ user[u] = "leaving" /\ user' = [user EXCEPT ![u] = "out"]
      /\ subs' = subs \ {u} /\ got' = [got EXCEPT ![u] = 0]
      /\ queue' = [queue EXCEPT ![u] = <<>>]
      /\ UNCHANGED count
  BY DEF Unsub, reader
<1>2. u \in InFeed /\ InFeed' = InFeed \ {u}
  BY <1>1 DEF InFeed, IInv, TypeOK
<1>3. /\ ~Removed(u)'
      /\ \A v \in Users : v # u =>
            (Removed(v)' <=> Removed(v)) /\ Held(v)' = Held(v)
  BY <1>1 DEF Removed, Held, IInv, TypeOK
<1> QED
  BY <1>1, <1>2, <1>3 DEF Ends

LEMMA FeedNext == IInv /\ [Next]_vars => [Feed!Next]_Feed!feed
<1> SUFFICES ASSUME IInv, [Next]_vars PROVE [Feed!Next]_Feed!feed
  OBVIOUS
<1> USE DEF Feed!feed, InFeed, Ends, Held
<1>1. CASE UNCHANGED vars
  BY <1>1 DEF vars, reader, clients, Removed
<1>2. CASE \/ Check \/ Read \/ ReadError \/ EndBroadcast
           \/ SignalDone \/ CloseSocket \/ (\E u \in Users : Enqueue(u))
           \/ (\E u \in Users : ReceiveError(u) \/ HangUp(u))
  BY <1>2, FeedStutters
<1>3. CASE Broadcast
  BY <1>3, FeedSend DEF Feed!Next, Feed!Send
<1>4. ASSUME NEW u \in Users, Overflow(u) PROVE Feed!Next
  BY <1>4, FeedCutOff DEF Feed!Next, Feed!CutOff
<1>5. ASSUME NEW u \in Users, Subscribe(u) PROVE Feed!Next
  BY <1>5, FeedJoin DEF Feed!Next, Feed!Join
<1>6. ASSUME NEW u \in Users, Receive(u) PROVE Feed!Next
  BY <1>6, FeedGive DEF Feed!Next, Feed!Give
<1>7. ASSUME NEW u \in Users, Unsub(u) PROVE Feed!Next
  BY <1>7, FeedPart DEF Feed!Next, Feed!Part
<1> QED
  BY <1>1, <1>2, <1>3, <1>4, <1>5, <1>6, <1>7 DEF Next, Loop, Client

(* Every user gets every packet from its subscription on until it leaves   *)
(* or is cut off: the reader implements PacketFeed.                        *)
THEOREM ReaderImplementsFeed == Spec => ImplementsFeed
<1> QED
  BY InitInv, NextInv, FeedInit, FeedNext, PTL
     DEF Spec, ImplementsFeed, Feed!Spec

-----------------------------------------------------------------------------
(***************************************************************************)
(* The switcher: its invariant                                             *)
(***************************************************************************)
Times == 0..(Clock - 1)
MaybeTime == Times \cup {None}
Counters == 0..(CcSpace - 1) \cup {None}
Versions == 0..31
Pars == {Program[s].par : s \in Sources} \cup {None}

(* The packets, tables, clocks and candidates there can be.                *)
TsPackets == [src : Sources \cup {None}, n : Nat, kind : Kinds, start : BOOLEAN,
              pay : BOOLEAN, cc : 0..(CcSpace - 1), pts : MaybeTime, pcr : MaybeTime,
              par : Pars, idr : BOOLEAN, split : BOOLEAN, version : Versions,
              marked : BOOLEAN]
GoodPacket(p) == /\ p \in TsPackets
                 /\ p.kind = "video" => p.src \in Sources
                 /\ p.pts # None \/ p.pcr # None => p.kind = "video"
Transforms == [src : Sources, offset90 : Int, waitAudioPUSI : BOOLEAN,
               markDiscontinuity : BOOLEAN]
TableSets == [level : {"none", "pat", "full"}, pat : Versions \cup {None},
              pmt : Versions \cup {None}, par : Pars, version : Versions]
GoodTables(t) == /\ t \in TableSets
                 /\ t.level # "none" => t.pat # None
                 /\ t.level = "full" => t.pmt # None
Clocks == [pts : MaybeTime, step : 0..MaxStep, pcr : MaybeTime]
Viewers == [pat : BOOLEAN, version : Versions \cup {None}, par : Pars,
            pts : MaybeTime, pcr : MaybeTime, cc : [Kinds -> Counters]]
Candidates == [src : Sources, pmtKnown : BOOLEAN, profile : BOOLEAN, refused : BOOLEAN,
               buffering : BOOLEAN, pkts : Seq(TsPackets), pts : MaybeTime, par : Pars,
               parPts : Times, idr : BOOLEAN, pcr : MaybeTime, cc : [Kinds -> Counters],
               newest : [Kinds -> Nat \cup {None}]]

(* The viewer has seen the program the switcher keeps.                     *)
Agree(v, t, c, cc) ==
    /\ v.pat <=> t.level # "none"
    /\ v.version # None <=> t.level = "full"
    /\ v.pts = c.pts /\ v.pcr = c.pcr
    /\ \A k \in Kinds : v.cc[k] # None => cc[k] = v.cc[k]

(* The switcher's own state, and that the viewer has seen the same.        *)
Fields == /\ GoodTables(tables) /\ clock \in Clocks /\ lastCC \in [Kinds -> Counters]
          /\ viewer \in Viewers
          /\ active # None => /\ active \in Transforms /\ tables.level = "full"
                              /\ active.src = current \/ current = None
          /\ current \in Sources \cup {None} /\ pos \in [Sources -> 0..MaxPos]
          /\ Agree(viewer, tables, clock, lastCC)

PayloadOf(p, k) == p.kind = k /\ p.pay
(* What is buffered of a PID reaches without a hole to the packet z.       *)
NoHole(c, k, z) ==
    \A i \in DOMAIN c.pkts : PayloadOf(c.pkts[i], k) =>
        /\ c.pkts[i].n <= z
        /\ \A n \in (c.pkts[i].n + 1)..z : PayloadOf(At(c.src, n), k) =>
             \E l \in DOMAIN c.pkts : c.pkts[l].n = n

(* What is buffered is a frame from its first packet on.                   *)
FrameOf(c) ==
    /\ c.buffering \/ c.pkts = <<>>
    /\ c.idr => c.buffering /\ \E i \in DOMAIN c.pkts : c.pkts[i].idr
    /\ c.buffering => /\ c.profile
                      /\ c.pkts # <<>> /\ c.pkts[1].kind = "video" /\ c.pkts[1].start
                      /\ c.pts = c.pkts[1].pts
    /\ \A i \in DOMAIN c.pkts : i > 1 => ~(c.pkts[i].kind = "video" /\ c.pkts[i].start)
    /\ c.buffering => IF c.pcr = None THEN \A i \in DOMAIN c.pkts : c.pkts[i].pcr = None
                      ELSE \E i \in DOMAIN c.pkts :
                             /\ c.pkts[i].pcr = c.pcr
                             /\ \A j \in 1..(i - 1) : c.pkts[j].pcr = None
(* How many packets of a PID a source has sent after z, before m.          *)
Since(c, k, z, m) == Count(c.src, m - 1, Payload(k)) - Count(c.src, z, Payload(k))
(* The buffer holds packets of the source in their order, those of each    *)
(* PID without a hole up to the newest that came (history: newest), whose  *)
(* counter tells every gap since: fewer than CcSpace have been sent.       *)
InBuffer(c, m) ==
    /\ \A i \in DOMAIN c.pkts : /\ c.pkts[i].n \in 0..(m - 1)
                                /\ c.pkts[i] = Packet(c.src, c.pkts[i].n)
    /\ \A i, j \in DOMAIN c.pkts : i < j => c.pkts[i].n < c.pkts[j].n
    /\ \A k \in Kinds :
         IF c.cc[k] = None
         THEN c.newest[k] = None /\ \A i \in DOMAIN c.pkts : ~PayloadOf(c.pkts[i], k)
         ELSE \E z \in 0..(m - 1) : /\ PayloadOf(At(c.src, z), k)
                                    /\ c.newest[k] = z /\ c.cc[k] = Packet(c.src, z).cc
                                    /\ NoHole(c, k, z)
                                    /\ Since(c, k, z, m) < CcSpace
(* A candidate that waits.                                                 *)
GoodCandidate(c, m) ==
    /\ c \in Candidates
    /\ c.par # None => c.par = Program[c.src].par
    /\ c.profile /\ ~c.refused => tables.level = "full"
    /\ ~c.refused => FrameOf(c) /\ InBuffer(c, m)

Waiting == candidate # None => /\ GoodCandidate(candidate, pos[candidate.src])
                               /\ ~candidate.refused
                               /\ candidate.src # current
SwInv == Fields /\ Waiting

-----------------------------------------------------------------------------
(***************************************************************************)
(* Folds over the packets of a datagram                                    *)
(***************************************************************************)
(* Induction over a bounded range of numbers.                              *)
LEMMA UpInduction ==
    ASSUME NEW n \in Nat, NEW G, 0 \in G, \A i \in 1..n : i - 1 \in G => i \in G
    PROVE  \A i \in 0..n : i \in G
<1> DEFINE Bad == {i \in 0..n : i \notin G}
           R == OpToRel(<, Nat)
<1>1. SUFFICES ASSUME Bad # {} PROVE FALSE
  OBVIOUS
<1>2. IsWellFoundedOn(R, Nat)
  BY NatLessThanWellFounded
<1>3. R = {ss \in Nat \X Nat : ss[1] < ss[2]}
  BY Zenon DEF OpToRel
<1>4. Bad \subseteq Nat
  OBVIOUS
<1> HIDE DEF R
<1>5. PICK x \in Bad : \A y \in Bad : <<y, x>> \notin R
  <2> HIDE DEF Bad
  <2> QED
    BY <1>1, <1>2, <1>4, WFMin
<1>6. x \in 0..n /\ x \notin G
  BY <1>5
<1>7. x - 1 \in 0..n /\ x \in 1..n /\ x \in Nat /\ x - 1 \in Nat /\ x - 1 < x
  BY <1>6
<1>8. <<x - 1, x>> \in R
  BY <1>3, <1>7
<1>9. x - 1 \notin Bad
  BY <1>5, <1>8
<1> QED
  BY <1>6, <1>7, <1>9

(* The steps of the folds the switcher is made of.                         *)
FoldStep(k, a, p) == CASE k = "see"     -> See(a, p)
                       [] k = "observe" -> Observe(a, p)
                       [] k = "collect" -> Collect(a, p)
                       [] OTHER         -> Transform(a, p)
Folds(h, D, k, a, q) ==
    h = [s \in SUBSET D |-> IF s = {} THEN a
                            ELSE FoldStep(k, h[s \ {Max(s)}], q[Max(s)])]

(* The greatest of 1..k.                                                   *)
LEMMA MaxUpTo ==
    ASSUME NEW n \in Nat, n # 0
    PROVE  Max(1..n) = n /\ (1..n) \ {n} = 1..(n - 1)
<1>1. n \in 1..n /\ \A y \in 1..n : n >= y
  OBVIOUS
<1>2. Max(1..n) \in 1..n /\ \A y \in 1..n : Max(1..n) >= y
  BY <1>1 DEF Max
<1> QED
  BY <1>1, <1>2

(* A set of such numbers has a greatest one.                               *)
LEMMA MaxOfSome ==
    ASSUME NEW n \in Nat, NEW s \in SUBSET (1..n), s # {}
    PROVE  Max(s) \in s /\ \A y \in s : y <= Max(s)
<1> DEFINE G == {i \in 0..n : \A u \in SUBSET (1..i) :
                    u # {} => \E x \in u : \A y \in u : x >= y}
<1>1. 0 \in G
  <2>1. 1..0 = {}
    OBVIOUS
  <2>2. \A u \in SUBSET (1..0) : u # {} => \E x \in u : \A y \in u : x >= y
    BY <2>1
  <2>3. 0 \in 0..n
    OBVIOUS
  <2> QED
    BY <2>2, <2>3, Zenon
<1>2. ASSUME NEW i \in 1..n, i - 1 \in G PROVE i \in G
  <2> SUFFICES ASSUME NEW u \in SUBSET (1..i), u # {}
               PROVE  \E x \in u : \A y \in u : x >= y
    OBVIOUS
  <2>1. CASE i \in u
    BY <2>1
  <2>2. CASE i \notin u
    <3>1. u \in SUBSET (1..(i - 1))
      BY <2>2
    <3> QED
      BY <1>2, <3>1
  <2> QED
    BY <2>1, <2>2
<1>3. n \in G
  <2>1. \A i \in 0..n : i \in G
    <3> HIDE DEF G
    <3> QED
      BY <1>1, <1>2, UpInduction
  <2>2. n \in 0..n
    OBVIOUS
  <2> HIDE DEF G
  <2> QED
    BY <2>1, <2>2
<1>4. \E x \in s : \A y \in s : x >= y
  BY <1>3
<1>5. Max(s) \in s /\ \A y \in s : Max(s) >= y
  BY <1>4 DEF Max
<1> QED
  BY <1>5

(* The folds are defined for every sequence.                               *)
LEMMA FoldExists ==
    ASSUME NEW k, NEW a, NEW q, NEW n \in Nat
    PROVE  \E h : Folds(h, 1..n, k, a, q)
<1> DEFINE G == {i \in 0..n : \E h : Folds(h, 1..i, k, a, q)}
<1>1. 0 \in G
  <2> DEFINE h == [s \in SUBSET (1..0) |-> a]
  <2>1. \A s \in SUBSET (1..0) : s = {}
    OBVIOUS
  <2>2. Folds(h, 1..0, k, a, q)
    BY <2>1 DEF Folds
  <2> QED
    BY <2>2
<1>2. ASSUME NEW i \in 1..n, i - 1 \in G PROVE i \in G
  <2> DEFINE D == 1..(i - 1)
             E == 1..i
  <2>1. PICK h : Folds(h, D, k, a, q)
    BY <1>2
  <2> DEFINE g == [s \in SUBSET E |-> IF i \in s THEN FoldStep(k, h[s \ {i}], q[i]) ELSE h[s]]
  <2>2. D \subseteq E /\ i \in E /\ i \notin D /\ E \ {i} = D
    OBVIOUS
  <2>3. ASSUME NEW s \in SUBSET E
        PROVE  g[s] = IF s = {} THEN a ELSE FoldStep(k, g[s \ {Max(s)}], q[Max(s)])
    <3>1. CASE i \in s
      <4>1. Max(s) = i
        <5>1. i \in Nat /\ s \in SUBSET (1..i) /\ s # {}
          BY <3>1
        <5>2. Max(s) \in s /\ \A y \in s : y <= Max(s)
          BY <5>1, MaxOfSome
        <5>3. Max(s) \in 1..i /\ i <= Max(s)
          BY <3>1, <5>2
        <5> QED
          BY <5>3
      <4>2. s \ {i} \in SUBSET E /\ s \ {i} \in SUBSET D /\ i \notin s \ {i}
        BY <2>2
      <4>3. g[s \ {i}] = h[s \ {i}]
        BY <4>2
      <4> QED
        BY <3>1, <4>1, <4>3
    <3>2. CASE i \notin s /\ s # {}
      <4>1. s \in SUBSET D /\ g[s] = h[s]
        BY <2>2, <3>2
      <4>2. h[s] = FoldStep(k, h[s \ {Max(s)}], q[Max(s)])
        BY <2>1, <3>2, <4>1 DEF Folds
      <4>3. s \ {Max(s)} \in SUBSET E /\ i \notin s \ {Max(s)}
        BY <3>2
      <4>4. g[s \ {Max(s)}] = h[s \ {Max(s)}]
        BY <4>3
      <4> QED
        BY <3>2, <4>1, <4>2, <4>4
    <3>3. CASE s = {}
      <4>1. s \in SUBSET D /\ g[s] = h[s]
        BY <3>3
      <4> QED
        BY <2>1, <3>3, <4>1 DEF Folds
    <3> QED
      BY <3>1, <3>2, <3>3
  <2>4. Folds(g, E, k, a, q)
    <3>1. g = [s \in SUBSET E |-> g[s]]
      OBVIOUS
    <3> HIDE DEF g, E
    <3> QED
      BY <2>3, <3>1 DEF Folds
  <2> QED
    BY <2>4
<1>3. \A i \in 0..n : i \in G
  <2> HIDE DEF G
  <2> QED
    BY <1>1, <1>2, UpInduction
<1> QED
  BY <1>3

(* A fold runs through the packets one by one.                             *)
Runs(g, k, a, q) == /\ g[0] = a
                    /\ \A i \in 1..Len(q) : g[i] = FoldStep(k, g[i - 1], q[i])

(* FoldLeft is the last value of the run.                                  *)
LEMMA FoldRuns ==
    ASSUME NEW k, NEW a, NEW q, Len(q) \in Nat, DOMAIN q = 1..Len(q),
           NEW h, Folds(h, 1..Len(q), k, a, q)
    PROVE  \E g : Runs(g, k, a, q) /\ g[Len(q)] = h[1..Len(q)]
<1> DEFINE n == Len(q)
           g == [i \in 0..n |-> h[1..i]]
<1>1. n \in Nat
  OBVIOUS
<1>2. g[0] = a
  <2>1. 1..0 = {} /\ {} \in SUBSET (1..n)
    OBVIOUS
  <2> QED
    BY <1>1, <2>1 DEF Folds
<1>3. ASSUME NEW i \in 1..n PROVE g[i] = FoldStep(k, g[i - 1], q[i])
  <2>1. 1..i \in SUBSET (1..n) /\ 1..i # {} /\ i - 1 \in 0..n /\ i \in 0..n /\ i \in Nat /\ i # 0
    <3> HIDE DEF n
    <3>1. i \in Nat /\ i # 0 /\ i - 1 \in 0..n /\ i \in 0..n
      BY <1>1
    <3>2. i \in 1..i
      BY <3>1
    <3>3. \A j \in 1..i : j \in 1..n
      BY <1>1
    <3> QED
      BY <3>1, <3>2, <3>3
  <2>2. h[1..i] = FoldStep(k, h[(1..i) \ {Max(1..i)}], q[Max(1..i)])
    BY <2>1 DEF Folds
  <2>3. Max(1..i) = i /\ (1..i) \ {i} = 1..(i - 1)
    BY <2>1, MaxUpTo
  <2>4. h[1..i] = FoldStep(k, h[1..(i - 1)], q[i])
    BY <2>2, <2>3
  <2>5. g[i] = h[1..i] /\ g[i - 1] = h[1..(i - 1)]
    BY <2>1
  <2> QED
    BY <2>4, <2>5
<1>4. g[n] = h[1..n]
  BY <1>1
<1>5. Runs(g, k, a, q)
  <2> HIDE DEF g
  <2> QED
    BY <1>2, <1>3 DEF Runs
<1> QED
  BY <1>4, <1>5

(* Seen, packet by packet.                                                 *)
LEMMA SeeRuns ==
    ASSUME NEW a, NEW q, Len(q) \in Nat, DOMAIN q = 1..Len(q)
    PROVE  \E g : Runs(g, "see", a, q) /\ g[Len(q)] = Seen(a, q)
<1> DEFINE D == 1..Len(q)
           iter == CHOOSE h : h = [s \in SUBSET D |-> IF s = {} THEN a
                                      ELSE See(h[s \ {Max(s)}], q[Max(s)])]
<1>1. \A h : Folds(h, D, "see", a, q) <=>
             h = [s \in SUBSET D |-> IF s = {} THEN a ELSE See(h[s \ {Max(s)}], q[Max(s)])]
  BY DEF Folds, FoldStep
<1>2. Folds(iter, D, "see", a, q)
  <2>1. \E h : Folds(h, D, "see", a, q)
    BY FoldExists
  <2> QED
    BY <1>1, <2>1
<1>3. Seen(a, q) = iter[D]
  BY DEF Seen, FoldLeft, MapThenFoldSet
<1> QED
  <2> HIDE DEF iter
  <2> QED
    BY <1>2, <1>3, FoldRuns

(* Observed, packet by packet.                                             *)
LEMMA ObserveRuns ==
    ASSUME NEW a, NEW q, Len(q) \in Nat, DOMAIN q = 1..Len(q)
    PROVE  \E g : Runs(g, "observe", a, q) /\ g[Len(q)] = Observed(a, q)
<1> DEFINE D == 1..Len(q)
           iter == CHOOSE h : h = [s \in SUBSET D |-> IF s = {} THEN a
                                      ELSE Observe(h[s \ {Max(s)}], q[Max(s)])]
<1>1. \A h : Folds(h, D, "observe", a, q) <=>
             h = [s \in SUBSET D |-> IF s = {} THEN a ELSE Observe(h[s \ {Max(s)}], q[Max(s)])]
  BY DEF Folds, FoldStep
<1>2. Folds(iter, D, "observe", a, q)
  <2>1. \E h : Folds(h, D, "observe", a, q)
    BY FoldExists
  <2> QED
    BY <1>1, <2>1
<1>3. Observed(a, q) = iter[D]
  BY DEF Observed, FoldLeft, MapThenFoldSet
<1> QED
  <2> HIDE DEF iter
  <2> QED
    BY <1>2, <1>3, FoldRuns

(* CollectedAll, packet by packet.                                         *)
LEMMA CollectRuns ==
    ASSUME NEW a, NEW q, Len(q) \in Nat, DOMAIN q = 1..Len(q)
    PROVE  \E g : Runs(g, "collect", a, q) /\ g[Len(q)] = CollectedAll(a, q)
<1> DEFINE D == 1..Len(q)
           iter == CHOOSE h : h = [s \in SUBSET D |-> IF s = {} THEN a
                                      ELSE Collect(h[s \ {Max(s)}], q[Max(s)])]
<1>1. \A h : Folds(h, D, "collect", a, q) <=>
             h = [s \in SUBSET D |-> IF s = {} THEN a ELSE Collect(h[s \ {Max(s)}], q[Max(s)])]
  BY DEF Folds, FoldStep
<1>2. Folds(iter, D, "collect", a, q)
  <2>1. \E h : Folds(h, D, "collect", a, q)
    BY FoldExists
  <2> QED
    BY <1>1, <2>1
<1>3. CollectedAll(a, q) = iter[D]
  BY DEF CollectedAll, FoldLeft, MapThenFoldSet
<1> QED
  <2> HIDE DEF iter
  <2> QED
    BY <1>2, <1>3, FoldRuns

(* Transformed, packet by packet.                                          *)
LEMMA TransformRuns ==
    ASSUME NEW a, NEW q, Len(q) \in Nat, DOMAIN q = 1..Len(q)
    PROVE  \E g : Runs(g, "transform", a, q) /\ g[Len(q)] = Transformed(a, q)
<1> DEFINE D == 1..Len(q)
           iter == CHOOSE h : h = [s \in SUBSET D |-> IF s = {} THEN a
                                      ELSE Transform(h[s \ {Max(s)}], q[Max(s)])]
<1>1. \A h : Folds(h, D, "transform", a, q) <=>
             h = [s \in SUBSET D |-> IF s = {} THEN a ELSE Transform(h[s \ {Max(s)}], q[Max(s)])]
  BY DEF Folds, FoldStep
<1>2. Folds(iter, D, "transform", a, q)
  <2>1. \E h : Folds(h, D, "transform", a, q)
    BY FoldExists
  <2> QED
    BY <1>1, <2>1
<1>3. Transformed(a, q) = iter[D]
  BY DEF Transformed, FoldLeft, MapThenFoldSet
<1> QED
  <2> HIDE DEF iter
  <2> QED
    BY <1>2, <1>3, FoldRuns

(* The viewer sees one packet more.                                        *)
LEMMA SeeAppend ==
    ASSUME NEW S, NEW a, NEW q \in Seq(S), NEW p \in S
    PROVE  Seen(a, Append(q, p)) = See(Seen(a, q), p)
<1> DEFINE n == Len(q)
           r == Append(q, p)
<1>1. n \in Nat /\ DOMAIN q = 1..n /\ Len(r) = n + 1 /\ DOMAIN r = 1..(n + 1)
      /\ r[n + 1] = p /\ \A i \in 1..n : r[i] = q[i]
  OBVIOUS
<1>2. PICK g : Runs(g, "see", a, q) /\ g[n] = Seen(a, q)
  BY <1>1, SeeRuns
<1>3. PICK h : Runs(h, "see", a, r) /\ h[n + 1] = Seen(a, r)
  <2>1. Len(r) \in Nat
    BY <1>1
  <2> HIDE DEF r
  <2> QED
    BY <1>1, <2>1, SeeRuns
<1>4. h[0] = a /\ g[0] = a
  BY <1>2, <1>3 DEF Runs
<1>5. \A i \in 1..n : g[i] = FoldStep("see", g[i - 1], q[i])
  BY <1>2 DEF Runs
<1>6. \A i \in 1..(n + 1) : h[i] = FoldStep("see", h[i - 1], r[i])
  BY <1>1, <1>3 DEF Runs
<1> DEFINE G == {i \in 0..n : h[i] = g[i]}
<1>7. 0 \in G
  BY <1>1, <1>4
<1>8. ASSUME NEW i \in 1..n, i - 1 \in G PROVE i \in G
  <2>1. i \in 1..(n + 1) /\ i \in 0..n /\ h[i - 1] = g[i - 1] /\ r[i] = q[i]
    <3> HIDE DEF n, r
    <3> QED
      BY <1>1, <1>8
  <2> QED
    BY <1>5, <1>6, <2>1
<1>9. n \in G
  <2>1. \A i \in 0..n : i \in G
    <3> HIDE DEF G, n
    <3> QED
      BY <1>1, <1>7, <1>8, UpInduction
  <2>2. n \in 0..n
    BY <1>1
  <2> HIDE DEF G
  <2> QED
    BY <2>1, <2>2
<1>10. h[n + 1] = See(h[n], p)
  <2>1. n + 1 \in 1..(n + 1) /\ (n + 1) - 1 = n
    BY <1>1
  <2>2. h[n + 1] = FoldStep("see", h[(n + 1) - 1], r[n + 1])
    BY <1>6, <2>1
  <2> QED
    BY <1>1, <2>1, <2>2 DEF FoldStep
<1> QED
  BY <1>2, <1>3, <1>9, <1>10

-----------------------------------------------------------------------------
(***************************************************************************)
(* Sources, clocks and counters                                            *)
(***************************************************************************)
(* What the assumptions say of the constants.                              *)
LEMMA Scales == /\ Clock \in Nat \ {0} /\ FrameStep \in Nat /\ CcSpace \in Nat \ {0}
                /\ MaxPos \in Nat
                /\ MaxStep \in Nat /\ MaxStep < Clock /\ DefaultStep \in 1..MaxStep
                /\ None \notin Int /\ None \notin Sources /\ First \in Sources
BY ClockAssumption, NoneAssumption, BoundAssumption, StepAssumption, FirstAssumption

(* Clocks wrap.                                                            *)
LEMMA ClockPlusIs == ASSUME NEW t \in Int, NEW d \in Int PROVE ClockPlus(t, d) \in Times
<1>1. t + d \in Int
  OBVIOUS
<1> QED
  BY <1>1, Scales DEF ClockPlus, Times

(* A source sends packets of its pattern.                                  *)
LEMMA AtIs == ASSUME NEW s \in Sources, NEW n \in Nat
              PROVE  /\ At(s, n) \in Template
                     /\ At(s, n).pcr => At(s, n).kind = "video"
<1> DEFINE p == Program[s].pattern
           i == (n % Len(p)) + 1
<1>1. p \in Seq(Template) /\ p # <<>>
  BY ProgramAssumption
<1>2. Len(p) \in Nat \ {0} /\ DOMAIN p = 1..Len(p)
  <2> HIDE DEF p
  <2> QED
    BY <1>1
<1>3. i \in 1..Len(p)
  <2> HIDE DEF p
  <2> QED
    BY <1>2
<1>4. p[i] \in Template
  <2> HIDE DEF p, i
  <2> QED
    BY <1>1, <1>2, <1>3
<1>5. p[i].pcr => p[i].kind = "video"
  BY <1>2, <1>3, ProgramAssumption
<1> QED
  BY <1>4, <1>5 DEF At

(* A count is a number.                                                    *)
LEMMA CountIs == ASSUME NEW s, NEW n \in Int, NEW C PROVE Count(s, n, C) \in Nat
<1>1. IsFiniteSet(0..n)
  BY FS_Interval
<1>2. IsFiniteSet({i \in 0..n : At(s, i) \in C})
  BY <1>1, FS_Subset
<1> QED
  BY <1>2, FS_CardinalityType DEF Count

(* What a packet can be.                                                   *)
LEMMA PacketIs ==
    ASSUME NEW s \in Sources, NEW n \in Nat
    PROVE  LET p == Packet(s, n) IN
           /\ GoodPacket(p) /\ p.src = s /\ p.n = n /\ p.version \in Versions
           /\ p.kind = At(s, n).kind /\ p.start = At(s, n).start /\ p.pay = At(s, n).pay
           /\ p.pts # None => p.kind = "video" /\ p.start
           /\ p.pcr # None => p.kind = "video"
           /\ p.idr => p.kind = "video"
           /\ p.par # None => p.par = Program[s].par
<1> DEFINE t == At(s, n)
           counted == Payload(t.kind)
<1>1. t \in Template /\ (t.pcr => t.kind = "video")
  BY AtIs
<1>2. FramePts(s, n) \in Times /\ FramePts(s, n) # None
  <2>1. Count(s, n, FrameStarts) \in Nat /\ Program[s].base \in Int
    BY CountIs, ProgramAssumption
  <2>2. FrameStep * Count(s, n, FrameStarts) \in Int
    BY <2>1, Scales
  <2>3. FramePts(s, n) \in Times
    BY <2>1, <2>2, ClockPlusIs DEF FramePts
  <2> QED
    BY <2>3, Scales DEF Times
<1>3. PacketPTS(s, n) \in MaybeTime /\ (PacketPTS(s, n) # None => t.kind = "video" /\ t.start)
  BY <1>2 DEF PacketPTS, MaybeTime
<1>4. PacketPCRBase(s, n) \in MaybeTime /\ (PacketPCRBase(s, n) # None => t.kind = "video")
  <2>1. Program[s].lead \in Int /\ FramePts(s, n) \in Int
    BY <1>2, ProgramAssumption DEF Times
  <2>2. ClockPlus(FramePts(s, n), -Program[s].lead) \in Times
    BY <2>1, ClockPlusIs
  <2> QED
    BY <1>1, <2>2 DEF PacketPCRBase, MaybeTime
<1>5. ScanParameters(s, n) \in Pars
      /\ (ScanParameters(s, n) # None => ScanParameters(s, n) = Program[s].par)
  BY DEF ScanParameters, Pars
<1>6. ScanIDR(s, n) \in BOOLEAN /\ (ScanIDR(s, n) => t.kind = "video")
  BY <1>1 DEF ScanIDR, Template
<1>7. Count(s, n, counted) % CcSpace \in 0..(CcSpace - 1)
  <2>1. Count(s, n, counted) \in Nat
    BY CountIs
  <2> HIDE DEF counted
  <2> QED
    BY <2>1, Scales
<1>8. Program[s].version \in Versions
  BY ProgramAssumption DEF Versions
<1>9. /\ t.kind \in Kinds /\ t.start \in BOOLEAN /\ t.pay \in BOOLEAN /\ t.split \in BOOLEAN
  BY <1>1 DEF Template
<1> HIDE DEF t, counted
<1>10. Packet(s, n) =
         [src |-> s, n |-> n, kind |-> t.kind, start |-> t.start, pay |-> t.pay,
          cc |-> Count(s, n, counted) % CcSpace,
          pts |-> PacketPTS(s, n), pcr |-> PacketPCRBase(s, n),
          par |-> ScanParameters(s, n), idr |-> ScanIDR(s, n),
          split |-> t.split, version |-> Program[s].version, marked |-> FALSE]
  BY DEF Packet, t, counted
<1> DEFINE p == Packet(s, n)
<1>11. /\ p.src = s /\ p.n = n /\ p.kind = t.kind /\ p.start = t.start /\ p.pay = t.pay
       /\ p.pts = PacketPTS(s, n) /\ p.pcr = PacketPCRBase(s, n)
       /\ p.par = ScanParameters(s, n) /\ p.idr = ScanIDR(s, n)
       /\ p.version = Program[s].version
  BY <1>10
<1>12. p \in TsPackets
  BY <1>3, <1>4, <1>5, <1>6, <1>7, <1>8, <1>9, <1>10 DEF TsPackets
<1> HIDE DEF p
<1> QED
  BY <1>3, <1>4, <1>5, <1>6, <1>8, <1>11, <1>12 DEF GoodPacket, p, t

(* What a datagram holds.                                                  *)
LEMMA DatagramIs ==
    ASSUME NEW s \in Sources, NEW m \in Nat, pos \in [Sources -> 0..MaxPos],
           pos[s] + m <= MaxPos
    PROVE  LET q == Datagram(s, m) IN
           /\ q \in Seq(TsPackets) /\ Len(q) = m /\ DOMAIN q = 1..m
           /\ \A i \in 1..m : /\ pos[s] + i - 1 \in 0..MaxPos
                              /\ q[i] = Packet(s, pos[s] + i - 1)
                              /\ GoodPacket(q[i])
<1>1. pos[s] \in 0..MaxPos /\ MaxPos \in Nat
  BY Scales
<1>2. \A i \in 1..m : pos[s] + i - 1 \in 0..MaxPos
  BY <1>1
<1>3. \A i \in 1..m : Packets[s][pos[s] + i - 1] = Packet(s, pos[s] + i - 1)
  BY <1>2 DEF Packets
<1>4. \A i \in 1..m : GoodPacket(Packet(s, pos[s] + i - 1))
  BY <1>2, <1>1, PacketIs
<1> DEFINE q == Datagram(s, m)
<1>5. q = [i \in 1..m |-> Packets[s][pos[s] + i - 1]]
  BY DEF Datagram
<1>6. \A i \in 1..m : q[i] = Packet(s, pos[s] + i - 1) /\ q[i] \in TsPackets /\ GoodPacket(q[i])
  BY <1>3, <1>4, <1>5 DEF GoodPacket
<1>7. q \in Seq(TsPackets) /\ Len(q) = m /\ DOMAIN q = 1..m
  <2>1. DOMAIN q = 1..m
    BY <1>5
  <2>2. q \in [1..m -> TsPackets]
    <3>1. q = [i \in 1..m |-> q[i]]
      BY <1>5
    <3> HIDE DEF q
    <3> QED
      BY <1>6, <3>1
  <2> HIDE DEF q
  <2> QED
    BY <2>1, <2>2
<1> QED
  BY <1>2, <1>6, <1>7

(* Packets have a kind and a counter.                                      *)
LEMMA KindsAre == ASSUME NEW p, GoodPacket(p)
                  PROVE  /\ p \in TsPackets /\ p.kind \in Kinds /\ p.pay \in BOOLEAN
                         /\ p.cc \in 0..(CcSpace - 1) /\ p.pts \in MaybeTime
                         /\ p.pcr \in MaybeTime /\ p.version \in Versions /\ p.version # None
                         /\ p.par \in Pars
<1>1. p \in TsPackets
  BY DEF GoodPacket
<1>2. p.version \in Versions
  BY <1>1 DEF TsPackets
<1>3. p.version # None
  BY <1>2, Scales DEF Versions
<1> QED
  BY <1>1, <1>2, <1>3 DEF TsPackets

(* What the viewer keeps of a packet.                                      *)
LEMMA SeeIs ==
    ASSUME NEW v \in Viewers, NEW p, GoodPacket(p)
    PROVE  /\ See(v, p) \in Viewers
           /\ See(v, p).pat <=> v.pat \/ p.kind = "pat"
           /\ See(v, p).version = IF p.kind = "pmt" /\ v.pat THEN p.version ELSE v.version
           /\ See(v, p).pts = IF v.version # None /\ p.pts # None THEN p.pts ELSE v.pts
           /\ See(v, p).pcr = IF v.version # None /\ p.pcr # None THEN p.pcr ELSE v.pcr
           /\ See(v, p).cc = IF p.pay THEN [v.cc EXCEPT ![p.kind] = p.cc] ELSE v.cc
<1> DEFINE w == IF p.pay THEN [v EXCEPT !.cc[p.kind] = p.cc] ELSE v
<1>1. /\ p.kind \in Kinds /\ p.cc \in Counters /\ p.pts \in MaybeTime /\ p.pcr \in MaybeTime
      /\ p.version \in Versions
      /\ p.kind = "video" => Program[p.src].par \in Pars
      /\ p.pts # None \/ p.pcr # None => p.kind = "video"
  BY KindsAre DEF GoodPacket, Counters, Pars
<1>2. /\ w \in Viewers /\ w.pat = v.pat /\ w.version = v.version /\ w.pts = v.pts
      /\ w.pcr = v.pcr /\ w.par = v.par
      /\ w.cc = IF p.pay THEN [v.cc EXCEPT ![p.kind] = p.cc] ELSE v.cc
  BY <1>1 DEF Viewers
<1>3. CASE p.kind = "pat"
  <2>1. See(v, p) = [w EXCEPT !.pat = TRUE]
    BY <1>3 DEF See
  <2> HIDE DEF w
  <2> QED
    BY <1>1, <1>2, <1>3, <2>1 DEF Viewers
<1>4. CASE p.kind = "pmt" /\ v.pat
  <2>1. See(v, p) = [w EXCEPT !.version = p.version]
    BY <1>4 DEF See
  <2> HIDE DEF w
  <2> QED
    BY <1>1, <1>2, <1>4, <2>1 DEF Viewers
<1>5. CASE p.kind = "video" /\ v.version # None
  <2>1. See(v, p) = [w EXCEPT !.par = Program[p.src].par,
                              !.pts = IF p.pts # None THEN p.pts ELSE @,
                              !.pcr = IF p.pcr # None THEN p.pcr ELSE @]
    BY <1>5 DEF See
  <2> HIDE DEF w
  <2> QED
    BY <1>1, <1>2, <1>5, <2>1 DEF Viewers
<1>6. CASE /\ p.kind # "pat" /\ ~(p.kind = "pmt" /\ v.pat)
           /\ ~(p.kind = "video" /\ v.version # None)
  <2>1. See(v, p) = w
    BY <1>6 DEF See
  <2> HIDE DEF w
  <2> QED
    BY <1>1, <1>2, <1>6, <2>1
<1> QED
  BY <1>3, <1>4, <1>5, <1>6

(* What observeTimestamps keeps.                                           *)
LEMMA ClocksAre ==
    ASSUME NEW c \in Clocks, NEW p, GoodPacket(p)
    PROVE  /\ ObserveTimestamps(c, p) \in Clocks
           /\ ObserveTimestamps(c, p).pts = IF p.pts # None THEN p.pts ELSE c.pts
           /\ ObserveTimestamps(c, p).pcr = IF p.pcr # None THEN p.pcr ELSE c.pcr
<1>1. p.pts \in MaybeTime /\ p.pcr \in MaybeTime /\ 1..MaxStep \subseteq 0..MaxStep
  BY KindsAre, Scales
<1> DEFINE o == ObserveTimestamps(c, p)
           delta == ClockPlus(p.pts, -c.pts)
<1>2. o = [pts  |-> IF p.pts # None THEN p.pts ELSE c.pts,
           step |-> IF p.pts # None /\ c.pts # None /\ delta \in 1..MaxStep
                    THEN delta ELSE c.step,
           pcr  |-> IF p.pcr # None THEN p.pcr ELSE c.pcr]
  BY DEF ObserveTimestamps
<1> HIDE DEF delta, o
<1>3. o \in Clocks
  BY <1>1, <1>2 DEF Clocks
<1> QED
  BY <1>2, <1>3 DEF o

(* The counter a packet goes out with.                                     *)
LEMMA NextCCIs ==
    ASSUME NEW cc \in [Kinds -> Counters], NEW p, GoodPacket(p)
    PROVE  /\ NextCC(cc, p) \in 0..(CcSpace - 1)
           /\ cc[p.kind] # None => NextCC(cc, p) = IF p.pay THEN (cc[p.kind] + 1) % CcSpace
                                                   ELSE cc[p.kind]
<1>1. p.kind \in Kinds /\ p.cc \in 0..(CcSpace - 1) /\ cc[p.kind] \in Counters
  BY KindsAre
<1>2. CASE cc[p.kind] = None
  BY <1>1, <1>2 DEF NextCC
<1>3. CASE cc[p.kind] # None /\ p.pay
  <2>1. cc[p.kind] \in 0..(CcSpace - 1)
    BY <1>1, <1>3 DEF Counters
  <2>2. (cc[p.kind] + 1) % CcSpace \in 0..(CcSpace - 1)
    BY <2>1, Scales
  <2> QED
    BY <1>3, <2>2 DEF NextCC
<1>4. CASE cc[p.kind] # None /\ ~p.pay
  BY <1>1, <1>4 DEF NextCC, Counters
<1> QED
  BY <1>2, <1>3, <1>4

Stages == [tr : Transforms, tables : TableSets, cc : [Kinds -> Counters],
           clock : Clocks, out : Seq(TsPackets)]

(* Payload packets of a PID among the first n that went out.               *)
PayCount(o, n, k) == Cardinality({j \in 1..n : PayloadOf(o[j], k)})
Counted(v, k, n) == (v.cc[k] + n) % CcSpace

(* What went out goes on where the viewer's counters were.                 *)
CountersGoOn(o, v) ==
    \A i \in DOMAIN o : PayloadOf(o[i], o[i].kind) /\ v.cc[o[i].kind] # None =>
        o[i].cc = Counted(v, o[i].kind, PayCount(o, i - 1, o[i].kind) + 1)

(* A stage of rewriting whose output the viewer v is about to see.         *)
Rewritten(st, v) ==
    /\ st \in Stages /\ GoodTables(st.tables) /\ st.tables.level = "full"
    /\ \A i \in DOMAIN st.out : GoodPacket(st.out[i])
    /\ Seen(v, st.out) \in Viewers
    /\ Agree(Seen(v, st.out), st.tables, st.clock, st.cc)
    /\ \A k \in Kinds : v.cc[k] # None =>
         st.cc[k] = Counted(v, k, PayCount(st.out, Len(st.out), k))
    /\ CountersGoOn(st.out, v)

(* Counting one packet more.                                               *)
LEMMA CountOfOneMore ==
    ASSUME NEW o, NEW n \in Nat, NEW k
    PROVE  /\ PayCount(o, n, k) \in Nat
           /\ PayCount(o, n + 1, k) = PayCount(o, n, k) + (IF PayloadOf(o[n + 1], k) THEN 1 ELSE 0)
<1> DEFINE A == {j \in 1..n : PayloadOf(o[j], k)}
           B == {j \in 1..(n + 1) : PayloadOf(o[j], k)}
<1>1. IsFiniteSet(A)
  <2>1. IsFiniteSet(1..n)
    BY FS_Interval
  <2> QED
    BY <2>1, FS_Subset
<1>2. n + 1 \notin A
  OBVIOUS
<1>3. B = IF PayloadOf(o[n + 1], k) THEN A \cup {n + 1} ELSE A
  <2>1. 1..(n + 1) = (1..n) \cup {n + 1}
    OBVIOUS
  <2> QED
    BY <2>1
<1>4. Cardinality(A) \in Nat /\ Cardinality(A \cup {n + 1}) = Cardinality(A) + 1
  <2> HIDE DEF A
  <2> QED
    BY <1>1, <1>2, FS_AddElement, FS_CardinalityType
<1> QED
  BY <1>3, <1>4 DEF PayCount

(* Counting does not look behind the n-th.                                 *)
LEMMA CountOfSame ==
    ASSUME NEW o, NEW q, NEW n \in Nat, \A j \in 1..n : q[j] = o[j], NEW k
    PROVE  PayCount(q, n, k) = PayCount(o, n, k)
<1>1. {j \in 1..n : PayloadOf(q[j], k)} = {j \in 1..n : PayloadOf(o[j], k)}
  OBVIOUS
<1> QED
  BY <1>1 DEF PayCount

(* Quotient and remainder.                                                 *)
LEMMA DivMod == ASSUME NEW S \in Nat \ {0}, NEW x \in Int
                PROVE  /\ x \div S \in Int /\ x % S \in 0..(S - 1)
                       /\ x = S * (x \div S) + (x % S)
OBVIOUS

(* Multiples do not count.                                                 *)
LEMMA ModOfMultiple == ASSUME NEW S \in Nat \ {0}, NEW q \in Int, NEW r \in 0..(S - 1)
                       PROVE  (S * q + r) % S = r
OBVIOUS

(* The same of any number.                                                 *)
LEMMA ModShift == ASSUME NEW S \in Nat \ {0}, NEW q \in Int, NEW r \in Int
                  PROVE  (S * q + r) % S = r % S
<1>1. /\ r \div S \in Int /\ r = S * (r \div S) + (r % S) /\ r % S \in 0..(S - 1)
  BY DivMod
<1>2. S * q + r = S * (q + r \div S) + (r % S)
  BY <1>1
<1>3. q + r \div S \in Int
  BY <1>1
<1> QED
  BY <1>1, <1>2, <1>3, ModOfMultiple

(* A remainder may be taken first.                                         *)
LEMMA ModAdd == ASSUME NEW S \in Nat \ {0}, NEW x \in Int, NEW k \in Int
                PROVE  ((x % S) + k) % S = (x + k) % S
<1>1. /\ x \div S \in Int /\ x = S * (x \div S) + (x % S) /\ x % S \in 0..(S - 1)
  BY DivMod
<1>2. x + k = S * (x \div S) + ((x % S) + k) /\ (x % S) + k \in Int
  BY <1>1
<1> QED
  BY <1>1, <1>2, ModShift

(* One more packet goes out: the viewer still agrees with the switcher.    *)
LEMMA EmitStep ==
    ASSUME NEW v \in Viewers, NEW st, Rewritten(st, v), NEW p, GoodPacket(p)
    PROVE  LET e == Emit(st, p)
               q == [p EXCEPT !.cc = NextCC(st.cc, p)]
           IN  /\ Rewritten(e, v)
               /\ GoodPacket(q) /\ e.out = Append(st.out, q)
               /\ e.tr = st.tr /\ e.tables = st.tables
<1> DEFINE c == NextCC(st.cc, p)
           q == [p EXCEPT !.cc = c]
           o == st.out
           n == Len(o)
           e == Emit(st, p)
           w == Seen(v, o)
           k == p.kind
<1>1. /\ st \in Stages /\ st.tr \in Transforms /\ st.tables \in TableSets
      /\ st.cc \in [Kinds -> Counters] /\ st.clock \in Clocks /\ o \in Seq(TsPackets)
      /\ GoodTables(st.tables) /\ st.tables.level = "full"
  BY DEF Rewritten, Stages
<1>2. c \in 0..(CcSpace - 1) /\ c \in Counters /\ k \in Kinds /\ c # None
  <2>1. c \in 0..(CcSpace - 1)
    BY <1>1, NextCCIs
  <2> HIDE DEF c
  <2> QED
    BY <2>1, KindsAre, Scales DEF Counters
<1>3. GoodPacket(q) /\ q.kind = k /\ q.pay = p.pay /\ q.cc = c /\ q.pts = p.pts /\ q.pcr = p.pcr
  <2>1. p \in TsPackets
    BY DEF GoodPacket
  <2> HIDE DEF c
  <2>2. q \in TsPackets
    BY <1>2, <2>1 DEF TsPackets
  <2>3. q.kind = k /\ q.pay = p.pay /\ q.cc = c /\ q.pts = p.pts /\ q.pcr = p.pcr /\ q.src = p.src
    BY <2>1 DEF TsPackets
  <2> HIDE DEF q
  <2> QED
    BY <2>2, <2>3 DEF GoodPacket
<1>4. e = [st EXCEPT !.cc[k] = c, !.clock = ObserveTimestamps(@, p), !.out = Append(@, q)]
  BY DEF Emit
<1> HIDE DEF c, q, e
<1>5. /\ e.tr = st.tr /\ e.tables = st.tables /\ e.cc = [st.cc EXCEPT ![k] = c]
      /\ e.clock = ObserveTimestamps(st.clock, p) /\ e.out = Append(o, q)
      /\ e \in Stages
  <2>1. ObserveTimestamps(st.clock, p) \in Clocks
    BY <1>1, ClocksAre
  <2>2. Append(o, q) \in Seq(TsPackets)
    BY <1>1, <1>3 DEF GoodPacket
  <2> QED
    BY <1>1, <1>2, <1>4, <2>1, <2>2 DEF Stages
<1>6. /\ n \in Nat /\ DOMAIN o = 1..n /\ Len(e.out) = n + 1 /\ DOMAIN e.out = 1..(n + 1)
      /\ e.out[n + 1] = q /\ \A i \in 1..n : e.out[i] = o[i]
  BY <1>1, <1>3, <1>5 DEF GoodPacket
<1>7. \A i \in DOMAIN e.out : GoodPacket(e.out[i])
  <2>1. \A i \in 1..n : GoodPacket(o[i])
    BY <1>6 DEF Rewritten
  <2> HIDE DEF n
  <2> QED
    BY <1>3, <1>6, <2>1
<1>8. w \in Viewers /\ Agree(w, st.tables, st.clock, st.cc)
  BY DEF Rewritten
<1>9. Seen(v, e.out) = See(w, q)
  <2>1. o \in Seq(TsPackets) /\ q \in TsPackets /\ e.out = Append(o, q)
    BY <1>1, <1>3, <1>5 DEF GoodPacket
  <2>2. Seen(v, Append(o, q)) = See(Seen(v, o), q)
    <3> HIDE DEF o
    <3> QED
      BY <2>1, SeeAppend
  <2> QED
    BY <2>1, <2>2
<1> HIDE DEF w, o
<1>10. See(w, q) \in Viewers /\ Agree(See(w, q), e.tables, e.clock, e.cc)
  <2>1. /\ w.pat /\ w.version # None /\ w.pts = st.clock.pts /\ w.pcr = st.clock.pcr
        /\ w.cc \in [Kinds -> Counters]
    BY <1>1, <1>8 DEF Agree, Viewers
  <2>2. q.version # None
    BY <1>3, KindsAre
  <2>3. /\ See(w, q) \in Viewers
        /\ See(w, q).pat /\ See(w, q).version # None
        /\ See(w, q).pts = (IF q.pts # None THEN q.pts ELSE w.pts)
        /\ See(w, q).pcr = (IF q.pcr # None THEN q.pcr ELSE w.pcr)
        /\ See(w, q).cc = (IF q.pay THEN [w.cc EXCEPT ![k] = c] ELSE w.cc)
    <3>1. /\ See(w, q) \in Viewers
          /\ See(w, q).pat <=> w.pat \/ q.kind = "pat"
          /\ See(w, q).version = IF q.kind = "pmt" /\ w.pat THEN q.version ELSE w.version
          /\ See(w, q).pts = IF w.version # None /\ q.pts # None THEN q.pts ELSE w.pts
          /\ See(w, q).pcr = IF w.version # None /\ q.pcr # None THEN q.pcr ELSE w.pcr
          /\ See(w, q).cc = IF q.pay THEN [w.cc EXCEPT ![q.kind] = q.cc] ELSE w.cc
      BY <1>3, <1>8, SeeIs
    <3> QED
      BY <1>3, <2>1, <2>2, <3>1
  <2>4. /\ e.clock.pts = (IF p.pts # None THEN p.pts ELSE st.clock.pts)
        /\ e.clock.pcr = (IF p.pcr # None THEN p.pcr ELSE st.clock.pcr)
    BY <1>1, <1>5, ClocksAre
  <2>5. ASSUME NEW j \in Kinds, See(w, q).cc[j] # None PROVE e.cc[j] = See(w, q).cc[j]
    <3>1. w.cc[j] # None => st.cc[j] = w.cc[j]
      BY <1>8 DEF Agree
    <3>2. CASE j = k /\ q.pay
      BY <1>1, <1>2, <1>5, <2>1, <2>3, <3>2
    <3>3. CASE j = k /\ ~q.pay
      <4>1. w.cc[k] # None /\ st.cc[k] = w.cc[k] /\ See(w, q).cc[j] = w.cc[k]
        BY <2>3, <2>5, <3>1, <3>3
      <4>2. c = st.cc[k]
        BY <1>1, <1>3, <3>3, <4>1, NextCCIs DEF c
      <4> QED
        BY <1>1, <1>2, <1>5, <3>3, <4>1, <4>2
    <3>4. CASE j # k
      BY <1>1, <1>2, <1>5, <2>1, <2>3, <2>5, <3>1, <3>4
    <3> QED
      BY <3>2, <3>3, <3>4
  <2> QED
    BY <1>1, <1>3, <1>5, <2>1, <2>3, <2>4, <2>5 DEF Agree
<1>11. ASSUME NEW j \in Kinds
       PROVE  PayCount(e.out, n + 1, j)
                = PayCount(o, n, j) + (IF PayloadOf(q, j) THEN 1 ELSE 0)
              /\ PayCount(o, n, j) \in Nat
  <2>1. PayCount(e.out, n, j) = PayCount(o, n, j)
    <3> HIDE DEF n
    <3> QED
      BY <1>6, CountOfSame
  <2>2. n \in Nat /\ e.out[n + 1] = q
    BY <1>6
  <2> HIDE DEF n
  <2>3. /\ PayCount(e.out, n, j) \in Nat
        /\ PayCount(e.out, n + 1, j)
             = PayCount(e.out, n, j) + (IF PayloadOf(e.out[n + 1], j) THEN 1 ELSE 0)
    BY <2>2, CountOfOneMore
  <2> QED
    BY <2>1, <2>2, <2>3
<1>12. ASSUME NEW j \in Kinds, v.cc[j] # None
       PROVE  /\ e.cc[j] = Counted(v, j, PayCount(e.out, n + 1, j))
              /\ PayloadOf(q, j) => q.cc = Counted(v, j, PayCount(o, n, j) + 1)
  <2>1. st.cc[j] = Counted(v, j, PayCount(o, n, j))
    BY <1>12 DEF Rewritten, o
  <2>2. v.cc[j] \in Int /\ PayCount(o, n, j) \in Int
    BY <1>11, <1>12 DEF Viewers, Counters
  <2>3. st.cc[j] \in 0..(CcSpace - 1) /\ st.cc[j] # None
    <3>1. v.cc[j] + PayCount(o, n, j) \in Int
      BY <2>2
    <3>2. (v.cc[j] + PayCount(o, n, j)) % CcSpace \in 0..(CcSpace - 1)
      BY <3>1, Scales
    <3> QED
      BY <2>1, <3>2, Scales DEF Counted
  <2>4. CASE PayloadOf(q, j)
    <3>1. j = k /\ p.pay /\ c = (st.cc[j] + 1) % CcSpace
      BY <1>1, <1>3, <2>3, <2>4, NextCCIs DEF PayloadOf, c
    <3>2. (st.cc[j] + 1) % CcSpace = ((v.cc[j] + PayCount(o, n, j)) + 1) % CcSpace
      <4> DEFINE x == v.cc[j] + PayCount(o, n, j)
      <4>1. x \in Int /\ 1 \in Int /\ st.cc[j] = x % CcSpace
        BY <2>1, <2>2 DEF Counted
      <4> HIDE DEF x
      <4>2. ((x % CcSpace) + 1) % CcSpace = (x + 1) % CcSpace
        BY <4>1, ModAdd, Scales
      <4> QED
        BY <4>1, <4>2 DEF x
    <3>3. (v.cc[j] + PayCount(o, n, j)) + 1 = v.cc[j] + (PayCount(o, n, j) + 1)
      BY <2>2
    <3>4. c = Counted(v, j, PayCount(o, n, j) + 1)
      BY <3>1, <3>2, <3>3 DEF Counted
    <3> QED
      BY <1>1, <1>2, <1>3, <1>5, <1>11, <2>4, <3>1, <3>4
  <2>5. CASE ~PayloadOf(q, j)
    <3>1. e.cc[j] = st.cc[j]
      <4>1. CASE j = k
        BY <1>1, <1>3, <1>5, <2>3, <2>5, <4>1, NextCCIs DEF PayloadOf, c
      <4>2. CASE j # k
        BY <1>1, <1>5, <4>2
      <4> QED
        BY <4>1, <4>2
    <3>2. PayCount(e.out, n + 1, j) = PayCount(o, n, j)
      BY <1>11, <2>5
    <3> QED
      BY <2>1, <2>5, <3>1, <3>2
  <2> QED
    BY <2>4, <2>5
<1>13. CountersGoOn(e.out, v)
  <2> SUFFICES ASSUME NEW i \in 1..(n + 1), PayloadOf(e.out[i], e.out[i].kind),
                      v.cc[e.out[i].kind] # None
               PROVE  e.out[i].cc = Counted(v, e.out[i].kind,
                                            PayCount(e.out, i - 1, e.out[i].kind) + 1)
    BY <1>6 DEF CountersGoOn
  <2> DEFINE j == e.out[i].kind
  <2>1. PayCount(e.out, i - 1, j) = PayCount(o, i - 1, j)
    <3>1. i - 1 \in Nat /\ \A x \in 1..(i - 1) : e.out[x] = o[x]
      <4> HIDE DEF n
      <4> QED
        BY <1>6
    <3> DEFINE m == i - 1
    <3>2. m \in Nat /\ \A x \in 1..m : e.out[x] = o[x]
      BY <3>1
    <3> HIDE DEF m, j, n
    <3>3. PayCount(e.out, m, j) = PayCount(o, m, j)
      BY <3>2, CountOfSame
    <3> QED
      BY <3>3 DEF m
  <2>2. CASE i \in 1..n
    <3>1. e.out[i] = o[i]
      BY <1>6, <2>2
    <3>2. o[i].cc = Counted(v, o[i].kind, PayCount(o, i - 1, o[i].kind) + 1)
      BY <1>6, <2>2, <3>1 DEF Rewritten, CountersGoOn, o
    <3> QED
      BY <2>1, <3>1, <3>2
  <2>3. CASE i = n + 1
    <3>1. e.out[i] = q /\ j = k /\ i - 1 = n
      BY <1>3, <1>6, <2>3
    <3> QED
      BY <1>2, <1>12, <2>1, <3>1
  <2> QED
    <3> HIDE DEF n
    <3> QED
      BY <1>6, <2>2, <2>3
<1>14. Rewritten(e, v)
  BY <1>1, <1>5, <1>6, <1>7, <1>9, <1>10, <1>12, <1>13 DEF Rewritten
<1> QED
  BY <1>3, <1>5, <1>14 DEF e, q, c, o

-----------------------------------------------------------------------------
(***************************************************************************)
(* Rewriting                                                               *)
(***************************************************************************)
(* What a stage is when its transform alone changes.                       *)
LEMMA RetunedStep ==
    ASSUME NEW v \in Viewers, NEW st, Rewritten(st, v), NEW t \in Transforms
    PROVE  LET s == [st EXCEPT !.tr = t] IN
           /\ Rewritten(s, v) /\ s.tr = t /\ s.tables = st.tables /\ s.cc = st.cc
           /\ s.clock = st.clock /\ s.out = st.out
<1> DEFINE s == [st EXCEPT !.tr = t]
<1>1. st \in Stages
  BY DEF Rewritten
<1>2. /\ s \in Stages /\ s.tr = t /\ s.tables = st.tables /\ s.cc = st.cc
      /\ s.clock = st.clock /\ s.out = st.out
  BY <1>1 DEF Stages
<1> HIDE DEF s
<1> QED
  BY <1>2 DEF Rewritten, s

(* A shifted time stamp is one.                                            *)
LEMMA ShiftIs == ASSUME NEW t \in MaybeTime, NEW d \in Int
                 PROVE  Shift(t, d) \in MaybeTime /\ (Shift(t, d) # None <=> t # None)
<1>1. CASE t = None
  BY <1>1 DEF Shift, MaybeTime
<1>2. CASE t # None
  <2>1. t \in Int
    BY <1>2 DEF MaybeTime, Times
  <2>2. ClockPlus(t, d) \in Times
    BY <2>1, ClockPlusIs
  <2>3. ClockPlus(t, d) # None
    BY <2>2, Scales DEF Times
  <2> QED
    BY <1>2, <2>2, <2>3 DEF Shift, MaybeTime
<1> QED
  BY <1>1, <1>2

(* The tables the switcher builds.                                         *)
LEMMA TableIs ==
    ASSUME NEW t, GoodTables(t), t.level = "full", NEW k \in {"pat", "pmt"}
    PROVE  LET p == Table(k, t) IN
           GoodPacket(p) /\ p.kind = k /\ p.pts = None /\ p.pcr = None
<1> DEFINE p == Table(k, t)
<1>1. t.pat \in Versions /\ t.pmt \in Versions
  BY DEF GoodTables, TableSets
<1>2. p = [src |-> None, n |-> 0, kind |-> k, start |-> TRUE, pay |-> TRUE, cc |-> 0,
           pts |-> None, pcr |-> None, par |-> None, idr |-> FALSE, split |-> FALSE,
           version |-> IF k = "pat" THEN t.pat ELSE t.pmt, marked |-> FALSE]
  BY DEF Table
<1>3. 0 \in 0..(CcSpace - 1) /\ 0 \in Nat
  BY Scales
<1> HIDE DEF p
<1>4. p \in TsPackets /\ p.kind = k /\ p.pts = None /\ p.pcr = None
  BY <1>1, <1>2, <1>3 DEF TsPackets, MaybeTime, Pars, Kinds
<1> QED
  BY <1>4 DEF GoodPacket, p

(* What Transform makes of a packet that is not a table's.                 *)
Moved(st, p) == [p EXCEPT !.pts = Shift(@, st.tr.offset90), !.pcr = Shift(@, st.tr.offset90),
                          !.marked = Marks(st.tr, p)]
Retuned(st, p) == [st.tr EXCEPT !.waitAudioPUSI = @ /\ p.kind # "audio",
                                !.markDiscontinuity = @ /\ ~Marks(st.tr, p)]
(* A moved packet stays the same but for its clocks.                       *)
LEMMA MovedIs ==
    ASSUME NEW st \in Stages, NEW p, GoodPacket(p)
    PROVE  LET q == Moved(st, p)
               d == st.tr.offset90 IN
           /\ GoodPacket(q)
           /\ q.src = p.src /\ q.n = p.n /\ q.kind = p.kind /\ q.start = p.start
           /\ q.pay = p.pay /\ q.idr = p.idr
           /\ q.pts = Shift(p.pts, d) /\ q.pcr = Shift(p.pcr, d)
           /\ q.marked = Marks(st.tr, p)
<1> DEFINE q == Moved(st, p)
           d == st.tr.offset90
           a == Shift(p.pts, d)
           b == Shift(p.pcr, d)
           m == Marks(st.tr, p)
<1>1. st.tr \in Transforms /\ d \in Int /\ p \in TsPackets
  BY DEF Stages, Transforms, GoodPacket
<1>2. a \in MaybeTime /\ b \in MaybeTime /\ (a # None <=> p.pts # None) /\ (b # None <=> p.pcr # None)
  <2>1. p.pts \in MaybeTime /\ p.pcr \in MaybeTime
    BY <1>1 DEF TsPackets
  <2> QED
    BY <1>1, <2>1, ShiftIs
<1>3. m \in BOOLEAN
  BY <1>1 DEF Marks, Transforms
<1>4. q = [p EXCEPT !.pts = a, !.pcr = b, !.marked = m]
  BY DEF Moved
<1> HIDE DEF q, d, a, b, m
<1>5. q \in TsPackets
  BY <1>1, <1>2, <1>3, <1>4 DEF TsPackets
<1>6. /\ q.src = p.src /\ q.n = p.n /\ q.kind = p.kind /\ q.start = p.start
      /\ q.pay = p.pay /\ q.idr = p.idr /\ q.pts = a /\ q.pcr = b /\ q.marked = m
  BY <1>1, <1>4 DEF TsPackets
<1> QED
  BY <1>2, <1>5, <1>6 DEF GoodPacket, q, a, b, d, m

(* The transform stays the source's.                                       *)
LEMMA RetunedIs ==
    ASSUME NEW st \in Stages, NEW p, GoodPacket(p)
    PROVE  LET t == Retuned(st, p) IN
           /\ t \in Transforms /\ t.src = st.tr.src /\ t.offset90 = st.tr.offset90
           /\ t.waitAudioPUSI <=> st.tr.waitAudioPUSI /\ p.kind # "audio"
           /\ t.markDiscontinuity <=> st.tr.markDiscontinuity /\ ~Marks(st.tr, p)
<1>1. st.tr \in Transforms
  BY DEF Stages
<1>2. Marks(st.tr, p) \in BOOLEAN
  BY <1>1 DEF Marks, Transforms
<1> QED
  BY <1>1, <1>2 DEF Retuned, Transforms

(* The three things Transform does, and what it keeps.                     *)
Dropped(st, p) == p.kind = "audio" /\ st.tr.waitAudioPUSI /\ ~p.start
Turned(st, p) == IF p.kind \in {"pat", "pmt"} THEN Table(p.kind, st.tables) ELSE Moved(st, p)
Sent(st, p) == [Turned(st, p) EXCEPT !.cc = NextCC(st.cc, Turned(st, p))]

(* What goes out is a packet like the one that came.                       *)
LEMMA SentIs ==
    ASSUME NEW st \in Stages, GoodTables(st.tables), st.tables.level = "full",
           NEW p, GoodPacket(p), NEW q, q = Sent(st, p)
    PROVE  /\ GoodPacket(q) /\ q.kind = p.kind
           /\ p.kind \in {"pat", "pmt"} => q.pts = None /\ q.pcr = None
           /\ p.kind \notin {"pat", "pmt"} =>
                /\ q.src = p.src /\ q.n = p.n /\ q.start = p.start
                /\ q.pay = p.pay /\ q.idr = p.idr
                /\ q.pts = Shift(p.pts, st.tr.offset90) /\ q.pcr = Shift(p.pcr, st.tr.offset90)
                /\ q.marked = Marks(st.tr, p)
<1> DEFINE r == Turned(st, p)
           c == NextCC(st.cc, r)
<1>1. /\ GoodPacket(r) /\ r.kind = p.kind
      /\ p.kind \in {"pat", "pmt"} => r.pts = None /\ r.pcr = None
      /\ p.kind \notin {"pat", "pmt"} =>
           /\ r.src = p.src /\ r.n = p.n /\ r.start = p.start
           /\ r.pay = p.pay /\ r.idr = p.idr
           /\ r.pts = Shift(p.pts, st.tr.offset90) /\ r.pcr = Shift(p.pcr, st.tr.offset90)
           /\ r.marked = Marks(st.tr, p)
  <2>1. CASE p.kind \in {"pat", "pmt"}
    <3>1. r = Table(p.kind, st.tables)
      BY <2>1 DEF Turned
    <3> HIDE DEF r
    <3> QED
      BY <2>1, <3>1, TableIs
  <2>2. CASE p.kind \notin {"pat", "pmt"}
    <3>1. r = Moved(st, p)
      BY <2>2 DEF Turned
    <3> HIDE DEF r
    <3> QED
      BY <2>2, <3>1, MovedIs
  <2> QED
    BY <2>1, <2>2
<1>2. c \in 0..(CcSpace - 1)
  <2>1. st.cc \in [Kinds -> Counters]
    BY DEF Stages
  <2> HIDE DEF r
  <2> QED
    BY <1>1, <2>1, NextCCIs
<1>3. q = [r EXCEPT !.cc = c]
  BY DEF Sent
<1> HIDE DEF r, c
<1>4. r \in TsPackets
  BY <1>1 DEF GoodPacket
<1>5. q \in TsPackets
  BY <1>2, <1>3, <1>4 DEF TsPackets
<1>6. /\ q.src = r.src /\ q.n = r.n /\ q.kind = r.kind /\ q.start = r.start /\ q.pay = r.pay
      /\ q.idr = r.idr /\ q.pts = r.pts /\ q.pcr = r.pcr /\ q.marked = r.marked
  BY <1>3, <1>4 DEF TsPackets
<1>7. GoodPacket(q)
  BY <1>1, <1>5, <1>6 DEF GoodPacket
<1> QED
  BY <1>1, <1>6, <1>7

(* A packet is dropped or goes on where the counters were.                 *)
LEMMA TransformStep ==
    ASSUME NEW v \in Viewers, NEW st, Rewritten(st, v), NEW p, GoodPacket(p),
           NEW e, e = Transform(st, p)
    PROVE  /\ Rewritten(e, v) /\ e.tables = st.tables
           /\ Dropped(st, p) => e = st
           /\ ~Dropped(st, p) => e.out = Append(st.out, Sent(st, p))
           /\ p.kind \in {"pat", "pmt"} => e.tr = st.tr
           /\ p.kind \notin {"pat", "pmt"} /\ ~Dropped(st, p) => e.tr = Retuned(st, p)
<1>1. st \in Stages /\ GoodTables(st.tables) /\ st.tables.level = "full"
  BY DEF Rewritten
<1>2. CASE p.kind \in {"pat", "pmt"}
  <2> DEFINE r == Table(p.kind, st.tables)
  <2>1. e = Emit(st, r) /\ Turned(st, p) = r
    BY <1>2 DEF Transform, Turned
  <2>2. GoodPacket(r)
    BY <1>1, <1>2, TableIs
  <2> HIDE DEF r
  <2> DEFINE q == [r EXCEPT !.cc = NextCC(st.cc, r)]
  <2>3. Rewritten(e, v) /\ e.out = Append(st.out, q) /\ e.tr = st.tr /\ e.tables = st.tables
    BY <2>1, <2>2, EmitStep
  <2>4. q = Sent(st, p)
    BY <2>1 DEF Sent
  <2>5. ~Dropped(st, p)
    BY <1>2 DEF Dropped
  <2> HIDE DEF q
  <2> QED
    BY <1>2, <2>3, <2>4, <2>5
<1>3. CASE Dropped(st, p)
  <2>1. e = st
    BY <1>3 DEF Transform, Dropped
  <2>2. p.kind \notin {"pat", "pmt"}
    BY <1>3 DEF Dropped
  <2> QED
    BY <1>3, <2>1, <2>2
<1>4. CASE p.kind \notin {"pat", "pmt"} /\ ~Dropped(st, p)
  <2> DEFINE s == [st EXCEPT !.tr = Retuned(st, p)]
             r == Moved(st, p)
  <2>1. e = Emit(s, r) /\ Turned(st, p) = r
    <3>1. [st EXCEPT !.tr.waitAudioPUSI = @ /\ p.kind # "audio",
                     !.tr.markDiscontinuity = @ /\ ~Marks(st.tr, p)] = s
      BY <1>1 DEF Stages, Transforms, Retuned
    <3> HIDE DEF s
    <3> QED
      BY <1>4, <3>1 DEF Transform, Dropped, Moved, Turned
  <2>2. Rewritten(s, v) /\ s.tr = Retuned(st, p) /\ s.tables = st.tables /\ s.cc = st.cc /\ s.out = st.out
    BY <1>1, RetunedIs, RetunedStep
  <2>3. GoodPacket(r)
    BY <1>1, MovedIs
  <2> HIDE DEF s, r
  <2>4. /\ Rewritten(e, v) /\ e.out = Append(s.out, [r EXCEPT !.cc = NextCC(s.cc, r)])
        /\ e.tr = s.tr /\ e.tables = s.tables
    BY <2>1, <2>2, <2>3, EmitStep
  <2>5. [r EXCEPT !.cc = NextCC(s.cc, r)] = Sent(st, p)
    BY <2>1, <2>2 DEF Sent
  <2> QED
    BY <1>4, <2>2, <2>4, <2>5
<1> QED
  BY <1>2, <1>3, <1>4

(* Nothing sent, nothing seen.                                             *)
LEMMA SeenNone == ASSUME NEW v PROVE Seen(v, <<>>) = v
<1>1. Len(<<>>) \in Nat /\ DOMAIN <<>> = 1..Len(<<>>) /\ Len(<<>>) = 0
  OBVIOUS
<1>2. PICK g : Runs(g, "see", v, <<>>) /\ g[Len(<<>>)] = Seen(v, <<>>)
  BY <1>1, SeeRuns
<1> QED
  BY <1>1, <1>2 DEF Runs

(* Rewriting begins where the viewer is.                                   *)
LEMMA StageIs ==
    ASSUME Fields, tables.level = "full", NEW tr \in Transforms,
           NEW t, GoodTables(t), t.level = "full"
    PROVE  /\ Rewritten(Stage(tr, t), viewer)
           /\ Stage(tr, t).tr = tr /\ Stage(tr, t).tables = t /\ Stage(tr, t).out = <<>>
<1> DEFINE s == Stage(tr, t)
<1>1. /\ s = [tr |-> tr, tables |-> t, cc |-> lastCC, clock |-> clock, out |-> <<>>]
      /\ t \in TableSets
  BY DEF Stage, GoodTables
<1> HIDE DEF s
<1>2. s \in Stages
  BY <1>1 DEF Stages, Fields
<1>3. viewer \in Viewers /\ Agree(viewer, tables, clock, lastCC)
  BY DEF Fields
<1>4. s.tr = tr /\ s.tables = t /\ s.cc = lastCC /\ s.clock = clock /\ s.out = <<>>
  BY <1>1
<1>5. Seen(viewer, s.out) = viewer
  BY <1>4, SeenNone
<1>6. Agree(viewer, s.tables, s.clock, s.cc)
  BY <1>3, <1>4 DEF Agree
<1>7. Len(s.out) = 0 /\ DOMAIN s.out = {}
  BY <1>4
<1>8. ASSUME NEW k \in Kinds, viewer.cc[k] # None
      PROVE  s.cc[k] = Counted(viewer, k, PayCount(s.out, Len(s.out), k))
  <2>1. PayCount(s.out, Len(s.out), k) = 0
    <3>1. {i \in 1..0 : PayloadOf(s.out[i], k)} = {}
      OBVIOUS
    <3> QED
      BY <1>7, <3>1, FS_EmptySet DEF PayCount
  <2>2. viewer.cc[k] \in 0..(CcSpace - 1)
    BY <1>3, <1>8 DEF Viewers, Counters
  <2>3. (viewer.cc[k] + 0) % CcSpace = viewer.cc[k]
    BY <2>2, Scales
  <2> QED
    BY <1>3, <1>4, <1>8, <2>1, <2>3 DEF Agree, Counted
<1>9. CountersGoOn(s.out, viewer) /\ \A i \in DOMAIN s.out : GoodPacket(s.out[i])
  BY <1>7 DEF CountersGoOn
<1> QED
  BY <1>2, <1>3, <1>4, <1>5, <1>6, <1>8, <1>9 DEF Rewritten, s

(* A call's packets, rewritten one by one.                                 *)
LEMMA TransformedIs ==
    ASSUME NEW v \in Viewers, NEW st, Rewritten(st, v), NEW q \in Seq(TsPackets),
           \A i \in DOMAIN q : GoodPacket(q[i])
    PROVE  LET e == Transformed(st, q) IN
           Rewritten(e, v) /\ e.tables = st.tables /\ e.tr.src = st.tr.src
<1>1. Len(q) \in Nat /\ DOMAIN q = 1..Len(q)
  OBVIOUS
<1>2. PICK g : Runs(g, "transform", st, q) /\ g[Len(q)] = Transformed(st, q)
  BY <1>1, TransformRuns
<1> DEFINE OK(e) == Rewritten(e, v) /\ e.tables = st.tables /\ e.tr.src = st.tr.src
           n == Len(q)
           G == {i \in 0..n : OK(g[i])}
<1>3. 0 \in G
  BY <1>1, <1>2 DEF Runs
<1>4. ASSUME NEW i \in 1..n, i - 1 \in G PROVE i \in G
  <2>1. g[i] = Transform(g[i - 1], q[i]) /\ GoodPacket(q[i]) /\ OK(g[i - 1])
    BY <1>1, <1>2, <1>4 DEF Runs, FoldStep
  <2> DEFINE s == g[i - 1]
             p == q[i]
             e == Transform(s, p)
  <2>2. /\ Rewritten(e, v) /\ e.tables = s.tables
        /\ p.kind \in {"pat", "pmt"} => e.tr = s.tr
        /\ Dropped(s, p) => e = s
        /\ p.kind \notin {"pat", "pmt"} /\ ~Dropped(s, p) => e.tr = Retuned(s, p)
    <3>1. Rewritten(s, v) /\ GoodPacket(p) /\ e = Transform(s, p)
      BY <2>1
    <3> HIDE DEF s, p, e
    <3> QED
      BY <3>1, TransformStep
  <2>3. Retuned(s, p).src = s.tr.src
    <3>1. s \in Stages
      BY <2>1 DEF Rewritten
    <3> HIDE DEF s, p
    <3> QED
      BY <2>1, <3>1, RetunedIs DEF p, s
  <2>4. OK(e)
    <3> HIDE DEF s, p, e
    <3> QED
      BY <2>1, <2>2, <2>3 DEF s
  <2>5. i \in 0..n /\ g[i] = e
    BY <2>1
  <2> HIDE DEF OK, e
  <2> QED
    BY <2>4, <2>5
<1>5. n \in G
  <2>1. \A i \in 0..n : i \in G
    <3> HIDE DEF G
    <3>1. n \in Nat
      BY <1>1
    <3> QED
      BY <1>3, <1>4, <3>1, UpInduction
  <2>2. n \in 0..n
    BY <1>1
  <2> HIDE DEF G
  <2> QED
    BY <2>1, <2>2
<1> QED
  BY <1>2, <1>5

(* The program stays known when its parameters change.                     *)
LEMMA NewTablesAre ==
    ASSUME GoodTables(tables), tables.level = "full", NEW c, c.par \in Pars
    PROVE  GoodTables(NewTables(c)) /\ NewTables(c).level = "full"
<1> DEFINE w == (tables.version + 1) % 32
<1>1. w \in Versions /\ w # None
  <2>1. tables.version \in Int
    BY DEF GoodTables, TableSets, Versions
  <2>2. w \in 0..31
    BY <2>1
  <2> QED
    BY <2>2, Scales DEF Versions
<1> DEFINE t == [tables EXCEPT !.par = c.par, !.version = w, !.pat = w, !.pmt = w]
<1>2. NewTables(c) = tables \/ NewTables(c) = t
  BY DEF NewTables
<1> HIDE DEF w
<1>3. GoodTables(t) /\ t.level = "full"
  BY <1>1 DEF GoodTables, TableSets
<1> HIDE DEF t
<1> QED
  BY <1>2, <1>3

(* The program's own PAT and PMT come first.                               *)
LEMMA PrefixedIs ==
    ASSUME Fields, tables.level = "full", clock.pts # None, NEW c \in Candidates, c.pts # None
    PROVE  LET s == Prefixed(c) IN
           /\ Rewritten(s, viewer) /\ s.tables = NewTables(c) /\ s.tr.src = c.src
           /\ s.tr.offset90 = Offset(c) /\ Offset(c) \in Int
           /\ s.tr.waitAudioPUSI /\ s.tr.markDiscontinuity
           /\ Len(s.out) = 2 /\ s.out[1].kind = "pat" /\ s.out[2].kind = "pmt"
           /\ \A i \in 1..2 : s.out[i].pts = None /\ s.out[i].pcr = None
<1> DEFINE t == NewTables(c)
           tr == [src |-> c.src, offset90 |-> Offset(c),
                  waitAudioPUSI |-> TRUE, markDiscontinuity |-> TRUE]
           s0 == Stage(tr, t)
           a == Table("pat", t)
           b == Table("pmt", t)
           s1 == Emit(s0, a)
           s2 == Emit(s1, b)
<1>1. GoodTables(t) /\ t.level = "full"
  BY NewTablesAre DEF Fields, Candidates
<1>2. Offset(c) \in Int
  <2>1. clock.pts \in Int /\ c.pts \in Int
    BY DEF Fields, Clocks, Candidates, MaybeTime, Times
  <2>2. Step \in Int
    BY Scales DEF Step
  <2>3. ClockPlus(clock.pts, Step) \in Int
    <3>1. ClockPlus(clock.pts, Step) \in Times
      BY <2>1, <2>2, ClockPlusIs
    <3> QED
      BY <3>1 DEF Times
  <2> QED
    BY <2>1, <2>3 DEF Offset
<1>3. /\ tr \in Transforms /\ tr.src = c.src /\ tr.offset90 = Offset(c)
      /\ tr.waitAudioPUSI /\ tr.markDiscontinuity
  BY <1>2 DEF Transforms, Candidates
<1>4. Prefixed(c) = s2
  BY DEF Prefixed
<1> HIDE DEF t, tr
<1>5. Rewritten(s0, viewer) /\ s0.tr = tr /\ s0.tables = t /\ s0.out = <<>>
  BY <1>1, <1>3, StageIs
<1>6. /\ GoodPacket(a) /\ a.kind = "pat" /\ a.pts = None /\ a.pcr = None
      /\ GoodPacket(b) /\ b.kind = "pmt" /\ b.pts = None /\ b.pcr = None
  BY <1>1, TableIs
<1> HIDE DEF s0, a, b
<1>7. viewer \in Viewers
  BY DEF Fields
<1>8. PICK x : /\ x = [a EXCEPT !.cc = NextCC(s0.cc, a)]
               /\ Rewritten(s1, viewer) /\ GoodPacket(x) /\ s1.out = Append(s0.out, x)
               /\ s1.tr = s0.tr /\ s1.tables = s0.tables
  BY <1>5, <1>6, <1>7, EmitStep
<1> HIDE DEF s1
<1>9. PICK y : /\ y = [b EXCEPT !.cc = NextCC(s1.cc, b)]
               /\ Rewritten(s2, viewer) /\ GoodPacket(y) /\ s2.out = Append(s1.out, y)
               /\ s2.tr = s1.tr /\ s2.tables = s1.tables
  BY <1>6, <1>7, <1>8, EmitStep
<1> HIDE DEF s2
<1>10. /\ x.kind = "pat" /\ x.pts = None /\ x.pcr = None
       /\ y.kind = "pmt" /\ y.pts = None /\ y.pcr = None
  BY <1>6, <1>8, <1>9 DEF GoodPacket, TsPackets
<1>11. s1.out \in Seq(TsPackets) /\ Len(s1.out) = 1 /\ s1.out[1] = x
  BY <1>5, <1>8 DEF GoodPacket
<1>12. /\ Len(s2.out) = 2 /\ s2.out[1] = x /\ s2.out[2] = y
  BY <1>9, <1>11 DEF GoodPacket
<1>13. \A i \in 1..2 : s2.out[i].pts = None /\ s2.out[i].pcr = None
  <2>1. \A i \in 1..2 : i = 1 \/ i = 2
    OBVIOUS
  <2> QED
    BY <1>10, <1>12, <2>1
<1>14. s2.tr = tr /\ s2.tables = NewTables(c)
  BY <1>5, <1>8, <1>9 DEF t
<1> QED
  BY <1>2, <1>3, <1>4, <1>9, <1>10, <1>12, <1>13, <1>14

-----------------------------------------------------------------------------
(***************************************************************************)
(* The batch of a switch                                                   *)
(***************************************************************************)
(* The packets of a frame, the first PCR of which is b.                    *)
BufferOf(q, b) ==
    /\ q \in Seq(TsPackets) /\ \A i \in DOMAIN q : GoodPacket(q[i])
    /\ Len(q) >= 1 /\ q[1].kind = "video" /\ q[1].start
    /\ \A i, j \in DOMAIN q : i < j => q[i].n < q[j].n
    /\ b # None
    /\ \E i \in DOMAIN q : q[i].pcr = b /\ \A x \in 1..(i - 1) : q[x].pcr = None

(* What is out when the first j packets of the batch have been rewritten.  *)
Opens(o) == /\ Len(o) >= 2 /\ o[1].kind = "pat" /\ o[2].kind = "pmt"
            /\ o[1].pts = None /\ o[2].pts = None
Leads(o, p, d) == /\ Len(o) >= 3 /\ o[3].kind = "video" /\ o[3].start
                 /\ o[3].pts = Shift(p.pts, d)
(* Every packet behind the tables is one of the first j.                   *)
From(o, q, j) ==
    \A i \in 3..Len(o) : o[i].kind \in {"video", "audio"} =>
        \E l \in 1..j : /\ o[i].n = q[l].n /\ o[i].kind = q[l].kind
                        /\ o[i].pay = q[l].pay /\ o[i].src = q[l].src
(* Every video packet of the first j is out.                               *)
KeptVideo(o, q, j) ==
    \A l \in 1..j : q[l].kind = "video" =>
        \E i \in 3..Len(o) : o[i].n = q[l].n /\ o[i].idr = q[l].idr
(* Audio that is not out came before all audio that is.                    *)
KeptAudio(o, q, j) ==
    \A l \in 1..j : q[l].kind = "audio" =>
        \/ \E i \in 3..Len(o) : o[i].n = q[l].n
        \/ \A i \in 3..Len(o) : o[i].kind = "audio" => q[l].n < o[i].n
NoAudio(o) == \A i \in 3..Len(o) : o[i].kind # "audio"
(* No PCR is out, or the first one is the buffer's first.                  *)
NoPcr(o, n) == \A i \in 1..n : o[i].pcr = None
FirstPcr(o, t) == \E i \in DOMAIN o : /\ o[i].pcr = t /\ o[i].marked
                                      /\ \A x \in 1..(i - 1) : o[x].pcr = None
(* All of it together: a batch is being made of the buffer q.              *)
Batch(st, q, j, b, d) ==
    /\ Opens(st.out) /\ st.tr.offset90 = d
    /\ IF j = 0 THEN Len(st.out) = 2 ELSE Leads(st.out, q[1], d)
    /\ From(st.out, q, j) /\ KeptVideo(st.out, q, j) /\ KeptAudio(st.out, q, j)
    /\ st.tr.waitAudioPUSI => NoAudio(st.out)
    /\ IF st.tr.markDiscontinuity THEN NoPcr(st.out, Len(st.out)) /\ NoPcr(q, j)
       ELSE FirstPcr(st.out, Shift(b, d))

(* One element more.                                                       *)
LEMMA Appended ==
    ASSUME NEW S, NEW o \in Seq(S), NEW r \in S, NEW x, x = Append(o, r)
    PROVE  /\ Len(o) \in Nat /\ Len(x) = Len(o) + 1 /\ x[Len(o) + 1] = r
           /\ \A i \in 1..Len(o) : x[i] = o[i]
           /\ DOMAIN o = 1..Len(o) /\ DOMAIN x = 1..(Len(o) + 1)
OBVIOUS

(* One packet more of the buffer is rewritten.                             *)
LEMMA BatchStep ==
    ASSUME NEW v \in Viewers, NEW st, Rewritten(st, v), NEW b, NEW d \in Int,
           NEW q, BufferOf(q, b), NEW j \in 1..Len(q), Batch(st, q, j - 1, b, d),
           NEW e, e = Transform(st, q[j])
    PROVE  Batch(e, q, j, b, d)
<1> DEFINE o == st.out
           x == e.out
           p == q[j]
           n == Len(o)
<1>1. /\ GoodPacket(p) /\ p.kind \in Kinds /\ (p.pcr # None => p.kind = "video")
      /\ Len(q) \in Nat /\ j \in Nat /\ j >= 1 /\ DOMAIN q = 1..Len(q)
  <2>1. q \in Seq(TsPackets) /\ Len(q) \in Nat /\ DOMAIN q = 1..Len(q)
    BY DEF BufferOf
  <2>2. GoodPacket(p) /\ j \in Nat /\ j >= 1
    BY <2>1 DEF BufferOf
  <2> HIDE DEF p
  <2> QED
    BY <2>1, <2>2, KindsAre DEF GoodPacket
<1>2. /\ st \in Stages /\ GoodTables(st.tables) /\ st.tables.level = "full"
      /\ o \in Seq(TsPackets) /\ st.tr \in Transforms
  BY DEF Rewritten, Stages
<1>3. /\ Dropped(st, p) => e = st
      /\ ~Dropped(st, p) => x = Append(o, Sent(st, p))
      /\ p.kind \in {"pat", "pmt"} => e.tr = st.tr
      /\ p.kind \notin {"pat", "pmt"} /\ ~Dropped(st, p) => e.tr = Retuned(st, p)
  <2>1. GoodPacket(p) /\ e = Transform(st, p)
    BY <1>1
  <2> HIDE DEF p
  <2> QED
    BY <2>1, TransformStep
<1>4. /\ Opens(o) /\ st.tr.offset90 = d
      /\ IF j - 1 = 0 THEN n = 2 ELSE Leads(o, q[1], d)
      /\ From(o, q, j - 1) /\ KeptVideo(o, q, j - 1) /\ KeptAudio(o, q, j - 1)
      /\ st.tr.waitAudioPUSI => NoAudio(o)
      /\ IF st.tr.markDiscontinuity THEN NoPcr(o, n) /\ NoPcr(q, j - 1)
         ELSE FirstPcr(o, Shift(b, d))
  BY DEF Batch
<1>5. n \in Nat /\ DOMAIN o = 1..n /\ n >= 2
  BY <1>2, <1>4 DEF Opens
<1>6. \A l \in 1..j : l \in 1..(j - 1) \/ l = j
  BY <1>1
<1>7. \A l \in 1..(j - 1) : l \in 1..j /\ l \in 1..Len(q) /\ l < j
  BY <1>1
<1>8. q[1].kind = "video" /\ \A i, l \in 1..Len(q) : i < l => q[i].n < q[l].n
  BY <1>1 DEF BufferOf
<1> HIDE DEF p, n, o
<1>9. CASE Dropped(st, p)
  <2>1. e = st /\ p.kind = "audio" /\ st.tr.waitAudioPUSI /\ p.pcr = None /\ x = o
    BY <1>1, <1>3, <1>9 DEF Dropped, o
  <2>2. j # 1
    BY <1>8, <2>1 DEF p
  <2>3. Leads(o, q[1], d)
    BY <1>1, <1>4, <2>2
  <2>4. From(o, q, j)
    BY <1>4, <1>7 DEF From
  <2>5. KeptVideo(o, q, j)
    BY <1>4, <1>6, <2>1 DEF KeptVideo, p
  <2>6. NoAudio(o) /\ KeptAudio(o, q, j)
    BY <1>4, <2>1 DEF KeptAudio, NoAudio
  <2>7. NoPcr(q, j - 1) => NoPcr(q, j)
    BY <1>6, <2>1 DEF NoPcr, p
  <2> QED
    BY <1>4, <2>1, <2>3, <2>4, <2>5, <2>6, <2>7 DEF Batch, n, o
<1>10. CASE ~Dropped(st, p)
  <2> DEFINE r == Sent(st, p)
  <2>1. /\ GoodPacket(r) /\ r.kind = p.kind
        /\ p.kind \in {"pat", "pmt"} => r.pts = None /\ r.pcr = None
        /\ p.kind \notin {"pat", "pmt"} =>
             /\ r.src = p.src /\ r.n = p.n /\ r.start = p.start
             /\ r.pay = p.pay /\ r.idr = p.idr
             /\ r.pts = Shift(p.pts, d) /\ r.pcr = Shift(p.pcr, d)
             /\ r.marked = Marks(st.tr, p)
    BY <1>1, <1>2, <1>4, SentIs
  <2>2. x = Append(o, r) /\ r \in TsPackets
    BY <1>3, <1>10, <2>1 DEF GoodPacket
  <2> HIDE DEF r, x
  <2>3. /\ Len(x) = n + 1 /\ DOMAIN x = 1..(n + 1) /\ x[n + 1] = r
        /\ \A i \in 1..n : x[i] = o[i]
    <3>1. o \in Seq(TsPackets)
      BY <1>2
    <3> QED
      BY <2>2, <3>1, Appended DEF n
  <2>4. /\ \A i \in 3..(n + 1) : i \in 3..n \/ i = n + 1
        /\ \A i \in 3..n : i \in 1..n /\ i \in 3..(n + 1)
        /\ n + 1 \in 3..(n + 1) /\ n + 1 \in 1..(n + 1)
        /\ \A i \in 1..n : i \in 1..(n + 1)
        /\ 1 \in 1..n /\ 2 \in 1..n
    BY <1>5
  <2>5. p.kind \in {"pat", "pmt"} \/ p.kind \in {"video", "audio"}
    BY <1>1 DEF Kinds
  <2>6. /\ e.tr.offset90 = d
        /\ e.tr.waitAudioPUSI <=> st.tr.waitAudioPUSI /\ p.kind # "audio"
        /\ e.tr.markDiscontinuity <=> st.tr.markDiscontinuity /\ ~Marks(st.tr, p)
    <3>1. CASE p.kind \in {"pat", "pmt"}
      BY <1>3, <1>4, <3>1 DEF Marks
    <3>2. CASE p.kind \in {"video", "audio"}
      <4>1. e.tr = Retuned(st, p)
        BY <1>3, <1>10, <3>2
      <4> QED
        BY <1>1, <1>2, <1>4, <4>1, RetunedIs
    <3> QED
      BY <2>5, <3>1, <3>2
  <2>7. Opens(x)
    BY <1>4, <1>5, <2>3, <2>4 DEF Opens, n
  <2>8. Leads(x, q[1], d)
    <3>1. CASE j = 1
      <4>2. p = q[1] /\ p.kind = "video" /\ p.start
        BY <3>1 DEF BufferOf, p
      <4>3. n = 2
        BY <1>4, <3>1
      <4>4. r.kind = "video" /\ r.start /\ r.pts = Shift(p.pts, d)
        BY <2>1, <4>2
      <4>5. Len(x) >= 3 /\ x[3] = r
        BY <2>3, <4>3
      <4> QED
        BY <4>2, <4>4, <4>5 DEF Leads
    <3>2. CASE j # 1
      <4>1. Leads(o, q[1], d) /\ n >= 3 /\ 3 \in 1..n
        BY <1>1, <1>4, <1>5, <3>2 DEF Leads, n
      <4> QED
        BY <1>5, <2>3, <4>1 DEF Leads
    <3> QED
      BY <3>1, <3>2
  <2>9. From(x, q, j)
    <3> SUFFICES ASSUME NEW i \in 3..(n + 1), x[i].kind \in {"video", "audio"}
                 PROVE  \E l \in 1..j : /\ x[i].n = q[l].n /\ x[i].kind = q[l].kind
                                        /\ x[i].pay = q[l].pay /\ x[i].src = q[l].src
      BY <2>3 DEF From
    <3>1. CASE i \in 3..n
      BY <1>4, <1>7, <2>3, <2>4, <3>1 DEF From, n
    <3>2. CASE i = n + 1
      <4>1. x[i] = r /\ r.kind = p.kind /\ r.n = p.n /\ r.pay = p.pay /\ r.src = p.src
        BY <2>1, <2>3, <2>5, <3>2
      <4>2. j \in 1..j
        BY <1>1
      <4> QED
        BY <4>1, <4>2 DEF p
    <3> QED
      BY <2>4, <3>1, <3>2
  <2>10. KeptVideo(x, q, j)
    <3> SUFFICES ASSUME NEW l \in 1..j, q[l].kind = "video"
                 PROVE  \E i \in 3..(n + 1) : x[i].n = q[l].n /\ x[i].idr = q[l].idr
      BY <2>3 DEF KeptVideo
    <3>1. CASE l \in 1..(j - 1)
      BY <1>4, <2>3, <2>4, <3>1 DEF KeptVideo, n
    <3>2. CASE l = j
      <4>1. r.n = q[l].n /\ r.idr = q[l].idr
        BY <2>1, <3>2 DEF p
      <4> QED
        BY <2>3, <2>4, <4>1
    <3> QED
      BY <1>6, <3>1, <3>2
  <2>11. KeptAudio(x, q, j)
    <3> SUFFICES ASSUME NEW l \in 1..j, q[l].kind = "audio"
                 PROVE  \/ \E i \in 3..(n + 1) : x[i].n = q[l].n
                        \/ \A i \in 3..(n + 1) : x[i].kind = "audio" => q[l].n < x[i].n
      BY <2>3 DEF KeptAudio
    <3>1. CASE l \in 1..(j - 1)
      <4>1. CASE \E i \in 3..n : o[i].n = q[l].n
        BY <2>3, <2>4, <4>1
      <4>2. CASE \A i \in 3..n : o[i].kind = "audio" => q[l].n < o[i].n
        <5>1. p.kind = "audio" => r.n = p.n /\ q[l].n < p.n
          BY <1>1, <1>7, <1>8, <2>1, <3>1 DEF p
        <5> QED
          BY <2>1, <2>3, <2>4, <4>2, <5>1
      <4> QED
        BY <1>4, <3>1, <4>1, <4>2 DEF KeptAudio, n
    <3>2. CASE l = j
      <4>1. r.n = q[l].n
        BY <2>1, <3>2 DEF p
      <4> QED
        BY <2>3, <2>4, <4>1
    <3> QED
      BY <1>6, <3>1, <3>2
  <2>12. e.tr.waitAudioPUSI => NoAudio(x)
    BY <1>4, <2>1, <2>3, <2>4, <2>6 DEF NoAudio, n
  <2>13. CASE e.tr.markDiscontinuity
    <3>1. st.tr.markDiscontinuity /\ p.pcr = None
      BY <1>1, <2>6, <2>13 DEF Marks
    <3>2. r.pcr = None
      BY <2>1, <2>5, <3>1 DEF Shift
    <3>3. NoPcr(q, j)
      BY <1>4, <1>6, <3>1 DEF NoPcr, p
    <3>4. NoPcr(x, n + 1)
      <4>1. \A i \in 1..(n + 1) : i \in 1..n \/ i = n + 1
        BY <1>5
      <4> QED
        BY <1>4, <2>3, <3>1, <3>2, <4>1 DEF NoPcr
    <3> QED
      BY <2>3, <2>6, <2>7, <2>8, <2>9, <2>10, <2>11, <2>12, <2>13, <3>3, <3>4, <1>1 DEF Batch, x
  <2>14. CASE ~e.tr.markDiscontinuity
    <3>1. FirstPcr(x, Shift(b, d))
      <4>1. CASE ~st.tr.markDiscontinuity
        <5>1. PICK i \in 1..n : /\ o[i].pcr = Shift(b, d) /\ o[i].marked
                                /\ \A y \in 1..(i - 1) : o[y].pcr = None
          BY <1>4, <1>5, <4>1 DEF FirstPcr
        <5>2. \A y \in 1..(i - 1) : y \in 1..n
          BY <1>5
        <5> QED
          BY <2>3, <2>4, <5>1, <5>2 DEF FirstPcr
      <4>2. CASE st.tr.markDiscontinuity
        <5>1. Marks(st.tr, p) /\ p.pcr # None /\ p.kind = "video"
          BY <2>6, <2>14, <4>2 DEF Marks
        <5>2. p.pcr = b
          <6>1. PICK i \in 1..Len(q) : q[i].pcr = b /\ \A y \in 1..(i - 1) : q[y].pcr = None
            BY <1>1 DEF BufferOf
          <6>2. i \notin 1..(j - 1)
            BY <1>4, <4>2, <6>1 DEF NoPcr, BufferOf
          <6>3. j \notin 1..(i - 1)
            BY <5>1, <6>1 DEF p
          <6>4. i = j
            BY <1>1, <6>2, <6>3
          <6> QED
            BY <6>1, <6>4 DEF p
        <5>3. r.pcr = Shift(b, d) /\ r.marked
          BY <2>1, <5>1, <5>2
        <5>4. \A y \in 1..((n + 1) - 1) : x[y].pcr = None
          <6>1. (n + 1) - 1 = n
            BY <1>5
          <6> QED
            BY <1>4, <2>3, <4>2, <6>1 DEF NoPcr
        <5> QED
          BY <2>3, <2>4, <5>3, <5>4 DEF FirstPcr
      <4> QED
        BY <4>1, <4>2
    <3> QED
      BY <2>6, <2>7, <2>8, <2>9, <2>10, <2>11, <2>12, <2>14, <3>1 DEF Batch, x
  <2> QED
    BY <2>13, <2>14
<1> QED
  BY <1>9, <1>10

(* A complete candidate's buffer is what the batch is made of.             *)
LEMMA BufferIs ==
    ASSUME NEW m \in Nat, NEW c, GoodCandidate(c, m), ~c.refused, c.idr, c.pcr # None
    PROVE  /\ BufferOf(c.pkts, c.pcr) /\ c.pts = c.pkts[1].pts
           /\ tables.level = "full"
           /\ \E i \in DOMAIN c.pkts : c.pkts[i].idr
           /\ \A i \in DOMAIN c.pkts : c.pkts[i].n \in Nat /\ c.pkts[i] = Packet(c.src, c.pkts[i].n)
<1>1. /\ c \in Candidates /\ FrameOf(c) /\ InBuffer(c, m)
      /\ c.profile => tables.level = "full"
  BY DEF GoodCandidate
<1>2. c.pkts \in Seq(TsPackets) /\ c.src \in Sources
  BY <1>1 DEF Candidates
<1>3. /\ c.pkts # <<>> /\ c.pkts[1].kind = "video" /\ c.pkts[1].start
      /\ c.pts = c.pkts[1].pts /\ c.profile
      /\ \E i \in DOMAIN c.pkts : c.pkts[i].idr
      /\ \E i \in DOMAIN c.pkts : /\ c.pkts[i].pcr = c.pcr
                                  /\ \A j \in 1..(i - 1) : c.pkts[j].pcr = None
  BY <1>1 DEF FrameOf
<1>4. /\ \A i \in DOMAIN c.pkts : c.pkts[i].n \in Nat /\ c.pkts[i] = Packet(c.src, c.pkts[i].n)
      /\ \A i, j \in DOMAIN c.pkts : i < j => c.pkts[i].n < c.pkts[j].n
  BY <1>1 DEF InBuffer
<1>5. \A i \in DOMAIN c.pkts : GoodPacket(c.pkts[i])
  BY <1>2, <1>4, PacketIs
<1>6. Len(c.pkts) >= 1
  BY <1>2, <1>3
<1> QED
  BY <1>1, <1>2, <1>3, <1>4, <1>5, <1>6 DEF BufferOf

(* The batch, when all of the buffer has been rewritten.                   *)
LEMMA BatchIs ==
    ASSUME Fields, tables.level = "full", clock.pts # None, NEW c \in Candidates, c.pts # None,
           BufferOf(c.pkts, c.pcr), NEW e, e = Transformed(Prefixed(c), c.pkts)
    PROVE  /\ Rewritten(e, viewer) /\ e.tables = NewTables(c) /\ e.tr.src = c.src
           /\ Batch(e, c.pkts, Len(c.pkts), c.pcr, Offset(c))
           /\ FirstPcr(e.out, Shift(c.pcr, Offset(c)))
<1> DEFINE q == c.pkts
           b == c.pcr
           d == Offset(c)
           s == Prefixed(c)
           n == Len(q)
<1>1. /\ Rewritten(s, viewer) /\ s.tables = NewTables(c) /\ s.tr.src = c.src
      /\ s.tr.offset90 = d /\ d \in Int /\ s.tr.waitAudioPUSI /\ s.tr.markDiscontinuity
      /\ Len(s.out) = 2 /\ s.out[1].kind = "pat" /\ s.out[2].kind = "pmt"
      /\ \A i \in 1..2 : s.out[i].pts = None /\ s.out[i].pcr = None
  BY PrefixedIs
<1>2. q \in Seq(TsPackets) /\ n \in Nat /\ DOMAIN q = 1..n /\ \A i \in DOMAIN q : GoodPacket(q[i])
  BY DEF BufferOf
<1>3. viewer \in Viewers
  BY DEF Fields
<1> HIDE DEF s, d
<1>4. Rewritten(e, viewer) /\ e.tables = s.tables /\ e.tr.src = s.tr.src
  BY <1>1, <1>2, <1>3, TransformedIs DEF s
<1>5. PICK g : Runs(g, "transform", s, q) /\ g[n] = e
  BY <1>2, TransformRuns DEF s
<1> DEFINE OK(i) == Rewritten(g[i], viewer) /\ Batch(g[i], q, i, b, d)
           G == {i \in 0..n : OK(i)}
<1>6. 0 \in G
  <2>1. g[0] = s
    BY <1>5 DEF Runs
  <2>2. Opens(s.out) /\ From(s.out, q, 0) /\ KeptVideo(s.out, q, 0) /\ KeptAudio(s.out, q, 0)
    <3>1. 3..2 = {} /\ 1..0 = {} /\ 1 \in 1..2 /\ 2 \in 1..2
      OBVIOUS
    <3> QED
      BY <1>1, <3>1 DEF Opens, From, KeptVideo, KeptAudio
  <2>3. NoAudio(s.out) /\ NoPcr(s.out, Len(s.out)) /\ NoPcr(q, 0)
    <3>1. 3..2 = {} /\ 1..0 = {}
      OBVIOUS
    <3> QED
      BY <1>1, <3>1 DEF NoAudio, NoPcr
  <2>4. Batch(s, q, 0, b, d)
    BY <1>1, <2>2, <2>3 DEF Batch
  <2>5. 0 \in 0..n
    BY <1>2
  <2> HIDE DEF q, b, n
  <2> QED
    BY <1>1, <2>1, <2>4, <2>5
<1>7. ASSUME NEW i \in 1..n, i - 1 \in G PROVE i \in G
  <2>1. g[i] = Transform(g[i - 1], q[i]) /\ OK(i - 1)
    BY <1>2, <1>5, <1>7 DEF Runs, FoldStep
  <2>2. GoodPacket(q[i])
    BY <1>2
  <2>3. Rewritten(g[i], viewer)
    BY <1>3, <2>1, <2>2, TransformStep
  <2>4. Batch(g[i], q, i, b, d)
    <3>1. /\ BufferOf(q, b) /\ i \in 1..Len(q) /\ Rewritten(g[i - 1], viewer)
          /\ Batch(g[i - 1], q, i - 1, b, d)
      BY <2>1
    <3> HIDE DEF q, b, n
    <3> QED
      BY <1>1, <1>3, <2>1, <3>1, BatchStep
  <2>5. i \in 0..n
    BY <1>2
  <2> HIDE DEF q, b, n
  <2> QED
    BY <2>3, <2>4, <2>5
<1>8. OK(n)
  <2>1. \A i \in 0..n : i \in G
    <3> HIDE DEF G, n
    <3> QED
      BY <1>2, <1>6, <1>7, UpInduction
  <2>2. n \in 0..n
    BY <1>2
  <2> HIDE DEF n, OK
  <2> QED
    BY <2>1, <2>2
<1>9. Batch(e, q, n, b, d)
  BY <1>5, <1>8
<1>10. ~NoPcr(q, n)
  <2>1. PICK i \in 1..n : q[i].pcr = b /\ b # None
    BY <1>2 DEF BufferOf
  <2> QED
    BY <2>1 DEF NoPcr
<1>11. FirstPcr(e.out, Shift(b, d))
  <2> HIDE DEF q, b, n
  <2> QED
    BY <1>9, <1>10 DEF Batch
<1> QED
  BY <1>1, <1>4, <1>9, <1>11 DEF d

(* The first time stamp of a batch is its third packet's.                  *)
LEMMA FirstPtsIs ==
    ASSUME NEW o, Len(o) \in Nat, DOMAIN o = 1..Len(o), Len(o) >= 3,
           o[1].pts = None, o[2].pts = None, o[3].pts # None
    PROVE  FirstWith(o, LAMBDA p : p.pts # None) = o[3]
<1>1. 3 \in DOMAIN o /\ 1 \in DOMAIN o /\ 2 \in DOMAIN o /\ \A j \in 1..2 : j = 1 \/ j = 2
  OBVIOUS
<1>2. ASSUME NEW i \in DOMAIN o, o[i].pts # None, \A j \in 1..(i - 1) : ~(o[j].pts # None)
      PROVE  i = 3
  <2>1. i # 1 /\ i # 2 /\ i \in 1..Len(o)
    BY <1>2
  <2>2. 3 \notin 1..(i - 1)
    BY <1>2
  <2> QED
    BY <2>1, <2>2
<1>3. \A j \in 1..(3 - 1) : ~(o[j].pts # None)
  BY <1>1
<1>4. (CHOOSE i \in DOMAIN o : o[i].pts # None /\ \A j \in 1..(i - 1) : ~(o[j].pts # None)) = 3
  BY <1>1, <1>2, <1>3
<1> QED
  BY <1>4 DEF FirstWith

(* Its first PCR is the first of the buffer.                               *)
LEMMA FirstPcrIs ==
    ASSUME NEW o, Len(o) \in Nat, DOMAIN o = 1..Len(o), NEW t, t # None, FirstPcr(o, t)
    PROVE  LET r == FirstWith(o, LAMBDA p : p.pcr # None) IN r.pcr = t /\ r.marked
<1>1. PICK i \in 1..Len(o) : /\ o[i].pcr = t /\ o[i].marked
                             /\ \A x \in 1..(i - 1) : o[x].pcr = None
  BY DEF FirstPcr
<1>2. ASSUME NEW j \in DOMAIN o, o[j].pcr # None, \A x \in 1..(j - 1) : ~(o[x].pcr # None)
      PROVE  j = i
  <2>1. i \notin 1..(j - 1) /\ j \notin 1..(i - 1)
    BY <1>1, <1>2
  <2> QED
    BY <2>1
<1>3. (CHOOSE j \in DOMAIN o : o[j].pcr # None /\ \A x \in 1..(j - 1) : ~(o[x].pcr # None)) = i
  BY <1>1, <1>2
<1>4. FirstWith(o, LAMBDA p : p.pcr # None) = o[i]
  BY <1>3 DEF FirstWith
<1> QED
  BY <1>1, <1>4

(* The clocks go on over the switch.                                       *)
LEMMA StepIs == Step \in 1..MaxStep
BY Scales DEF Step

(* A picture a step after the last one is a step away, over the wrap too.  *)
LEMMA GoesOn ==
    ASSUME NEW a \in Times, NEW t \in Times, NEW s \in 1..MaxStep
    PROVE  /\ ClockPlus(t, ClockPlus(a, s) - t) = ClockPlus(a, s)
           /\ ClockPlus(ClockPlus(a, s), -a) = s
<1>1. a \in Int /\ t \in Int /\ s \in Int /\ s \in 0..(Clock - 1) /\ Clock \in Nat \ {0}
  BY Scales DEF Times
<1>2. a + s \in Int
  BY <1>1
<1>3. ((a + s) % Clock) \in 0..(Clock - 1)
  BY <1>1, <1>2
<1>4. t + (((a + s) % Clock) - t) = ((a + s) % Clock)
  BY <1>1, <1>3
<1>5. ((a + s) % Clock) % Clock = ((a + s) % Clock)
  BY <1>1, <1>3
<1>6. ClockPlus(t, ClockPlus(a, s) - t) = ClockPlus(a, s)
  BY <1>4, <1>5 DEF ClockPlus
<1>7. (((a + s) % Clock) + (-a)) % Clock = ((a + s) + (-a)) % Clock
  <2> DEFINE x == a + s
             y == -a
  <2>1. x \in Int /\ y \in Int
    BY <1>1
  <2> HIDE DEF x, y
  <2>2. ((x % Clock) + y) % Clock = (x + y) % Clock
    BY <1>1, <2>1, ModAdd
  <2> QED
    BY <2>2 DEF x, y
<1>8. (a + s) + (-a) = s /\ (s % Clock) = s
  BY <1>1
<1>9. ClockPlus(ClockPlus(a, s), -a) = s
  BY <1>7, <1>8 DEF ClockPlus
<1> QED
  BY <1>6, <1>9

(* The first picture and the first PCR of a batch suit the viewer.         *)
LEMMA SmoothBatch ==
    ASSUME Fields, tables.level = "full", NEW c \in Candidates,
           BufferOf(c.pkts, c.pcr), c.pts = c.pkts[1].pts, c.pts # None, Accepted(c),
           NEW e, e = Transformed(Prefixed(c), c.pkts)
    PROVE  LET v == FirstWith(e.out, LAMBDA p : p.pts # None)
               r == FirstWith(e.out, LAMBDA p : p.pcr # None)
           IN /\ ClockPlus(v.pts, -viewer.pts) \in 1..MaxStep
              /\ r.marked
              /\ viewer.pcr # None => Distance(r.pcr, viewer.pcr) <= MaxPCRGap
<1> DEFINE o == e.out
           d == Offset(c)
<1>1. clock.pts # None /\ PCRFits(c)
  BY DEF Accepted
<1>2. /\ Rewritten(e, viewer) /\ Batch(e, c.pkts, Len(c.pkts), c.pcr, d)
      /\ FirstPcr(o, Shift(c.pcr, d))
  BY <1>1, BatchIs
<1>3. /\ clock.pts \in Times /\ c.pts \in Times /\ c.pcr \in Times /\ c.pcr # None
      /\ viewer.pts = clock.pts /\ viewer.pcr = clock.pcr /\ Len(c.pkts) >= 1
      /\ Len(c.pkts) \in Nat
  BY <1>1 DEF Fields, Clocks, Candidates, MaybeTime, BufferOf, Agree
<1>4. d \in Int
  <2>1. Step \in Int /\ clock.pts \in Int
    BY <1>3, StepIs, Scales DEF Times
  <2>2. ClockPlus(clock.pts, Step) \in Times
    BY <2>1, ClockPlusIs
  <2> QED
    BY <1>3, <2>2 DEF Offset, Times
<1>5. o \in Seq(TsPackets) /\ Len(o) \in Nat /\ DOMAIN o = 1..Len(o)
  BY <1>2 DEF Rewritten, Stages
<1>6. Opens(o) /\ Leads(o, c.pkts[1], d)
  BY <1>2, <1>3 DEF Batch
<1> HIDE DEF o
<1>7. /\ o[3].pts = Shift(c.pts, d) /\ o[1].pts = None /\ o[2].pts = None /\ Len(o) >= 3
  BY <1>6 DEF Opens, Leads
<1>8. Shift(c.pts, d) = ClockPlus(clock.pts, Step)
  <2>1. ClockPlus(c.pts, ClockPlus(clock.pts, Step) - c.pts) = ClockPlus(clock.pts, Step)
    BY <1>3, StepIs, GoesOn
  <2> QED
    BY <2>1 DEF Shift, Offset
<1>9. ClockPlus(clock.pts, Step) # None
  <2>1. clock.pts \in Int /\ Step \in Int
    BY <1>3, StepIs, Scales DEF Times
  <2>2. ClockPlus(clock.pts, Step) \in Times
    BY <2>1, ClockPlusIs
  <2> QED
    BY <2>2, Scales DEF Times
<1>10. FirstWith(o, LAMBDA p : p.pts # None) = o[3]
  BY <1>5, <1>7, <1>8, <1>9, FirstPtsIs
<1>11. ClockPlus(o[3].pts, -viewer.pts) \in 1..MaxStep
  <2>1. ClockPlus(ClockPlus(clock.pts, Step), -clock.pts) = Step
    BY <1>3, StepIs, GoesOn
  <2> QED
    BY <1>3, <1>7, <1>8, <2>1, StepIs
<1>12. Shift(c.pcr, d) = ClockPlus(c.pcr, d) /\ Shift(c.pcr, d) # None
  <2>1. c.pcr \in Int
    BY <1>3 DEF Times
  <2>2. ClockPlus(c.pcr, d) \in Times
    BY <1>4, <2>1, ClockPlusIs
  <2> QED
    BY <1>3, <2>2, Scales DEF Shift, Times
<1> HIDE DEF d
<1>13. /\ FirstWith(o, LAMBDA p : p.pcr # None).marked
       /\ FirstWith(o, LAMBDA p : p.pcr # None).pcr = ClockPlus(c.pcr, d)
  BY <1>2, <1>5, <1>12, FirstPcrIs DEF o
<1>14. viewer.pcr # None => Distance(ClockPlus(c.pcr, d), viewer.pcr) <= MaxPCRGap
  BY <1>1, <1>3 DEF PCRFits, d
<1> QED
  BY <1>10, <1>11, <1>13, <1>14 DEF o

(* Nothing that was lost while the candidate waited is missing inside it.  *)
LEMMA WholeBatch ==
    ASSUME Fields, clock.pts # None, NEW m \in Nat, NEW c, GoodCandidate(c, m), ~c.refused,
           c.idr, c.pts # None, c.pcr # None,
           NEW e, e = Transformed(Prefixed(c), c.pkts)
    PROVE  Whole(e.out)
<1> DEFINE o == e.out
           q == c.pkts
           n == Len(q)
<1>1. /\ BufferOf(q, c.pcr) /\ tables.level = "full"
      /\ \E i \in DOMAIN q : q[i].idr
      /\ \A i \in DOMAIN q : q[i].n \in Nat /\ q[i] = Packet(c.src, q[i].n)
  BY BufferIs
<1>2. c \in Candidates /\ InBuffer(c, m) /\ c.src \in Sources
  BY DEF GoodCandidate, Candidates
<1>3. Rewritten(e, viewer) /\ Batch(e, q, n, c.pcr, Offset(c))
  BY <1>1, <1>2, BatchIs
<1>4. o \in Seq(TsPackets) /\ Len(o) \in Nat /\ DOMAIN o = 1..Len(o)
  BY <1>3 DEF Rewritten, Stages
<1>5. n \in Nat /\ n >= 1 /\ DOMAIN q = 1..n
  BY <1>1 DEF BufferOf
<1>6. /\ Opens(o) /\ Leads(o, q[1], Offset(c)) /\ From(o, q, n)
      /\ KeptVideo(o, q, n) /\ KeptAudio(o, q, n)
  BY <1>3, <1>5 DEF Batch
<1>7. /\ \A i \in 1..n : /\ q[i].kind = At(c.src, q[i].n).kind
                         /\ q[i].pay = At(c.src, q[i].n).pay
                         /\ q[i].src = c.src /\ (q[i].idr => q[i].kind = "video")
  BY <1>1, <1>2, <1>5, PacketIs
<1>8. c.cc \in [Kinds -> Counters]
  BY <1>2 DEF Candidates
<1> HIDE DEF o, q, n
<1>9. /\ Len(o) > 2 /\ o[1].kind = "pat" /\ o[2].kind = "pmt"
      /\ o[3].kind = "video" /\ o[3].start
  BY <1>4, <1>6 DEF Opens, Leads
<1>10. \E i \in 3..Len(o) : o[i].idr
  BY <1>1, <1>5, <1>6, <1>7 DEF KeptVideo
<1>11. ASSUME NEW i \in 3..Len(o), NEW j \in 3..Len(o), NEW x \in (o[i].n + 1)..(o[j].n - 1),
              o[i].kind \in {"video", "audio"}, Same(o[i], o[j]), Same(o[i], At(o[i].src, x))
       PROVE  \E l \in 3..Len(o) : o[l].n = x
  <2> DEFINE k == o[i].kind
  <2>1. PICK a \in 1..n : /\ o[i].n = q[a].n /\ o[i].kind = q[a].kind
                          /\ o[i].pay = q[a].pay /\ o[i].src = q[a].src
    BY <1>6, <1>11 DEF From
  <2>2. o[j].kind = k /\ o[i].pay /\ o[j].pay /\ At(o[i].src, x).kind = k /\ At(o[i].src, x).pay
    BY <1>11 DEF Same
  <2>3. PICK b \in 1..n : o[j].n = q[b].n /\ o[j].kind = q[b].kind /\ o[j].pay = q[b].pay
    BY <1>6, <1>11, <2>2 DEF From
  <2>4. /\ PayloadOf(q[a], k) /\ PayloadOf(q[b], k) /\ k \in Kinds
        /\ PayloadOf(At(c.src, x), k)
    BY <1>7, <1>11, <2>1, <2>2, <2>3 DEF PayloadOf, Kinds
  <2>5. \E z \in 0..(m - 1) : NoHole(c, k, z)
    <3>1. c.cc[k] # None
      BY <1>2, <1>5, <2>4 DEF InBuffer, q
    <3> QED
      BY <1>2, <2>4, <3>1 DEF InBuffer
  <2>6. PICK z \in 0..(m - 1) : NoHole(c, k, z)
    BY <2>5
  <2>7. q[b].n <= z /\ \A y \in (q[a].n + 1)..z : PayloadOf(At(c.src, y), k) =>
                         \E l \in 1..n : q[l].n = y
    BY <1>5, <2>4, <2>6 DEF NoHole, q
  <2>8. x \in (q[a].n + 1)..z /\ x > q[a].n /\ x \in Int
    <3>1. q[a].n \in Nat /\ q[b].n \in Nat
      BY <1>1, <1>5
    <3>2. x \in (q[a].n + 1)..(q[b].n - 1)
      BY <2>1, <2>3
    <3>3. z \in Int /\ q[b].n <= z
      BY <2>7
    <3>4. x \in Int /\ x >= q[a].n + 1 /\ x <= q[b].n - 1
      BY <3>1, <3>2
    <3>5. x <= z /\ x > q[a].n
      BY <3>1, <3>3, <3>4
    <3> QED
      BY <3>1, <3>3, <3>4, <3>5
  <2>9. PICK l \in 1..n : q[l].n = x
    BY <2>4, <2>7, <2>8
  <2>10. q[l].kind = k
    BY <1>7, <2>4, <2>9 DEF PayloadOf
  <2>11. CASE k = "video"
    BY <1>6, <2>9, <2>10, <2>11 DEF KeptVideo
  <2>12. CASE k = "audio"
    <3>1. ~ \A y \in 3..Len(o) : o[y].kind = "audio" => q[l].n < o[y].n
      <4>1. q[a].n \in Nat
        BY <1>1, <1>5
      <4> QED
        BY <2>1, <2>8, <2>9, <2>12, <4>1
    <3> QED
      BY <1>6, <2>9, <2>10, <2>12, <3>1 DEF KeptAudio
  <2> QED
    BY <1>11, <2>11, <2>12
<1>12. \A i, j \in 3..Len(o) : \A x \in (o[i].n + 1)..(o[j].n - 1) :
         o[i].kind \in {"video", "audio"} /\ Same(o[i], o[j]) /\ Same(o[i], At(o[i].src, x))
           => \E l \in 3..Len(o) : o[l].n = x
  BY <1>11
<1>13. Whole(o)
  BY <1>9, <1>10, <1>12 DEF Whole
<1> QED
  BY <1>13 DEF o

-----------------------------------------------------------------------------
(***************************************************************************)
(* Observing the first source                                              *)
(***************************************************************************)
(* The switcher observes what the viewer sees of its first source.         *)
Follows(st, v) ==
    /\ GoodTables(st.tables) /\ st.clock \in Clocks /\ st.cc \in [Kinds -> Counters]
    /\ v \in Viewers /\ Agree(v, st.tables, st.clock, st.cc)

(* What the tables learn.                                                  *)
LEMMA ObserveInitialIs ==
    ASSUME NEW t, GoodTables(t), NEW p, GoodPacket(p), NEW u, u = ObserveInitial(t, p)
    PROVE  /\ GoodTables(u)
           /\ u.level # "none" <=> t.level # "none" \/ p.kind = "pat"
           /\ u.level = "full" <=> t.level = "full" \/ (p.kind = "pmt" /\ t.level # "none")
<1>1. t \in TableSets /\ p.kind \in Kinds /\ p.version \in Versions /\ p.version # None /\ p.par \in Pars
  BY KindsAre DEF GoodTables
<1>2. t.version \in Versions /\ t.version # None /\ t.level \in {"none", "pat", "full"}
  BY <1>1, Scales DEF TableSets, Versions
<1>3. CASE p.kind = "pat"
  <2>1. u = [t EXCEPT !.level = IF @ = "none" THEN "pat" ELSE @,
                      !.version = p.version, !.pat = p.version]
    BY <1>3 DEF ObserveInitial
  <2> QED
    BY <1>1, <1>2, <1>3, <2>1 DEF GoodTables, TableSets
<1>4. CASE p.kind = "pmt" /\ t.level # "none"
  <2>1. u = [t EXCEPT !.level = "full", !.pmt = t.version]
    BY <1>4 DEF ObserveInitial
  <2> QED
    BY <1>1, <1>2, <1>4, <2>1 DEF GoodTables, TableSets
<1>5. CASE p.kind = "video" /\ t.level = "full" /\ t.par = None
  <2>1. u = [t EXCEPT !.par = p.par]
    BY <1>5 DEF ObserveInitial
  <2> QED
    BY <1>1, <1>2, <1>5, <2>1 DEF GoodTables, TableSets
<1>6. CASE /\ p.kind # "pat" /\ ~(p.kind = "pmt" /\ t.level # "none")
           /\ ~(p.kind = "video" /\ t.level = "full" /\ t.par = None)
  <2>1. u = t
    BY <1>6 DEF ObserveInitial
  <2> QED
    BY <1>6, <2>1
<1> QED
  BY <1>3, <1>4, <1>5, <1>6

(* The viewer follows the switcher by one packet more.                     *)
LEMMA FollowStep ==
    ASSUME NEW st, NEW v, Follows(st, v), NEW p, GoodPacket(p)
    PROVE  /\ Follows(Observe(st, p), See(v, p))
           /\ st.tables.level = "full" => Observe(st, p).tables.level = "full"
<1> DEFINE u == ObserveInitial(st.tables, p)
           w == See(v, p)
           c == IF p.pay THEN [st.cc EXCEPT ![p.kind] = p.cc] ELSE st.cc
           k == IF u.level = "full" THEN ObserveTimestamps(st.clock, p) ELSE st.clock
           e == Observe(st, p)
<1>1. /\ GoodTables(st.tables) /\ st.clock \in Clocks /\ st.cc \in [Kinds -> Counters]
      /\ v \in Viewers /\ v.cc \in [Kinds -> Counters]
      /\ v.pat <=> st.tables.level # "none"
      /\ v.version # None <=> st.tables.level = "full"
      /\ v.pts = st.clock.pts /\ v.pcr = st.clock.pcr
      /\ \A j \in Kinds : v.cc[j] # None => st.cc[j] = v.cc[j]
  BY DEF Follows, Agree, Viewers
<1>2. /\ p.kind \in Kinds /\ p.cc \in Counters /\ p.version # None
      /\ p.pts # None \/ p.pcr # None => p.kind = "video"
  BY KindsAre DEF GoodPacket, Counters
<1>3. e.tables = u /\ e.cc = c /\ e.clock = k
  BY DEF Observe
<1>4. /\ GoodTables(u)
      /\ u.level # "none" <=> st.tables.level # "none" \/ p.kind = "pat"
      /\ u.level = "full" <=> st.tables.level = "full" \/ (p.kind = "pmt" /\ st.tables.level # "none")
  BY <1>1, ObserveInitialIs
<1>5. /\ w \in Viewers
      /\ w.pat <=> v.pat \/ p.kind = "pat"
      /\ w.version = IF p.kind = "pmt" /\ v.pat THEN p.version ELSE v.version
      /\ w.pts = IF v.version # None /\ p.pts # None THEN p.pts ELSE v.pts
      /\ w.pcr = IF v.version # None /\ p.pcr # None THEN p.pcr ELSE v.pcr
      /\ w.cc = IF p.pay THEN [v.cc EXCEPT ![p.kind] = p.cc] ELSE v.cc
  BY <1>1, SeeIs
<1>6. /\ ObserveTimestamps(st.clock, p) \in Clocks
      /\ ObserveTimestamps(st.clock, p).pts = IF p.pts # None THEN p.pts ELSE st.clock.pts
      /\ ObserveTimestamps(st.clock, p).pcr = IF p.pcr # None THEN p.pcr ELSE st.clock.pcr
  BY <1>1, ClocksAre
<1> HIDE DEF u, w
<1>7. c \in [Kinds -> Counters] /\ k \in Clocks
  BY <1>1, <1>2, <1>6
<1>8. (w.pat <=> u.level # "none") /\ (w.version # None <=> u.level = "full")
  BY <1>1, <1>2, <1>4, <1>5
<1>9. w.pts = k.pts /\ w.pcr = k.pcr
  <2>1. CASE p.kind = "video"
    <3>1. v.version # None <=> u.level = "full"
      BY <1>1, <1>4, <2>1
    <3> QED
      BY <1>1, <1>5, <1>6, <3>1
  <2>2. CASE p.kind # "video"
    <3>1. p.pts = None /\ p.pcr = None
      BY <1>2, <2>2
    <3> QED
      BY <1>1, <1>5, <1>6, <3>1
  <2> QED
    BY <2>1, <2>2
<1>10. \A j \in Kinds : w.cc[j] # None => c[j] = w.cc[j]
  BY <1>1, <1>2, <1>5
<1> HIDE DEF c, k, e
<1> QED
  BY <1>3, <1>4, <1>5, <1>7, <1>8, <1>9, <1>10 DEF Follows, Agree, e, w

(* And by a datagram.                                                      *)
LEMMA ObservedFollows ==
    ASSUME NEW st, NEW v, Follows(st, v), NEW q \in Seq(TsPackets),
           \A i \in DOMAIN q : GoodPacket(q[i])
    PROVE  /\ Follows(Observed(st, q), Seen(v, q))
           /\ st.tables.level = "full" => Observed(st, q).tables.level = "full"
<1> DEFINE n == Len(q)
<1>1. n \in Nat /\ DOMAIN q = 1..n
  OBVIOUS
<1>2. PICK g : Runs(g, "observe", st, q) /\ g[n] = Observed(st, q)
  BY <1>1, ObserveRuns
<1>3. PICK h : Runs(h, "see", v, q) /\ h[n] = Seen(v, q)
  BY <1>1, SeeRuns
<1> DEFINE OK(i) == /\ Follows(g[i], h[i])
                    /\ st.tables.level = "full" => g[i].tables.level = "full"
           G == {i \in 0..n : OK(i)}
<1>4. 0 \in G
  BY <1>1, <1>2, <1>3 DEF Runs
<1>5. ASSUME NEW i \in 1..n, i - 1 \in G PROVE i \in G
  <2>1. /\ g[i] = Observe(g[i - 1], q[i]) /\ h[i] = See(h[i - 1], q[i])
        /\ GoodPacket(q[i]) /\ OK(i - 1)
    BY <1>1, <1>2, <1>3, <1>5 DEF Runs, FoldStep
  <2>2. OK(i)
    BY <2>1, FollowStep
  <2> QED
    BY <2>2
<1>6. n \in G
  <2>1. \A i \in 0..n : i \in G
    <3> HIDE DEF G, n
    <3> QED
      BY <1>1, <1>4, <1>5, UpInduction
  <2>2. n \in 0..n
    BY <1>1
  <2> HIDE DEF G
  <2> QED
    BY <2>1, <2>2
<1> QED
  BY <1>2, <1>3, <1>6

-----------------------------------------------------------------------------
(***************************************************************************)
(* Gaps: what a counter tells, and the buffer it guards                    *)
(***************************************************************************)
(* A hole in a PID's packets shows in its counter.                         *)
LEMMA ModSame ==
    ASSUME NEW S \in Nat \ {0}, NEW a \in Int, NEW d \in 1..S,
           ((a + d) % S) = ((a % S) + 1) % S
    PROVE  d = 1
<1> DEFINE x == a + 1
           r == x % S
           e == d - 1
<1>1. x \in Int /\ r \in 0..(S - 1) /\ e \in 0..(S - 1) /\ e \in Int /\ d \in Int
  <2>1. x \in Int /\ d \in Int /\ e \in 0..(S - 1) /\ e \in Int
    OBVIOUS
  <2> HIDE DEF x
  <2>2. r \in 0..(S - 1)
    BY <2>1
  <2> QED
    BY <2>1, <2>2
<1>2. ((a % S) + 1) % S = r
  <2>1. a \in Int /\ 1 \in Int /\ S \in Nat \ {0}
    OBVIOUS
  <2>2. ((a % S) + 1) % S = (a + 1) % S
    BY <2>1, ModAdd
  <2> QED
    BY <2>2
<1>3. x + e = a + d
  BY <1>1
<1>4. ((x % S) + e) % S = (x + e) % S
  <2> HIDE DEF x, e
  <2> QED
    BY <1>1, ModAdd
<1>5. (r + e) % S = r
  BY <1>2, <1>3, <1>4
<1> HIDE DEF r, x, e
<1>6. CASE r + e < S
  <2>1. r + e \in 0..(S - 1)
    BY <1>1, <1>6
  <2>2. (r + e) % S = r + e
    <3> DEFINE y == r + e
    <3>1. y \in 0..(S - 1)
      BY <2>1
    <3> HIDE DEF y
    <3>2. y % S = y
      BY <3>1
    <3> QED
      BY <3>2 DEF y
  <2>3. e = 0
    BY <1>1, <1>5, <2>2
  <2> QED
    BY <1>1, <2>3 DEF e
<1>7. CASE ~(r + e < S)
  <2> DEFINE y == (r + e) - S
  <2>1. y \in 0..(S - 1) /\ r + e = S * 1 + y
    BY <1>1, <1>7
  <2> HIDE DEF y
  <2>2. (S * 1 + y) % S = y
    BY <2>1, ModOfMultiple
  <2>3. y = r
    BY <1>5, <2>1, <2>2
  <2> QED
    BY <1>1, <2>1, <2>3
<1> QED
  BY <1>6, <1>7, <1>1

(* A count up to m is one up to z and what comes after.                    *)
LEMMA CountSplit ==
    ASSUME NEW s, NEW C, NEW z \in Nat, NEW m \in Nat, z < m, At(s, m) \in C
    PROVE  \E d \in 1..(m - z) :
             /\ Count(s, m, C) = Count(s, z, C) + d
             /\ d = 1 => \A n \in (z + 1)..(m - 1) : At(s, n) \notin C
<1> DEFINE A == {i \in 0..z : At(s, i) \in C}
           B == {i \in (z + 1)..m : At(s, i) \in C}
           D == {i \in 0..m : At(s, i) \in C}
           d == Cardinality(B)
<1>1. IsFiniteSet(0..z) /\ IsFiniteSet((z + 1)..m) /\ Cardinality((z + 1)..m) = m - z
  <2>1. z + 1 \in Int /\ m \in Int /\ z \in Int /\ 0 \in Int
    OBVIOUS
  <2>2. IsFiniteSet(0..z) /\ IsFiniteSet((z + 1)..m)
    BY <2>1, FS_Interval
  <2>3. Cardinality((z + 1)..m) = IF z + 1 > m THEN 0 ELSE m - (z + 1) + 1
    BY <2>1, FS_Interval
  <2> QED
    BY <2>2, <2>3
<1>2. IsFiniteSet(A) /\ IsFiniteSet(B) /\ Cardinality(B) <= m - z /\ d \in Nat
  <2>1. A \subseteq 0..z /\ B \subseteq (z + 1)..m
    OBVIOUS
  <2> HIDE DEF A, B
  <2> QED
    BY <1>1, <2>1, FS_Subset, FS_CardinalityType
<1>3. D = A \cup B /\ A \cap B = {}
  OBVIOUS
<1>4. Cardinality(D) = Cardinality(A) + d
  <2> HIDE DEF A, B, D
  <2>1. Cardinality(A \cup B) = Cardinality(A) + Cardinality(B) - Cardinality(A \cap B)
    BY <1>2, FS_Union
  <2>2. Cardinality(A) \in Nat
    BY <1>2, FS_CardinalityType
  <2>3. Cardinality(A \cap B) = 0
    BY <1>3, FS_EmptySet
  <2>4. Cardinality(B) \in Nat /\ d = Cardinality(B)
    BY <1>2, FS_CardinalityType
  <2> HIDE DEF d
  <2> QED
    BY <1>3, <2>1, <2>2, <2>3, <2>4
<1>5. m \in B
  OBVIOUS
<1>6. d # 0
  <2> HIDE DEF B
  <2> QED
    BY <1>2, <1>5, FS_EmptySet
<1>7. ASSUME d = 1, NEW n \in (z + 1)..(m - 1), At(s, n) \in C PROVE FALSE
  <2>1. n \in B /\ n # m
    BY <1>7
  <2>2. Cardinality(B \ {m}) = 0 /\ IsFiniteSet(B \ {m})
    <3> HIDE DEF B
    <3>1. Cardinality(B \ {m}) = Cardinality(B) - 1 /\ IsFiniteSet(B \ {m})
      BY <1>2, <1>5, FS_RemoveElement
    <3> QED
      BY <1>7, <3>1
  <2>3. B \ {m} = {}
    <3> HIDE DEF B
    <3> QED
      BY <2>2, FS_EmptySet
  <2> QED
    BY <2>1, <2>3
<1> HIDE DEF d, B
<1>8. d \in 1..(m - z)
  BY <1>2, <1>6 DEF d
<1> QED
  BY <1>4, <1>7, <1>8 DEF Count

(* One packet more.                                                        *)
LEMMA CountNext ==
    ASSUME NEW s, NEW C, NEW m \in Nat
    PROVE  Count(s, m, C) = Count(s, m - 1, C) + (IF At(s, m) \in C THEN 1 ELSE 0)
<1> DEFINE A == {i \in 0..(m - 1) : At(s, i) \in C}
<1>1. IsFiniteSet(A) /\ m \notin A
  <2>1. IsFiniteSet(0..(m - 1))
    BY FS_Interval
  <2> QED
    BY <2>1, FS_Subset
<1>2. {i \in 0..m : At(s, i) \in C} = IF At(s, m) \in C THEN A \cup {m} ELSE A
  <2>1. 0..m = (0..(m - 1)) \cup {m}
    OBVIOUS
  <2> QED
    BY <2>1
<1>3. Cardinality(A \cup {m}) = Cardinality(A) + 1 /\ Cardinality(A) \in Nat
  <2> HIDE DEF A
  <2> QED
    BY <1>1, FS_AddElement, FS_CardinalityType
<1> QED
  BY <1>2, <1>3 DEF Count

(* The counter goes on by one, so nothing is missing: fewer than CcSpace   *)
(* packets of the PID were sent between the two.                           *)
LEMMA NoneMissing ==
    ASSUME NEW s \in Sources, NEW k \in Kinds, NEW z \in Nat, NEW m \in Nat, z < m,
           Count(s, m - 1, Payload(k)) - Count(s, z, Payload(k)) < CcSpace,
           PayloadOf(At(s, z), k), PayloadOf(At(s, m), k),
           Packet(s, m).cc = (Packet(s, z).cc + 1) % CcSpace
    PROVE  \A n \in (z + 1)..(m - 1) : ~PayloadOf(At(s, n), k)
<1> DEFINE C == Payload(k)
<1>1. \A n \in Nat : At(s, n) \in C <=> PayloadOf(At(s, n), k)
  BY AtIs DEF PayloadOf, Payload
<1>2. Packet(s, m).cc = Count(s, m, C) % CcSpace /\ Packet(s, z).cc = Count(s, z, C) % CcSpace
  BY DEF Packet, PayloadOf
<1> HIDE DEF C
<1>3. PICK d \in 1..(m - z) : /\ Count(s, m, C) = Count(s, z, C) + d
                              /\ d = 1 => \A n \in (z + 1)..(m - 1) : At(s, n) \notin C
  BY <1>1, CountSplit
<1>4. d = 1
  <2> DEFINE a == Count(s, z, C)
  <2>1. a \in Int /\ d \in 1..CcSpace /\ CcSpace \in Nat \ {0}
    <3>1. a \in Nat /\ Count(s, m - 1, C) \in Nat
      BY CountIs
    <3>2. Count(s, m, C) = Count(s, m - 1, C) + 1
      BY <1>1, CountNext
    <3>3. Count(s, m - 1, C) - a < CcSpace
      BY DEF C
    <3> HIDE DEF a
    <3> QED
      BY <1>3, <3>1, <3>2, <3>3, Scales DEF a
  <2>2. (a + d) % CcSpace = ((a % CcSpace) + 1) % CcSpace
    BY <1>2, <1>3
  <2> HIDE DEF a
  <2> QED
    BY <2>1, <2>2, ModSame
<1>5. \A n \in (z + 1)..(m - 1) : n \in Nat
  OBVIOUS
<1> QED
  BY <1>1, <1>3, <1>4, <1>5

(* What CheckContinuity finds, and keeps.                                  *)
Gap(c, p) == p.pay /\ c.cc[p.kind] # None /\ p.cc # (c.cc[p.kind] + 1) % CcSpace
NewCC(c, p) == IF p.pay THEN [c.cc EXCEPT ![p.kind] = p.cc] ELSE c.cc
NewNewest(c, p) == IF p.pay THEN [c.newest EXCEPT ![p.kind] = p.n] ELSE c.newest

(* The candidate once its continuity and its program have been checked.    *)
LEMMA LearnedIs ==
    ASSUME NEW m \in Nat, NEW c, GoodCandidate(c, m), ~c.refused,
           NEW p, p = Packet(c.src, m),
           NEW l, l = LearnProgram(CheckContinuity(c, p), p)
    PROVE  /\ l \in Candidates /\ l.src = c.src /\ l.pts = c.pts /\ l.parPts = c.parPts
           /\ l.pcr = c.pcr /\ l.cc = NewCC(c, p) /\ l.newest = NewNewest(c, p)
           /\ c.profile => l.profile
           /\ l.profile /\ ~l.refused => tables.level = "full"
           /\ Gap(c, p) => l.pkts = <<>> /\ ~l.buffering /\ ~l.idr /\ l.par = None
           /\ ~Gap(c, p) => /\ l.pkts = c.pkts /\ l.buffering = c.buffering
                            /\ l.idr = c.idr /\ l.par = c.par
<1> DEFINE x == CheckContinuity(c, p)
<1>1. /\ c \in Candidates /\ c.src \in Sources
      /\ c.profile => tables.level = "full"
  BY DEF GoodCandidate, Candidates
<1>2. p.kind \in Kinds /\ p.cc \in Counters /\ p.pay \in BOOLEAN /\ p.n \in Nat
  <2>1. GoodPacket(p)
    BY <1>1, PacketIs
  <2> QED
    BY <2>1, KindsAre DEF Counters, GoodPacket, TsPackets
<1>3. /\ NewCC(c, p) \in [Kinds -> Counters] /\ <<>> \in Seq(TsPackets) /\ None \in Pars
      /\ NewNewest(c, p) \in [Kinds -> Nat \cup {None}]
  BY <1>1, <1>2 DEF NewCC, NewNewest, Candidates, Pars
<1>4. /\ x \in Candidates /\ x.src = c.src /\ x.pts = c.pts /\ x.parPts = c.parPts
      /\ x.pcr = c.pcr /\ x.cc = NewCC(c, p) /\ x.newest = NewNewest(c, p)
      /\ x.profile = c.profile
      /\ x.refused = c.refused /\ x.pmtKnown = c.pmtKnown
      /\ Gap(c, p) => x.pkts = <<>> /\ ~x.buffering /\ ~x.idr /\ x.par = None
      /\ ~Gap(c, p) => /\ x.pkts = c.pkts /\ x.buffering = c.buffering
                       /\ x.idr = c.idr /\ x.par = c.par
  <2>1. CASE ~p.pay
    <3>1. x = c /\ ~Gap(c, p) /\ NewCC(c, p) = c.cc /\ NewNewest(c, p) = c.newest
      BY <2>1 DEF CheckContinuity, Gap, NewCC, NewNewest
    <3> HIDE DEF x
    <3> QED
      BY <1>1, <3>1
  <2>2. CASE Gap(c, p)
    <3>1. x = [Drop(c) EXCEPT !.cc[p.kind] = p.cc, !.newest[p.kind] = p.n] /\ p.pay
      BY <2>2 DEF CheckContinuity, Gap
    <3>2. x = [c EXCEPT !.pkts = <<>>, !.buffering = FALSE, !.idr = FALSE, !.par = None,
                        !.cc = NewCC(c, p), !.newest = NewNewest(c, p)]
      BY <1>1, <3>1 DEF Drop, DropAll, NewCC, NewNewest, Candidates
    <3> HIDE DEF x
    <3> QED
      BY <1>1, <1>3, <2>2, <3>2 DEF Candidates
  <2>3. CASE p.pay /\ ~Gap(c, p)
    <3>1. x = [c EXCEPT !.cc[p.kind] = p.cc, !.newest[p.kind] = p.n]
      BY <2>3 DEF CheckContinuity, Gap
    <3>2. x = [c EXCEPT !.cc = NewCC(c, p), !.newest = NewNewest(c, p)]
      BY <1>1, <2>3, <3>1 DEF NewCC, NewNewest, Candidates
    <3> HIDE DEF x
    <3> QED
      BY <1>1, <1>3, <2>3, <3>2 DEF Candidates
  <2> QED
    BY <1>2, <2>1, <2>2, <2>3
<1> HIDE DEF x
<1>5. l = LearnProgram(x, p)
  BY DEF x
<1>6. CASE p.kind = "pat"
  <2>1. l = [x EXCEPT !.pmtKnown = TRUE]
    BY <1>5, <1>6 DEF LearnProgram
  <2> QED
    BY <1>1, <1>4, <2>1 DEF Candidates
<1>7. CASE p.kind = "pmt" /\ x.pmtKnown
  <2> DEFINE b == ~CheckCompatibility(p.src)
  <2>1. l = [x EXCEPT !.profile = TRUE, !.refused = b]
    BY <1>5, <1>7 DEF LearnProgram
  <2>2. b \in BOOLEAN /\ (~b => tables.level = "full")
    BY DEF CheckCompatibility
  <2> HIDE DEF b
  <2> QED
    BY <1>1, <1>4, <2>1, <2>2 DEF Candidates
<1>8. CASE p.kind # "pat" /\ ~(p.kind = "pmt" /\ x.pmtKnown)
  <2>1. l = x
    BY <1>5, <1>8 DEF LearnProgram
  <2> QED
    BY <1>1, <1>4, <2>1
<1> QED
  BY <1>6, <1>7, <1>8

(* A counter that is not known yet is that of no packet.                   *)
LEMMA NoCounter ==
    ASSUME NEW m \in Nat, NEW c, GoodCandidate(c, m), ~c.refused,
           NEW p, p = Packet(c.src, m), NEW k \in Kinds, NewCC(c, p)[k] = None
    PROVE  /\ ~PayloadOf(p, k) /\ c.cc[k] = None /\ NewNewest(c, p)[k] = None
           /\ \A i \in DOMAIN c.pkts : ~PayloadOf(c.pkts[i], k)
<1>1. /\ c.cc \in [Kinds -> Counters] /\ c.newest \in [Kinds -> Nat \cup {None}]
      /\ InBuffer(c, m) /\ c.src \in Sources
  BY DEF GoodCandidate, Candidates
<1>2. GoodPacket(p)
  BY <1>1, PacketIs
<1>3. p.cc # None /\ p.kind \in Kinds
  BY <1>2, KindsAre, Scales
<1>4. ~PayloadOf(p, k) /\ c.cc[k] = None
  BY <1>1, <1>3 DEF NewCC, PayloadOf
<1>5. c.newest[k] = None /\ \A i \in DOMAIN c.pkts : ~PayloadOf(c.pkts[i], k)
  BY <1>1, <1>4 DEF InBuffer
<1>6. NewNewest(c, p)[k] = None
  BY <1>1, <1>3, <1>4, <1>5 DEF NewNewest, PayloadOf
<1> QED
  BY <1>4, <1>5, <1>6

(* What a candidate knows of the newest packet it has of a PID.            *)
Newest(c, k, z) == /\ PayloadOf(At(c.src, z), k) /\ c.newest[k] = z
                   /\ c.cc[k] = Packet(c.src, z).cc

(* It is what InBuffer says.                                               *)
LEMMA NewestIs ==
    ASSUME NEW c, NEW m \in Nat, InBuffer(c, m), NEW k \in Kinds, c.cc[k] # None
    PROVE  /\ c.newest[k] \in 0..(m - 1) /\ Newest(c, k, c.newest[k])
           /\ NoHole(c, k, c.newest[k]) /\ Since(c, k, c.newest[k], m) < CcSpace
BY DEF InBuffer, Newest

(* Another packet: nothing of the PID has come since, or one more has.     *)
LEMMA SinceNext ==
    ASSUME NEW s \in Sources, NEW m \in Nat, NEW k, NEW z \in Int
    PROVE  Count(s, m, Payload(k)) - Count(s, z, Payload(k)) =
             Count(s, m - 1, Payload(k)) - Count(s, z, Payload(k))
               + (IF PayloadOf(At(s, m), k) THEN 1 ELSE 0)
<1> DEFINE C == Payload(k)
<1>1. Count(s, m, C) \in Nat /\ Count(s, m - 1, C) \in Nat /\ Count(s, z, C) \in Nat
  BY CountIs
<1>2. At(s, m) \in C <=> PayloadOf(At(s, m), k)
  BY AtIs DEF PayloadOf, Payload
<1>3. Count(s, m, C) = Count(s, m - 1, C) + (IF At(s, m) \in C THEN 1 ELSE 0)
  BY CountNext
<1> HIDE DEF C
<1>4. Count(s, m, C) = Count(s, m - 1, C) + (IF PayloadOf(At(s, m), k) THEN 1 ELSE 0)
  BY <1>2, <1>3
<1>5. Count(s, m, C) - Count(s, z, C) = Count(s, m - 1, C) - Count(s, z, C)
               + (IF PayloadOf(At(s, m), k) THEN 1 ELSE 0)
  BY <1>1, <1>4
<1> QED
  BY <1>5 DEF C

(* Each counter is that of a packet that came, and of the newest one.      *)
LEMMA CountersOf ==
    ASSUME NEW m \in Nat, NEW c, GoodCandidate(c, m), ~c.refused,
           NEW p, p = Packet(c.src, m), NEW k \in Kinds, NewCC(c, p)[k] # None,
           NEW z, z = NewNewest(c, p)[k]
    PROVE  /\ z \in 0..m /\ PayloadOf(At(c.src, z), k)
           /\ NewCC(c, p)[k] = Packet(c.src, z).cc
           /\ IF PayloadOf(p, k) THEN z = m ELSE c.cc[k] # None /\ z = c.newest[k]
           /\ Count(c.src, m, Payload(k)) - Count(c.src, z, Payload(k)) < CcSpace
<1>1. /\ c \in Candidates /\ c.src \in Sources /\ InBuffer(c, m)
      /\ c.cc \in [Kinds -> Counters] /\ c.newest \in [Kinds -> Nat \cup {None}]
  BY DEF GoodCandidate, Candidates
<1>2. /\ p.n = m /\ p.kind = At(c.src, m).kind /\ p.pay = At(c.src, m).pay
      /\ p.kind \in Kinds
  <2>1. GoodPacket(p) /\ p.n = m /\ p.kind = At(c.src, m).kind /\ p.pay = At(c.src, m).pay
    BY <1>1, PacketIs
  <2> QED
    BY <2>1, KindsAre
<1>3. CASE PayloadOf(p, k)
  <2>1. /\ NewCC(c, p)[k] = p.cc /\ PayloadOf(At(c.src, m), k) /\ m \in 0..m
        /\ NewNewest(c, p)[k] = m
    BY <1>1, <1>2, <1>3 DEF NewCC, NewNewest, PayloadOf
  <2>2. Count(c.src, m, Payload(k)) - Count(c.src, m, Payload(k)) < CcSpace
    BY CountIs, Scales
  <2> QED
    BY <1>3, <2>1, <2>2
<1>4. CASE ~PayloadOf(p, k)
  <2>1. NewCC(c, p)[k] = c.cc[k] /\ z = c.newest[k] /\ ~PayloadOf(At(c.src, m), k)
    BY <1>1, <1>2, <1>4 DEF NewCC, NewNewest, PayloadOf
  <2>2. /\ z \in 0..(m - 1) /\ PayloadOf(At(c.src, z), k) /\ c.cc[k] = Packet(c.src, z).cc
        /\ Count(c.src, m - 1, Payload(k)) - Count(c.src, z, Payload(k)) < CcSpace
    BY <1>1, <2>1, NewestIs DEF Newest, Since
  <2>3. z \in 0..m /\ z \in Int
    BY <2>2
  <2>4. Count(c.src, m, Payload(k)) - Count(c.src, z, Payload(k)) =
          Count(c.src, m - 1, Payload(k)) - Count(c.src, z, Payload(k)) + 0
    BY <1>1, <2>1, <2>3, SinceNext
  <2>5. Count(c.src, m - 1, Payload(k)) \in Nat /\ Count(c.src, z, Payload(k)) \in Nat
    BY <2>3, CountIs
  <2>6. Count(c.src, m, Payload(k)) - Count(c.src, z, Payload(k)) < CcSpace
    BY <2>2, <2>4, <2>5, Scales
  <2> QED
    BY <1>4, <2>1, <2>2, <2>3, <2>6
<1> QED
  BY <1>3, <1>4

(* A buffer that is empty, or begins with this packet, holds no hole.      *)
LEMMA FreshBuffer ==
    ASSUME NEW m \in Nat, NEW c, GoodCandidate(c, m), ~c.refused,
           NEW p, p = Packet(c.src, m),
           NEW e, e.src = c.src, e.cc = NewCC(c, p), e.newest = NewNewest(c, p),
           e.pkts = <<>> \/ e.pkts = <<p>>
    PROVE  InBuffer(e, m + 1)
<1>1. c.src \in Sources /\ m \in 0..((m + 1) - 1) /\ (m + 1) - 1 = m
  BY DEF GoodCandidate, Candidates
<1>2. p.n = m
  BY <1>1, PacketIs
<1>3. \A i \in DOMAIN e.pkts : i = 1 /\ e.pkts[i] = p /\ e.pkts = <<p>>
  OBVIOUS
<1>4. /\ \A i \in DOMAIN e.pkts : /\ e.pkts[i].n \in 0..((m + 1) - 1)
                                  /\ e.pkts[i] = Packet(e.src, e.pkts[i].n)
      /\ \A i, j \in DOMAIN e.pkts : i < j => e.pkts[i].n < e.pkts[j].n
  BY <1>1, <1>2, <1>3
<1>5. ASSUME NEW k \in Kinds, e.cc[k] = None
      PROVE  e.newest[k] = None /\ \A i \in DOMAIN e.pkts : ~PayloadOf(e.pkts[i], k)
  BY <1>3, <1>5, NoCounter
<1>6. ASSUME NEW k \in Kinds, e.cc[k] # None
      PROVE  \E z \in 0..((m + 1) - 1) : /\ PayloadOf(At(e.src, z), k)
                                         /\ e.newest[k] = z /\ e.cc[k] = Packet(e.src, z).cc
                                         /\ NoHole(e, k, z)
                                         /\ Since(e, k, z, m + 1) < CcSpace
  <2> DEFINE z == NewNewest(c, p)[k]
  <2>1. /\ z \in 0..m /\ PayloadOf(At(c.src, z), k)
        /\ NewCC(c, p)[k] = Packet(c.src, z).cc
        /\ IF PayloadOf(p, k) THEN z = m ELSE c.cc[k] # None /\ z = c.newest[k]
        /\ Count(c.src, m, Payload(k)) - Count(c.src, z, Payload(k)) < CcSpace
    BY <1>6, CountersOf
  <2>2. e.newest[k] = z
    OBVIOUS
  <2> HIDE DEF z
  <2>3. NoHole(e, k, z)
    <3> SUFFICES ASSUME NEW i \in DOMAIN e.pkts, PayloadOf(e.pkts[i], k)
                 PROVE  /\ e.pkts[i].n <= z
                        /\ \A n \in (e.pkts[i].n + 1)..z : FALSE
      BY DEF NoHole
    <3>1. e.pkts[i].n = m /\ z = m
      BY <1>2, <1>3, <2>1
    <3> QED
      BY <3>1
  <2>4. Since(e, k, z, m + 1) < CcSpace
    BY <1>1, <2>1 DEF Since
  <2> QED
    BY <1>1, <2>1, <2>2, <2>3, <2>4
<1> QED
  BY <1>4, <1>5, <1>6 DEF InBuffer

(* A packet that goes on where the counters left off leaves no hole.       *)
LEMMA GrownBuffer ==
    ASSUME NEW m \in Nat, NEW c, GoodCandidate(c, m), ~c.refused,
           NEW p, p = Packet(c.src, m), ~Gap(c, p),
           NEW e, e.src = c.src, e.cc = NewCC(c, p), e.newest = NewNewest(c, p),
           e.pkts = Append(c.pkts, p)
    PROVE  InBuffer(e, m + 1)
<1> DEFINE o == c.pkts
           q == e.pkts
           s == c.src
           n == Len(o)
<1>1. /\ s \in Sources /\ m \in 0..m /\ (m + 1) - 1 = m /\ InBuffer(c, m)
      /\ o \in Seq(TsPackets) /\ c.cc \in [Kinds -> Counters]
  BY DEF GoodCandidate, Candidates
<1>2. /\ p.n = m /\ p.kind = At(s, m).kind /\ p.pay = At(s, m).pay /\ GoodPacket(p)
      /\ p.kind \in Kinds /\ p \in TsPackets /\ p.cc # None
  <2>1. p.n = m /\ p.kind = At(s, m).kind /\ p.pay = At(s, m).pay /\ GoodPacket(p)
    BY <1>1, PacketIs
  <2>2. p.cc # None
    BY <2>1, KindsAre, Scales
  <2> QED
    BY <2>1, <2>2, KindsAre
<1>3. /\ n \in Nat /\ Len(q) = n + 1 /\ q[n + 1] = p
      /\ \A i \in 1..n : q[i] = o[i]
      /\ DOMAIN o = 1..n /\ DOMAIN q = 1..(n + 1)
  BY <1>1, <1>2, Appended
<1>4. \A i \in 1..(n + 1) : i \in 1..n \/ i = n + 1
  BY <1>3
<1>5. /\ \A i \in 1..n : o[i].n \in 0..(m - 1) /\ o[i] = Packet(s, o[i].n)
      /\ \A i, j \in 1..n : i < j => o[i].n < o[j].n
  BY <1>1, <1>3 DEF InBuffer
<1> HIDE DEF o, q, n, s
<1>6. /\ \A i \in 1..(n + 1) : q[i].n \in 0..m /\ q[i] = Packet(s, q[i].n)
      /\ \A i, j \in 1..(n + 1) : i < j => q[i].n < q[j].n
  <2>1. \A i \in 1..n : o[i].n \in 0..m /\ o[i].n < m
    BY <1>5
  <2>2. p = Packet(s, p.n)
    BY <1>2 DEF s
  <2>3. \A i \in 1..(n + 1) : q[i].n \in 0..m /\ q[i] = Packet(s, q[i].n)
    BY <1>1, <1>2, <1>3, <1>4, <1>5, <2>1, <2>2
  <2>4. ASSUME NEW i \in 1..(n + 1), NEW j \in 1..(n + 1), i < j PROVE q[i].n < q[j].n
    <3>1. i \in 1..n /\ q[i] = o[i]
      BY <1>3, <2>4
    <3>2. CASE j = n + 1
      BY <1>2, <1>3, <2>1, <3>1, <3>2
    <3>3. CASE j # n + 1
      BY <1>3, <1>4, <1>5, <2>4, <3>1, <3>3
    <3> QED
      BY <3>2, <3>3
  <2> QED
    BY <2>3, <2>4
<1>7. ASSUME NEW k \in Kinds, e.cc[k] = None
      PROVE  e.newest[k] = None /\ \A i \in 1..(n + 1) : ~PayloadOf(q[i], k)
  <2>1. /\ ~PayloadOf(p, k) /\ e.newest[k] = None
        /\ \A i \in DOMAIN o : ~PayloadOf(o[i], k)
    BY <1>7, NoCounter DEF o
  <2> QED
    BY <1>3, <1>4, <2>1
<1>8. ASSUME NEW k \in Kinds, e.cc[k] # None
      PROVE  \E z \in 0..m : /\ PayloadOf(At(s, z), k)
                             /\ e.newest[k] = z /\ e.cc[k] = Packet(s, z).cc
                             /\ NoHole(e, k, z)
                             /\ Since(e, k, z, m + 1) < CcSpace
  <2> DEFINE w == NewNewest(c, p)[k]
  <2>1. /\ w \in 0..m /\ PayloadOf(At(s, w), k) /\ e.newest[k] = w
        /\ e.cc[k] = Packet(s, w).cc
        /\ IF PayloadOf(p, k) THEN w = m ELSE c.cc[k] # None /\ w = c.newest[k]
        /\ Count(s, m, Payload(k)) - Count(s, w, Payload(k)) < CcSpace
    BY <1>8, CountersOf DEF s
  <2> HIDE DEF w
  <2>2. Since(e, k, w, m + 1) < CcSpace
    <3>1. e.src = s /\ (m + 1) - 1 = m
      BY <1>1 DEF s
    <3>2. Since(e, k, w, m + 1) = Count(s, m, Payload(k)) - Count(s, w, Payload(k))
      BY <3>1 DEF Since
    <3>3. Count(s, m, Payload(k)) - Count(s, w, Payload(k)) < CcSpace
      BY <2>1
    <3> QED
      BY <3>2, <3>3
  <2>3. CASE ~PayloadOf(p, k)
    <3>1. w \in 0..(m - 1) /\ NoHole(c, k, w)
      BY <1>1, <2>1, <2>3, NewestIs
    <3>2. NoHole(e, k, w)
      <4> SUFFICES ASSUME NEW i \in 1..(n + 1), PayloadOf(q[i], k)
                   PROVE  /\ q[i].n <= w
                          /\ \A y \in (q[i].n + 1)..w : PayloadOf(At(s, y), k) =>
                               \E l \in 1..(n + 1) : q[l].n = y
        BY <1>3 DEF NoHole, q, s
      <4>1. i \in 1..n /\ q[i] = o[i]
        BY <1>3, <1>4, <2>3
      <4>2. /\ o[i].n <= w
            /\ \A y \in (o[i].n + 1)..w : PayloadOf(At(s, y), k) =>
                 \E l \in 1..n : o[l].n = y
        BY <1>3, <3>1, <4>1 DEF NoHole, o, s
      <4>3. \A l \in 1..n : l \in 1..(n + 1) /\ q[l].n = o[l].n
        BY <1>3
      <4> QED
        BY <4>1, <4>2, <4>3
    <3> QED
      BY <2>1, <2>2, <3>2
  <2>4. CASE PayloadOf(p, k)
    <3>1. w = m /\ p.kind = k /\ p.pay /\ PayloadOf(At(s, m), k)
      BY <1>1, <1>2, <2>1, <2>4 DEF PayloadOf
    <3>2. p = Packet(s, m)
      BY DEF s
    <3>3. NoHole(e, k, m)
      <4> SUFFICES ASSUME NEW i \in 1..(n + 1), PayloadOf(q[i], k)
                   PROVE  /\ q[i].n <= m
                          /\ \A y \in (q[i].n + 1)..m : PayloadOf(At(s, y), k) =>
                               \E l \in 1..(n + 1) : q[l].n = y
        BY <1>3 DEF NoHole, q, s
      <4>1. q[i].n \in 0..m /\ n + 1 \in 1..(n + 1) /\ q[n + 1].n = m
        BY <1>2, <1>3, <1>6
      <4>2. ASSUME NEW y \in (q[i].n + 1)..m, PayloadOf(At(s, y), k)
            PROVE  \E l \in 1..(n + 1) : q[l].n = y
        <5>1. CASE y = m
          BY <4>1, <5>1
        <5>2. CASE y # m
          <6>1. i \in 1..n /\ q[i] = o[i]
            <7>1. i # n + 1
              BY <4>1, <5>2
            <7> QED
              BY <1>3, <1>4, <7>1
          <6>2. c.cc[k] # None
            BY <1>1, <1>3, <4>2, <6>1 DEF InBuffer, o
          <6> DEFINE z == c.newest[k]
          <6>3. /\ z \in 0..(m - 1) /\ PayloadOf(At(s, z), k) /\ c.cc[k] = Packet(s, z).cc
                /\ NoHole(c, k, z)
                /\ Count(s, m - 1, Payload(k)) - Count(s, z, Payload(k)) < CcSpace
            BY <1>1, <6>2, NewestIs DEF Newest, Since, s
          <6> HIDE DEF z
          <6>4. /\ o[i].n <= z
                /\ \A x \in (o[i].n + 1)..z : PayloadOf(At(s, x), k) =>
                     \E l \in 1..n : o[l].n = x
            BY <1>3, <6>1, <6>3 DEF NoHole, o, s
          <6>5. \A x \in (z + 1)..(m - 1) : ~PayloadOf(At(s, x), k)
            <7>1. Packet(s, m).cc = (Packet(s, z).cc + 1) % CcSpace
              BY <3>1, <3>2, <6>2, <6>3 DEF Gap
            <7>2. z \in Nat /\ z < m
              BY <6>3
            <7> QED
              BY <1>1, <3>1, <6>3, <7>1, <7>2, NoneMissing
          <6>6. y \in (o[i].n + 1)..z
            <7>1. y \in Int /\ y >= o[i].n + 1 /\ y <= m - 1 /\ o[i].n \in Int /\ z \in Int
              BY <4>1, <5>2, <6>1, <6>3
            <7>2. y <= z
              BY <4>2, <6>5, <7>1
            <7> QED
              BY <7>1, <7>2
          <6>7. \A l \in 1..n : l \in 1..(n + 1) /\ q[l].n = o[l].n
            BY <1>3
          <6> QED
            BY <4>2, <6>4, <6>6, <6>7
        <5> QED
          BY <5>1, <5>2
      <4>3. q[i].n <= m
        BY <4>1
      <4> QED
        BY <4>2, <4>3
    <3> QED
      BY <1>1, <2>1, <2>2, <3>1, <3>3
  <2> QED
    BY <2>3, <2>4
<1> QED
  BY <1>1, <1>3, <1>6, <1>7, <1>8 DEF InBuffer, q, s

(* The first packet of a frame.                                            *)
LEMMA BegunIs ==
    ASSUME NEW l \in Candidates, NEW p, p \in TsPackets,
           NEW e, e = Buffer(BeginFrame(l, p), p)
    PROVE  /\ e \in Candidates /\ e.src = l.src /\ e.cc = l.cc /\ e.newest = l.newest
           /\ e.profile = l.profile
           /\ e.refused = l.refused /\ e.pkts = <<p>> /\ e.buffering /\ e.pts = p.pts
           /\ e.pcr = p.pcr /\ e.idr = p.idr
           /\ e.par # None => e.par = l.par \/ e.par = p.par
<1> DEFINE b == IF l.par # None /\ p.pts # None /\ ClockPlus(p.pts, -l.parPts) > spsWindowTicks
                THEN None ELSE l.par
           f == BeginFrame(l, p)
<1>1. p.pts \in MaybeTime /\ p.pcr \in MaybeTime /\ p.idr \in BOOLEAN /\ p.par \in Pars
  BY DEF TsPackets
<1>2. b \in Pars /\ (b # None => b = l.par) /\ <<>> \in Seq(TsPackets) /\ None \in MaybeTime
  BY DEF Candidates, Pars, MaybeTime
<1>3. f = [l EXCEPT !.pkts = <<>>, !.buffering = TRUE, !.idr = FALSE, !.pts = p.pts,
                    !.par = b, !.pcr = None]
  BY DEF BeginFrame, BeginFrameKeepingPCR, Candidates
<1> HIDE DEF b, f
<1>4. /\ f \in Candidates /\ f.src = l.src /\ f.cc = l.cc /\ f.newest = l.newest
      /\ f.profile = l.profile
      /\ f.refused = l.refused /\ f.pkts = <<>> /\ f.buffering /\ f.pts = p.pts
      /\ f.pcr = None /\ f.idr = FALSE /\ f.par = b /\ f.parPts = l.parPts
  BY <1>1, <1>2, <1>3 DEF Candidates
<1> DEFINE a == IF p.par # None THEN p.par ELSE f.par
           t == IF p.par # None THEN (IF f.pts = None THEN 0 ELSE f.pts) ELSE f.parPts
           o == <<p>>
<1>5. e = [f EXCEPT !.pkts = o, !.pcr = p.pcr, !.idr = p.idr, !.par = a, !.parPts = t]
  <2>1. Append(f.pkts, p) = o
    BY <1>4
  <2>2. (FALSE \/ p.idr) = p.idr
    BY <1>1
  <2>3. e = [f EXCEPT !.pkts = Append(@, p), !.pcr = IF @ = None THEN p.pcr ELSE @,
                      !.idr = @ \/ p.idr, !.par = a, !.parPts = t]
    BY DEF Buffer, f
  <2> HIDE DEF o, a, t
  <2> QED
    BY <1>4, <2>1, <2>2, <2>3
<1>6. a \in Pars /\ t \in Times /\ o \in Seq(TsPackets)
  <2>1. t \in Times
    BY <1>1, <1>4, Scales DEF Times, MaybeTime, Candidates
  <2>2. o \in Seq(TsPackets)
    OBVIOUS
  <2>3. a \in Pars
    BY <1>1, <1>2, <1>4
  <2> QED
    BY <2>1, <2>2, <2>3
<1>7. a # None => a = l.par \/ a = p.par
  BY <1>2, <1>4
<1> HIDE DEF a, t, o
<1>8. /\ e.src = f.src /\ e.cc = f.cc /\ e.newest = f.newest /\ e.profile = f.profile
      /\ e.refused = f.refused /\ e.pkts = o /\ e.buffering = f.buffering /\ e.pts = f.pts
      /\ e.pcr = p.pcr /\ e.idr = p.idr /\ e.par = a
  BY <1>4, <1>5 DEF Candidates
<1>9. e \in Candidates
  <2>1. f \in Candidates /\ p.pcr \in MaybeTime /\ p.idr \in BOOLEAN
    BY <1>1, <1>4
  <2> QED
    BY <1>5, <1>6, <2>1 DEF Candidates
<1> QED
  BY <1>4, <1>7, <1>8, <1>9 DEF o

(* One more packet of the frame.                                           *)
LEMMA BufferedIs ==
    ASSUME NEW l \in Candidates, NEW p, p \in TsPackets, NEW e, e = Buffer(l, p)
    PROVE  /\ e \in Candidates /\ e.src = l.src /\ e.cc = l.cc /\ e.newest = l.newest
           /\ e.profile = l.profile
           /\ e.refused = l.refused /\ e.pkts = Append(l.pkts, p)
           /\ e.buffering = l.buffering /\ e.pts = l.pts
           /\ e.pcr = (IF l.pcr = None THEN p.pcr ELSE l.pcr)
           /\ (e.idr <=> l.idr \/ p.idr)
           /\ e.par # None => e.par = l.par \/ e.par = p.par
<1>1. p.pts \in MaybeTime /\ p.pcr \in MaybeTime /\ p.idr \in BOOLEAN /\ p.par \in Pars
  BY DEF TsPackets
<1> DEFINE a == IF p.par # None THEN p.par ELSE l.par
           t == IF p.par # None THEN (IF l.pts = None THEN 0 ELSE l.pts) ELSE l.parPts
           o == Append(l.pkts, p)
           r == IF l.pcr = None THEN p.pcr ELSE l.pcr
           d == l.idr \/ p.idr
<1>2. e = [l EXCEPT !.pkts = o, !.pcr = r, !.idr = d, !.par = a, !.parPts = t]
  BY DEF Buffer
<1>3. t \in Times
  BY Scales DEF Times, MaybeTime, Candidates
<1>4. o \in Seq(TsPackets)
  BY DEF Candidates
<1>5. r \in MaybeTime /\ a \in Pars
  BY <1>1 DEF Candidates
<1>6. d \in BOOLEAN
  OBVIOUS
<1>7. a # None => a = l.par \/ a = p.par
  OBVIOUS
<1> HIDE DEF a, t, o, r, d
<1>8. /\ e.src = l.src /\ e.cc = l.cc /\ e.newest = l.newest /\ e.profile = l.profile
      /\ e.refused = l.refused /\ e.pkts = o /\ e.buffering = l.buffering /\ e.pts = l.pts
      /\ e.pcr = r /\ e.idr = d /\ e.par = a
  BY <1>2 DEF Candidates
<1>9. e \in Candidates
  BY <1>2, <1>3, <1>4, <1>5, <1>6 DEF Candidates
<1> QED
  BY <1>7, <1>8, <1>9 DEF o, r, d

(* ProcessCandidate, packet by packet.                                     *)
LEMMA CollectStep ==
    ASSUME NEW m \in Nat, NEW c, GoodCandidate(c, m),
           NEW p, p = Packet(c.src, m), NEW e, e = Collect(c, p)
    PROVE  GoodCandidate(e, m + 1) /\ e.src = c.src
<1> DEFINE l == LearnProgram(CheckContinuity(c, p), p)
           new == p.kind = "video" /\ p.start
<1>1. /\ c \in Candidates /\ c.src \in Sources
      /\ c.par # None => c.par = Program[c.src].par
      /\ c.profile /\ ~c.refused => tables.level = "full"
      /\ ~c.refused => FrameOf(c) /\ InBuffer(c, m)
  BY DEF GoodCandidate, Candidates
<1>2. /\ GoodPacket(p) /\ p \in TsPackets /\ p.n = m /\ (p.par # None => p.par = Program[c.src].par)
      /\ p.pcr \in MaybeTime
  BY <1>1, PacketIs DEF GoodPacket, TsPackets
<1>3. CASE c.refused
  <2>1. e = c
    BY <1>3 DEF Collect
  <2> QED
    BY <1>1, <1>3, <2>1 DEF GoodCandidate
<1>4. CASE ~c.refused
  <2>1. /\ l \in Candidates /\ l.src = c.src /\ l.pts = c.pts /\ l.parPts = c.parPts
        /\ l.pcr = c.pcr /\ l.cc = NewCC(c, p) /\ l.newest = NewNewest(c, p)
        /\ c.profile => l.profile
        /\ l.profile /\ ~l.refused => tables.level = "full"
        /\ Gap(c, p) => l.pkts = <<>> /\ ~l.buffering /\ ~l.idr /\ l.par = None
        /\ ~Gap(c, p) => /\ l.pkts = c.pkts /\ l.buffering = c.buffering
                         /\ l.idr = c.idr /\ l.par = c.par
    BY <1>4, LearnedIs
  <2>2. e = IF l.refused \/ ~l.profile THEN l
            ELSE IF new THEN Buffer(BeginFrame(l, p), p)
            ELSE IF l.buffering THEN Buffer(l, p) ELSE l
    <3>1. BeginFrame(l, p).buffering
      <4> DEFINE f0 == BeginFrameKeepingPCR(l, p)
      <4>1. f0.buffering /\ f0 = [f0 EXCEPT !.src = f0.src] /\ BeginFrame(l, p) = [f0 EXCEPT !.pcr = None]
        BY <2>1 DEF BeginFrame, BeginFrameKeepingPCR, Candidates
      <4> QED
        BY <2>1, <4>1 DEF BeginFrame, BeginFrameKeepingPCR, Candidates
    <3> HIDE DEF l
    <3> QED
      BY <1>4, <3>1 DEF Collect, l
  <2> HIDE DEF l
  <2>3. FrameOf(c) /\ InBuffer(c, m)
    BY <1>1, <1>4
  <2>4. ~l.buffering => l.pkts = <<>> /\ ~l.idr
    BY <2>1, <2>3 DEF FrameOf
  <2>5. l.par # None => l.par = Program[c.src].par
    BY <1>1, <2>1
  <2>6. CASE l.refused
    <3>1. e = l
      BY <2>2, <2>6
    <3> QED
      BY <2>1, <2>5, <2>6, <3>1 DEF GoodCandidate
  <2>7. CASE ~l.refused /\ ~l.buffering /\ (~l.profile \/ ~new)
    <3>1. e = l
      BY <2>2, <2>7
    <3>2. FrameOf(e)
      BY <2>4, <2>7, <3>1 DEF FrameOf
    <3>3. InBuffer(e, m + 1)
      BY <1>4, <2>1, <2>4, <2>7, <3>1, FreshBuffer
    <3> QED
      BY <2>1, <2>5, <3>1, <3>2, <3>3 DEF GoodCandidate
  <2>8. CASE ~l.refused /\ l.profile /\ new
    <3>1. e = Buffer(BeginFrame(l, p), p)
      BY <2>2, <2>8
    <3>2. /\ e \in Candidates /\ e.src = l.src /\ e.cc = l.cc /\ e.newest = l.newest
          /\ e.profile = l.profile /\ e.refused = l.refused /\ e.pkts = <<p>> /\ e.buffering /\ e.pts = p.pts
          /\ e.pcr = p.pcr /\ e.idr = p.idr
          /\ e.par # None => e.par = l.par \/ e.par = p.par
      BY <1>2, <2>1, <3>1, BegunIs
    <3>3. \A i \in DOMAIN e.pkts : i = 1 /\ e.pkts[i] = p
      BY <3>2
    <3>4. 1 \in DOMAIN e.pkts /\ e.pkts[1] = p /\ e.pkts # <<>> /\ \A j \in 1..(1 - 1) : FALSE
      BY <3>2
    <3>5. FrameOf(e)
      BY <2>8, <3>2, <3>3, <3>4 DEF FrameOf
    <3>6. InBuffer(e, m + 1)
      BY <1>4, <2>1, <3>2, FreshBuffer
    <3> QED
      BY <1>2, <2>1, <2>5, <3>2, <3>5, <3>6 DEF GoodCandidate
  <2>9. CASE ~l.refused /\ l.profile /\ ~new /\ l.buffering
    <3>1. e = Buffer(l, p)
      BY <2>2, <2>9
    <3>2. /\ e \in Candidates /\ e.src = l.src /\ e.cc = l.cc /\ e.newest = l.newest
          /\ e.profile = l.profile /\ e.refused = l.refused /\ e.pkts = Append(l.pkts, p)
          /\ e.buffering = l.buffering /\ e.pts = l.pts
          /\ e.pcr = (IF l.pcr = None THEN p.pcr ELSE l.pcr)
          /\ (e.idr <=> l.idr \/ p.idr)
          /\ e.par # None => e.par = l.par \/ e.par = p.par
      BY <1>2, <2>1, <3>1, BufferedIs
    <3>3. /\ ~Gap(c, p) /\ l.pkts = c.pkts /\ c.buffering /\ l.idr = c.idr /\ c.profile
      BY <2>1, <2>3, <2>9 DEF FrameOf
    <3> DEFINE o == c.pkts
               q == e.pkts
               n == Len(o)
    <3>4. /\ n \in Nat /\ Len(q) = n + 1 /\ q[n + 1] = p /\ \A i \in 1..n : q[i] = o[i]
          /\ DOMAIN o = 1..n /\ DOMAIN q = 1..(n + 1)
      <4>1. o \in Seq(TsPackets) /\ q = Append(o, p)
        BY <1>1, <3>2, <3>3 DEF Candidates
      <4> HIDE DEF o, q
      <4> QED
        BY <1>2, <4>1, Appended
    <3>5. /\ o # <<>> /\ o[1].kind = "video" /\ o[1].start /\ c.pts = o[1].pts
          /\ c.idr => \E i \in DOMAIN o : o[i].idr
          /\ \A i \in DOMAIN o : i > 1 => ~(o[i].kind = "video" /\ o[i].start)
          /\ IF c.pcr = None THEN \A i \in DOMAIN o : o[i].pcr = None
             ELSE \E i \in DOMAIN o : o[i].pcr = c.pcr /\ \A j \in 1..(i - 1) : o[j].pcr = None
      BY <2>3, <3>3 DEF FrameOf
    <3>6. n >= 1
      BY <1>1, <3>4, <3>5 DEF Candidates
    <3>7. /\ \A i \in 1..(n + 1) : i \in 1..n \/ i = n + 1
          /\ \A i \in 1..n : i \in 1..(n + 1)
          /\ n + 1 \in 1..(n + 1) /\ 1 \in 1..n /\ (n + 1) - 1 = n
      BY <3>4, <3>6
    <3> HIDE DEF o, q, n
    <3>8. FrameOf(e)
      <4>1. e.idr => \E i \in 1..(n + 1) : q[i].idr
        BY <3>2, <3>3, <3>4, <3>5, <3>7
      <4>2. q # <<>> /\ q[1].kind = "video" /\ q[1].start /\ e.pts = q[1].pts
        <5>1. q[1] = o[1] /\ 1 \in DOMAIN q
          BY <3>4, <3>7
        <5>2. q # <<>>
          BY <5>1
        <5> QED
          BY <2>1, <3>2, <3>5, <5>1, <5>2
      <4>3. \A i \in 1..(n + 1) : i > 1 => ~(q[i].kind = "video" /\ q[i].start)
        BY <2>9, <3>4, <3>5, <3>7
      <4>4. IF e.pcr = None THEN \A i \in 1..(n + 1) : q[i].pcr = None
            ELSE \E i \in 1..(n + 1) : q[i].pcr = e.pcr /\ \A j \in 1..(i - 1) : q[j].pcr = None
        <5>1. CASE c.pcr = None
          <6>1. e.pcr = p.pcr /\ \A i \in 1..n : q[i].pcr = None
            BY <2>1, <3>2, <3>4, <3>5, <5>1
          <6> QED
            BY <3>4, <3>7, <6>1
        <5>2. CASE c.pcr # None
          <6>1. e.pcr = c.pcr
            BY <2>1, <3>2, <5>2
          <6>2. PICK i \in 1..n : o[i].pcr = c.pcr /\ \A j \in 1..(i - 1) : o[j].pcr = None
            BY <3>4, <3>5, <5>2
          <6>3. \A j \in 1..(i - 1) : j \in 1..n
            BY <3>4
          <6> QED
            BY <3>4, <3>7, <5>2, <6>1, <6>2, <6>3
        <5> QED
          BY <5>1, <5>2
      <4>5. e.buffering /\ e.profile /\ e.pkts = q
        BY <2>9, <3>2 DEF q
      <4>6. DOMAIN q = 1..(n + 1)
        BY <3>4
      <4> QED
        BY <4>1, <4>2, <4>3, <4>4, <4>5, <4>6 DEF FrameOf
    <3>9. InBuffer(e, m + 1)
      BY <1>4, <2>1, <3>2, <3>3, GrownBuffer
    <3> QED
      BY <1>2, <2>1, <2>5, <3>2, <3>8, <3>9 DEF GoodCandidate
  <2>10. l.buffering => l.profile
    BY <2>1, <2>3 DEF FrameOf
  <2> QED
    BY <2>6, <2>7, <2>8, <2>9, <2>10
<1> QED
  BY <1>3, <1>4

(* ProcessCandidate of a whole datagram.                                   *)
LEMMA CollectedIs ==
    ASSUME NEW m \in Nat, NEW c, GoodCandidate(c, m), NEW k \in Nat,
           NEW q, Len(q) = k, DOMAIN q = 1..k, \A i \in 1..k : q[i] = Packet(c.src, m + i - 1)
    PROVE  GoodCandidate(CollectedAll(c, q), m + k) /\ CollectedAll(c, q).src = c.src
<1>1. PICK g : Runs(g, "collect", c, q) /\ g[k] = CollectedAll(c, q)
  <2>1. Len(q) \in Nat /\ DOMAIN q = 1..Len(q)
    OBVIOUS
  <2> QED
    BY <2>1, CollectRuns
<1> DEFINE OK(i) == GoodCandidate(g[i], m + i) /\ g[i].src = c.src
           G == {i \in 0..k : OK(i)}
<1>2. 0 \in G
  <2>1. g[0] = c /\ m + 0 = m
    BY <1>1 DEF Runs
  <2> QED
    BY <2>1
<1>3. ASSUME NEW i \in 1..k, i - 1 \in G PROVE i \in G
  <2>1. g[i] = Collect(g[i - 1], q[i]) /\ OK(i - 1)
    BY <1>1, <1>3 DEF Runs, FoldStep
  <2> DEFINE n == m + (i - 1)
  <2>2. n \in Nat /\ n + 1 = m + i /\ m + i - 1 = n /\ i \in 0..k
    BY Scales
  <2>3. q[i] = Packet(g[i - 1].src, n)
    BY <2>1, <2>2
  <2> HIDE DEF n
  <2>4. GoodCandidate(g[i], n + 1) /\ g[i].src = g[i - 1].src
    <3>1. GoodCandidate(g[i - 1], n)
      BY <2>1 DEF n
    <3> QED
      BY <2>1, <2>2, <2>3, <3>1, CollectStep
  <2>5. OK(i)
    BY <2>1, <2>2, <2>4
  <2> HIDE DEF OK
  <2> QED
    BY <2>2, <2>5
<1>4. OK(k)
  <2>1. \A i \in 0..k : i \in G
    <3> HIDE DEF G
    <3> QED
      BY <1>2, <1>3, UpInduction
  <2>2. k \in 0..k
    OBVIOUS
  <2> HIDE DEF OK
  <2> QED
    BY <2>1, <2>2
<1> QED
  BY <1>1, <1>4

-----------------------------------------------------------------------------
(***************************************************************************)
(* The actions                                                             *)
(***************************************************************************)
(* What a call returns suits the viewer v.                                 *)
SmoothOut(o, v) ==
    LET a == FirstWith(o, LAMBDA p : p.pts # None)
        r == FirstWith(o, LAMBDA p : p.pcr # None)
    IN /\ ClockPlus(a.pts, -v.pts) \in 1..MaxStep
       /\ r.marked
       /\ v.pcr # None => Distance(r.pcr, v.pcr) <= MaxPCRGap

CountersIn(o, v) == /\ o \in Seq(TsPackets) /\ CountersGoOn(o, v)
                    /\ \A i \in DOMAIN o : GoodPacket(o[i])

(* The parts of Fields.                                                    *)
LEMMA FieldsAre ==
    ASSUME Fields
    PROVE  /\ GoodTables(tables) /\ clock \in Clocks /\ lastCC \in [Kinds -> Counters]
           /\ viewer \in Viewers /\ Agree(viewer, tables, clock, lastCC)
           /\ active # None => /\ active \in Transforms /\ tables.level = "full"
                               /\ active.src = current \/ current = None
           /\ current \in Sources \cup {None} /\ pos \in [Sources -> 0..MaxPos]
BY DEF Fields

(* A call that returns nothing.                                            *)
LEMMA DeliverNone == Deliver(<<>>) => out' = <<>> /\ viewer' = viewer
BY SeenNone DEF Deliver

(* A source sends.                                                         *)
LEMMA SendsIs ==
    ASSUME Fields, NEW s \in Sources \cup {None}, NEW m \in Int, m >= 1, Sends(s, m)
    PROVE  /\ s \in Sources /\ pos[s] + m <= MaxPos /\ pos[s] \in Nat /\ m \in Nat
           /\ pos' = [pos EXCEPT ![s] = @ + m] /\ pos' \in [Sources -> 0..MaxPos]
           /\ pos'[s] = pos[s] + m /\ \A t \in Sources \ {s} : pos'[t] = pos[t]
<1>1. /\ s \in Sources /\ pos[s] + m <= MaxPos /\ pos' = [pos EXCEPT ![s] = @ + m]
      /\ pos \in [Sources -> 0..MaxPos]
  BY FieldsAre DEF Sends
<1>2. pos[s] \in Nat /\ pos[s] + m \in 0..MaxPos
  BY <1>1, Scales
<1> QED
  BY <1>1, <1>2

(* A candidate that waits while something else happens.                    *)
LEMMA WaitsOn ==
    ASSUME Waiting, candidate' = candidate, tables' = tables \/ tables'.level = "full",
           candidate # None => /\ candidate.src # current'
                               /\ pos'[candidate.src] = pos[candidate.src]
                                    \/ InBuffer(candidate, pos'[candidate.src])
    PROVE  Waiting'
<1> SUFFICES ASSUME candidate # None
             PROVE  /\ GoodCandidate(candidate, pos[candidate.src])'
                    /\ ~candidate.refused /\ candidate.src # current'
  BY DEF Waiting
<1>1. GoodCandidate(candidate, pos[candidate.src]) /\ ~candidate.refused
  BY DEF Waiting
<1>2. InBuffer(candidate, pos'[candidate.src])
  BY <1>1 DEF GoodCandidate
<1>3. GoodCandidate(candidate, pos[candidate.src])'
  BY <1>1, <1>2 DEF GoodCandidate
<1> QED
  BY <1>1, <1>3

(* The first source's datagrams, as they are.                              *)
LEMMA PassOnIs ==
    ASSUME SwInv, NEW m \in 1..MaxDatagram, PassOn(m)
    PROVE  SwInv' /\ active' = None /\ current' = current
<1> DEFINE q == Datagram(current, m)
           s0 == [tables |-> tables, cc |-> lastCC, clock |-> clock]
           st == Observed(s0, q)
<1>1. /\ Sends(current, m) /\ active = None
      /\ tables' = st.tables /\ lastCC' = st.cc /\ clock' = st.clock
      /\ viewer' = Seen(viewer, q)
      /\ active' = active /\ candidate' = candidate /\ current' = current
  BY DEF PassOn, Deliver
<1>2. Fields /\ Waiting
  BY DEF SwInv
<1>3. /\ current \in Sources /\ pos[current] + m <= MaxPos /\ m \in Nat /\ pos[current] \in Nat
      /\ pos' \in [Sources -> 0..MaxPos] /\ \A t \in Sources \ {current} : pos'[t] = pos[t]
  BY <1>1, <1>2, FieldsAre, SendsIs
<1>4. q \in Seq(TsPackets) /\ \A i \in DOMAIN q : GoodPacket(q[i])
  BY <1>2, <1>3, FieldsAre, DatagramIs
<1>5. Follows(s0, viewer) /\ s0.tables = tables
  BY <1>2, FieldsAre DEF Follows
<1> HIDE DEF s0, q
<1>6. Follows(st, viewer') /\ (tables.level = "full" => st.tables.level = "full")
  BY <1>1, <1>4, <1>5, ObservedFollows
<1> HIDE DEF st
<1>7. Fields'
  BY <1>1, <1>2, <1>3, <1>6, FieldsAre DEF Fields, Follows
<1>8. Waiting'
  <2>1. CASE candidate = None
    BY <1>1, <2>1 DEF Waiting
  <2>2. CASE candidate # None
    <3>1. /\ GoodCandidate(candidate, pos[candidate.src]) /\ ~candidate.refused
          /\ candidate.src # current
      BY <1>2, <2>2 DEF Waiting
    <3>2. candidate.src \in Sources /\ pos'[candidate.src] = pos[candidate.src]
      BY <1>3, <3>1 DEF GoodCandidate, Candidates
    <3>3. candidate.profile => tables'.level = "full"
      BY <1>1, <1>6, <3>1 DEF GoodCandidate
    <3>4. GoodCandidate(candidate, pos[candidate.src])'
      BY <1>1, <3>1, <3>2, <3>3 DEF GoodCandidate
    <3> QED
      BY <1>1, <3>1, <3>4 DEF Waiting
  <2> QED
    BY <2>1, <2>2
<1> QED
  BY <1>1, <1>7, <1>8 DEF SwInv

(* A later source's datagrams, rewritten.                                  *)
LEMMA ContinueIs ==
    ASSUME SwInv, NEW m \in 1..MaxDatagram, Continue(m)
    PROVE  SwInv' /\ current' = current /\ CountersIn(out', viewer)
<1> DEFINE q == Datagram(current, m)
           s0 == Stage(active, tables)
           st == Transformed(s0, q)
<1>1. /\ Sends(current, m) /\ active # None
      /\ active' = st.tr /\ lastCC' = st.cc /\ clock' = st.clock
      /\ out' = st.out /\ viewer' = Seen(viewer, st.out)
      /\ tables' = tables /\ candidate' = candidate /\ current' = current
  BY DEF Continue, Commit, Deliver
<1>2. Fields /\ Waiting
  BY DEF SwInv
<1>3. /\ current \in Sources /\ pos[current] + m <= MaxPos /\ m \in Nat /\ pos[current] \in Nat
      /\ pos' \in [Sources -> 0..MaxPos] /\ \A t \in Sources \ {current} : pos'[t] = pos[t]
  BY <1>1, <1>2, FieldsAre, SendsIs
<1>4. q \in Seq(TsPackets) /\ \A i \in DOMAIN q : GoodPacket(q[i])
  BY <1>2, <1>3, FieldsAre, DatagramIs
<1>5. /\ active \in Transforms /\ tables.level = "full" /\ active.src = current
      /\ viewer \in Viewers /\ GoodTables(tables)
  BY <1>1, <1>2, <1>3, FieldsAre, Scales
<1>6. Rewritten(s0, viewer) /\ s0.tr = active /\ s0.tables = tables
  BY <1>2, <1>5, StageIs
<1> HIDE DEF s0, q
<1>7. Rewritten(st, viewer) /\ st.tables = tables /\ st.tr.src = current
  BY <1>4, <1>5, <1>6, TransformedIs
<1> HIDE DEF st
<1>8. Fields'
  <2>1. /\ st.tr \in Transforms /\ st.cc \in [Kinds -> Counters] /\ st.clock \in Clocks
        /\ viewer' \in Viewers /\ Agree(viewer', tables, st.clock, st.cc)
    BY <1>1, <1>7 DEF Rewritten, Stages
  <2> QED
    BY <1>1, <1>2, <1>3, <1>5, <1>7, <2>1, FieldsAre DEF Fields
<1>9. Waiting'
  <2>1. ASSUME candidate # None
        PROVE  candidate.src # current' /\ pos'[candidate.src] = pos[candidate.src]
    <3>1. candidate.src \in Sources /\ candidate.src # current
      BY <1>2, <2>1 DEF Waiting, GoodCandidate, Candidates
    <3> QED
      BY <1>1, <1>3, <3>1
  <2> QED
    BY <1>1, <1>2, <2>1, WaitsOn
<1> QED
  BY <1>1, <1>7, <1>8, <1>9 DEF SwInv, Rewritten, CountersIn, Stages

(* Nothing is returned, and no source is left for another.                 *)
Silent == out' = <<>> /\ current' \in {current, None}

(* An error of the current source ends the stream.                         *)
LEMMA BreakIs ==
    ASSUME SwInv, NEW m \in 1..MaxDatagram, Break(m)
    PROVE  SwInv' /\ Silent
<1>1. /\ Sends(current, m) /\ current' = None /\ candidate' = None
      /\ out' = <<>> /\ viewer' = viewer
      /\ tables' = tables /\ clock' = clock /\ lastCC' = lastCC /\ active' = active
  BY DeliverNone DEF Break, switcher
<1>2. Fields
  BY DEF SwInv
<1>3. pos' \in [Sources -> 0..MaxPos]
  <2>1. current \in Sources \cup {None} /\ m \in Int /\ m >= 1
    BY <1>2, FieldsAre
  <2> QED
    BY <1>1, <1>2, <2>1, SendsIs
<1>4. Fields'
  BY <1>1, <1>2, <1>3, FieldsAre DEF Fields
<1> QED
  BY <1>1, <1>4 DEF SwInv, Waiting, Silent

(* A new candidate has nothing.                                            *)
LEMMA StartWaitingIs ==
    ASSUME SwInv, NEW s \in Sources, StartWaiting(s)
    PROVE  SwInv' /\ Silent
<1> DEFINE c == NewCandidate(s)
<1>1. /\ current # None /\ s # current /\ candidate' = c
      /\ out' = <<>> /\ viewer' = viewer /\ current' = current /\ pos' = pos
      /\ tables' = tables /\ clock' = clock /\ lastCC' = lastCC /\ active' = active
  BY DeliverNone DEF StartWaiting, switcher
<1>2. Fields
  BY DEF SwInv
<1>3. Fields'
  BY <1>1, <1>2, FieldsAre DEF Fields
<1>4. c = [src |-> s, pmtKnown |-> FALSE, profile |-> FALSE, refused |-> FALSE,
           buffering |-> FALSE, pkts |-> <<>>, pts |-> None, par |-> None,
           parPts |-> 0, idr |-> FALSE, pcr |-> None, cc |-> [k \in Kinds |-> None],
           newest |-> [k \in Kinds |-> None]]
  BY DEF NewCandidate
<1>5. 0 \in Times /\ <<>> \in Seq(TsPackets)
  BY Scales DEF Times
<1> HIDE DEF c
<1>6. /\ c \in Candidates /\ c.src = s /\ ~c.profile /\ ~c.refused /\ ~c.buffering
      /\ c.pkts = <<>> /\ c.par = None /\ ~c.idr
      /\ \A k \in Kinds : c.cc[k] = None /\ c.newest[k] = None
  BY <1>4, <1>5 DEF Candidates, MaybeTime, Pars, Counters
<1>7. DOMAIN c.pkts = {}
  BY <1>6
<1>8. FrameOf(c)
  BY <1>6, <1>7 DEF FrameOf
<1>9. InBuffer(c, pos[s])
  BY <1>6, <1>7 DEF InBuffer
<1>10. GoodCandidate(c, pos[s])'
  BY <1>1, <1>6, <1>8, <1>9 DEF GoodCandidate
<1> QED
  BY <1>1, <1>3, <1>6, <1>10 DEF SwInv, Waiting, Silent

(* A candidate is given up.                                                *)
LEMMA AbortIs ==
    ASSUME SwInv, AbortCandidate
    PROVE  SwInv' /\ Silent
<1>1. /\ candidate' = None
      /\ out' = <<>> /\ viewer' = viewer /\ current' = current /\ pos' = pos
      /\ tables' = tables /\ clock' = clock /\ lastCC' = lastCC /\ active' = active
  BY DeliverNone DEF AbortCandidate, switcher
<1>2. Fields'
  BY <1>1, FieldsAre DEF Fields, SwInv
<1> QED
  BY <1>1, <1>2 DEF SwInv, Waiting, Silent

(* A packet is lost: fewer than CcSpace of its PID are since the newest.   *)
LEMMA LostFromBuffer ==
    ASSUME NEW c \in Candidates, NEW m \in Nat, InBuffer(c, m),
           NEW k0, k0 = At(c.src, m).kind,
           c.newest[k0] # None =>
             Count(c.src, m, Payload(k0)) - Count(c.src, c.newest[k0], Payload(k0)) < CcSpace
    PROVE  InBuffer(c, m + 1)
<1>1. c.src \in Sources /\ (m + 1) - 1 = m /\ \A i \in 0..(m - 1) : i \in 0..m /\ i \in Int
  BY DEF Candidates
<1>2. /\ \A i \in DOMAIN c.pkts : /\ c.pkts[i].n \in 0..m
                                  /\ c.pkts[i] = Packet(c.src, c.pkts[i].n)
      /\ \A i, j \in DOMAIN c.pkts : i < j => c.pkts[i].n < c.pkts[j].n
  BY <1>1 DEF InBuffer
<1>3. ASSUME NEW k \in Kinds, c.cc[k] = None
      PROVE  c.newest[k] = None /\ \A i \in DOMAIN c.pkts : ~PayloadOf(c.pkts[i], k)
  BY <1>3 DEF InBuffer
<1>4. ASSUME NEW k \in Kinds, c.cc[k] # None
      PROVE  \E z \in 0..m : /\ PayloadOf(At(c.src, z), k)
                             /\ c.newest[k] = z /\ c.cc[k] = Packet(c.src, z).cc
                             /\ NoHole(c, k, z)
                             /\ Since(c, k, z, m + 1) < CcSpace
  <2> DEFINE z == c.newest[k]
  <2>1. /\ z \in 0..(m - 1) /\ PayloadOf(At(c.src, z), k) /\ c.cc[k] = Packet(c.src, z).cc
        /\ NoHole(c, k, z)
        /\ Count(c.src, m - 1, Payload(k)) - Count(c.src, z, Payload(k)) < CcSpace
    BY <1>4, NewestIs DEF Newest, Since
  <2>2. z \in 0..m /\ z \in Int /\ z # None
    BY <1>1, <2>1, Scales
  <2>3. CASE k = k0
    <3>1. Count(c.src, m, Payload(k)) - Count(c.src, z, Payload(k)) < CcSpace
      BY <2>2, <2>3
    <3>2. Since(c, k, z, m + 1) < CcSpace
      BY <1>1, <3>1 DEF Since
    <3> QED
      BY <2>1, <2>2, <3>2
  <2>4. CASE k # k0
    <3>1. ~PayloadOf(At(c.src, m), k)
      BY <2>4 DEF PayloadOf
    <3>2. Count(c.src, m, Payload(k)) - Count(c.src, z, Payload(k)) =
            Count(c.src, m - 1, Payload(k)) - Count(c.src, z, Payload(k)) + 0
      BY <1>1, <2>2, <3>1, SinceNext
    <3>3. Count(c.src, m - 1, Payload(k)) \in Nat /\ Count(c.src, z, Payload(k)) \in Nat
      BY <2>2, CountIs
    <3>4. Count(c.src, m, Payload(k)) - Count(c.src, z, Payload(k)) < CcSpace
      BY <2>1, <3>2, <3>3, Scales
    <3>5. Since(c, k, z, m + 1) < CcSpace
      BY <1>1, <3>4 DEF Since
    <3> QED
      BY <2>1, <2>2, <3>5
  <2> QED
    BY <2>3, <2>4
<1> QED
  BY <1>1, <1>2, <1>3, <1>4 DEF InBuffer

(* A lost packet changes what the counters will tell, and nothing else.    *)
LEMMA LoseIs ==
    ASSUME SwInv, NEW s \in Sources, Lose(s)
    PROVE  SwInv' /\ Silent
<1>1. /\ Sends(s, 1) /\ Telling(s)
      /\ out' = <<>> /\ viewer' = viewer /\ current' = current /\ candidate' = candidate
      /\ tables' = tables /\ clock' = clock /\ lastCC' = lastCC /\ active' = active
  BY DeliverNone DEF Lose, switcher
<1>2. Fields /\ Waiting
  BY DEF SwInv
<1>3. /\ pos' \in [Sources -> 0..MaxPos] /\ pos[s] \in Nat /\ pos'[s] = pos[s] + 1
      /\ \A t \in Sources \ {s} : pos'[t] = pos[t]
  BY <1>1, <1>2, SendsIs
<1>4. Fields'
  BY <1>1, <1>2, <1>3, FieldsAre DEF Fields
<1>5. ASSUME candidate # None
      PROVE  /\ candidate.src # current'
             /\ pos'[candidate.src] = pos[candidate.src]
                  \/ InBuffer(candidate, pos'[candidate.src])
  <2>1. /\ candidate \in Candidates /\ candidate.src \in Sources /\ candidate.src # current
        /\ InBuffer(candidate, pos[candidate.src])
    BY <1>2, <1>5 DEF Waiting, GoodCandidate, Candidates
  <2>2. CASE candidate.src # s
    BY <1>1, <1>3, <2>1, <2>2
  <2>3. CASE candidate.src = s
    <3> DEFINE m == pos[s]
               k0 == At(s, m).kind
    <3>1. candidate.newest[k0] # None =>
            Count(s, m, Payload(k0)) - Count(s, candidate.newest[k0], Payload(k0)) < CcSpace
      BY <1>1, <1>5, <2>3 DEF Telling, Missed
    <3>2. InBuffer(candidate, m + 1)
      <4>1. m \in Nat /\ InBuffer(candidate, m)
        BY <1>3, <2>1, <2>3
      <4> HIDE DEF m
      <4> QED
        BY <2>1, <2>3, <3>1, <4>1, LostFromBuffer
    <3> QED
      BY <1>1, <1>3, <2>1, <2>3, <3>2
  <2> QED
    BY <2>2, <2>3
<1>6. Waiting'
  BY <1>1, <1>2, <1>5, WaitsOn
<1> QED
  BY <1>1, <1>4, <1>6 DEF SwInv, Silent

(* What the candidate has become after m more packets of its source.       *)
LEMMA CollectedCandidate ==
    ASSUME SwInv, candidate # None, NEW m \in 1..MaxDatagram, Sends(candidate.src, m),
           NEW c, c = Collected(m)
    PROVE  /\ c.src = candidate.src /\ c.src \in Sources /\ c.src # current
           /\ pos' \in [Sources -> 0..MaxPos] /\ pos'[c.src] \in Nat
           /\ GoodCandidate(c, pos'[c.src])
<1> DEFINE s == candidate.src
           q == Datagram(s, m)
<1>1. Fields /\ GoodCandidate(candidate, pos[s]) /\ s \in Sources /\ s # current
  BY DEF SwInv, Waiting, GoodCandidate, Candidates
<1>2. /\ pos[s] \in Nat /\ m \in Nat
      /\ pos' \in [Sources -> 0..MaxPos] /\ pos'[s] = pos[s] + m
  BY <1>1, SendsIs
<1>3. Len(q) = m /\ DOMAIN q = 1..m /\ \A i \in 1..m : q[i] = Packet(s, pos[s] + i - 1)
  BY <1>1, <1>2, FieldsAre, DatagramIs
<1>4. c = CollectedAll(candidate, q)
  BY DEF Collected
<1> HIDE DEF q
<1>5. GoodCandidate(c, pos[s] + m) /\ c.src = s
  <2> DEFINE n == pos[s]
  <2>1. /\ n \in Nat /\ m \in Nat /\ GoodCandidate(candidate, n)
        /\ Len(q) = m /\ DOMAIN q = 1..m
        /\ \A i \in 1..m : q[i] = Packet(candidate.src, n + i - 1)
    BY <1>1, <1>2, <1>3
  <2> HIDE DEF n
  <2>2. GoodCandidate(CollectedAll(candidate, q), n + m)
        /\ CollectedAll(candidate, q).src = candidate.src
    BY <2>1, CollectedIs
  <2> QED
    BY <1>4, <2>2 DEF n
<1> QED
  BY <1>1, <1>2, <1>5

(* A candidate that is not complete.                                       *)
LEMMA WaitIs ==
    ASSUME SwInv, NEW m \in 1..MaxDatagram, Wait(m)
    PROVE  SwInv' /\ Silent
<1> DEFINE c == Collected(m)
<1>1. /\ candidate # None /\ Sends(candidate.src, m) /\ ~c.refused /\ candidate' = c
      /\ out' = <<>> /\ viewer' = viewer /\ current' = current
      /\ tables' = tables /\ clock' = clock /\ lastCC' = lastCC /\ active' = active
  BY DeliverNone DEF Wait, switcher
<1>2. /\ c.src # current /\ pos' \in [Sources -> 0..MaxPos] /\ GoodCandidate(c, pos'[c.src])
  BY <1>1, CollectedCandidate
<1> HIDE DEF c
<1>3. Fields'
  BY <1>1, <1>2, FieldsAre DEF Fields, SwInv
<1>4. GoodCandidate(candidate, pos[candidate.src])'
  BY <1>1, <1>2 DEF GoodCandidate
<1> QED
  BY <1>1, <1>2, <1>3, <1>4 DEF SwInv, Waiting, Silent

(* A complete candidate carries parameters and waits for the program.      *)
LEMMA CompleteIs ==
    ASSUME Fields, NEW m \in Nat, NEW c, GoodCandidate(c, m), ~c.refused, Complete(c)
    PROVE  /\ tables.level = "full" /\ c \in Candidates /\ c.idr /\ c.pts # None /\ c.pcr # None
           /\ BufferOf(c.pkts, c.pcr) /\ c.pts = c.pkts[1].pts
           /\ GoodTables(NewTables(c)) /\ NewTables(c).level = "full"
<1>1. c.idr /\ c.pts # None /\ c.pcr # None
  BY DEF Complete
<1>2. BufferOf(c.pkts, c.pcr) /\ c.pts = c.pkts[1].pts /\ tables.level = "full"
  BY <1>1, BufferIs
<1>3. c \in Candidates /\ c.par \in Pars
  BY DEF GoodCandidate, Candidates
<1> QED
  BY <1>1, <1>2, <1>3, FieldsAre, NewTablesAre

(* One that is refused: the program keeps what it was.                     *)
LEMMA RefuseIs ==
    ASSUME SwInv, NEW m \in 1..MaxDatagram, Refuse(m)
    PROVE  SwInv' /\ Silent
<1> DEFINE c == Collected(m)
<1>1. /\ candidate # None /\ Sends(candidate.src, m)
      /\ c.refused \/ (Complete(c) /\ ~Accepted(c))
      /\ tables' = IF c.refused THEN tables ELSE NewTables(c)
      /\ lastCC' = lastCC /\ candidate' = None
      /\ out' = <<>> /\ viewer' = viewer /\ current' = current
      /\ clock' = clock /\ active' = active
  BY DeliverNone DEF Refuse, RefuseWith
<1>2. /\ pos' \in [Sources -> 0..MaxPos] /\ pos'[c.src] \in Nat /\ GoodCandidate(c, pos'[c.src])
  BY <1>1, CollectedCandidate
<1>3. Fields
  BY DEF SwInv
<1> HIDE DEF c
<1>4. GoodTables(tables') /\ (tables' = tables \/ (tables.level = "full" /\ tables'.level = "full"))
  <2>1. CASE c.refused
    BY <1>1, <1>3, <2>1, FieldsAre
  <2>2. CASE ~c.refused
    BY <1>1, <1>2, <1>3, <2>2, CompleteIs
  <2> QED
    BY <2>1, <2>2
<1>5. Agree(viewer', tables', clock', lastCC')
  <2>1. Agree(viewer, tables, clock, lastCC)
    BY <1>3, FieldsAre
  <2> QED
    BY <1>1, <1>4, <2>1 DEF Agree
<1>6. Fields'
  BY <1>1, <1>2, <1>3, <1>4, <1>5, FieldsAre DEF Fields
<1> QED
  BY <1>1, <1>6 DEF SwInv, Waiting, Silent

(* One that becomes the source.                                            *)
LEMMA SwitchIs ==
    ASSUME SwInv, NEW m \in 1..MaxDatagram, Switch(m)
    PROVE  /\ SwInv' /\ CountersIn(out', viewer) /\ Whole(out') /\ SmoothOut(out', viewer)
<1> DEFINE c == Collected(m)
           st == Transformed(Prefixed(c), c.pkts)
<1>1. /\ candidate # None /\ Sends(candidate.src, m)
      /\ ~c.refused /\ Complete(c) /\ Accepted(c)
      /\ tables' = NewTables(c)
      /\ active' = st.tr /\ lastCC' = st.cc /\ clock' = st.clock
      /\ out' = st.out /\ viewer' = Seen(viewer, st.out)
      /\ current' = c.src /\ candidate' = None
  BY DEF Switch, Commit, Deliver
<1>2. Fields
  BY DEF SwInv
<1> HIDE DEF c
<1>3. /\ pos' \in [Sources -> 0..MaxPos] /\ pos'[c.src] \in Nat /\ GoodCandidate(c, pos'[c.src])
      /\ c.src \in Sources
  BY <1>1, CollectedCandidate DEF c
<1>4. /\ tables.level = "full" /\ c \in Candidates /\ c.idr /\ c.pts # None /\ c.pcr # None
      /\ BufferOf(c.pkts, c.pcr) /\ c.pts = c.pkts[1].pts
      /\ GoodTables(NewTables(c)) /\ NewTables(c).level = "full"
  BY <1>1, <1>2, <1>3, CompleteIs
<1>5. clock.pts # None
  BY <1>1 DEF Accepted
<1>6. /\ Rewritten(st, viewer) /\ st.tables = NewTables(c) /\ st.tr.src = c.src
  BY <1>2, <1>4, <1>5, BatchIs
<1>7. Whole(st.out)
  BY <1>1, <1>2, <1>3, <1>4, <1>5, WholeBatch
<1>8. SmoothOut(st.out, viewer)
  <2>1. LET v == FirstWith(st.out, LAMBDA p : p.pts # None)
            r == FirstWith(st.out, LAMBDA p : p.pcr # None)
        IN /\ ClockPlus(v.pts, -viewer.pts) \in 1..MaxStep
           /\ r.marked
           /\ viewer.pcr # None => Distance(r.pcr, viewer.pcr) <= MaxPCRGap
    BY <1>1, <1>2, <1>4, SmoothBatch
  <2> QED
    BY <2>1 DEF SmoothOut
<1> HIDE DEF st
<1>9. Fields'
  <2>1. /\ st.tr \in Transforms /\ st.cc \in [Kinds -> Counters] /\ st.clock \in Clocks
        /\ viewer' \in Viewers /\ Agree(viewer', tables', st.clock, st.cc)
    BY <1>1, <1>6 DEF Rewritten, Stages
  <2> QED
    BY <1>1, <1>3, <1>4, <1>6, <2>1 DEF Fields
<1> QED
  BY <1>1, <1>6, <1>7, <1>8, <1>9 DEF SwInv, Waiting, Rewritten, CountersIn, Stages

-----------------------------------------------------------------------------
(***************************************************************************)
(* The theorems                                                            *)
(***************************************************************************)
(* In the beginning nothing is known.                                      *)
LEMMA SwitcherInitIs == SwitcherInit => SwInv
<1> SUFFICES ASSUME SwitcherInit PROVE SwInv
  OBVIOUS
<1>1. GoodTables(tables) /\ tables.level = "none"
  BY Scales DEF SwitcherInit, GoodTables, TableSets, Versions, Pars
<1>2. clock \in Clocks /\ clock.pts = None /\ clock.pcr = None
  <2>1. 0 \in 0..MaxStep
    BY Scales
  <2> QED
    BY <2>1 DEF SwitcherInit, Clocks, MaybeTime
<1>3. lastCC \in [Kinds -> Counters]
  BY DEF SwitcherInit, Counters
<1>4. /\ viewer \in Viewers /\ ~viewer.pat /\ viewer.version = None /\ viewer.pts = None
      /\ viewer.pcr = None /\ \A k \in Kinds : viewer.cc[k] = None
  BY DEF SwitcherInit, Viewers, Pars, MaybeTime, Counters
<1>5. active = None /\ candidate = None /\ current \in Sources /\ pos \in [Sources -> 0..MaxPos]
  BY Scales DEF SwitcherInit
<1>6. Agree(viewer, tables, clock, lastCC)
  BY <1>1, <1>2, <1>4 DEF Agree
<1> QED
  BY <1>1, <1>2, <1>3, <1>4, <1>5, <1>6 DEF SwInv, Fields, Waiting

(* What a call may return.                                                 *)
GoodCall ==
    /\ active' # None => CountersIn(out', viewer)
    /\ Switched => Whole(out') /\ SmoothOut(out', viewer)

(* A call that returns nothing is good.                                    *)
LEMMA SilentCall == Silent => GoodCall
<1> SUFFICES ASSUME Silent PROVE GoodCall
  OBVIOUS
<1>1. out' = <<>> /\ ~Switched
  BY DEF Silent, Switched
<1>2. DOMAIN out' = {} /\ out' \in Seq(TsPackets)
  BY <1>1
<1> QED
  BY <1>1, <1>2 DEF GoodCall, CountersIn, CountersGoOn

(* Every step keeps the invariant, and what it returns is good.            *)
LEMMA SwitcherStep == SwInv /\ SwitcherNext => SwInv' /\ GoodCall
<1> SUFFICES ASSUME SwInv, SwitcherNext PROVE SwInv' /\ GoodCall
  OBVIOUS
<1>1. ASSUME NEW m \in 1..MaxDatagram, PassOn(m) PROVE SwInv' /\ GoodCall
  BY <1>1, PassOnIs DEF GoodCall, Switched
<1>2. ASSUME NEW m \in 1..MaxDatagram, Continue(m) PROVE SwInv' /\ GoodCall
  BY <1>2, ContinueIs DEF GoodCall, Switched
<1>3. ASSUME NEW m \in 1..MaxDatagram, Break(m) PROVE SwInv' /\ GoodCall
  BY <1>3, BreakIs, SilentCall
<1>4. ASSUME NEW m \in 1..MaxDatagram, Wait(m) PROVE SwInv' /\ GoodCall
  BY <1>4, WaitIs, SilentCall
<1>5. ASSUME NEW m \in 1..MaxDatagram, Refuse(m) PROVE SwInv' /\ GoodCall
  BY <1>5, RefuseIs, SilentCall
<1>6. ASSUME NEW m \in 1..MaxDatagram, Switch(m) PROVE SwInv' /\ GoodCall
  BY <1>6, SwitchIs DEF GoodCall
<1>7. ASSUME NEW s \in Sources, StartWaiting(s) PROVE SwInv' /\ GoodCall
  BY <1>7, StartWaitingIs, SilentCall
<1>8. ASSUME NEW s \in Sources, Lose(s) PROVE SwInv' /\ GoodCall
  BY <1>8, LoseIs, SilentCall
<1>9. CASE AbortCandidate
  BY <1>9, AbortIs, SilentCall
<1> QED
  BY <1>1, <1>2, <1>3, <1>4, <1>5, <1>6, <1>7, <1>8, <1>9 DEF SwitcherNext

(* So does a step in which nothing changes.                                *)
LEMMA SwitcherStutter == SwInv /\ UNCHANGED switcherVars => SwInv'
<1> SUFFICES ASSUME SwInv, UNCHANGED switcherVars PROVE SwInv'
  OBVIOUS
<1> USE DEF switcherVars, switcher
<1>1. Fields'
  BY FieldsAre DEF SwInv, Fields
<1>2. Waiting'
  BY DEF SwInv, Waiting, GoodCandidate
<1> QED
  BY <1>1, <1>2 DEF SwInv

(* The viewer knows what the switcher knows, and a candidate's buffer is a *)
(* frame of its source in which nothing is missing.                        *)
THEOREM SwitcherInvariant == SwitcherSpec => []SwInv
<1>1. SwInv /\ [SwitcherNext]_switcherVars => SwInv'
  BY SwitcherStep, SwitcherStutter
<1> QED
  BY <1>1, SwitcherInitIs, PTL DEF SwitcherSpec

(* The invariant says more than the types.                                 *)
LEMMA SwitcherTyped == SwInv => SwitcherTypeOK
<1> SUFFICES ASSUME SwInv PROVE SwitcherTypeOK
  OBVIOUS
<1>1. Fields /\ Waiting
  BY DEF SwInv
<1>2. tables.level \in {"none", "pat", "full"} /\ tables.version \in 0..31
  BY <1>1, FieldsAre DEF GoodTables, TableSets, Versions
<1>3. /\ clock.pts # None => clock.pts \in 0..(Clock - 1)
      /\ clock.pcr # None => clock.pcr \in 0..(Clock - 1)
      /\ clock.step \in 0..MaxStep
  BY <1>1, FieldsAre DEF Clocks, MaybeTime, Times
<1>4. lastCC \in [Kinds -> 0..(CcSpace - 1) \cup {None}]
  BY <1>1, FieldsAre DEF Counters
<1>5. ASSUME candidate # None
      PROVE  /\ candidate.src \in Sources \ {current}
             /\ candidate.par # None => candidate.par = Program[candidate.src].par
             /\ candidate.buffering \/ candidate.pkts = <<>>
  BY <1>1, <1>5 DEF Waiting, GoodCandidate, FrameOf, Candidates
<1> QED
  BY <1>1, <1>2, <1>3, <1>4, <1>5, FieldsAre DEF SwitcherTypeOK

(* The program's tables, clocks and counters keep their ranges, the source *)
(* rewritten is the one watched, and a candidate is another one.           *)
THEOREM SwitcherTypes == SwitcherSpec => []SwitcherTypeOK
BY SwitcherInvariant, SwitcherTyped, PTL

(* Counted in the property's words.                                        *)
LEMMA CountersAre ==
    ASSUME NEW v \in Viewers, NEW o, CountersIn(o, v), NEW i \in DOMAIN o,
           NEW k, k = o[i].kind, o[i].pay, v.cc[k] # None,
           NEW before, before = {j \in 1..(i - 1) : o[j].kind = k /\ o[j].pay}, i \in Nat, i >= 1
    PROVE  o[i].cc = (v.cc[k] + Cardinality(before) + 1) % CcSpace
<1>1. o[i].cc = (v.cc[k] + (PayCount(o, i - 1, k) + 1)) % CcSpace
  BY DEF CountersIn, CountersGoOn, Counted, PayloadOf
<1>2. PayCount(o, i - 1, k) = Cardinality(before)
  BY DEF PayCount, PayloadOf
<1>3. v.cc[k] \in Int
  <2>1. k \in Kinds
    BY KindsAre DEF CountersIn
  <2> QED
    BY <2>1 DEF Viewers, Counters
<1>4. PayCount(o, i - 1, k) \in Nat
  <2>1. i - 1 \in Nat
    OBVIOUS
  <2> QED
    BY <2>1, CountOfOneMore
<1>5. v.cc[k] + (PayCount(o, i - 1, k) + 1) = v.cc[k] + Cardinality(before) + 1
  BY <1>2, <1>3, <1>4
<1> QED
  BY <1>1, <1>5

(* CountersContinue, of a step.                                            *)
LEMMA CountersStep ==
    SwInv /\ [SwitcherNext]_switcherVars =>
      [active' # None =>
         \A i \in DOMAIN out' :
           LET k == out'[i].kind
               before == {j \in 1..(i - 1) : out'[j].kind = k /\ out'[j].pay}
           IN out'[i].pay /\ viewer.cc[k] # None =>
                out'[i].cc = (viewer.cc[k] + Cardinality(before) + 1) % CcSpace]_switcherVars
<1> SUFFICES ASSUME SwInv, SwitcherNext, active' # None, NEW i \in DOMAIN out',
                    out'[i].pay, viewer.cc[out'[i].kind] # None
             PROVE  LET k == out'[i].kind
                        before == {j \in 1..(i - 1) : out'[j].kind = k /\ out'[j].pay}
                    IN out'[i].cc = (viewer.cc[k] + Cardinality(before) + 1) % CcSpace
  OBVIOUS
<1>1. CountersIn(out', viewer) /\ viewer \in Viewers
  BY SwitcherStep, FieldsAre DEF GoodCall, SwInv
<1>2. i \in Nat /\ i >= 1
  BY <1>1 DEF CountersIn
<1> QED
  BY <1>1, <1>2, CountersAre

(* The counters a viewer sees go on by one with every packet, over         *)
(* switches, losses and refused candidates, for any sources and datagrams. *)
THEOREM CountersGoOnAlways == SwitcherSpec => CountersContinue
<1>1. SwInv /\ [SwitcherNext]_switcherVars =>
      [active' # None =>
         \A i \in DOMAIN out' :
           LET k == out'[i].kind
               before == {j \in 1..(i - 1) : out'[j].kind = k /\ out'[j].pay}
           IN out'[i].pay /\ viewer.cc[k] # None =>
                out'[i].cc = (viewer.cc[k] + Cardinality(before) + 1) % CcSpace]_switcherVars
  BY CountersStep
<1> QED
  BY <1>1, SwitcherInvariant, PTL DEF SwitcherSpec, CountersContinue

(* A batch begins with PAT, PMT and its IDR frame's first packet, and      *)
(* between two of its packets of a PID none is missing, whatever was lost  *)
(* on the way.                                                             *)
THEOREM SwitchesAreWhole == SwitcherSpec => BatchIsWhole
<1>1. SwInv /\ [SwitcherNext]_switcherVars => [Switched => Whole(out')]_switcherVars
  BY SwitcherStep DEF GoodCall
<1> QED
  BY <1>1, SwitcherInvariant, PTL DEF SwitcherSpec, BatchIsWhole

(* The first picture of a new source follows the last one by at most a     *)
(* second, and its first PCR is marked and near the last, over both wraps. *)
THEOREM SwitchesAreSmooth == SwitcherSpec => SmoothSwitch
<1>1. SwInv /\ [SwitcherNext]_switcherVars =>
      [Switched =>
         LET v == FirstWith(out', LAMBDA p : p.pts # None)
             r == FirstWith(out', LAMBDA p : p.pcr # None)
         IN /\ ClockPlus(v.pts, -viewer.pts) \in 1..MaxStep
            /\ r.marked
            /\ viewer.pcr # None => Distance(r.pcr, viewer.pcr) <= MaxPCRGap]_switcherVars
  BY SwitcherStep DEF GoodCall, SmoothOut
<1> QED
  BY <1>1, SwitcherInvariant, PTL DEF SwitcherSpec, SmoothSwitch
=============================================================================
