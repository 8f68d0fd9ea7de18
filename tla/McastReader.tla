---------------------------- MODULE McastReader -----------------------------
(***************************************************************************)
(* mcast.Reader (internal/mcast/mcast.go): the goroutine that reads one    *)
(* multicast address and the channels it copies every packet into.  A      *)
(* packet is its number in the order of reading; what the kernel dropped   *)
(* before was never read.  broadcast holds r.mu from its first channel to  *)
(* its last and serves them in the order of a Go map, that is in any       *)
(* order, while their owners go on receiving.                              *)
(*                                                                         *)
(* A user stands for the goroutine behind a subscription (ServeHTTP, a     *)
(* recording): it selects on its packets, on the error channel and on its  *)
(* own end, and calls unsub on the way out.  The last one calls Stop       *)
(* (releaseReader); ReaderPool shows that nobody else is inside then.      *)
(***************************************************************************)
EXTENDS Integers, Sequences

CONSTANTS Users,
          Capacity,    \* of a subscriber's channel
          MaxPackets,  \* bound: packets read
          NoEnd        \* see PacketFeed

ASSUME CapacityAssumption == Capacity \in Nat \ {0}
ASSUME NoEndAssumption == NoEnd \notin Int

VARIABLES loop,      \* readLoop: at the look at done, in ReadFromUDP, with a packet
                     \* before r.mu, inside broadcast, at the end
          done,      \* r.done is closed
          open,      \* r.conn is open
          count,     \* packets broadcast, the one in hand included
          unserved,  \* subscribers the running broadcast has not come to
          subs,      \* r.subscribers
          queue,     \* the content of a user's channel
          errCh,     \* ErrSubscriberOverflow waits in a user's errCh
          user,      \* where a user is
          got        \* the last packet a user received

reader  == <<loop, done, open, count, unserved>>
clients == <<subs, queue, errCh, user, got>>
vars == <<reader, clients>>

Init == /\ loop = "check"
        /\ done = FALSE
        /\ open = TRUE
        /\ count = 0
        /\ unserved = {}
        /\ subs = {}
        /\ queue = [u \in Users |-> <<>>]
        /\ errCh = [u \in Users |-> FALSE]
        /\ user = [u \in Users |-> "out"]
        /\ got = [u \in Users |-> 0]

-----------------------------------------------------------------------------
(* readLoop and broadcast                                                  *)

Check == /\ loop = "check"
         /\ loop' = IF done THEN "ended" ELSE "read"
         /\ UNCHANGED <<done, open, count, unserved, clients>>

Read == /\ loop = "read" /\ open
        /\ count < MaxPackets
        /\ loop' = "have"
        /\ UNCHANGED <<done, open, count, unserved, clients>>

(* The error of a closed socket ends the loop when done is closed too; any *)
(* other (ENETDOWN while the interface is down) is slept over.             *)
ReadError == /\ loop = "read"
             /\ loop' = IF done THEN "ended" ELSE "check"
             /\ UNCHANGED <<done, open, count, unserved, clients>>

Broadcast == /\ loop = "have"
             /\ loop' = "serving"
             /\ count' = count + 1
             /\ unserved' = subs
             /\ UNCHANGED <<done, open, clients>>

Serve(u) == /\ loop = "serving" /\ u \in unserved
            /\ unserved' = unserved \ {u}
            /\ UNCHANGED <<loop, done, open, count>>

Enqueue(u) == /\ Serve(u)
              /\ Len(queue[u]) < Capacity
              /\ queue' = [queue EXCEPT ![u] = Append(@, count)]
              /\ UNCHANGED <<subs, errCh, user, got>>

DropSilently(u) ==                  \* bug: the packet is lost, the stream goes on
    /\ Serve(u)
    /\ Len(queue[u]) = Capacity
    /\ UNCHANGED clients

RemoveSilently(u) ==                \* bug: nobody tells the subscriber
    /\ Serve(u)
    /\ Len(queue[u]) = Capacity
    /\ subs' = subs \ {u}
    /\ UNCHANGED <<queue, errCh, user, got>>

(* A full channel: no packet may be lost silently, so the subscription     *)
(* ends here and its owner is told (errCh holds one error, and this is the *)
(* only one ever sent).                                                    *)
Overflow(u) == /\ Serve(u)
               /\ Len(queue[u]) = Capacity
               /\ errCh' = [errCh EXCEPT ![u] = TRUE]
               /\ subs' = subs \ {u}
               /\ UNCHANGED <<queue, user, got>>

EndBroadcast == /\ loop = "serving" /\ unserved = {}
                /\ loop' = "check"
                /\ UNCHANGED <<done, open, count, unserved, clients>>

-----------------------------------------------------------------------------
(* The users                                                               *)

MuFree == loop # "serving"

(* Subscribe, with a channel and an error channel just made.               *)
Subscribe(u) == /\ user[u] = "out" /\ ~done /\ MuFree
                /\ user' = [user EXCEPT ![u] = "in"]
                /\ subs' = subs \cup {u}
                /\ got' = [got EXCEPT ![u] = count]
                /\ UNCHANGED <<reader, queue, errCh>>

Receive(u) == /\ user[u] = "in"
              /\ queue[u] # <<>>
              /\ got' = [got EXCEPT ![u] = Head(queue[u])]
              /\ queue' = [queue EXCEPT ![u] = Tail(@)]
              /\ UNCHANGED <<reader, subs, errCh, user>>

ReceiveError(u) == /\ user[u] = "in"
                   /\ errCh[u]
                   /\ errCh' = [errCh EXCEPT ![u] = FALSE]
                   /\ user' = [user EXCEPT ![u] = "leaving"]
                   /\ UNCHANGED <<reader, subs, queue, got>>

(* The client hangs up, a write fails, the source is switched: deferred    *)
(* unsub is next.                                                          *)
HangUp(u) == /\ user[u] = "in"
             /\ user' = [user EXCEPT ![u] = "leaving"]
             /\ UNCHANGED <<reader, subs, queue, errCh, got>>

UnsubUnlocked(u) ==                 \* bug: in the middle of a broadcast
    /\ user[u] = "leaving"
    /\ user' = [user EXCEPT ![u] = "out"]
    /\ subs' = subs \ {u}
    /\ queue' = [queue EXCEPT ![u] = <<>>]
    /\ errCh' = [errCh EXCEPT ![u] = FALSE]
    /\ got' = [got EXCEPT ![u] = 0]
    /\ UNCHANGED reader

(* The channels are garbage from here on.                                  *)
Unsub(u) == /\ user[u] = "leaving" /\ MuFree
            /\ user' = [user EXCEPT ![u] = "out"]
            /\ subs' = subs \ {u}
            /\ queue' = [queue EXCEPT ![u] = <<>>]
            /\ errCh' = [errCh EXCEPT ![u] = FALSE]
            /\ got' = [got EXCEPT ![u] = 0]
            /\ UNCHANGED reader

(* Stop, without r.mu: the loop may be anywhere, also blocked in a read    *)
(* that only the closing of the socket ends.                               *)
SignalDone == /\ ~done
              /\ \A u \in Users : user[u] = "out"
              /\ done' = TRUE
              /\ UNCHANGED <<loop, open, count, unserved, clients>>

CloseSocket == /\ done /\ open
               /\ open' = FALSE
               /\ UNCHANGED <<loop, done, count, unserved, clients>>

-----------------------------------------------------------------------------
Loop == \/ Check \/ Read \/ ReadError \/ Broadcast \/ EndBroadcast
        \/ \E u \in Users : Enqueue(u) \/ Overflow(u)

Client(u) == \/ Subscribe(u) \/ Receive(u) \/ ReceiveError(u)
             \/ HangUp(u) \/ Unsub(u)

Next == Loop \/ SignalDone \/ CloseSocket \/ \E u \in Users : Client(u)

Spec == Init /\ [][Next]_vars

(* The loop runs when it can and a closed socket fails (a packet may stay  *)
(* away: Read is not fair).  A user's select picks at random among what is *)
(* ready and each of its writes is under a ten-second deadline, so an      *)
(* error that waits is received; the loop gives r.mu up after each packet, *)
(* and a Go mutex hands itself to one that has waited.                     *)
Fairness == /\ WF_vars(Check \/ Broadcast \/ EndBroadcast
                       \/ \E u \in Users : Enqueue(u) \/ Overflow(u))
            /\ WF_vars(ReadError /\ ~open)
            /\ WF_vars(CloseSocket)
            /\ \A u \in Users : WF_vars(ReceiveError(u)) /\ SF_vars(Unsub(u))

FairSpec == Spec /\ Fairness

-----------------------------------------------------------------------------
TypeOK == /\ loop \in {"check", "read", "have", "serving", "ended"}
          /\ done \in BOOLEAN /\ open \in BOOLEAN
          /\ count \in Nat
          /\ subs \in SUBSET Users
          /\ unserved \in SUBSET subs
          /\ queue \in [Users -> Seq(Nat)]
          /\ errCh \in [Users -> BOOLEAN]
          /\ user \in [Users -> {"out", "in", "leaving"}]
          /\ got \in [Users -> Nat]

(* A user that is no longer subscribed but has not left.                   *)
Removed(u) == user[u] # "out" /\ u \notin subs

(* Users share the reader as PacketFeed promises: each gets every packet   *)
(* from its subscription on, in order, until it leaves or has fallen a     *)
(* whole channel behind; after the first packet it missed it gets no more. *)
(* (broadcast: the map's order, the receiver that makes room halfway, the  *)
(* channel that stays readable after the removal.)                         *)
Feed == INSTANCE PacketFeed WITH
    Readers <- Users, Lag <- Capacity,
    sent   <- count,
    joined <- {u \in Users : user[u] # "out"},
    at     <- got,
    end    <- [u \in Users |-> IF Removed(u) THEN got[u] + Len(queue[u])
                               ELSE NoEnd]
ImplementsFeed == Feed!Spec

(* Whoever is removed learns it and leaves: no viewer sits on a connection *)
(* into which nothing will ever be written again.  And Stop ends the       *)
(* goroutine wherever it was, so that the pool can open the same address   *)
(* without two readers on it.                                              *)
NobodyIsLeftBehind == /\ \A u \in Users : Removed(u) ~> user[u] = "out"
                      /\ done ~> loop = "ended"
=============================================================================
