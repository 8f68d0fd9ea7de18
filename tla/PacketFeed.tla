----------------------------- MODULE PacketFeed -----------------------------
(***************************************************************************)
(* What a multicast source promises to those who share it, with no         *)
(* channels and no lock: whoever joins is given every packet sent from     *)
(* then on, one by one and in order.  One who is Lag packets behind may be *)
(* cut off; it then gets what was sent before the cut and nothing after,   *)
(* so that it never plays over a hole.  An MPEG-TS stream with a packet    *)
(* missing is a broken picture.                                            *)
(***************************************************************************)
EXTENDS Integers

CONSTANTS Readers, Lag, NoEnd

VARIABLES sent,      \* how many packets were sent
          joined,    \* who is with the source
          at,        \* the last packet a reader was given
          end        \* the last packet it will be given; NoEnd: not cut off

feed == <<sent, joined, at, end>>

Init == /\ sent = 0
        /\ joined = {}
        /\ at = [r \in Readers |-> 0]
        /\ end = [r \in Readers |-> NoEnd]

Send == /\ sent' = sent + 1
        /\ UNCHANGED <<joined, at, end>>

Join(r) == /\ r \notin joined
           /\ joined' = joined \cup {r}
           /\ at' = [at EXCEPT ![r] = sent]
           /\ UNCHANGED <<sent, end>>

Give(r) == /\ r \in joined
           /\ at[r] < sent /\ at[r] # end[r]
           /\ at' = [at EXCEPT ![r] = @ + 1]
           /\ UNCHANGED <<sent, joined, end>>

(* Only the packet being sent is withheld, and only from a laggard.        *)
CutOff(r) == /\ r \in joined
             /\ end[r] = NoEnd
             /\ sent - at[r] > Lag
             /\ end' = [end EXCEPT ![r] = sent - 1]
             /\ UNCHANGED <<sent, joined, at>>

Part(r) == /\ r \in joined
           /\ joined' = joined \ {r}
           /\ at' = [at EXCEPT ![r] = 0]
           /\ end' = [end EXCEPT ![r] = NoEnd]
           /\ UNCHANGED sent

Next == \/ Send
        \/ \E r \in Readers : Join(r) \/ Give(r) \/ CutOff(r) \/ Part(r)

Spec == Init /\ [][Next]_feed
=============================================================================
