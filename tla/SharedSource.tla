---------------------------- MODULE SharedSource ----------------------------
(***************************************************************************)
(* What the relay promises about multicast sources, without its locks and  *)
(* reference counts: any number of claims (a viewer's stream, a candidate  *)
(* it may switch to, a recording) share ONE socket per multicast address,  *)
(* the socket is open exactly while somebody claims the address, and the   *)
(* address is never bound twice.                                           *)
(***************************************************************************)
CONSTANTS Claims,    \* uses of a source
          Addrs,     \* multicast addresses (mcast.Key)
          Entries    \* reader objects

VARIABLES users,     \* [Addrs -> SUBSET Claims]  who uses an address
          sockets    \* [Addrs -> SUBSET Entries] the readers bound to it

vars == <<users, sockets>>

Init == /\ users   = [a \in Addrs |-> {}]
        /\ sockets = [a \in Addrs |-> {}]

(* The first claim of an address opens a reader, the others share it.      *)
Join(c, a) ==
    /\ \A b \in Addrs : c \notin users[b]
    /\ users' = [users EXCEPT ![a] = @ \cup {c}]
    /\ \/ /\ users[a] # {}
          /\ UNCHANGED sockets
       \/ /\ users[a] = {}
          /\ \E e \in Entries : sockets' = [sockets EXCEPT ![a] = {e}]

(* The last claim to leave closes it.                                      *)
Leave(c, a) ==
    /\ c \in users[a]
    /\ users' = [users EXCEPT ![a] = @ \ {c}]
    /\ sockets' = [sockets EXCEPT ![a] = IF users[a] = {c} THEN {} ELSE @]

Next == \E c \in Claims, a \in Addrs : Join(c, a) \/ Leave(c, a)

Spec == Init /\ [][Next]_vars
=============================================================================
