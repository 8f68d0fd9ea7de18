--------------------------- MODULE IdleLinkProofs ---------------------------
(***************************************************************************)
(* Any number of viewers, or any number of recordings, leave no line to    *)
(* nobody.  That both together may is a property of the code, not of the   *)
(* proof: see CheckGone, whose question a viewer on its way out answers    *)
(* without being one that still decides.                                   *)
(***************************************************************************)
EXTENDS IdleLink, TLAPS

Uniform == \A k \in Mixes : \A c, d \in Consumers : k[c] = k[d]

(* Only one Start is under way, and a line that Stop ended is not there.   *)
OneStart == /\ \A c \in Consumers : pc[c] = "launch" => link = "starting"
            /\ \A c, d \in Consumers :
                  pc[c] = "launch" /\ pc[d] = "launch" => c = d
            /\ link \in {"registered", "up"} => ~stopped

(* Each kind takes its own way out.                                        *)
OwnWay == \A c \in Consumers :
    /\ kind[c] = "recording" => pc[c] \notin {"register", "saveLast", "save"}
    /\ kind[c] = "viewer" => pc[c] \notin {"check", "arm"}

IInv == TypeOK /\ OneStart /\ OwnWay /\ LinkIsWatched

-----------------------------------------------------------------------------
LEMMA KindsAreKinds ==
    ASSUME TypeOK, NEW c \in Consumers
    PROVE  kind[c] \in Kinds
BY MixesAssumption DEF TypeOK

LEMMA InitInv == Init => IInv
<1> SUFFICES ASSUME Init PROVE IInv
  OBVIOUS
<1>1. TypeOK
  <2>1. firings \in 0..MaxFirings
    BY MaxFiringsAssumption DEF Init
  <2>2. \A c \in Consumers : pc[c] = "out"
    BY DEF Init
  <2>3. pc \in [Consumers -> Places]
    BY DEF Init, Places
  <2> QED
    BY <2>1, <2>2, <2>3 DEF Init, TypeOK
<1>2. OneStart /\ OwnWay /\ LinkIsWatched
  BY DEF Init, OneStart, OwnWay, LinkIsWatched
<1> QED
  BY <1>1, <1>2 DEF IInv

(* Every step keeps the types, the one Start and the ways out.             *)
LEMMA NextType ==
    ASSUME TypeOK, OneStart, OwnWay, [Next]_vars
    PROVE  TypeOK' /\ OneStart' /\ OwnWay'
<1> USE DEF line
<1>1. CASE UNCHANGED vars
  BY <1>1 DEF vars, TypeOK, OneStart, OwnWay
<1>2. CASE TimerFires \/ FiringStops \/ LinkDrops
  <2> USE <1>2, MaxFiringsAssumption
      DEF TimerFires, FiringStops, LinkDrops, StopLink
  <2>1. TypeOK'
    <3>1. firings' \in 0..MaxFirings
      BY DEF TypeOK
    <3>2. UNCHANGED <<kind, pc, streams, subs, forsaken>>
      OBVIOUS
    <3> QED
      BY <3>1, <3>2 DEF TypeOK
  <2>2. OneStart' /\ OwnWay'
    BY DEF TypeOK, OneStart, OwnWay
  <2> QED
    BY <2>1, <2>2
<1>3. ASSUME NEW c \in Consumers, Request(c)
      PROVE  TypeOK' /\ OneStart' /\ OwnWay'
  <2> USE <1>3, KindsAreKinds DEF Request, Goto
  <2>1. TypeOK'
    BY DEF TypeOK, Places, Kinds
  <2>2. OneStart'
    BY DEF TypeOK, OneStart, Places
  <2>3. OwnWay'
    BY DEF TypeOK, OwnWay, Kinds, Places
  <2> QED
    BY <2>1, <2>2, <2>3
<1>4. ASSUME NEW c \in Consumers, Dial(c)
      PROVE  TypeOK' /\ OneStart' /\ OwnWay'
  <2> USE <1>4, KindsAreKinds DEF Dial, Goto
  <2>1. TypeOK'
    BY DEF TypeOK, Places, Kinds
  <2>2. OneStart'
    BY DEF TypeOK, OneStart, Places
  <2>3. OwnWay'
    BY DEF TypeOK, OwnWay, Kinds, Places
  <2> QED
    BY <2>1, <2>2, <2>3
<1>5. ASSUME NEW c \in Consumers, Launch(c)
      PROVE  TypeOK' /\ OneStart' /\ OwnWay'
  <2> USE <1>5, KindsAreKinds DEF Launch, Goto
  <2>1. TypeOK'
    BY DEF TypeOK, Places, Kinds
  <2>2. OneStart'
    BY DEF TypeOK, OneStart, Places
  <2>3. OwnWay'
    BY DEF TypeOK, OwnWay, Kinds, Places
  <2> QED
    BY <2>1, <2>2, <2>3
<1>6. ASSUME NEW c \in Consumers, LaunchFails(c)
      PROVE  TypeOK' /\ OneStart' /\ OwnWay'
  <2> USE <1>6, KindsAreKinds DEF LaunchFails, Goto
  <2>1. TypeOK'
    BY DEF TypeOK, Places, Kinds
  <2>2. OneStart'
    BY DEF TypeOK, OneStart, Places
  <2>3. OwnWay'
    BY DEF TypeOK, OwnWay, Kinds, Places
  <2> QED
    BY <2>1, <2>2, <2>3
<1>7. ASSUME NEW c \in Consumers, Confirm(c)
      PROVE  TypeOK' /\ OneStart' /\ OwnWay'
  <2> USE <1>7, KindsAreKinds DEF Confirm, Goto
  <2>1. TypeOK'
    BY DEF TypeOK, Places, Kinds
  <2>2. OneStart'
    BY DEF TypeOK, OneStart, Places
  <2>3. OwnWay'
    BY DEF TypeOK, OwnWay, Kinds, Places
  <2> QED
    BY <2>1, <2>2, <2>3
<1>8. ASSUME NEW c \in Consumers, IfaceTimeout(c)
      PROVE  TypeOK' /\ OneStart' /\ OwnWay'
  <2> USE <1>8, KindsAreKinds DEF IfaceTimeout, StopLink, Goto
  <2>1. TypeOK'
    BY DEF TypeOK, Places, Kinds
  <2>2. OneStart'
    BY DEF TypeOK, OneStart, Places
  <2>3. OwnWay'
    BY DEF TypeOK, OwnWay, Kinds, Places
  <2> QED
    BY <2>1, <2>2, <2>3
<1>9. ASSUME NEW c \in Consumers, Open(c)
      PROVE  TypeOK' /\ OneStart' /\ OwnWay'
  <2> USE <1>9, KindsAreKinds DEF Open, Goto
  <2>1. TypeOK'
    BY DEF TypeOK, Places, Kinds
  <2>2. OneStart'
    BY DEF TypeOK, OneStart, Places
  <2>3. OwnWay'
    BY DEF TypeOK, OwnWay, Kinds, Places
  <2> QED
    BY <2>1, <2>2, <2>3
<1>10. ASSUME NEW c \in Consumers, OpenFails(c)
      PROVE  TypeOK' /\ OneStart' /\ OwnWay'
  <2> USE <1>10, KindsAreKinds DEF OpenFails, Goto
  <2>1. TypeOK'
    BY DEF TypeOK, Places, Kinds
  <2>2. OneStart'
    BY DEF TypeOK, OneStart, Places
  <2>3. OwnWay'
    BY DEF TypeOK, OwnWay, Kinds, Places
  <2> QED
    BY <2>1, <2>2, <2>3
<1>11. ASSUME NEW c \in Consumers, Register(c)
      PROVE  TypeOK' /\ OneStart' /\ OwnWay'
  <2> USE <1>11, KindsAreKinds DEF Register, Goto
  <2>1. TypeOK'
    BY DEF TypeOK, OwnWay, Places, Kinds
  <2>2. OneStart'
    BY DEF TypeOK, OneStart, Places
  <2>3. OwnWay'
    BY DEF TypeOK, OwnWay, Kinds, Places
  <2> QED
    BY <2>1, <2>2, <2>3
<1>12. ASSUME NEW c \in Consumers, NotifyActivity(c)
      PROVE  TypeOK' /\ OneStart' /\ OwnWay'
  <2> USE <1>12, KindsAreKinds DEF NotifyActivity, Goto
  <2>1. TypeOK'
    BY DEF TypeOK, Places, Kinds
  <2>2. OneStart'
    BY DEF TypeOK, OneStart, Places
  <2>3. OwnWay'
    BY DEF TypeOK, OwnWay, Kinds, Places
  <2> QED
    BY <2>1, <2>2, <2>3
<1>13. ASSUME NEW c \in Consumers, Overflow(c)
      PROVE  TypeOK' /\ OneStart' /\ OwnWay'
  <2> USE <1>13, KindsAreKinds DEF Overflow, Goto
  <2>1. TypeOK'
    BY DEF TypeOK, Places, Kinds
  <2>2. OneStart'
    BY DEF TypeOK, OneStart, Places
  <2>3. OwnWay'
    BY DEF TypeOK, OwnWay, Kinds, Places
  <2> QED
    BY <2>1, <2>2, <2>3
<1>14. ASSUME NEW c \in Consumers, End(c)
      PROVE  TypeOK' /\ OneStart' /\ OwnWay'
  <2> USE <1>14, KindsAreKinds DEF End, Goto
  <2>1. TypeOK'
    BY DEF TypeOK, Places, Kinds
  <2>2. OneStart'
    BY DEF TypeOK, OneStart, Places
  <2>3. OwnWay'
    BY DEF TypeOK, OwnWay, Kinds, Places
  <2> QED
    BY <2>1, <2>2, <2>3
<1>15. ASSUME NEW c \in Consumers, EndRecording(c)
      PROVE  TypeOK' /\ OneStart' /\ OwnWay'
  <2> USE <1>15, KindsAreKinds DEF EndRecording, Goto
  <2>1. TypeOK'
    BY DEF TypeOK, Places, Kinds
  <2>2. OneStart'
    BY DEF TypeOK, OneStart, Places
  <2>3. OwnWay'
    BY DEF TypeOK, OwnWay, Kinds, Places
  <2> QED
    BY <2>1, <2>2, <2>3
<1>16. ASSUME NEW c \in Consumers, LastSaved(c)
      PROVE  TypeOK' /\ OneStart' /\ OwnWay'
  <2> USE <1>16, KindsAreKinds DEF LastSaved, NotifyIdle, Goto
  <2>1. TypeOK'
    BY DEF TypeOK, Places, Kinds
  <2>2. OneStart'
    BY DEF TypeOK, OneStart, Places
  <2>3. OwnWay'
    BY DEF TypeOK, OwnWay, Kinds, Places
  <2> QED
    BY <2>1, <2>2, <2>3
<1>17. ASSUME NEW c \in Consumers, Saved(c)
      PROVE  TypeOK' /\ OneStart' /\ OwnWay'
  <2> USE <1>17, KindsAreKinds DEF Saved, Goto
  <2>1. TypeOK'
    BY DEF TypeOK, Places, Kinds
  <2>2. OneStart'
    BY DEF TypeOK, OneStart, Places
  <2>3. OwnWay'
    BY DEF TypeOK, OwnWay, Kinds, Places
  <2> QED
    BY <2>1, <2>2, <2>3
<1>18. ASSUME NEW c \in Consumers, Unsub(c)
      PROVE  TypeOK' /\ OneStart' /\ OwnWay'
  <2> USE <1>18, KindsAreKinds DEF Unsub, Goto
  <2>1. TypeOK'
    BY DEF TypeOK, Places, Kinds
  <2>2. OneStart'
    BY DEF TypeOK, OneStart, Places
  <2>3. OwnWay'
    BY DEF TypeOK, OwnWay, Kinds, Places
  <2> QED
    BY <2>1, <2>2, <2>3
<1>19. ASSUME NEW c \in Consumers, CheckGone(c)
      PROVE  TypeOK' /\ OneStart' /\ OwnWay'
  <2> USE <1>19, KindsAreKinds DEF CheckGone, Goto
  <2>1. TypeOK'
    BY DEF TypeOK, Places, Kinds
  <2>2. OneStart'
    BY DEF TypeOK, OneStart, Places
  <2>3. OwnWay'
    BY DEF TypeOK, OwnWay, Kinds, Places
  <2> QED
    BY <2>1, <2>2, <2>3
<1>20. ASSUME NEW c \in Consumers, Arm(c)
      PROVE  TypeOK' /\ OneStart' /\ OwnWay'
  <2> USE <1>20, KindsAreKinds DEF Arm, NotifyIdle, Goto
  <2>1. TypeOK'
    BY DEF TypeOK, Places, Kinds
  <2>2. OneStart'
    BY DEF TypeOK, OneStart, Places
  <2>3. OwnWay'
    BY DEF TypeOK, OwnWay, Kinds, Places
  <2> QED
    BY <2>1, <2>2, <2>3
<1> QED
  BY <1>1, <1>2, <1>3, <1>4, <1>5, <1>6, <1>7, <1>8, <1>9, <1>10, <1>11, <1>12, <1>13, <1>14, <1>15, <1>16, <1>17, <1>18, <1>19, <1>20 DEF Next, Come, Go

(* The line stays watched.  Who leaves the deciding ones arms the timer or *)
(* has seen another that is still among them.                              *)
LEMMA NextWatched ==
    ASSUME IInv, TypeOK', Uniform, [Next]_vars
    PROVE  LinkIsWatched'
<1> SUFFICES ASSUME link' = "up"
             PROVE  (timer \/ firings > 0 \/ Deciding # {} \/ forsaken)'
  BY DEF LinkIsWatched
<1> USE DEF IInv, TypeOK, line
<1>1. CASE UNCHANGED vars
  BY <1>1 DEF vars, LinkIsWatched, Deciding
<1>2. CASE TimerFires
  BY <1>2 DEF TimerFires
<1>3. CASE FiringStops
  BY <1>3 DEF FiringStops, StopLink, OneStart
<1>4. CASE LinkDrops
  BY <1>4 DEF LinkDrops
<1>5. ASSUME NEW c \in Consumers, Come(c), ~OpenFails(c)
      PROVE  Deciding' # {}
  <2>1. c \in Deciding'
    BY <1>5 DEF Come, Dial, Launch, LaunchFails, Confirm, IfaceTimeout, Open,
                Register, NotifyActivity, Deciding, Goto
  <2> QED
    BY <2>1
<1>6. ASSUME NEW c \in Consumers, OpenFails(c)
      PROVE  forsaken'
  BY <1>6 DEF OpenFails
<1>7. ASSUME NEW c \in Consumers,
             Request(c) \/ Overflow(c) \/ Saved(c) \/ Unsub(c) \/ EndRecording(c)
      PROVE  (timer \/ firings > 0 \/ Deciding # {} \/ forsaken)'
  <2>1. Deciding \subseteq Deciding'
    BY <1>7, KindsAreKinds
       DEF Request, Overflow, Saved, Unsub, EndRecording, Deciding, Goto, Kinds
  <2> QED
    BY <1>7, <2>1
       DEF Request, Overflow, Saved, Unsub, EndRecording, LinkIsWatched
<1>8. ASSUME NEW c \in Consumers, End(c)
      PROVE  Deciding' # {}
  <2>1. CASE streams = {c}
    BY <1>8, <2>1 DEF End, Deciding, Goto
  <2>2. CASE streams # {c}
    <3>1. PICK d \in streams : d # c
      BY <1>8, <2>2 DEF End, Goto
    <3>2. d \in Consumers /\ pc'[d] \in {"notify", "using"}
      BY <1>8, <3>1 DEF End, Goto
    <3> QED
      BY <3>2 DEF Deciding
  <2> QED
    BY <2>1, <2>2
<1>9. ASSUME NEW c \in Consumers, LastSaved(c) \/ Arm(c)
      PROVE  timer'
  BY <1>9 DEF LastSaved, Arm, NotifyIdle
<1>10. ASSUME NEW c \in Consumers, CheckGone(c)
       PROVE  Deciding' # {}
  <2>1. /\ pc[c] = "check" /\ kind[c] = "recording"
        /\ UNCHANGED <<kind, streams, subs>>
        /\ \A d \in Consumers : d # c => pc'[d] = pc[d]
    BY <1>10, KindsAreKinds DEF CheckGone, Goto, OwnWay, Kinds
  <2>2. \A d \in Consumers : kind[d] = "recording"
    BY <2>1 DEF Uniform
  <2>3. CASE streams = {} /\ subs = {}
    BY <1>10, <2>1, <2>3 DEF CheckGone, Deciding, Goto
  <2>4. CASE subs # {}
    <3>1. PICK d \in subs : TRUE
      BY <2>4
    <3>2. /\ d \in Consumers /\ d # c
          /\ pc[d] \in {"notify", "using", "unsub"}
      BY <2>1, <2>2, <3>1 DEF OwnWay
    <3>3. d \in Deciding'
      BY <2>1, <2>2, <3>2 DEF Deciding
    <3> QED
      BY <3>3
  <2>5. streams = {}
    BY <2>2
  <2> QED
    BY <2>3, <2>4, <2>5
<1> QED
  BY <1>1, <1>2, <1>3, <1>4, <1>5, <1>6, <1>7, <1>8, <1>9, <1>10 DEF Next, Go, Come

(* TypeOK, whatever the mixture of consumers.                              *)
THEOREM IdleTypeOK == Spec => []TypeOK
<1>1. Init => TypeOK /\ OneStart /\ OwnWay
  BY InitInv DEF IInv
<1>2. TypeOK /\ OneStart /\ OwnWay /\ [Next]_vars => (TypeOK /\ OneStart /\ OwnWay)'
  BY NextType
<1> QED
  BY <1>1, <1>2, PTL DEF Spec

(* No line is up for nobody, when all consumers are of one kind.           *)
THEOREM LinkWatched == ASSUME Uniform PROVE Spec => []LinkIsWatched
<1>1. IInv /\ [Next]_vars => IInv'
  BY NextType, NextWatched DEF IInv
<1>2. IInv => LinkIsWatched
  BY DEF IInv
<1> QED
  BY <1>1, <1>2, InitInv, PTL DEF Spec

=============================================================================
