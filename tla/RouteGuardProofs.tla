-------------------------- MODULE RouteGuardProofs --------------------------
(* The guard's duplicates are few, for any number of savers and updates.   *)
EXTENDS RouteGuard, FiniteSetTheorems, TLAPS

(* The passes that will add a rule to interface i.                         *)
Adding(i) == {p \in Procs : /\ pc[p] = "change" /\ ~saw[p]
                            /\ mine[p].block /\ mine[p].iface = i}

(* A pass decides to add a rule either while there is none, and there are  *)
(* no more passes than processes, or because its -C failed.                *)
FewOf(i) == drops[i] + Cardinality(Adding(i)) <= Cardinality(Procs) + failures

GInv == TypeOK /\ \A i \in Ifaces : FewOf(i)

LEMMA ProcsFinite == IsFiniteSet(Procs) /\ Cardinality(Procs) \in Nat
<1>1. IsFiniteSet(Procs)
  BY RouteGuardAssumption, FS_Singleton, FS_Union DEF Procs
<1> QED
  BY <1>1, FS_CardinalityType

LEMMA UnreadOK == ASSUME Configs # {} PROVE Unread \in Configs
  BY DEF Unread

-----------------------------------------------------------------------------
LEMMA InitType == Init => TypeOK
<1> SUFFICES ASSUME Init PROVE TypeOK
  OBVIOUS
<1>1. file \in Configs
  BY RouteGuardAssumption DEF Init, Configs
<1>2. Unread \in Configs
  BY <1>1, UnreadOK
<1>3. file.iface \in Ifaces
  BY <1>1 DEF Configs
<1>4. {cfg, file, guard} \subseteq Configs /\ unit \in Ifaces
  BY <1>1, <1>3 DEF Init
<1>5. mine \in [Procs -> Configs]
  BY <1>2 DEF Init
<1>6. /\ 0 \in 0..MaxUpdates /\ 0 \in 0..MaxFailures /\ 0 \in 0..MaxRestarts
  BY RouteGuardAssumption
<1>7. /\ pc = [p \in Procs |-> "idle"]
      /\ saw = [p \in Procs |-> FALSE]
      /\ drops = [i \in Ifaces |-> 0]
      /\ updates = 0 /\ failures = 0 /\ restarts = 0
      /\ overlapped = FALSE
  BY DEF Init
<1> QED
  BY <1>4, <1>5, <1>6, <1>7 DEF TypeOK

LEMMA StepType == TypeOK /\ [Next]_vars => TypeOK'
<1> SUFFICES ASSUME TypeOK, [Next]_vars PROVE TypeOK'
  OBVIOUS
<1>u. Unread \in Configs
  BY UnreadOK DEF TypeOK
<1>c. \A c \in Configs : c.iface \in Ifaces /\ c.block \in BOOLEAN
  BY DEF Configs
<1>f. CountFailure => failures' \in 0..MaxFailures /\ updates' = updates /\ restarts' = restarts
  BY RouteGuardAssumption DEF TypeOK, CountFailure
<1>w. \A c \in Configs, i \in Ifaces, b \in BOOLEAN :
         [c EXCEPT !.iface = i] \in Configs /\ [c EXCEPT !.block = b] \in Configs
  BY DEF Configs
<1>m. \A p \in Procs : mine[p] \in Configs /\ mine[p].iface \in Ifaces
                       /\ mine[p].block \in BOOLEAN
  BY <1>c DEF TypeOK
<1>s. Savers \subseteq Procs
  BY DEF Procs
<1>r. ASSUME NEW p \in Procs, Return(p)
      PROVE  /\ pc' \in [Procs -> {"idle", "save", "unit", "name", "iface",
                                   "block", "snapshot", "check", "change"}]
             /\ mine' \in [Procs -> Configs]
             /\ saw' \in [Procs -> BOOLEAN]
  BY <1>r, <1>u DEF TypeOK, Return
<1>1. ASSUME NEW p \in Savers, NEW c \in Configs, Update(p, c) PROVE TypeOK'
  <2>1. updates' \in 0..MaxUpdates
    BY <1>1, RouteGuardAssumption DEF Update, TypeOK
  <2> QED
    BY <1>1, <2>1, <1>s DEF Update, Goto, TypeOK, store, tally, local
<1>2. ASSUME NEW p \in Savers, Save(p) PROVE TypeOK'
  BY <1>2, <1>s DEF Save, Goto, TypeOK, store, tally, local
<1>3. ASSUME NEW p \in Savers, SaveFails(p) PROVE TypeOK'
  BY <1>3, <1>r, <1>f, <1>s DEF SaveFails, TypeOK, store
<1>4. ASSUME NEW p \in Savers, SetUnit(p) PROVE TypeOK'
  BY <1>4, <1>m, <1>s DEF SetUnit, Goto, TypeOK, tally, local
<1>5. ASSUME NEW p \in Savers, IfaceName(p) PROVE TypeOK'
  <2>1. [mine[p] EXCEPT !.iface = unit] \in Configs
    BY <1>m, <1>w, <1>s DEF TypeOK
  <2> QED
    BY <1>5, <2>1, <1>s DEF IfaceName, Goto, TypeOK, store, tally
<1>6. ASSUME NEW p \in Savers, UpdateConfig(p) PROVE TypeOK'
  <2>1. guard' \in Configs
    BY <1>6, <1>m, <1>w, <1>s DEF UpdateConfig, TypeOK
  <2> QED
    BY <1>6, <2>1, <1>s DEF UpdateConfig, Goto, TypeOK, tally, local
<1>7. ASSUME NEW p \in Savers, SetBlock(p) PROVE TypeOK'
  <2>1. guard' \in Configs
    BY <1>7, <1>m, <1>w, <1>s DEF SetBlock, TypeOK
  <2> QED
    BY <1>7, <2>1, <1>s DEF SetBlock, Goto, TypeOK, tally, local
<1>8. ASSUME NEW p \in Procs, Snapshot(p) PROVE TypeOK'
  BY <1>8 DEF Snapshot, Goto, TypeOK, store, tally
<1>9. ASSUME NEW p \in Procs, Check(p) PROVE TypeOK'
  BY <1>9 DEF Check, Goto, TypeOK, store, tally
<1>10. ASSUME NEW p \in Procs, CheckFails(p) PROVE TypeOK'
  BY <1>10, <1>f DEF CheckFails, Goto, TypeOK, store, local
<1>11. ASSUME NEW p \in Procs, Change(p) PROVE TypeOK'
  <2>1. drops' \in [Ifaces -> Nat]
    BY <1>11, <1>m DEF Change, TypeOK
  <2> QED
    BY <1>11, <2>1, <1>r DEF Change, TypeOK, store, tally
<1>12. ASSUME NEW p \in Procs, ChangeFails(p) PROVE TypeOK'
  BY <1>12, <1>r, <1>f DEF ChangeFails, TypeOK, store
<1>13. CASE Restart
  <2>1. restarts' \in 0..MaxRestarts
    BY <1>13, RouteGuardAssumption DEF Restart, TypeOK
  <2> QED
    BY <1>13, <2>1, <1>u, <1>c DEF Restart, TypeOK
<1>14. CASE UNCHANGED vars
  BY <1>14 DEF vars, store, local, tally, TypeOK
<1> QED
  BY <1>1, <1>2, <1>3, <1>4, <1>5, <1>6, <1>7, <1>8, <1>9, <1>10, <1>11, <1>12,
     <1>13, <1>14 DEF Next, Apply, Pass

-----------------------------------------------------------------------------
LEMMA InitFew == Init => \A i \in Ifaces : FewOf(i)
<1> SUFFICES ASSUME Init, NEW i \in Ifaces PROVE FewOf(i)
  OBVIOUS
<1>1. Adding(i) = {} /\ drops[i] = 0 /\ failures = 0
  BY DEF Init, Adding
<1> QED
  BY <1>1, ProcsFinite, FS_EmptySet DEF FewOf

(* A step that leaves the rules, adds no pass that is about to add one and *)
(* forgets no failure keeps the bound.                                     *)
LEMMA FewerAdders ==
    ASSUME TypeOK, TypeOK', NEW i \in Ifaces, FewOf(i),
           drops'[i] = drops[i], failures' >= failures,
           Adding(i)' \subseteq Adding(i)
    PROVE  FewOf(i)'
<1>1. IsFiniteSet(Adding(i))
  BY ProcsFinite, FS_Subset DEF Adding
<1>2. /\ IsFiniteSet(Adding(i)')
      /\ Cardinality(Adding(i)') <= Cardinality(Adding(i))
  BY <1>1, FS_Subset
<1>3. /\ Cardinality(Adding(i)) \in Nat /\ Cardinality(Adding(i)') \in Nat
      /\ failures \in Nat /\ failures' \in Nat /\ drops[i] \in Nat
  BY <1>1, <1>2, FS_CardinalityType DEF TypeOK
<1>4. drops[i] + Cardinality(Adding(i)) <= Cardinality(Procs) + failures
  BY DEF FewOf
<1>5. drops'[i] + Cardinality(Adding(i)') <= Cardinality(Procs) + failures'
  BY <1>2, <1>3, <1>4, ProcsFinite
<1> QED
  BY <1>5 DEF FewOf, Procs

LEMMA CheckStep ==
    ASSUME TypeOK, TypeOK', NEW p \in Procs, Check(p), NEW i \in Ifaces, FewOf(i)
    PROVE  FewOf(i)'
<1>1. CASE drops[i] = 0
  <2>1. Adding(i)' \subseteq Procs
    BY DEF Adding, Procs
  <2>2. IsFiniteSet(Adding(i)') /\ Cardinality(Adding(i)') <= Cardinality(Procs)
    BY <2>1, ProcsFinite, FS_Subset
  <2>3. Cardinality(Adding(i)') \in Nat /\ failures \in Nat
    BY <2>2, FS_CardinalityType DEF TypeOK
  <2>4. drops'[i] = 0 /\ failures' = failures
    BY <1>1 DEF Check, tally
  <2>5. drops'[i] + Cardinality(Adding(i)') <= Cardinality(Procs) + failures'
    BY <2>2, <2>3, <2>4, ProcsFinite
  <2> QED
    BY <2>5 DEF FewOf, Procs
<1>2. CASE drops[i] # 0
  <2>1. drops[i] > 0
    BY <1>2 DEF TypeOK
  <2>2. Adding(i)' \subseteq Adding(i)
    BY <2>1 DEF Check, Goto, Adding, Procs, TypeOK
  <2>3. drops'[i] = drops[i] /\ failures' >= failures
    BY DEF Check, tally, TypeOK
  <2> QED
    BY <2>2, <2>3, FewerAdders
<1> QED
  BY <1>1, <1>2

LEMMA CheckFailsStep ==
    ASSUME TypeOK, TypeOK', NEW p \in Procs, CheckFails(p), NEW i \in Ifaces,
           FewOf(i)
    PROVE  FewOf(i)'
<1>1. Adding(i)' \subseteq Adding(i) \cup {p}
  BY DEF CheckFails, Goto, Adding, Procs, TypeOK, local
<1>2. IsFiniteSet(Adding(i)) /\ Cardinality(Adding(i)) \in Nat
  BY ProcsFinite, FS_Subset, FS_CardinalityType DEF Adding
<1>3. /\ IsFiniteSet(Adding(i) \cup {p})
      /\ Cardinality(Adding(i) \cup {p}) <= Cardinality(Adding(i)) + 1
  BY <1>2, FS_AddElement
<1>4. /\ IsFiniteSet(Adding(i)')
      /\ Cardinality(Adding(i)') <= Cardinality(Adding(i) \cup {p})
      /\ Cardinality(Adding(i)') \in Nat
      /\ Cardinality(Adding(i) \cup {p}) \in Nat
  BY <1>1, <1>3, FS_Subset, FS_CardinalityType
<1>5. failures' = failures + 1 /\ drops'[i] = drops[i]
  BY DEF CheckFails, CountFailure
<1>6. drops[i] \in Nat /\ failures \in Nat
  BY DEF TypeOK
<1>7. drops[i] + Cardinality(Adding(i)) <= Cardinality(Procs) + failures
  BY DEF FewOf
<1>8. drops'[i] + Cardinality(Adding(i)') <= Cardinality(Procs) + failures'
  BY <1>2, <1>3, <1>4, <1>5, <1>6, <1>7, ProcsFinite
<1> QED
  BY <1>8 DEF FewOf, Procs

LEMMA ChangeStep ==
    ASSUME TypeOK, TypeOK', NEW p \in Procs, Change(p), NEW i \in Ifaces, FewOf(i)
    PROVE  FewOf(i)'
<1>1. IsFiniteSet(Adding(i)) /\ Cardinality(Adding(i)) \in Nat
  BY ProcsFinite, FS_Subset, FS_CardinalityType DEF Adding
<1>2. failures' = failures
  BY DEF Change, tally
<1>t. drops[i] \in Nat /\ drops'[i] \in Nat /\ failures \in Nat
  BY DEF TypeOK
<1>f. drops[i] + Cardinality(Adding(i)) <= Cardinality(Procs) + failures
  BY DEF FewOf
<1>3. CASE p \in Adding(i)
  <2>1. Adding(i)' = Adding(i) \ {p}
    BY <1>3 DEF Change, Return, Adding, Procs, TypeOK
  <2>2. Cardinality(Adding(i)') = Cardinality(Adding(i)) - 1
    BY <1>1, <1>3, <2>1, FS_RemoveElement
  <2>3. drops'[i] = drops[i] + 1
    BY <1>3 DEF Change, Adding, TypeOK
  <2>4. drops'[i] + Cardinality(Adding(i)') <= Cardinality(Procs) + failures'
    BY <1>1, <1>2, <1>t, <1>f, <2>2, <2>3, ProcsFinite
  <2> QED
    BY <2>4 DEF FewOf, Procs
<1>4. CASE p \notin Adding(i)
  <2>1. Adding(i)' \subseteq Adding(i)
    BY <1>4 DEF Change, Return, Adding, Procs, TypeOK
  <2>2. /\ IsFiniteSet(Adding(i)') /\ Cardinality(Adding(i)') \in Nat
        /\ Cardinality(Adding(i)') <= Cardinality(Adding(i))
    BY <1>1, <2>1, FS_Subset, FS_CardinalityType
  <2>3. drops'[i] <= drops[i]
    BY <1>4 DEF Change, Adding, TypeOK
  <2>4. drops'[i] + Cardinality(Adding(i)') <= Cardinality(Procs) + failures'
    BY <1>1, <1>2, <1>t, <1>f, <2>2, <2>3, ProcsFinite
  <2> QED
    BY <2>4 DEF FewOf, Procs
<1> QED
  BY <1>3, <1>4

LEMMA StepFew == GInv /\ TypeOK' /\ [Next]_vars => \A i \in Ifaces : FewOf(i)'
<1> SUFFICES ASSUME GInv, TypeOK', [Next]_vars, NEW i \in Ifaces PROVE FewOf(i)'
  OBVIOUS
<1> TypeOK /\ FewOf(i)
  BY DEF GInv
<1>1. CASE \E p \in Procs : Check(p)
  BY <1>1, CheckStep
<1>2. CASE \E p \in Procs : CheckFails(p)
  BY <1>2, CheckFailsStep
<1>3. CASE \E p \in Procs : Change(p)
  BY <1>3, ChangeStep
<1> DEFINE Quiet == /\ drops'[i] = drops[i] /\ failures' >= failures
                    /\ Adding(i)' \subseteq Adding(i)
<1>4. SUFFICES ASSUME ~ (\E p \in Procs : Check(p) \/ CheckFails(p) \/ Change(p))
               PROVE  Quiet
  BY <1>1, <1>2, <1>3, FewerAdders
<1> USE DEF Adding, Procs, TypeOK
<1>5. ASSUME NEW p \in Savers, Apply(p) \/ \E c \in Configs : Update(p, c)
      PROVE  Quiet
  <2>1. ASSUME NEW c \in Configs, Update(p, c) PROVE Quiet
    BY <2>1 DEF Update, Goto
  <2>2. CASE Save(p)
    BY <2>2 DEF Save, Goto, local, tally
  <2>3. CASE SaveFails(p)
    BY <2>3 DEF SaveFails, Return, CountFailure
  <2>4. CASE SetUnit(p)
    BY <2>4 DEF SetUnit, Goto, local, tally
  <2>5. CASE IfaceName(p)
    BY <2>5 DEF IfaceName, Goto, tally
  <2>6. CASE UpdateConfig(p)
    BY <2>6 DEF UpdateConfig, Goto, local, tally
  <2>7. CASE SetBlock(p)
    BY <2>7 DEF SetBlock, Goto, local, tally
  <2> QED
    BY <1>5, <2>1, <2>2, <2>3, <2>4, <2>5, <2>6, <2>7 DEF Apply
<1>6. ASSUME NEW p \in Procs, Snapshot(p) \/ ChangeFails(p)
      PROVE  Quiet
  <2>1. CASE Snapshot(p)
    BY <2>1 DEF Snapshot, Goto, tally
  <2>2. CASE ChangeFails(p)
    BY <2>2 DEF ChangeFails, Return, CountFailure
  <2> QED
    BY <1>6, <2>1, <2>2
<1>7. CASE Restart
  BY <1>7 DEF Restart
<1>8. CASE UNCHANGED vars
  BY <1>8 DEF vars, store, local, tally
<1> QED
  BY <1>4, <1>5, <1>6, <1>7, <1>8 DEF Next, Pass

-----------------------------------------------------------------------------
THEOREM GuardInv == Spec => []GInv
<1>1. Init => GInv
  BY InitType, InitFew DEF GInv
<1>2. GInv /\ [Next]_vars => GInv'
  BY StepType, StepFew DEF GInv
<1> QED
  BY <1>1, <1>2, PTL DEF Spec

(* Settings, the guard's copy and the passes keep their types, and no rule *)
(* is deleted that is not there.                                           *)
THEOREM GuardTypeOK == Spec => []TypeOK
<1>1. GInv => TypeOK
  BY DEF GInv
<1> QED
  BY <1>1, GuardInv, PTL

(* However often passes overlap, an interface never has more DROP rules    *)
(* than there are processes and failed commands.                           *)
THEOREM DuplicatesAreFew == Spec => []FewDuplicates
<1>1. GInv => FewDuplicates
  <2> SUFFICES ASSUME GInv, NEW i \in Ifaces
               PROVE  drops[i] <= Cardinality(Procs) + failures
    BY DEF FewDuplicates
  <2>1. IsFiniteSet(Adding(i)) /\ Cardinality(Adding(i)) \in Nat
    BY ProcsFinite, FS_Subset, FS_CardinalityType DEF Adding
  <2>2. drops[i] \in Nat /\ failures \in Nat
    BY DEF GInv, TypeOK
  <2> QED
    BY <2>1, <2>2, ProcsFinite DEF GInv, FewOf
<1> QED
  BY <1>1, GuardInv, PTL
=============================================================================
