------------------------------ MODULE StoreProofs ------------------------------
(***************************************************************************)
(* The JSON stores, for any number of writers, streams, sessions, instants *)
(* and edits.  How they are saved (Persistence): an edit reported as saved *)
(* is never lost, a failed save is made up for, the files never go back.   *)
(* What they say (ViewingTime): the limits' verdict, the continuous chain  *)
(* and the rules' windows are what was watched and when.                   *)
(***************************************************************************)
EXTENDS Persistence, ViewingTime, FiniteSetTheorems, WellFoundedInduction, TLAPS

-----------------------------------------------------------------------------
(***************************************************************************)
(* How the stores are saved                                                *)
(***************************************************************************)
(* saveMu is exactly what it takes to be between the read and the rename.  *)
SaveMuExact == discipline # "unlocked" =>
    \A w \in Writers : saveMu = w <=> pc[w] \in {"read", "write"}

(* What is read under saveMu is at least as new as the file and as the     *)
(* edit the call is about: nobody else can write in between.               *)
SnapIsFresh == \A w \in Writers :
    /\ goal[w] <= mem /\ snap[w] <= mem
    /\ pc[w] = "write" => disk <= snap[w] /\ goal[w] <= snap[w]

(* What a failed save left in memory is in every copy that is read later.  *)
OwedIsNoted ==
    owed <= mem /\ \A w \in Writers : pc[w] = "write" => owed <= snap[w]

DInv == /\ StoreTypeOK /\ SaveMuExact
        /\ InOrder => /\ acked <= disk /\ disk <= mem
                      /\ SnapIsFresh /\ OwedIsNoted

LEMMA InitDInv == StoreInit => DInv
  BY WritersAssumption, BoundsAssumption
  DEF StoreInit, DInv, StoreTypeOK, WritersHoldSaveMu, InOrder, SaveMuExact, SnapIsFresh,
      OwedIsNoted, Idle, Zero

(* Every step keeps the invariant; the two that matter are Snapshot, which *)
(* copies mem, and WriteJSON, which moves the file.                        *)
LEMMA StepDInv == DInv /\ [StoreNext]_storeVars => DInv'
<1> SUFFICES ASSUME DInv, [StoreNext]_storeVars
             PROVE  DInv'
  OBVIOUS
<1> USE WritersAssumption, BoundsAssumption
        DEF DInv, StoreTypeOK, WritersHoldSaveMu, InOrder, SaveMuExact, SnapIsFresh,
            OwedIsNoted, told
<1>1. ASSUME NEW w \in Writers, EditThenSave(w)
      PROVE  DInv'
  BY <1>1 DEF EditThenSave, MayBeQuiet, Calls, MemEdited, Goto
<1>2. ASSUME NEW w \in Writers, EditLocked(w)
      PROVE  DInv'
  BY <1>2 DEF EditLocked, MayBeQuiet, Calls, MemEdited, Goto
<1>3. ASSUME NEW w \in Writers, ClearAll(w)
      PROVE  DInv'
  BY <1>3 DEF ClearAll, Calls, MemEdited, Goto
<1>4. ASSUME NEW w \in Writers, Flush(w)
      PROVE  DInv'
  BY <1>4 DEF Flush, Calls, Goto
<1>5. ASSUME NEW w \in Writers, LockSave(w)
      PROVE  DInv'
  BY <1>5 DEF LockSave, Goto
<1>6. ASSUME NEW w \in Writers, Snapshot(w)
      PROVE  DInv'
  BY <1>6 DEF Snapshot, Goto
<1>7. ASSUME NEW w \in Writers, WriteJSON(w)
      PROVE  DInv'
  BY <1>7 DEF WriteJSON, Later, Finish, Unlock, Goto
<1>8. ASSUME NEW w \in Writers, WriteFails(w)
      PROVE  DInv'
  BY <1>8 DEF WriteFails, FailsBut, Later, Finish, Unlock, Goto
<1>9. CASE StatsAddRange
  BY <1>9 DEF StatsAddRange, MemEdited
<1>10. CASE CrashRestart
  BY <1>10 DEF CrashRestart, Idle, Zero
<1>11. CASE EditUnsaved
  BY <1>11 DEF EditUnsaved, MemEdited
<1>12. CASE UNCHANGED storeVars
  BY <1>12 DEF storeVars
<1> QED
  BY <1>1, <1>2, <1>3, <1>4, <1>5, <1>6, <1>7, <1>8, <1>9, <1>10, <1>11, <1>12
  DEF StoreNext

(* DInv holds in every reachable state.                                    *)
THEOREM DurableInvariance == StoreSpec => []DInv
  BY InitDInv, StepDInv, PTL DEF StoreSpec

(* Memory, file, copies and the save mutex keep their types; saveMu is held*)
(* exactly by a writer that reads or writes under it.                      *)
THEOREM StoreTypes == StoreSpec => []StoreTypeOK
<1>1. DInv => StoreTypeOK
  BY DEF DInv
<1> QED
  BY DurableInvariance, <1>1, PTL

(* limits, rules, channels: an edit that a call reported as saved is in the*)
(* file and in memory, whatever crashes, failed writes and concurrent calls*)
(* came between (AckedSurvives).  Calls that report nothing about their    *)
(* save, ImportM3U and EndSession, are the next theorem's.                 *)
THEOREM AckedEditsSurvive == StoreSpec => []AckedSurvives
<1>1. DInv => AckedSurvives
  BY DEF DInv, AckedSurvives, Durable, StoreTypeOK
<1> QED
  BY DurableInvariance, <1>1, PTL

(* An edit whose save failed, reported or swallowed (channels.go:199,      *)
(* limits.go:373), is written by the next save of the store that succeeds, *)
(* unless the process ends before (FailedSavesAreMadeUp).                  *)
THEOREM FailuresAreMadeUp == StoreSpec => FailedSavesAreMadeUp
<1>1. DInv => [\A w \in Writers : InOrder /\ WriteJSON(w) => owed <= disk']_storeVars
  BY DEF DInv, OwedIsNoted, WriteJSON
<1> QED
  BY DurableInvariance, <1>1, PTL DEF FailedSavesAreMadeUp

(* Their files never go back to an older content (DiskNeverGoesBack).      *)
THEOREM FilesAdvance == StoreSpec => DiskNeverGoesBack
<1>1. DInv /\ [StoreNext]_storeVars => [InOrder => disk' >= disk]_storeVars
  <2> SUFFICES ASSUME DInv, [StoreNext]_storeVars, InOrder
               PROVE  disk' >= disk
    OBVIOUS
  <2>1. ASSUME NEW w \in Writers, WriteJSON(w)
        PROVE  disk' >= disk
    BY <2>1 DEF WriteJSON, DInv, StoreTypeOK, SnapIsFresh
  <2>2. CASE ~ \E w \in Writers : WriteJSON(w)
    BY <2>2 DEF StoreNext, storeVars, told, EditThenSave, EditLocked, ClearAll, Flush, Calls,
      LockSave, Snapshot, WriteFails, FailsBut, EditUnsaved, StatsAddRange, CrashRestart,
      DInv, StoreTypeOK
  <2> QED
    BY <2>1, <2>2
<1> QED
  BY DurableInvariance, <1>1, PTL DEF StoreSpec, DiskNeverGoesBack

-----------------------------------------------------------------------------
(***************************************************************************)
(* Sums: the folds of the community modules, as counts                     *)
(***************************************************************************)
(* Induction over the subsets of a finite set; the predicate is a set of   *)
(* subsets.                                                                *)
LEMMA StrictSubsetInduction ==
    ASSUME NEW S, IsFiniteSet(S), NEW G,
           \A T \in SUBSET S : (\A U \in SUBSET T : U # T => U \in G) => T \in G
    PROVE  \A T \in SUBSET S : T \in G
<1> DEFINE Bad == {T \in SUBSET S : T \notin G}
<1>1. SUFFICES ASSUME Bad # {} PROVE FALSE
  OBVIOUS
<1>2. IsWellFoundedOn(StrictSubsetOrdering(S), FiniteSubsetsOf(S))
  BY FS_StrictSubsetOrderingWellFounded
<1>3. Bad \subseteq FiniteSubsetsOf(S)
  BY FS_FiniteSubsetsOfFinite
<1>4. PICK T \in Bad : \A U \in Bad : <<U, T>> \notin StrictSubsetOrdering(S)
  <2> HIDE DEF Bad
  <2> QED
    BY <1>1, <1>2, <1>3, WFMin
<1>5. ASSUME NEW U \in SUBSET T, U # T PROVE U \in G
  BY <1>4, <1>5 DEF StrictSubsetOrdering
<1> QED
  BY <1>4, <1>5

LEMMA SubsetInduction ==
    ASSUME NEW S, IsFiniteSet(S), NEW G, {} \in G,
           \A T \in SUBSET S : \A x \in S \ T : T \in G => T \cup {x} \in G
    PROVE  \A T \in SUBSET S : T \in G
<1>1. ASSUME NEW T \in SUBSET S, \A U \in SUBSET T : U # T => U \in G PROVE T \in G
  <2>1. CASE T = {}
    BY <2>1
  <2>2. CASE T # {}
    <3>1. PICK x \in T : TRUE
      BY <2>2
    <3>2. T \ {x} \in G /\ T \ {x} \in SUBSET S /\ x \in S \ (T \ {x})
      BY <1>1, <3>1
    <3>3. (T \ {x}) \cup {x} \in G /\ (T \ {x}) \cup {x} = T
      BY <3>1, <3>2
    <3> QED
      BY <3>3
  <2> QED
    BY <2>1, <2>2
<1> QED
  BY <1>1, StrictSubsetInduction

(* A sum counts pairs: as many for each index as its summand says.         *)
Units(f, S) == {u \in S \X Nat : u[2] < f[u[1]]}

LEMMA UnitsOfOne ==
    ASSUME NEW x, NEW n \in Nat, NEW U, U = {u \in {x} \X Nat : u[2] < n}
    PROVE  IsFiniteSet(U) /\ Cardinality(U) = n
<1> DEFINE g == [i \in 0..(n - 1) |-> <<x, i>>]
<1>1. g \in Bijection(0..(n - 1), U)
  <2>1. \A i \in 0..(n - 1) : <<x, i>> \in U
    OBVIOUS
  <2>2. \A u \in U : u[2] \in 0..(n - 1) /\ u = <<x, u[2]>>
    OBVIOUS
  <2>3. g \in [0..(n - 1) -> U]
    BY <2>1
  <2>4. \A i, j \in 0..(n - 1) : g[i] = g[j] => i = j
    OBVIOUS
  <2>5. \A u \in U : \E i \in 0..(n - 1) : g[i] = u
    BY <2>2
  <2> QED
    BY <2>3, <2>4, <2>5 DEF Bijection, Injection, Surjection, IsInjective
<1>2. IsFiniteSet(0..(n - 1)) /\ Cardinality(0..(n - 1)) = n
  BY FS_Interval
<1>3. ExistsBijection(0..(n - 1), U)
  BY <1>1 DEF ExistsBijection
<1> QED
  BY <1>2, <1>3, FS_Bijection

LEMMA UnitsSplit ==
    ASSUME NEW S, NEW f, NEW x, x \notin S, f[x] \in Nat, IsFiniteSet(Units(f, S))
    PROVE  /\ IsFiniteSet(Units(f, S \cup {x}))
           /\ Cardinality(Units(f, S \cup {x})) = Cardinality(Units(f, S)) + f[x]
<1> DEFINE One == {u \in {x} \X Nat : u[2] < f[x]}
<1>1. IsFiniteSet(One) /\ Cardinality(One) = f[x]
  BY UnitsOfOne
<1>2. Units(f, S \cup {x}) = Units(f, S) \cup One
  BY DEF Units
<1>3. Units(f, S) \cap One = {}
  BY DEF Units
<1>4. Cardinality(Units(f, S)) \in Nat
  BY FS_CardinalityType
<1> HIDE DEF One
<1> DEFINE Old == Units(f, S)
<1> HIDE DEF Old
<1>5. /\ IsFiniteSet(Old \cup One)
      /\ Cardinality(Old \cup One) = Cardinality(Old) + Cardinality(One)
                                     - Cardinality(Old \cap One)
  BY <1>1, FS_Union DEF Old
<1>6. Cardinality(Old \cap One) = 0
  BY <1>3, FS_EmptySet DEF Old
<1>7. Cardinality(Old \cup One) = Cardinality(Old) + f[x]
  BY <1>1, <1>4, <1>5, <1>6 DEF Old
<1> QED
  BY <1>2, <1>5, <1>7 DEF Old

LEMMA UnitsFinite ==
    ASSUME NEW S, IsFiniteSet(S), NEW f, \A x \in S : f[x] \in Nat
    PROVE  \A T \in SUBSET S : IsFiniteSet(Units(f, T)) /\ Cardinality(Units(f, T)) \in Nat
<1> DEFINE G == {T \in SUBSET S : IsFiniteSet(Units(f, T))}
<1>1. Units(f, {}) = {} /\ {} \in G
  BY FS_EmptySet DEF Units
<1>2. \A T \in SUBSET S : \A x \in S \ T : T \in G => T \cup {x} \in G
  BY UnitsSplit
<1>3. \A T \in SUBSET S : T \in G
  <2> HIDE DEF G
  <2> QED
    BY <1>1, <1>2, SubsetInduction
<1> QED
  BY <1>3, FS_CardinalityType

(* The sum of the community modules is that count.                         *)
LEMMA SumIsCount ==
    ASSUME NEW S, IsFiniteSet(S), NEW f, \A x \in S : f[x] \in Nat
    PROVE  SumFunctionOnSet(f, S) = Cardinality(Units(f, S))
<1> DEFINE choice(T) == CHOOSE x \in T : TRUE
           count == [T \in SUBSET S |-> Cardinality(Units(f, T))]
           Sum(h) == h = [T \in SUBSET S |-> IF T = {} THEN 0
                                             ELSE f[choice(T)] + h[T \ {choice(T)}]]
           iter == CHOOSE h : Sum(h)
<1>1. \A T \in SUBSET S : T # {} =>
        /\ choice(T) \in T
        /\ count[T] = f[choice(T)] + count[T \ {choice(T)}]
  <2> SUFFICES ASSUME NEW T \in SUBSET S, T # {}
               PROVE  choice(T) \in T /\ count[T] = f[choice(T)] + count[T \ {choice(T)}]
    OBVIOUS
  <2>1. choice(T) \in T
    OBVIOUS
  <2> DEFINE x == choice(T)
             U == T \ {x}
  <2>2. U \in SUBSET S /\ T = U \cup {x} /\ x \notin U /\ f[x] \in Nat
    BY <2>1
  <2>3. IsFiniteSet(Units(f, U)) /\ Cardinality(Units(f, U)) \in Nat
    BY <2>2, UnitsFinite
  <2>4. Cardinality(Units(f, T)) = Cardinality(Units(f, U)) + f[x]
    <3> HIDE DEF x, U
    <3> QED
      BY <2>2, <2>3, UnitsSplit
  <2> QED
    BY <2>1, <2>2, <2>3, <2>4
<1>2. count[{}] = 0
  BY FS_EmptySet DEF Units
<1>3. Sum(count)
  BY <1>1, <1>2
<1>4. Sum(iter)
  <2> HIDE DEF Sum
  <2> QED
    BY <1>3
<1>5. iter[S] = count[S]
  <2> DEFINE G == {T \in SUBSET S : iter[T] = count[T]}
  <2>1. ASSUME NEW T \in SUBSET S, \A U \in SUBSET T : U # T => U \in G PROVE T \in G
    <3>1. CASE T = {}
      BY <1>2, <1>4, <3>1
    <3>2. CASE T # {}
      <4>1. choice(T) \in T /\ count[T] = f[choice(T)] + count[T \ {choice(T)}]
        BY <1>1, <3>2
      <4>2. iter[T] = f[choice(T)] + iter[T \ {choice(T)}]
        BY <1>4, <3>2
      <4>3. iter[T \ {choice(T)}] = count[T \ {choice(T)}]
        <5>1. T \ {choice(T)} \in SUBSET T /\ T \ {choice(T)} # T
          BY <4>1
        <5> QED
          BY <2>1, <5>1
      <4> QED
        BY <4>1, <4>2, <4>3
    <3> QED
      BY <3>1, <3>2
  <2>2. S \in G
    <3> HIDE DEF G
    <3> QED
      BY <2>1, StrictSubsetInduction
  <2> QED
    BY <2>2
<1> QED
  BY <1>5 DEF SumFunctionOnSet, FoldFunctionOnSet, MapThenFoldSet

(* Nothing sums up to nothing.                                             *)
LEMMA SumEmpty == ASSUME NEW f PROVE SumFunctionOnSet(f, {}) = 0
<1>1. Units(f, {}) = {}
  BY DEF Units
<1>2. SumFunctionOnSet(f, {}) = Cardinality(Units(f, {}))
  BY SumIsCount, FS_EmptySet
<1> QED
  BY <1>1, <1>2, FS_EmptySet

(* A sum of numbers is a number.                                           *)
LEMMA SumNat ==
    ASSUME NEW S, IsFiniteSet(S), NEW f, \A x \in S : f[x] \in Nat
    PROVE  SumFunctionOnSet(f, S) \in Nat
BY SumIsCount, UnitsFinite

(* One index more adds its summand.                                        *)
LEMMA SumAdd ==
    ASSUME NEW S, IsFiniteSet(S), NEW f, NEW x, x \notin S,
           \A y \in S \cup {x} : f[y] \in Nat
    PROVE  SumFunctionOnSet(f, S \cup {x}) = SumFunctionOnSet(f, S) + f[x]
<1>1. IsFiniteSet(S \cup {x}) /\ f[x] \in Nat
  BY FS_AddElement
<1>2. SumFunctionOnSet(f, S \cup {x}) = Cardinality(Units(f, S \cup {x}))
  BY <1>1, SumIsCount
<1>3. SumFunctionOnSet(f, S) = Cardinality(Units(f, S)) /\ IsFiniteSet(Units(f, S))
  BY SumIsCount, UnitsFinite
<1> QED
  BY <1>1, <1>2, <1>3, UnitsSplit

(* Equal summands, equal sums.                                             *)
LEMMA SumSame ==
    ASSUME NEW S, IsFiniteSet(S), NEW f, NEW g, \A x \in S : f[x] \in Nat /\ g[x] = f[x]
    PROVE  SumFunctionOnSet(f, S) = SumFunctionOnSet(g, S)
<1>1. Units(f, S) = Units(g, S)
  BY DEF Units
<1> QED
  BY <1>1, SumIsCount

(* Two functions, one index more.                                          *)
LEMMA SumGrows ==
    ASSUME NEW S, IsFiniteSet(S), NEW x, x \notin S, NEW f, NEW g,
           \A y \in S : f[y] \in Nat /\ g[y] = f[y], g[x] \in Nat
    PROVE  SumFunctionOnSet(g, S \cup {x}) = SumFunctionOnSet(f, S) + g[x]
<1>1. \A y \in S \cup {x} : g[y] \in Nat
  OBVIOUS
<1>2. SumFunctionOnSet(g, S \cup {x}) = SumFunctionOnSet(g, S) + g[x]
  BY <1>1, SumAdd
<1>3. SumFunctionOnSet(f, S) = SumFunctionOnSet(g, S)
  BY SumSame
<1> QED
  BY <1>2, <1>3

(* Zeros sum up to zero.                                                   *)
LEMMA SumZero ==
    ASSUME NEW S, IsFiniteSet(S), NEW f, \A x \in S : f[x] = 0
    PROVE  SumFunctionOnSet(f, S) = 0
<1>1. Units(f, S) = {}
  BY DEF Units
<1> QED
  BY <1>1, SumIsCount, FS_EmptySet

(* Indices whose summand is zero may be left out.                          *)
LEMMA SumSupport ==
    ASSUME NEW S, IsFiniteSet(S), NEW T \in SUBSET S, NEW f,
           \A x \in T : f[x] \in Nat, \A x \in S \ T : f[x] = 0
    PROVE  SumFunctionOnSet(f, S) = SumFunctionOnSet(f, T)
<1>1. Units(f, S) = Units(f, T)
  BY DEF Units
<1>2. IsFiniteSet(T) /\ \A x \in S : f[x] \in Nat
  BY FS_Subset
<1> QED
  BY <1>1, <1>2, SumIsCount

(* The sum of one.                                                         *)
LEMMA SumOfOne ==
    ASSUME NEW x, NEW f, f[x] \in Nat
    PROVE  SumFunctionOnSet(f, {x}) = f[x]
<1>1. SumFunctionOnSet(f, {} \cup {x}) = SumFunctionOnSet(f, {}) + f[x]
  BY SumAdd, FS_EmptySet
<1>2. {} \cup {x} = {x}
  OBVIOUS
<1> QED
  BY <1>1, <1>2, SumEmpty

-----------------------------------------------------------------------------
(***************************************************************************)
(* Days, weeks and windows                                                 *)
(***************************************************************************)
(* Quotient and remainder.                                                 *)
LEMMA DivMod == ASSUME NEW S \in Nat \ {0}, NEW x \in Int
                PROVE  /\ x \div S \in Int /\ x % S \in 0..(S - 1)
                       /\ x = S * (x \div S) + (x % S)
OBVIOUS

(* Multiples lie a whole step apart.                                       *)
LEMMA NextMultiple == ASSUME NEW S \in Nat \ {0}, NEW a \in Int, NEW b \in Int, a < b
                      PROVE  a * S + S <= b * S
<1>1. (b - a - 1) * S >= 0
  OBVIOUS
<1> QED
  BY <1>1

(* A quotient compares with a bound as the dividend does with its multiple. *)
LEMMA DivCompare == ASSUME NEW S \in Nat \ {0}, NEW x \in Int, NEW a \in Int
                    PROVE  /\ a <= x \div S <=> a * S <= x
                           /\ x \div S < a <=> x < a * S
<1> DEFINE q == x \div S
<1>1. q \in Int /\ q * S <= x /\ x < q * S + S
  BY DivMod
<1>2. q * S \in Int /\ a * S \in Int
  BY <1>1
<1> HIDE DEF q
<1>3. a < q => a * S + S <= q * S
  BY <1>1, NextMultiple
<1>4. q < a => q * S + S <= a * S
  BY <1>1, NextMultiple
<1>5. (a <= q <=> a * S <= x) /\ (q < a <=> x < a * S)
  BY <1>1, <1>2, <1>3, <1>4
<1> QED
  BY <1>5 DEF q

(* The day of an instant is the one between whose midnights it lies.       *)
LEMMA DayBounds ==
    ASSUME NEW t \in Nat, NEW d \in Int
    PROVE  /\ Day(t) \in Nat /\ Day(t) * DayTicks \in Nat
           /\ Day(t) * DayTicks <= t /\ t < Day(t) * DayTicks + DayTicks
           /\ d <= Day(t) <=> d * DayTicks <= t
           /\ Day(t) < d <=> t < d * DayTicks
<1>1. Day(t) \in Int /\ DayTicks \in Nat \ {0}
  BY DivMod, CalendarAssumption DEF Day
<1>2. 0 <= Day(t) <=> 0 * DayTicks <= t
  BY <1>1, DivCompare DEF Day
<1>3. d <= Day(t) <=> d * DayTicks <= t
  BY <1>1, DivCompare DEF Day
<1>4. Day(t) < d <=> t < d * DayTicks
  BY <1>1, DivCompare DEF Day
<1>5. t = DayTicks * (t \div DayTicks) + (t % DayTicks) /\ t % DayTicks \in 0..(DayTicks - 1)
  BY <1>1, DivMod
<1>6. Day(t) \in Nat
  BY <1>1, <1>2
<1>7. Day(t) * DayTicks \in Nat
  BY <1>1, <1>6
<1> QED
  BY <1>1, <1>3, <1>4, <1>5, <1>6, <1>7 DEF Day

(* A rule is active exactly in its windows, at every instant there is.     *)
LEMMA ActiveInWindow ==
    ASSUME NEW r \in Windows, NEW t \in Nat
    PROVE  ActiveAt(r, t) <=> InWindow(r, t)
<1> DEFINE D == DayTicks
           M == MinuteTicks
           d == Day(t)
           o == t % D
           k == D \div M
           m == Minute(t)
           begins == r.start
           ends == r.end
           opens == begins * M
           closes == ends * M
<1>1. M \in Nat \ {0} /\ D \in Nat \ {0} /\ k \in Int /\ D = M * k
  <2>1. M \in Nat \ {0} /\ D \in Nat \ {0} /\ D % M = 0
    BY CalendarAssumption
  <2> HIDE DEF D, M
  <2>2. k \in Int /\ D = M * k + (D % M)
    BY <2>1, DivMod
  <2> QED
    BY <2>1, <2>2
<1>2. d \in Int /\ o \in 0..(D - 1) /\ t = D * d + o
  BY <1>1, DivMod DEF Day
<1>3. begins \in 0..(k - 1) /\ ends \in 0..(k - 1) /\ opens \in Int /\ closes \in Int
  BY <1>1 DEF Windows
<1>4. m = o \div M
  BY DEF Minute
<1>5. (begins <= m <=> opens <= o) /\ (m < ends <=> o < closes)
  <2> HIDE DEF m, o, begins, ends, M, D, k
  <2> QED
    BY <1>1, <1>2, <1>3, <1>4, DivCompare DEF opens, closes
<1>6. opens \in 0..(D - 1) /\ closes \in 0..(D - 1)
  <2>1. \A a \in 0..(k - 1) : a * M + M <= k * M /\ a * M >= 0
    <3> HIDE DEF k, M, D
    <3> QED
      BY <1>1, NextMultiple
  <2>2. opens + M <= D /\ closes + M <= D /\ opens >= 0 /\ closes >= 0
    <3> HIDE DEF k, M, D
    <3> QED
      BY <1>1, <1>3, <2>1
  <2> QED
    BY <1>1, <1>3, <2>2
<1>7. /\ (d - 1) * D = D * d - D /\ d * D = D * d /\ (d + 1) * D = D * d + D
      /\ D * d \in Int
  BY <1>1, <1>2
<1>8. Opens(r, d) <= t /\ t < Closes(r, d) <=>
        \/ begins = ends
        \/ begins < ends /\ opens <= o /\ o < closes
        \/ begins > ends /\ opens <= o
  <2>1. Opens(r, d) = IF begins = ends THEN D * d ELSE D * d + opens
    BY <1>7 DEF Opens
  <2>2. Closes(r, d) = IF begins = ends THEN D * d + D
                       ELSE IF begins < ends THEN D * d + closes ELSE D * d + D + closes
    BY <1>7 DEF Closes
  <2> DEFINE b == D * d
             op == Opens(r, d)
             cl == Closes(r, d)
  <2> HIDE DEF begins, ends, opens, closes, o, d, b, op, cl, D
  <2>3. op <= t /\ t < cl <=>
        \/ begins = ends
        \/ begins < ends /\ opens <= o /\ o < closes
        \/ begins > ends /\ opens <= o
    BY <1>1, <1>2, <1>3, <1>6, <1>7, <2>1, <2>2 DEF b, op, cl
  <2> QED
    BY <2>3 DEF op, cl
<1>9. Opens(r, d - 1) <= t /\ t < Closes(r, d - 1) <=> begins > ends /\ o < closes
  <2>1. Opens(r, d - 1) = IF begins = ends THEN D * d - D ELSE D * d - D + opens
    BY <1>7 DEF Opens
  <2>2. Closes(r, d - 1) = IF begins = ends THEN D * d
                       ELSE IF begins < ends THEN D * d - D + closes ELSE D * d + closes
    <3>1. (d - 1) + 1 = d
      BY <1>2
    <3> QED
      BY <1>7, <3>1 DEF Closes
  <2> DEFINE b == D * d
             op == Opens(r, d - 1)
             cl == Closes(r, d - 1)
  <2> HIDE DEF begins, ends, opens, closes, o, d, b, op, cl, D
  <2>3. op <= t /\ t < cl <=> begins > ends /\ o < closes
    BY <1>1, <1>2, <1>3, <1>6, <1>7, <2>1, <2>2 DEF b, op, cl
  <2> QED
    BY <2>3 DEF op, cl
<1>10. (d - 1)..d = {d - 1, d}
  BY <1>2
<1>11. InWindow(r, t) <=> \/ DayOK(r, d - 1) /\ begins > ends /\ o < closes
                          \/ DayOK(r, d) /\ (\/ begins = ends
                                             \/ begins < ends /\ opens <= o /\ o < closes
                                             \/ begins > ends /\ opens <= o)
  BY <1>8, <1>9, <1>10 DEF InWindow
<1>12. ActiveAt(r, t) <=> \/ begins = ends /\ DayOK(r, d)
                          \/ begins < ends /\ opens <= o /\ o < closes /\ DayOK(r, d)
                          \/ begins > ends /\ opens <= o /\ DayOK(r, d)
                          \/ begins > ends /\ o < closes /\ DayOK(r, d - 1)
  BY <1>5 DEF ActiveAt
<1> QED
  BY <1>11, <1>12

(* A set of instants has a least one.                                      *)
LEMMA LeastInstant ==
    ASSUME NEW T \in SUBSET Nat, T # {}
    PROVE  Min(T) \in T /\ \A t \in T : Min(T) <= t
<1>1. IsWellFoundedOn(OpToRel(<, Nat), Nat)
  BY NatLessThanWellFounded
<1>2. PICK x \in T : \A y \in T : <<y, x>> \notin OpToRel(<, Nat)
  <2> DEFINE R == OpToRel(<, Nat)
  <2> HIDE DEF R
  <2> QED
    BY <1>1, WFMin DEF R
<1>3. \A y \in T : x <= y
  <2>1. OpToRel(<, Nat) = {ss \in Nat \X Nat : ss[1] < ss[2]}
    BY Zenon DEF OpToRel
  <2> DEFINE R == OpToRel(<, Nat)
  <2>2. \A y \in T : <<y, x>> \notin R
    BY <1>2
  <2>3. R = {ss \in Nat \X Nat : ss[1] < ss[2]}
    BY <2>1
  <2> HIDE DEF R
  <2>4. ASSUME NEW y \in T, ~(x <= y) PROVE FALSE
    <3>1. x \in Nat /\ y \in Nat
      BY <1>2, <2>4
    <3>2. <<y, x>> \in Nat \X Nat /\ <<y, x>>[1] < <<y, x>>[2]
      BY <2>4, <3>1
    <3>3. <<y, x>> \in R
      BY <2>3, <3>2
    <3> QED
      BY <2>2, <2>4, <3>3
  <2> QED
    BY <2>4
<1> QED
  BY <1>2, <1>3 DEF Min

(* There is a last instant.                                                *)
LEMMA LastInstant ==
    Max(Instants) \in Instants /\ \A t \in Instants : t <= Max(Instants)
<1>1. PICK x \in Instants : \A t \in Instants : t <= x
  BY LimitAssumption
<1>2. \A t \in Instants : x >= t
  BY <1>1, LimitAssumption
<1>3. Max(Instants) \in Instants /\ \A t \in Instants : Max(Instants) >= t
  BY <1>1, <1>2 DEF Max
<1> QED
  BY <1>3, LimitAssumption

(* Every instant lies in one of finitely many days, from the first on.     *)
LEMMA InstantsAre ==
    /\ Instants \subseteq Nat
    /\ Earliest \in Instants
    /\ \A t \in Instants : Earliest <= t /\ Day(t) \in Days
    /\ Days \subseteq Nat /\ IsFiniteSet(Days)
<1>1. Instants \subseteq Nat /\ Instants # {}
  BY LimitAssumption
<1>2. Earliest \in Instants /\ \A t \in Instants : Earliest <= t
  BY <1>1, LeastInstant DEF Earliest
<1>3. ASSUME NEW t \in Nat, NEW u \in Nat, t <= u PROVE Day(t) <= Day(u) /\ Day(t) \in Nat
  BY <1>3, DayBounds
<1>4. /\ Day(Earliest) \in Nat /\ Day(Max(Instants)) \in Nat
      /\ \A t \in Instants : Day(Earliest) <= Day(t) /\ Day(t) <= Day(Max(Instants))
                             /\ Day(t) \in Nat
  BY <1>1, <1>2, <1>3, LastInstant
<1>5. IsFiniteSet(Day(Earliest)..Day(Max(Instants)))
  BY <1>4, FS_Interval
<1> DEFINE lo == Day(Earliest)
           hi == Day(Max(Instants))
<1>6. Days = lo..hi /\ lo \in Nat /\ hi \in Nat
  BY <1>4 DEF Days
<1> HIDE DEF lo, hi
<1>7. Days \subseteq Nat
  BY <1>6
<1>8. \A t \in Instants : Day(t) \in Days
  BY <1>4, <1>6 DEF lo, hi
<1> QED
  BY <1>1, <1>2, <1>5, <1>6, <1>7, <1>8 DEF lo, hi

(* Whole seconds are a number.                                             *)
LEMMA SecondsOf ==
    ASSUME NEW n \in Nat PROVE Seconds(n) \in Nat /\ (n = 0 => Seconds(n) = 0)
<1>1. SecondTicks \in Nat \ {0}
  BY LimitAssumption
<1> QED
  BY <1>1 DEF Seconds

(* The ticks counted by Watched are those between the two midnights.       *)
LEMMA WatchedIs ==
    ASSUME NEW r \in [start : Nat, end : Nat], r.start <= r.end,
           NEW first \in Int, NEW last \in Int, first <= last
    PROVE  LET x == IF r.start < first * DayTicks THEN first * DayTicks ELSE r.start
               y == IF (last + 1) * DayTicks < r.end THEN (last + 1) * DayTicks ELSE r.end
           IN  Watched(r, first, last)
                 = (IF x < y THEN Seconds(y - x) ELSE 0)
<1> DEFINE a == r.start
           b == r.end
           x == IF a < first * DayTicks THEN first * DayTicks ELSE a
           y == IF (last + 1) * DayTicks < b THEN (last + 1) * DayTicks ELSE b
           T == {t \in a..(b - 1) : Day(t) \in first..last}
<1>1. first * DayTicks \in Int /\ (last + 1) * DayTicks \in Int
  BY CalendarAssumption
<1>2. x \in Int /\ y \in Int
  BY <1>1
<1>3. \A t \in a..(b - 1) :
        Day(t) \in first..last <=> first * DayTicks <= t /\ t < (last + 1) * DayTicks
  <2> SUFFICES ASSUME NEW t \in a..(b - 1)
               PROVE  Day(t) \in first..last
                        <=> first * DayTicks <= t /\ t < (last + 1) * DayTicks
    OBVIOUS
  <2>1. /\ Day(t) \in Nat
        /\ first <= Day(t) <=> first * DayTicks <= t
        /\ Day(t) < last + 1 <=> t < (last + 1) * DayTicks
    BY DayBounds
  <2> QED
    BY <2>1
<1>4. T = x..(y - 1)
  <2> DEFINE u == first * DayTicks
             v == (last + 1) * DayTicks
  <2>1. T = {t \in a..(b - 1) : u <= t /\ t < v}
    BY <1>3
  <2> HIDE DEF u, v, T
  <2> QED
    BY <1>1, <2>1 DEF u, v
<1>5. Cardinality(T) = IF x < y THEN y - x ELSE 0
  <2> HIDE DEF x, y, T
  <2>1. Cardinality(T) = IF x > y - 1 THEN 0 ELSE (y - 1) - x + 1
    BY <1>2, <1>4, FS_Interval
  <2> QED
    BY <1>2, <2>1
<1>6. Seconds(0) = 0
  BY SecondsOf
<1>7. Watched(r, first, last) = Seconds(Cardinality(T))
  BY DEF Watched
<1> QED
  BY <1>5, <1>6, <1>7

(* What was watched is a number.                                           *)
LEMMA WatchedNat ==
    ASSUME NEW r \in [start : Nat, end : Nat], r.start <= r.end,
           NEW first \in Int, NEW last \in Int, first <= last
    PROVE  Watched(r, first, last) \in Nat
<1> DEFINE a == r.start
           b == r.end
           T == {t \in a..(b - 1) : Day(t) \in first..last}
<1>1. IsFiniteSet(a..(b - 1))
  BY FS_Interval
<1>2. IsFiniteSet(T)
  BY <1>1, FS_Subset
<1>3. Cardinality(T) \in Nat
  BY <1>2, FS_CardinalityType
<1> QED
  BY <1>3, SecondsOf DEF Watched

-----------------------------------------------------------------------------
(***************************************************************************)
(* The statistics and the limits' verdict                                  *)
(***************************************************************************)
Ranges == [start : Nat, end : Nat]

(* The totals of the statistics are what was watched, day by day: the sum, *)
(* over the ranges added so far, of the ticks counted one by one.  The     *)
(* invariant also places every range between the first instant and now.    *)
AInv == /\ TypeOK
        /\ \A s \in Streams : stream[s] # "out" => Earliest <= start[s]
        /\ added \in Seq(Ranges)
        /\ \A i \in DOMAIN added :
             /\ Earliest <= added[i].start /\ added[i].start <= added[i].end
             /\ added[i].end <= now
        /\ \A d \in Days : aggr[d] = WatchedOn(d)

(* The greater and the lesser of two.                                      *)
LEMMA OfTwo ==
    ASSUME NEW a \in Int, NEW b \in Int
    PROVE  /\ Max({a, b}) = IF a < b THEN b ELSE a
           /\ Min({b, a}) = IF a < b THEN a ELSE b
<1> DEFINE m == IF a < b THEN b ELSE a
           l == IF a < b THEN a ELSE b
<1>1. m \in {a, b} /\ \A y \in {a, b} : m >= y
  OBVIOUS
<1>2. Max({a, b}) \in {a, b} /\ \A y \in {a, b} : Max({a, b}) >= y
  BY <1>1 DEF Max
<1>3. l \in {b, a} /\ \A y \in {b, a} : l <= y
  OBVIOUS
<1>4. Min({b, a}) \in {b, a} /\ \A y \in {b, a} : Min({b, a}) <= y
  BY <1>3 DEF Min
<1> QED
  BY <1>2, <1>4

(* AddRange gives each day the seconds the range has in it.                *)
LEMMA AddRangeCounts ==
    ASSUME NEW from \in Nat, from <= now, now \in Nat, AddRange(from)
    PROVE  aggr' = [d \in Days |-> aggr[d] + Watched([start |-> from, end |-> now], d, d)]
<1> SUFFICES ASSUME NEW d \in Days
             PROVE  LET a == Max({from, d * DayTicks})
                        b == Min({now, (d + 1) * DayTicks})
                    IN  (IF a < b THEN Seconds(b - a) ELSE 0)
                          = Watched([start |-> from, end |-> now], d, d)
  BY DEF AddRange
<1>1. d \in Int /\ d * DayTicks \in Int /\ (d + 1) * DayTicks \in Int
  BY InstantsAre, CalendarAssumption
<1> DEFINE r == [start |-> from, end |-> now]
           u == d * DayTicks
           v == (d + 1) * DayTicks
           x == IF from < u THEN u ELSE from
           y == IF v < now THEN v ELSE now
<1>2. r \in [start : Nat, end : Nat] /\ r.start = from /\ r.end = now
  OBVIOUS
<1>3. Watched(r, d, d) = (IF x < y THEN Seconds(y - x) ELSE 0)
  <2> HIDE DEF r
  <2> QED
    BY <1>1, <1>2, WatchedIs
<1>4. u \in Int /\ v \in Int
  BY <1>1
<1>5. Max({from, u}) = x /\ Min({now, v}) = y
  <2> HIDE DEF u, v
  <2>1. from \in Int /\ now \in Int
    OBVIOUS
  <2>2. Max({from, u}) = IF from < u THEN u ELSE from
    BY ONLY <1>4, <2>1, OfTwo
  <2>3. Min({now, v}) = IF v < now THEN v ELSE now
    BY ONLY <1>4, <2>1, OfTwo
  <2> QED
    BY <2>2, <2>3
<1> QED
  BY <1>3, <1>5

(* One number more.                                                        *)
LEMMA UpTo ==
    ASSUME NEW n \in Nat
    PROVE  1..(n + 1) = (1..n) \cup {n + 1} /\ n + 1 \notin 1..n /\ IsFiniteSet(1..n)
<1>1. IsFiniteSet(1..n)
  BY FS_Interval
<1> QED
  BY <1>1

(* Before anything is watched every total is zero.                         *)
LEMMA InitAInv == Init => AInv
<1> SUFFICES ASSUME Init PROVE AInv
  OBVIOUS
<1>1. TypeOK
  BY InstantsAre, LimitAssumption DEF Init, TypeOK, NoSession
<1>2. added = <<>> /\ aggr = [d \in Days |-> 0] /\ \A s \in Streams : stream[s] = "out"
  BY DEF Init
<1>3. added \in Seq(Ranges) /\ DOMAIN added = {}
  BY <1>2
<1>4. \A d \in Days : WatchedOn(d) = 0
  BY <1>3, SumEmpty DEF WatchedOn, SumFunction
<1> QED
  BY <1>1, <1>2, <1>3, <1>4 DEF AInv

(* Only the end of a stream moves the totals, by its own range.            *)
LEMMA NextAInv == AInv /\ [Next]_vars => AInv'
<1> SUFFICES ASSUME AInv, [Next]_vars PROVE AInv'
  OBVIOUS
<1>1. TypeOK /\ now \in Nat /\ now \in Instants
  BY InstantsAre DEF AInv, TypeOK
<1>10. \A i \in DOMAIN added : /\ added[i] \in [start : Nat, end : Nat]
                               /\ added[i].start <= added[i].end /\ added[i].end <= now
  <2>1. added \in Seq(Ranges)
    BY DEF AInv
  <2>2. \A i \in DOMAIN added : added[i] \in Ranges
    BY <2>1
  <2> QED
    BY <2>2 DEF AInv, Ranges
<1>2. CASE Advance
  <2>1. now' \in Instants /\ now' > now
    <3> DEFINE T == {t \in Instants : t > now}
    <3>1. T \in SUBSET Nat /\ T # {} /\ now' = Min(T)
      BY <1>2, InstantsAre DEF Advance
    <3>2. now' \in T
      <4> HIDE DEF T
      <4> QED
        BY <3>1, LeastInstant
    <3> QED
      BY <3>2
  <2>2. UNCHANGED <<limit, edits, stream, start, checked, past, alone>>
    BY <1>2 DEF Advance
  <2>3. TypeOK'
    BY <1>1, <2>1, <2>2, InstantsAre DEF TypeOK, past
  <2> QED
    <3>1. now' \in Nat /\ \A i \in DOMAIN added : added[i].end <= now'
      <4>1. now' \in Nat
        BY <2>1, InstantsAre
      <4>2. ASSUME NEW i \in DOMAIN added PROVE added[i].end <= now'
        <5>1. added[i].end \in Nat /\ added[i].end <= now
          BY <1>10
        <5> QED
          BY <1>1, <2>1, <4>1, <5>1
      <4> QED
        BY <4>1, <4>2
    <3> QED
      BY <2>2, <2>3, <3>1 DEF AInv, past, WatchedOn
<1>3. ASSUME NEW l \in {"off", "sums", "chain"}, SetLimit(l) PROVE AInv'
  <2>1. TypeOK'
    BY <1>1, <1>3, LimitAssumption DEF TypeOK, SetLimit, past
  <2> QED
    BY <1>3, <2>1 DEF AInv, SetLimit, past, WatchedOn
<1>4. ASSUME NEW from \in Nat, JudgeChain(from)
      PROVE  /\ session' \in [known : BOOLEAN, lastEnd : Nat, cont : Nat]
             /\ session'.lastEnd = session.lastEnd
  BY <1>1, <1>4 DEF TypeOK, JudgeChain
<1>5. ASSUME NEW s \in Streams, Begin(s) PROVE AInv'
  <2>1. /\ session' \in [known : BOOLEAN, lastEnd : Nat, cont : Nat]
        /\ session'.lastEnd = session.lastEnd
        /\ checked' \in [Streams -> BOOLEAN]
        /\ UNCHANGED <<aggr, added>>
    BY <1>1, <1>4, <1>5 DEF Begin, CheckLimit, TypeOK, past, JudgesChain
  <2>2. /\ stream' = [stream EXCEPT ![s] = "on"] /\ start' = [start EXCEPT ![s] = now]
        /\ UNCHANGED clock
    BY <1>5 DEF Begin
  <2>3. TypeOK'
    BY <1>1, <2>1, <2>2 DEF TypeOK, clock
  <2> QED
    BY <1>1, <2>1, <2>2, <2>3, InstantsAre DEF AInv, TypeOK, clock, WatchedOn
<1>6. ASSUME NEW s \in Streams, TickCheck(s) PROVE AInv'
  <2>1. /\ session' \in [known : BOOLEAN, lastEnd : Nat, cont : Nat]
        /\ session'.lastEnd = session.lastEnd
        /\ checked' \in [Streams -> BOOLEAN]
        /\ UNCHANGED <<clock, stream, start, aggr, added>>
    BY <1>1, <1>4, <1>6 DEF TickCheck, CheckLimit, TypeOK, past, JudgesChain
  <2>2. TypeOK'
    BY <1>1, <2>1 DEF TypeOK, clock
  <2> QED
    BY <2>1, <2>2 DEF AInv, clock, WatchedOn
<1>7. ASSUME NEW s \in Streams, EndStats(s) PROVE AInv'
  <2> DEFINE r == [start |-> start[s], end |-> now]
             n == Len(added)
  <2>1. start[s] \in Nat /\ start[s] <= now /\ Earliest <= start[s] /\ r \in Ranges
    BY <1>1, <1>7 DEF AInv, TypeOK, EndStats, Ranges
  <2>2. aggr' = [d \in Days |-> aggr[d] + Watched(r, d, d)]
    BY <1>1, <1>7, <2>1, AddRangeCounts DEF EndStats
  <2>3. \A d \in Days : Watched(r, d, d) \in Nat
    <3>1. r.start = start[s] /\ r.end = now
      OBVIOUS
    <3> HIDE DEF r
    <3> QED
      BY <2>1, <3>1, WatchedNat, InstantsAre DEF Ranges
  <2>4. /\ stream' = [stream EXCEPT ![s] = "ending"]
        /\ added' = Append(added, r)
        /\ UNCHANGED <<clock, start, checked, session, ended, alone>>
    BY <1>7 DEF EndStats
  <2>5. TypeOK'
    BY <1>1, <2>2, <2>3, <2>4 DEF TypeOK, clock
  <2>6. /\ added \in Seq(Ranges) /\ added' \in Seq(Ranges) /\ n \in Nat
        /\ DOMAIN added = 1..n /\ DOMAIN added' = 1..(n + 1)
        /\ added'[n + 1] = r /\ \A i \in 1..n : added'[i] = added[i]
    <3> HIDE DEF r
    <3> QED
      BY <2>1, <2>4 DEF AInv
  <2>7. \A i \in 1..(n + 1) : /\ Earliest <= added'[i].start /\ added'[i].start <= added'[i].end
                              /\ added'[i].end <= now'
    BY <1>1, <2>1, <2>4, <2>6 DEF AInv, clock
  <2>8. ASSUME NEW d \in Days PROVE aggr'[d] = WatchedOn(d)'
    <3> DEFINE f == [i \in 1..n |-> Watched(added[i], d, d)]
               g == [i \in 1..(n + 1) |-> Watched(added'[i], d, d)]
    <3>1. WatchedOn(d) = SumFunctionOnSet(f, 1..n)
      BY <2>6 DEF WatchedOn, SumFunction
    <3>2. WatchedOn(d)' = SumFunctionOnSet(g, 1..(n + 1))
      BY <2>6 DEF WatchedOn, SumFunction, Watched, Seconds, Day
    <3>3. \A i \in 1..n : f[i] \in Nat /\ g[i] = f[i]
      <4> SUFFICES ASSUME NEW i \in 1..n PROVE f[i] \in Nat /\ g[i] = f[i]
        OBVIOUS
      <4>1. added[i] \in [start : Nat, end : Nat] /\ added[i].start <= added[i].end /\ d \in Int
        BY <1>10, <2>6, InstantsAre
      <4>2. Watched(added[i], d, d) \in Nat
        BY <4>1, WatchedNat
      <4> QED
        BY <2>6, <4>2
    <3>4. g[n + 1] = Watched(r, d, d) /\ g[n + 1] \in Nat
      BY <2>3, <2>6
    <3>5. 1..(n + 1) = (1..n) \cup {n + 1} /\ n + 1 \notin 1..n /\ IsFiniteSet(1..n)
      BY <2>6, UpTo
    <3>6. SumFunctionOnSet(g, (1..n) \cup {n + 1}) = SumFunctionOnSet(f, 1..n) + g[n + 1]
      <4> DEFINE S == 1..n
                 x == n + 1
      <4>1. IsFiniteSet(S) /\ x \notin S /\ g[x] \in Nat /\ \A i \in S : f[i] \in Nat /\ g[i] = f[i]
        BY <3>3, <3>4, <3>5
      <4> HIDE DEF f, g, S, x
      <4>2. SumFunctionOnSet(g, S \cup {x}) = SumFunctionOnSet(f, S) + g[x]
        BY <4>1, SumGrows
      <4> QED
        BY <4>2 DEF S, x
    <3> QED
      BY <2>2, <3>1, <3>2, <3>4, <3>5, <3>6 DEF AInv
  <2> QED
    BY <2>1, <2>4, <2>5, <2>6, <2>7, <2>8 DEF AInv, TypeOK
<1>8. ASSUME NEW s \in Streams, EndLimits(s) PROVE AInv'
  <2>1. /\ stream' = [stream EXCEPT ![s] = "out"] /\ start' = [start EXCEPT ![s] = 0]
        /\ checked' = [checked EXCEPT ![s] = FALSE]
        /\ UNCHANGED <<clock, aggr, added>>
    BY <1>8 DEF EndLimits
  <2>2. session' \in [known : BOOLEAN, lastEnd : Nat, cont : Nat] /\ session'.lastEnd <= now
    <3>1. now - start[s] \in Nat
      BY <1>1 DEF TypeOK
    <3>2. Seconds(now - start[s]) \in Nat
      BY <3>1, SecondsOf
    <3>3. session.cont + Seconds(now - start[s]) \in Nat
      BY <1>1, <3>2 DEF TypeOK
    <3>4. EndSession(start[s], checked[s])
      BY <1>8 DEF EndLimits
    <3>5. CASE session' = session
      BY <1>1, <3>5 DEF TypeOK
    <3>6. CASE session' = NoSession
      BY <1>1, <3>6 DEF NoSession
    <3>7. CASE session' = [known |-> TRUE, lastEnd |-> now,
                           cont |-> session.cont + Seconds(now - start[s])]
      BY <1>1, <3>3, <3>7
    <3> QED
      BY <3>4, <3>5, <3>6, <3>7 DEF EndSession
  <2>3. TypeOK'
    BY <1>1, <2>1, <2>2 DEF TypeOK, clock
  <2> QED
    BY <1>1, <2>1, <2>3 DEF AInv, TypeOK, clock, WatchedOn
<1>9. CASE UNCHANGED vars
  BY <1>9 DEF AInv, TypeOK, vars, clock, past, WatchedOn
<1> QED
  BY <1>2, <1>3, <1>5, <1>6, <1>7, <1>8, <1>9 DEF Next

(* The days that share their Monday with a day.                            *)
LEMMA WeekOf ==
    ASSUME NEW day \in Int
    PROVE  /\ Monday(day) \in (day - 6)..day
           /\ Weekday(Monday(day)) = 1
           /\ \A d \in (day - 6)..day : Weekday(d) = 1 => d = Monday(day)
           /\ \A d \in Int : Monday(d) = Monday(day) <=> d \in Monday(day)..(Monday(day) + 6)
BY CalendarAssumption DEF Monday, Weekday

(* The week of a day begins on the last Monday.                            *)
LEMMA LastMondayIs ==
    ASSUME now \in Nat
    PROVE  LastMonday = Monday(Day(now)) /\ LastMonday \in Int /\ LastMonday <= Day(now)
<1>1. Day(now) \in Int
  BY DayBounds
<1>2. /\ Monday(Day(now)) \in (Day(now) - 6)..Day(now)
      /\ Weekday(Monday(Day(now))) = 1
      /\ \A d \in (Day(now) - 6)..Day(now) : Weekday(d) = 1 => d = Monday(Day(now))
  BY <1>1, WeekOf
<1> QED
  BY <1>1, <1>2 DEF LastMonday

(* What is outside of the days of the ended ranges was not watched.        *)
LEMMA WatchedOnDays ==
    ASSUME AInv, NEW d \in Int
    PROVE  /\ WatchedOn(d) \in Nat
           /\ d \notin Days \/ d > Day(now) => WatchedOn(d) = 0
<1>1. now \in Nat /\ Day(now) \in Nat /\ now \in Instants
  BY InstantsAre, DayBounds DEF AInv, TypeOK
<1>2. ASSUME NEW i \in DOMAIN added
      PROVE  /\ added[i] \in [start : Nat, end : Nat] /\ added[i].start <= added[i].end
             /\ Earliest <= added[i].start /\ added[i].end <= now
  <2>1. added \in Seq(Ranges)
    BY DEF AInv
  <2>2. added[i] \in Ranges
    BY <2>1
  <2> QED
    BY <2>2 DEF AInv, Ranges
<1> DEFINE f == [i \in DOMAIN added |-> Watched(added[i], d, d)]
<1>3. \A i \in DOMAIN added : f[i] \in Nat
  BY <1>2, WatchedNat
<1>4. IsFiniteSet(DOMAIN added) /\ DOMAIN f = DOMAIN added
  <2>1. added \in Seq(Ranges)
    BY DEF AInv
  <2>2. DOMAIN added = 1..Len(added) /\ Len(added) \in Nat
    BY <2>1
  <2> QED
    BY <2>2, FS_Interval
<1>5. ASSUME d \notin Days \/ d > Day(now), NEW i \in DOMAIN added
      PROVE  f[i] = 0
  <2> DEFINE u == d * DayTicks
             v == (d + 1) * DayTicks
             a == added[i].start
             b == added[i].end
             x == IF a < u THEN u ELSE a
             y == IF v < b THEN v ELSE b
  <2>1. Watched(added[i], d, d) = (IF x < y THEN Seconds(y - x) ELSE 0)
    BY <1>2, WatchedIs
  <2>2. u \in Int /\ v \in Int /\ a \in Nat /\ b \in Nat /\ Earliest \in Nat /\ Earliest <= a
        /\ b <= now
    <3>1. u \in Int /\ v \in Int
      BY CalendarAssumption
    <3>2. a \in Nat /\ b \in Nat /\ Earliest <= a /\ b <= now
      BY <1>2
    <3>3. Earliest \in Nat
      BY <1>1, InstantsAre
    <3> QED
      BY <3>1, <3>2, <3>3
  <2>3. v <= Earliest \/ now < u
    <3>1. Earliest \in Nat /\ Day(Earliest) <= Day(now) /\ Day(Earliest) \in Nat
          /\ Day(Earliest)..Day(now) \subseteq Days
      <4>1. Earliest \in Nat /\ Earliest <= now /\ now <= Max(Instants) /\ Max(Instants) \in Nat
        BY <1>1, InstantsAre, LastInstant
      <4>2. Day(Earliest) <= Day(now) /\ Day(Earliest) \in Nat /\ Day(now) <= Day(Max(Instants))
            /\ Day(Max(Instants)) \in Nat
        BY <1>1, <4>1, DayBounds
      <4> DEFINE lo == Day(Earliest)
                 hi == Day(Max(Instants))
                 mid == Day(now)
      <4> HIDE DEF lo, hi, mid
      <4>3. lo \in Nat /\ mid \in Nat /\ hi \in Nat /\ mid <= hi
        BY <1>1, <4>2 DEF lo, hi, mid
      <4>4. lo..mid \subseteq lo..hi
        BY <4>3
      <4> QED
        BY <4>1, <4>2, <4>4 DEF Days, lo, hi, mid
    <3>2. d < Day(Earliest) \/ Day(now) < d
      <4> DEFINE lo == Day(Earliest)
                 mid == Day(now)
      <4> HIDE DEF lo, mid
      <4>1. lo \in Nat /\ mid \in Nat /\ (d \notin lo..mid \/ d > mid)
        BY <1>1, <1>5, <3>1 DEF lo, mid
      <4>2. d < lo \/ mid < d
        BY <4>1
      <4> QED
        BY <4>2 DEF lo, mid
    <3>3. d < Day(Earliest) => ~(Earliest < v)
      <4>1. Day(Earliest) < d + 1 <=> Earliest < (d + 1) * DayTicks
        BY <3>1, DayBounds
      <4> QED
        BY <3>1, <4>1
    <3>4. Day(now) < d <=> now < u
      BY <1>1, DayBounds
    <3> QED
      BY <2>2, <3>2, <3>3, <3>4
  <2>4. ~(x < y)
    <3> HIDE DEF u, v, a, b
    <3> QED
      BY <1>1, <2>2, <2>3
  <2> QED
    BY <2>1, <2>4
<1>6. WatchedOn(d) = SumFunctionOnSet(f, DOMAIN added)
  BY <1>4 DEF WatchedOn, SumFunction
<1>7. WatchedOn(d) \in Nat
  <2> HIDE DEF f
  <2> QED
    BY <1>3, <1>4, <1>6, SumNat
<1>8. ASSUME d \notin Days \/ d > Day(now) PROVE WatchedOn(d) = 0
  <2>1. \A i \in DOMAIN added : f[i] = 0
    BY <1>5, <1>8
  <2> HIDE DEF f
  <2> QED
    BY <1>4, <1>6, <2>1, SumZero
<1> QED
  BY <1>7, <1>8

(* The history of the week is what was watched since its Monday.           *)
LEMMA WeekCounts ==
    ASSUME AInv
    PROVE  HistoricalSumWeek(Day(now))
             = SumFunction([d \in LastMonday..Day(now) |-> WatchedOn(d)])
<1>1. now \in Nat /\ Day(now) \in Nat /\ now \in Instants /\ Day(now) \in Days
  BY InstantsAre, DayBounds DEF AInv, TypeOK
<1> DEFINE m == Monday(Day(now))
           K == {d \in Days : Monday(d) = m}
           L == m..Day(now)
           w == [d \in L |-> WatchedOn(d)]
<1>2. LastMonday = m /\ m \in Int
  BY <1>1, LastMondayIs
<1>3. IsFiniteSet(K) /\ IsFiniteSet(L) /\ Days \subseteq Nat
  <2>1. IsFiniteSet(Days) /\ Days \subseteq Nat /\ K \in SUBSET Days
    BY InstantsAre
  <2>2. IsFiniteSet(K)
    <3> HIDE DEF K
    <3> QED
      BY <2>1, FS_Subset
  <2>3. IsFiniteSet(L)
    BY <1>1, <1>2, FS_Interval
  <2> QED
    BY <2>1, <2>2, <2>3
<1>4. \A d \in Days : aggr[d] = WatchedOn(d) /\ WatchedOn(d) \in Nat
  <2>1. \A d \in Days : aggr[d] = WatchedOn(d)
    BY DEF AInv
  <2>2. \A d \in Int : WatchedOn(d) \in Nat
    BY WatchedOnDays
  <2> QED
    BY <1>3, <2>1, <2>2
<1>5. \A d \in L : w[d] = WatchedOn(d) /\ WatchedOn(d) \in Nat
  BY <1>1, <1>2, WatchedOnDays
<1>6. \A d \in K \ (K \cap L) : aggr[d] = 0
  <2> SUFFICES ASSUME NEW d \in K, d \notin L PROVE aggr[d] = 0
    OBVIOUS
  <2>1. d \in Days /\ d \in Int /\ Monday(d) = m
    BY <1>3
  <2>2. d \in m..(m + 6)
    BY <1>1, <2>1, WeekOf
  <2>3. d > Day(now)
    <3> HIDE DEF m
    <3> QED
      BY <1>1, <1>2, <2>2
  <2> QED
    BY <1>4, <2>1, <2>3, WatchedOnDays
<1>7. \A d \in L \ (K \cap L) : w[d] = 0
  <2> SUFFICES ASSUME NEW d \in L, d \notin K PROVE w[d] = 0
    OBVIOUS
  <2>1. d \in Int /\ d \in m..(m + 6)
    <3>1. Day(now) <= m + 6
      BY <1>1, WeekOf
    <3> HIDE DEF m
    <3> QED
      BY <1>1, <1>2, <3>1
  <2>2. Monday(d) = m
    BY <1>1, <2>1, WeekOf
  <2>3. d \notin Days
    BY <2>2
  <2> QED
    BY <1>5, <2>1, <2>3, WatchedOnDays
<1>8. SumFunctionOnSet(aggr, K) = SumFunctionOnSet(aggr, K \cap L)
  <2>1. \A d \in K \cap L : aggr[d] \in Nat
    BY <1>4
  <2> HIDE DEF K, L
  <2> QED
    BY <1>3, <1>6, <2>1, SumSupport
<1>9. SumFunctionOnSet(w, L) = SumFunctionOnSet(w, K \cap L)
  <2>1. \A d \in K \cap L : w[d] \in Nat
    BY <1>5
  <2> HIDE DEF K, L, w
  <2> QED
    BY <1>3, <1>7, <2>1, SumSupport
<1>10. SumFunctionOnSet(aggr, K \cap L) = SumFunctionOnSet(w, K \cap L)
  <2>1. \A d \in K \cap L : aggr[d] \in Nat /\ w[d] = aggr[d]
    BY <1>4, <1>5
  <2>2. IsFiniteSet(K \cap L)
    BY <1>3, FS_Subset
  <2> HIDE DEF K, L, w
  <2> QED
    BY <2>1, <2>2, SumSame
<1>11. SumFunction([d \in LastMonday..Day(now) |-> WatchedOn(d)]) = SumFunctionOnSet(w, L)
  BY <1>2 DEF SumFunction
<1>12. HistoricalSumWeek(Day(now)) = SumFunctionOnSet(aggr, K)
  BY DEF HistoricalSumWeek
<1> QED
  BY <1>8, <1>9, <1>10, <1>11, <1>12

(* The running stream has watched since a midnight what LiveInWindow says. *)
LEMMA LiveCounts ==
    ASSUME AInv, NEW s \in Streams, stream[s] = "on", NEW first \in Int, first <= Day(now)
    PROVE  LiveInWindow(start[s], first * DayTicks)
             = Watched([start |-> start[s], end |-> now], first, Day(now))
<1>1. now \in Nat /\ Day(now) \in Nat /\ start[s] \in Nat /\ start[s] <= now
  BY InstantsAre, DayBounds DEF AInv, TypeOK
<1> DEFINE r == [start |-> start[s], end |-> now]
           u == first * DayTicks
           v == (Day(now) + 1) * DayTicks
           x == IF start[s] < u THEN u ELSE start[s]
           y == IF v < now THEN v ELSE now
<1>2. r \in [start : Nat, end : Nat] /\ r.start = start[s] /\ r.end = now
  BY <1>1
<1>3. Watched(r, first, Day(now)) = (IF x < y THEN Seconds(y - x) ELSE 0)
  <2> HIDE DEF r
  <2> QED
    BY <1>1, <1>2, WatchedIs
<1>4. u \in Int /\ v \in Int /\ u <= now /\ now < v
  <2>1. u \in Int /\ v \in Int
    BY <1>1, CalendarAssumption
  <2>2. first <= Day(now) <=> first * DayTicks <= now
    BY <1>1, DayBounds
  <2>3. Day(now) < Day(now) + 1 <=> now < (Day(now) + 1) * DayTicks
    BY <1>1, DayBounds
  <2> QED
    BY <1>1, <2>1, <2>2, <2>3
<1>5. y = now /\ x <= now /\ x \in Int
  <2> HIDE DEF u, v
  <2> QED
    BY <1>1, <1>4
<1>6. LiveInWindow(start[s], u) = Seconds(now - x)
  BY DEF LiveInWindow
<1>7. Seconds(0) = 0
  BY SecondsOf
<1>8. ~(x < y) => now - x = 0
  <2> HIDE DEF x, y
  <2> QED
    BY <1>1, <1>5
<1> QED
  BY <1>3, <1>5, <1>6, <1>7, <1>8

(* The totals a verdict compares are what was watched.                     *)
LEMMA TotalsAreRight ==
    ASSUME AInv, NEW s \in Streams, stream[s] = "on"
    PROVE  /\ DayTotal(start[s]) = WatchedSince(s, Day(now))
           /\ WeekTotal(start[s]) = WatchedSince(s, LastMonday)
<1>1. now \in Nat /\ Day(now) \in Nat /\ now \in Instants /\ Day(now) \in Days
  BY InstantsAre, DayBounds DEF AInv, TypeOK
<1>2. LastMonday = Monday(Day(now)) /\ LastMonday \in Int /\ LastMonday <= Day(now)
  BY <1>1, LastMondayIs
<1>3. WeekTotal(start[s]) = WatchedSince(s, LastMonday)
  <2>1. LiveInWindow(start[s], LastMonday * DayTicks)
          = Watched([start |-> start[s], end |-> now], LastMonday, Day(now))
    BY <1>2, LiveCounts
  <2> QED
    BY <1>2, <2>1, WeekCounts DEF WeekTotal, WatchedSince, StartOfISOWeek
<1>4. DayTotal(start[s]) = WatchedSince(s, Day(now))
  <2> DEFINE D == Day(now)
             w == [d \in D..D |-> WatchedOn(d)]
  <2>1. D..D = {D} /\ D \in Int /\ w[D] = WatchedOn(D) /\ DOMAIN w = {D}
    BY <1>1
  <2>2. w[D] \in Nat
    BY <2>1, WatchedOnDays
  <2>3. SumFunctionOnSet(w, {D}) = w[D]
    <3> HIDE DEF w, D
    <3> QED
      BY <2>2, SumOfOne
  <2>4. SumFunction(w) = aggr[D]
    BY <1>1, <2>1, <2>3 DEF SumFunction, AInv
  <2>5. LiveInWindow(start[s], D * DayTicks)
          = Watched([start |-> start[s], end |-> now], D, D)
    BY <1>1, LiveCounts
  <2> QED
    BY <2>4, <2>5 DEF DayTotal, WatchedSince, StartOfDay, HistoricalSum
<1> QED
  BY <1>3, <1>4

(* CheckLimit names the day's limit just when the channel was watched that *)
(* long since midnight, else the week's just when it was since Monday: the *)
(* totals are what was watched (AInv) and the verdict compares them.       *)
THEOREM LimitsAreRight == Spec => []VerdictIsRight
<1>1. AInv => VerdictIsRight
  <2> SUFFICES ASSUME AInv, NEW s \in Streams, stream[s] = "on", limit # "off"
               PROVE  LET v == Verdict(start[s])
                          day  == DayMax > 0 /\ WatchedSince(s, Day(now)) >= DayMax
                          week == WeeklyMax > 0 /\ WatchedSince(s, LastMonday) >= WeeklyMax
                      IN  /\ v = "day" <=> day
                          /\ v = "week" <=> week /\ ~day
    BY DEF VerdictIsRight
  <2>1. /\ DayReached(start[s]) <=> DayMax > 0 /\ WatchedSince(s, Day(now)) >= DayMax
        /\ WeekReached(start[s]) <=> WeeklyMax > 0 /\ WatchedSince(s, LastMonday) >= WeeklyMax
    BY TotalsAreRight DEF DayReached, WeekReached
  <2> QED
    BY <2>1 DEF Verdict
<1> QED
  BY InitAInv, NextAInv, <1>1, PTL DEF Spec

(* The stores keep their types; no stream and no session lies in the future. *)
THEOREM ViewingTimeTypeOK == Spec => []TypeOK
<1>1. AInv => TypeOK
  BY DEF AInv
<1> QED
  BY InitAInv, NextAInv, <1>1, PTL DEF Spec

(* At every instant a rule is active exactly in its windows, those that    *)
(* close on the next day included.                                         *)
THEOREM WindowsAreRight == Spec => []WindowIsRight
<1>1. AInv => WindowIsRight
  BY InstantsAre, ActiveInWindow DEF AInv, TypeOK, WindowIsRight
<1> QED
  BY InitAInv, NextAInv, <1>1, PTL DEF Spec

-----------------------------------------------------------------------------
(***************************************************************************)
(* The continuous chain                                                    *)
(***************************************************************************)
RestTicks == RestDuration * SecondTicks
Running(s) == stream[s] # "out"
Lasted(e) == Seconds(e.end - e.start)
Sessions == [end : Nat, start : Nat, judged : BOOLEAN]

(* The ended sessions with no long rest between any of them and the last.  *)
Carried == {i \in DOMAIN ended :
    \A j \in i..(Len(ended) - 1) : ended[j + 1].start - ended[j].end <= RestTicks}
CarriedSeconds == SumFunction([i \in Carried |-> Lasted(ended[i])])

(* Nothing is carried over into what runs or may come.                     *)
Gone == /\ session.known /\ now - session.lastEnd > RestTicks
        /\ \A s \in Streams : Running(s) => start[s] - session.lastEnd > RestTicks

AllJudged == \A i \in DOMAIN ended : ended[i].judged

(* What the session entry says of the ended sessions, and the streams of a *)
(* history in which never two ran at once.                                 *)
SessionIsLast ==
    /\ ended \in Seq(Sessions)
    /\ \A i \in DOMAIN ended : ended[i].start <= ended[i].end
    /\ session.known <=> ended # <<>>
    /\ ~session.known => session.cont = 0
    /\ session.known => session.lastEnd = ended[Len(ended)].end
    /\ alone \in BOOLEAN
    /\ alone => \A s, z \in Streams : Running(s) /\ Running(z) => s = z

(* The entry counts at least what is carried, unless a rest has broken the *)
(* chain for every stream that runs and every stream that may begin.       *)
NotLess == alone => session.cont >= CarriedSeconds \/ Gone
(* With every session judged it counts nothing else, and a check has made  *)
(* it the chain of the running stream.                                     *)
NotMore == alone /\ AllJudged =>
    /\ session.cont = CarriedSeconds \/ (Gone /\ session.cont = 0)
    /\ \A s \in Streams : Running(s) /\ checked[s] => session.cont = ChainWatched(s)

CInv == SessionIsLast /\ NotLess /\ NotMore

(* The longest rest within a chain, in ticks.                              *)
LEMMA Rests == RestTicks \in Nat /\ SecondTicks \in Nat \ {0}
BY LimitAssumption DEF RestTicks

(* The sessions' times and lengths are numbers.                            *)
LEMMA EndedTypes ==
    ASSUME SessionIsLast
    PROVE  /\ Len(ended) \in Nat /\ DOMAIN ended = 1..Len(ended) /\ IsFiniteSet(DOMAIN ended)
           /\ \A i \in DOMAIN ended :
                ended[i] \in Sessions /\ ended[i].end \in Nat /\ ended[i].start \in Nat
                /\ Lasted(ended[i]) \in Nat
<1>1. ended \in Seq(Sessions)
  BY DEF SessionIsLast
<1>2. Len(ended) \in Nat /\ DOMAIN ended = 1..Len(ended) /\ \A i \in DOMAIN ended : ended[i] \in Sessions
  BY <1>1
<1>3. IsFiniteSet(DOMAIN ended)
  BY <1>2, FS_Interval
<1>4. ASSUME NEW i \in DOMAIN ended
      PROVE  ended[i].end \in Nat /\ ended[i].start \in Nat /\ Lasted(ended[i]) \in Nat
  <2>1. ended[i].end \in Nat /\ ended[i].start \in Nat /\ ended[i].start <= ended[i].end
    BY <1>2 DEF Sessions, SessionIsLast
  <2>2. ended[i].end - ended[i].start \in Nat
    BY <2>1
  <2> QED
    BY <2>1, <2>2, SecondsOf DEF Lasted
<1> QED
  BY <1>2, <1>3, <1>4

(* What is carried is finite, and nothing without sessions.                *)
LEMMA CarriedTypes ==
    ASSUME SessionIsLast
    PROVE  /\ IsFiniteSet(Carried) /\ Carried \subseteq DOMAIN ended
           /\ CarriedSeconds \in Nat
           /\ ended = <<>> => CarriedSeconds = 0
<1>1. IsFiniteSet(Carried) /\ Carried \subseteq DOMAIN ended
  BY EndedTypes, FS_Subset DEF Carried
<1> DEFINE f == [i \in Carried |-> Lasted(ended[i])]
<1>2. CarriedSeconds = SumFunctionOnSet(f, Carried)
  BY DEF CarriedSeconds, SumFunction
<1>3. \A i \in Carried : f[i] \in Nat
  BY <1>1, EndedTypes
<1>4. SumFunctionOnSet(f, Carried) \in Nat
  <2> HIDE DEF f
  <2> QED
    BY <1>1, <1>3, SumNat
<1>5. ended = <<>> => Carried = {}
  BY <1>1, EndedTypes
<1>6. Carried = {} => SumFunctionOnSet(f, Carried) = 0
  <2> HIDE DEF f
  <2> QED
    BY SumEmpty
<1> QED
  BY <1>1, <1>2, <1>4, <1>5, <1>6

(* A stream that began at an instant continues all of it or nothing.       *)
RestFrom(from, i) ==
    (IF i < Len(ended) THEN ended[i + 1].start ELSE from) - ended[i].end
ChainFrom(from) == {i \in DOMAIN ended :
    \A j \in i..Len(ended) : RestFrom(from, j) <= RestTicks}
WatchedFrom(from) == SumFunction([i \in ChainFrom(from) |-> Lasted(ended[i])])

(* The chain of a stream is the chain from its beginning.                  *)
LEMMA ChainOfStream ==
    ASSUME NEW s \in Streams
    PROVE  /\ ChainWatched(s) = WatchedFrom(start[s])
           /\ ended' = ended => ChainWatched(s)' = WatchedFrom(start'[s])
BY DEF ChainWatched, WatchedFrom, Chain, ChainFrom, Rest, RestFrom, Lasted, RestTicks,
       Seconds

(* A stream's chain is all that is carried, or nothing after a long rest.  *)
LEMMA ChainIs ==
    ASSUME SessionIsLast, NEW from \in Nat
    PROVE  WatchedFrom(from) = IF session.known /\ from - session.lastEnd > RestTicks
                               THEN 0 ELSE CarriedSeconds
<1> DEFINE n == Len(ended)
<1>1. n \in Nat /\ DOMAIN ended = 1..n
  BY EndedTypes
<1>2. ASSUME session.known, from - session.lastEnd > RestTicks
      PROVE  WatchedFrom(from) = 0
  <2>1. RestFrom(from, n) = from - session.lastEnd
    BY <1>2 DEF RestFrom, SessionIsLast
  <2>2. ASSUME NEW i \in ChainFrom(from) PROVE FALSE
    <3>1. i \in 1..n /\ n \in i..n
      BY <1>1, <2>2 DEF ChainFrom
    <3>2. RestFrom(from, n) <= RestTicks
      BY <2>2, <3>1 DEF ChainFrom
    <3>3. session.lastEnd \in Nat
      BY <1>1, <1>2, <3>1, EndedTypes DEF SessionIsLast
    <3> QED
      BY <1>2, <2>1, <3>2, <3>3, Rests
  <2>3. ChainFrom(from) = {}
    BY <2>2
  <2> QED
    BY <2>3, SumEmpty DEF WatchedFrom, SumFunction
<1>3. ASSUME ~(session.known /\ from - session.lastEnd > RestTicks)
      PROVE  ChainFrom(from) = Carried
  <2> SUFFICES ASSUME NEW i \in 1..n
               PROVE  (\A j \in i..n : RestFrom(from, j) <= RestTicks)
                      <=> \A j \in i..(n - 1) : ended[j + 1].start - ended[j].end <= RestTicks
    BY <1>1 DEF ChainFrom, Carried
  <2>1. ended # <<>> /\ n \in 1..n
    BY <1>1
  <2>2. RestFrom(from, n) <= RestTicks
    <3>1. session.known /\ session.lastEnd = ended[n].end /\ ended[n].end \in Nat
      BY <1>1, <2>1, EndedTypes DEF SessionIsLast
    <3>2. RestFrom(from, n) = from - ended[n].end
      BY <1>1 DEF RestFrom
    <3> QED
      BY <1>3, <3>1, <3>2, Rests
  <2>3. \A j \in i..(n - 1) : RestFrom(from, j) = ended[j + 1].start - ended[j].end
    BY <1>1 DEF RestFrom
  <2>4. i..n = (i..(n - 1)) \cup {n}
    <3> HIDE DEF n
    <3> QED
      BY <1>1
  <2> QED
    BY <2>2, <2>3, <2>4
<1>4. ChainFrom(from) = Carried => WatchedFrom(from) = CarriedSeconds
  BY DEF WatchedFrom, CarriedSeconds
<1> QED
  BY <1>2, <1>3, <1>4

(* One more session adds its length to what is carried, after a long rest  *)
(* to nothing.                                                             *)
LEMMA CarriedGrows ==
    ASSUME SessionIsLast, NEW e \in Sessions, e.start <= e.end, ended' = Append(ended, e)
    PROVE  CarriedSeconds' =
             (IF session.known /\ e.start - session.lastEnd > RestTicks
              THEN 0 ELSE CarriedSeconds) + Lasted(e)
<1> DEFINE n == Len(ended)
           f == [i \in Carried |-> Lasted(ended[i])]
           g == [i \in Carried' |-> Lasted(ended'[i])]
<1>1. n \in Nat /\ DOMAIN ended = 1..n /\ IsFiniteSet(1..n)
  BY EndedTypes
<1>2. /\ DOMAIN ended' = 1..(n + 1) /\ Len(ended') = n + 1
      /\ ended'[n + 1] = e /\ \A i \in 1..n : ended'[i] = ended[i]
  BY <1>1 DEF SessionIsLast
<1>3. Lasted(e) \in Nat
  <2>1. e.end - e.start \in Nat
    BY DEF Sessions
  <2> QED
    BY <2>1, SecondsOf DEF Lasted
<1>4. Carried' = {i \in 1..(n + 1) :
                    \A j \in i..n : ended'[j + 1].start - ended'[j].end <= RestTicks}
  BY <1>1, <1>2 DEF Carried, RestTicks
<1>5. n + 1 \in Carried'
  BY <1>1, <1>4
<1>6. CarriedSeconds = SumFunctionOnSet(f, Carried) /\ CarriedSeconds' = SumFunctionOnSet(g, Carried')
  BY DEF CarriedSeconds, SumFunction, Lasted, Seconds
<1>7. g[n + 1] = Lasted(e)
  BY <1>2, <1>5
<1>8. ASSUME session.known, e.start - session.lastEnd > RestTicks
      PROVE  CarriedSeconds' = Lasted(e)
  <2>1. n \in 1..n /\ session.lastEnd = ended[n].end /\ ended[n].end \in Nat
    BY <1>1, <1>8, EndedTypes DEF SessionIsLast
  <2>2. ended'[n + 1].start - ended'[n].end = e.start - session.lastEnd
    BY <1>1, <1>2, <2>1
  <2>3. ASSUME NEW i \in Carried', i # n + 1 PROVE FALSE
    <3>1. n \in i..n
      BY <1>1, <1>4, <2>3
    <3>2. ended'[n + 1].start - ended'[n].end <= RestTicks
      BY <1>4, <2>3, <3>1
    <3>3. e.start \in Nat /\ session.lastEnd \in Nat
      BY <2>1 DEF Sessions
    <3>4. e.start - session.lastEnd <= RestTicks
      BY <2>2, <3>2
    <3> QED
      BY <1>8, <3>3, <3>4, Rests
  <2>4. Carried' = {n + 1}
    BY <1>5, <2>3
  <2> DEFINE x == n + 1
  <2>5. g[x] \in Nat
    BY <1>3, <1>7
  <2>6. SumFunctionOnSet(g, {x}) = g[x]
    <3> HIDE DEF g, x
    <3> QED
      BY <2>5, SumOfOne
  <2> QED
    BY <1>6, <1>7, <2>4, <2>6
<1>9. ASSUME ~(session.known /\ e.start - session.lastEnd > RestTicks)
      PROVE  CarriedSeconds' = CarriedSeconds + Lasted(e)
  <2>1. n = 0 \/ ended'[n + 1].start - ended'[n].end <= RestTicks
    <3>1. CASE n # 0
      <4>1. session.known /\ session.lastEnd = ended[n].end /\ ended[n].end \in Nat /\ n \in 1..n
        BY <1>1, <3>1, EndedTypes DEF SessionIsLast
      <4>2. e.start \in Nat /\ ended'[n + 1].start - ended'[n].end = e.start - session.lastEnd
        BY <1>1, <1>2, <4>1 DEF Sessions
      <4> QED
        BY <1>9, <4>1, <4>2, Rests
    <3> QED
      BY <3>1
  <2>2. \A i \in 1..n : i \in Carried' <=> i \in Carried
    <3> SUFFICES ASSUME NEW i \in 1..n
                 PROVE  (\A j \in i..n : ended'[j + 1].start - ended'[j].end <= RestTicks)
                    <=> \A j \in i..(n - 1) : ended[j + 1].start - ended[j].end <= RestTicks
      <4> SUFFICES ASSUME NEW i \in 1..n PROVE i \in Carried' <=> i \in Carried
        OBVIOUS
      <4>1. i \in 1..(n + 1)
        <5> HIDE DEF n
        <5> QED
          BY <1>1
      <4>3. i \in Carried' <=> \A j \in i..n : ended'[j + 1].start - ended'[j].end <= RestTicks
        BY <1>4, <4>1, Zenon
      <4>2. i \in Carried <=>
              \A j \in i..(n - 1) : ended[j + 1].start - ended[j].end <= RestTicks
        BY <1>1 DEF Carried
      <4> QED
        BY <4>2, <4>3
    <3>1. i..n = (i..(n - 1)) \cup {n} /\ n # 0
      <4> HIDE DEF n
      <4> QED
        BY <1>1
    <3>2. \A j \in i..(n - 1) : ended'[j + 1] = ended[j + 1] /\ ended'[j] = ended[j]
      BY <1>1, <1>2
    <3> QED
      BY <2>1, <3>1, <3>2
  <2>3. Carried' = Carried \cup {n + 1} /\ n + 1 \notin Carried
    <3>1. Carried \subseteq 1..n /\ Carried' \subseteq (1..n) \cup {n + 1} /\ n + 1 \notin 1..n
      BY <1>1, <1>4, UpTo, CarriedTypes
    <3> QED
      BY <1>5, <2>2, <3>1
  <2>4. \A i \in Carried : f[i] \in Nat /\ g[i] = f[i]
    <3>1. \A i \in Carried : i \in 1..n /\ Lasted(ended[i]) \in Nat /\ i \in Carried'
      BY <1>1, <2>3, EndedTypes, CarriedTypes
    <3> QED
      BY <1>2, <3>1
  <2> DEFINE x == n + 1
             S == Carried
  <2>5. g[x] \in Nat /\ IsFiniteSet(S) /\ x \notin S /\ \A i \in S : f[i] \in Nat /\ g[i] = f[i]
    BY <1>3, <1>7, <2>3, <2>4, CarriedTypes
  <2>6. SumFunctionOnSet(g, S \cup {x}) = SumFunctionOnSet(f, S) + g[x]
    <3> HIDE DEF f, g, x, S
    <3> QED
      BY <2>5, SumGrows
  <2> QED
    BY <1>6, <1>7, <2>3, <2>6
<1> QED
  BY <1>3, <1>8, <1>9

(* Before the first session nothing is carried.                            *)
LEMMA InitCInv == Init => CInv
<1> SUFFICES ASSUME Init PROVE CInv
  OBVIOUS
<1>1. ended = <<>> /\ session = NoSession /\ alone = TRUE /\ \A s \in Streams : ~Running(s)
  BY DEF Init, Running
<1>2. SessionIsLast
  BY <1>1 DEF SessionIsLast, NoSession, Sessions
<1>3. CarriedSeconds = 0 /\ session.cont = 0
  BY <1>1, <1>2, CarriedTypes DEF NoSession
<1> QED
  BY <1>1, <1>2, <1>3 DEF CInv, NotLess, NotMore

(* What is carried depends on the ended sessions alone.                    *)
LEMMA SameEnded == ASSUME ended' = ended PROVE CarriedSeconds' = CarriedSeconds
BY DEF CarriedSeconds, Carried, Lasted, Seconds, RestTicks

(* A stream that begins, or is looked at: its check may break the chain.   *)
LEMMA JudgeStep ==
    ASSUME AInv, CInv, NEW s \in Streams, NEW judges \in BOOLEAN, NEW from \in Nat,
           from <= now,
           from = now \/ (Running(s) /\ from = start[s]),
           stream' = [stream EXCEPT ![s] = "on"],
           start' = [start EXCEPT ![s] = from],
           checked' = [checked EXCEPT ![s] = judges],
           session' = IF judges /\ session.known /\ Broken(from)
                      THEN [session EXCEPT !.cont = 0] ELSE session,
           now' = now, ended' = ended, alone' \in BOOLEAN,
           alone' => alone /\ \A z \in Streams \ {s} : ~Running(z)
    PROVE  CInv'
<1>1. /\ now \in Nat /\ session.lastEnd \in Nat /\ session.cont \in Nat
      /\ session \in [known : BOOLEAN, lastEnd : Nat, cont : Nat]
      /\ stream \in [Streams -> {"out", "on", "ending"}]
      /\ start \in [Streams -> Nat] /\ checked \in [Streams -> BOOLEAN]
  BY InstantsAre DEF AInv, TypeOK
<1>2. SessionIsLast /\ NotLess /\ NotMore
  BY DEF CInv
<1> DEFINE broken == session.known /\ from - session.lastEnd > RestTicks
<1>3. /\ session' = IF judges /\ broken THEN [session EXCEPT !.cont = 0] ELSE session
      /\ session'.known = session.known /\ session'.lastEnd = session.lastEnd
      /\ session'.cont = IF judges /\ broken THEN 0 ELSE session.cont
  BY <1>1 DEF Broken, RestTicks
<1>4. alone' => \A z \in Streams : Running(z)' => z = s
  BY <1>1 DEF Running
<1>5. Running(s)' /\ start'[s] = from /\ checked'[s] = judges
  BY <1>1 DEF Running
<1>6. SessionIsLast'
  BY <1>1, <1>2, <1>3, <1>4 DEF SessionIsLast
<1>7. alone' => (Gone' <=> broken)
  <2>1. broken => now - session.lastEnd > RestTicks
    BY <1>1, Rests
  <2> QED
    BY <1>3, <1>4, <1>5, <2>1 DEF Gone, RestTicks
<1>8. Gone => broken
  BY DEF Gone
<1>9. CarriedSeconds' = CarriedSeconds /\ (AllJudged' <=> AllJudged)
  BY SameEnded DEF AllJudged
<1>10. NotLess'
  BY <1>2, <1>3, <1>7, <1>8, <1>9 DEF NotLess
<1>11. ChainWatched(s)' = IF broken THEN 0 ELSE CarriedSeconds
  BY <1>2, <1>5, ChainOfStream, ChainIs
<1>12. NotMore'
  <2> SUFFICES ASSUME alone', AllJudged'
               PROVE  /\ session'.cont = CarriedSeconds' \/ (Gone' /\ session'.cont = 0)
                      /\ judges => session'.cont = ChainWatched(s)'
    BY <1>4, <1>5 DEF NotMore
  <2>1. session.cont = CarriedSeconds \/ (Gone /\ session.cont = 0)
    BY <1>2, <1>9 DEF NotMore
  <2> QED
    BY <1>3, <1>7, <1>8, <1>9, <1>11, <2>1
<1> QED
  BY <1>6, <1>10, <1>12 DEF CInv

(* What leaves the sessions and their streams alone.                       *)
LEMMA QuietStep ==
    ASSUME AInv, CInv, now' \in Nat, now <= now',
           UNCHANGED <<ended, session, start, checked, alone>>,
           \A z \in Streams : Running(z)' <=> Running(z)
    PROVE  CInv'
<1>1. now \in Nat /\ session.lastEnd \in Nat
  BY InstantsAre DEF AInv, TypeOK
<1>2. SessionIsLast'
  BY DEF CInv, SessionIsLast
<1>3. Gone => Gone'
  BY <1>1, Rests DEF Gone, RestTicks
<1>4. \A s \in Streams : ChainWatched(s)' = ChainWatched(s)
  BY ChainOfStream
<1>5. CarriedSeconds' = CarriedSeconds /\ (AllJudged' <=> AllJudged)
  BY SameEnded DEF AllJudged
<1> QED
  BY <1>2, <1>3, <1>4, <1>5 DEF CInv, NotLess, NotMore

(* A stream ends: its session joins the chain, or all is forgotten.        *)
LEMMA EndStep == ASSUME AInv, CInv, NEW s \in Streams, EndLimits(s) PROVE CInv'
<1>1. /\ now \in Nat /\ session.lastEnd \in Nat /\ session.cont \in Nat
      /\ stream \in [Streams -> {"out", "on", "ending"}]
      /\ start \in [Streams -> Nat] /\ start[s] <= now /\ checked \in [Streams -> BOOLEAN]
  BY InstantsAre DEF AInv, TypeOK
<1>2. SessionIsLast /\ NotLess /\ NotMore
  BY DEF CInv
<1>3. /\ EndSession(start[s], checked[s])
      /\ stream[s] = "ending" /\ stream' = [stream EXCEPT ![s] = "out"]
      /\ start' = [start EXCEPT ![s] = 0]
      /\ now' = now /\ alone' = alone
  BY DEF EndLimits, clock
<1>4. \A z \in Streams : Running(z)' => Running(z) /\ z # s /\ start'[z] = start[z]
  BY <1>1, <1>3 DEF Running
<1>5. Running(s) /\ (alone => \A z \in Streams : ~Running(z)')
  BY <1>2, <1>3, <1>4 DEF Running, SessionIsLast
<1>6. CASE UNCHANGED <<session, ended>>
  <2>1. SessionIsLast'
    BY <1>2, <1>3, <1>4, <1>6 DEF SessionIsLast
  <2>2. Gone => Gone'
    BY <1>3, <1>4, <1>6 DEF Gone, RestTicks
  <2>3. CarriedSeconds' = CarriedSeconds /\ (AllJudged' <=> AllJudged)
    BY <1>6, SameEnded DEF AllJudged
  <2> QED
    BY <1>2, <1>3, <1>5, <1>6, <2>1, <2>2, <2>3 DEF CInv, NotLess, NotMore
<1>7. CASE session' = NoSession /\ ended' = <<>>
  <2>1. SessionIsLast'
    BY <1>2, <1>3, <1>4, <1>7 DEF SessionIsLast, NoSession
  <2>2. CarriedSeconds' = 0
    <3>1. Carried' = {}
      BY <1>7 DEF Carried
    <3> QED
      BY <3>1, SumEmpty DEF CarriedSeconds, SumFunction
  <2>3. session'.cont = 0
    BY <1>7 DEF NoSession
  <2> QED
    BY <1>3, <1>5, <2>1, <2>2, <2>3 DEF CInv, NotLess, NotMore
<1>8. CASE /\ session' = [known |-> TRUE, lastEnd |-> now,
                          cont |-> session.cont + Seconds(now - start[s])]
           /\ ended' = Append(ended, [end |-> now, start |-> start[s], judged |-> checked[s]])
  <2> DEFINE e == [end |-> now, start |-> start[s], judged |-> checked[s]]
             n == Len(ended)
  <2>1. e \in Sessions /\ e.start <= e.end /\ e.start = start[s] /\ e.end = now
        /\ e.judged = checked[s] /\ Lasted(e) = Seconds(now - start[s])
    BY <1>1 DEF Sessions, Lasted
  <2>2. Lasted(e) \in Nat
    <3>1. now - start[s] \in Nat
      BY <1>1
    <3> QED
      BY <2>1, <3>1, SecondsOf
  <2>3. ended' = Append(ended, e)
    BY <1>8
  <2> HIDE DEF e
  <2>4. /\ n \in Nat /\ DOMAIN ended = 1..n /\ ended' \in Seq(Sessions) /\ DOMAIN ended' = 1..(n + 1)
        /\ Len(ended') = n + 1 /\ ended' # <<>>
        /\ ended'[n + 1] = e /\ \A i \in 1..n : ended'[i] = ended[i]
    BY <1>2, <2>1, <2>3 DEF SessionIsLast
  <2>5. session'.known = TRUE /\ session'.lastEnd = now /\ session'.cont = session.cont + Lasted(e)
    BY <1>8, <2>1
  <2>6. SessionIsLast'
    <3>1. \A i \in 1..(n + 1) : ended'[i].start <= ended'[i].end
      BY <1>2, <2>1, <2>4 DEF SessionIsLast
    <3>2. session'.lastEnd = ended'[Len(ended')].end
      BY <2>1, <2>4, <2>5
    <3>3. alone' => \A x, z \in Streams : Running(x)' /\ Running(z)' => x = z
      BY <1>3, <1>5
    <3> QED
      BY <1>2, <1>3, <2>4, <2>5, <3>1, <3>2, <3>3 DEF SessionIsLast
  <2> DEFINE broken == session.known /\ start[s] - session.lastEnd > RestTicks
             before == IF broken THEN 0 ELSE CarriedSeconds
  <2>7. CarriedSeconds' = before + Lasted(e) /\ CarriedSeconds \in Nat
    BY <1>2, <2>1, <2>3, CarriedGrows, CarriedTypes
  <2>8. before \in Nat /\ (Gone => broken)
    BY <1>5, <2>7 DEF Gone
  <2>9. NotLess'
    <3>1. alone => session.cont >= before
      BY <1>1, <1>2, <2>8 DEF NotLess
    <3> HIDE DEF before
    <3>2. alone => session.cont + Lasted(e) >= before + Lasted(e)
      BY <1>1, <2>2, <2>8, <3>1
    <3> QED
      BY <1>3, <2>5, <2>7, <3>2 DEF NotLess
  <2>10. NotMore'
    <3>1. ASSUME alone, AllJudged' PROVE session.cont = before
      <4>1. AllJudged /\ checked[s]
        BY <2>1, <2>4, <3>1 DEF AllJudged
      <4>2. session.cont = ChainWatched(s)
        BY <1>2, <1>5, <3>1, <4>1 DEF NotMore
      <4> QED
        BY <1>1, <1>2, <4>2, ChainOfStream, ChainIs
    <3> HIDE DEF before
    <3> QED
      BY <1>3, <1>5, <2>5, <2>7, <3>1 DEF NotMore
  <2> QED
    BY <2>6, <2>9, <2>10 DEF CInv
<1> QED
  BY <1>3, <1>6, <1>7, <1>8 DEF EndSession

(* Every step keeps what the session entry means.                          *)
LEMMA NextCInv == AInv /\ CInv /\ [Next]_vars => CInv'
<1> SUFFICES ASSUME AInv, CInv, [Next]_vars PROVE CInv'
  OBVIOUS
<1>1. /\ now \in Nat /\ now' \in Nat
      /\ stream \in [Streams -> {"out", "on", "ending"}]
      /\ start \in [Streams -> Nat] /\ \A s \in Streams : start[s] <= now
      /\ checked \in [Streams -> BOOLEAN] /\ alone \in BOOLEAN
  <2>1. TypeOK /\ TypeOK'
    BY NextAInv DEF AInv
  <2> QED
    BY <2>1, InstantsAre DEF TypeOK, CInv, SessionIsLast
<1>2. CASE Advance
  <2>1. now <= now'
    <3> DEFINE T == {t \in Instants : t > now}
    <3>1. T \in SUBSET Nat /\ T # {} /\ now' = Min(T)
      BY <1>2, InstantsAre DEF Advance
    <3>2. now' \in T
      <4> HIDE DEF T
      <4> QED
        BY <3>1, LeastInstant
    <3> QED
      BY <1>1, <3>2
  <2> QED
    BY <1>1, <1>2, <2>1, QuietStep DEF Advance, Running, past
<1>3. ASSUME NEW l \in {"off", "sums", "chain"}, SetLimit(l) PROVE CInv'
  BY <1>1, <1>3, QuietStep DEF SetLimit, Running, past
<1>4. ASSUME NEW s \in Streams, Begin(s) PROVE CInv'
  <2> DEFINE judges == ~ActiveAt(Rule, now) /\ JudgesChain
  <2>1. /\ stream' = [stream EXCEPT ![s] = "on"] /\ start' = [start EXCEPT ![s] = now]
        /\ now' = now /\ ended' = ended
        /\ alone' = (alone /\ \A z \in Streams : stream[z] = "out")
    BY <1>4 DEF Begin, clock, past, CheckLimit
  <2>2. /\ checked' = [checked EXCEPT ![s] = judges]
        /\ session' = IF judges /\ session.known /\ Broken(now)
                      THEN [session EXCEPT !.cont = 0] ELSE session
    <3>1. CASE ActiveAt(Rule, now)
      <4>1. checked' = [checked EXCEPT ![s] = FALSE] /\ session' = session
        BY <1>4, <3>1 DEF Begin, past
      <4> QED
        BY <3>1, <4>1
    <3>2. CASE ~ActiveAt(Rule, now)
      <4>1. JudgeChain(now) /\ checked' = [checked EXCEPT ![s] = JudgesChain]
        BY <1>4, <3>2 DEF Begin, CheckLimit
      <4>2. judges = JudgesChain
        <5>1. judges \in BOOLEAN /\ JudgesChain \in BOOLEAN
          BY DEF JudgesChain
        <5>2. (judges <=> JudgesChain)
          BY <3>2
        <5> HIDE DEF judges
        <5> QED
          BY <5>1, <5>2
      <4> HIDE DEF judges
      <4> QED
        BY <4>1, <4>2 DEF JudgeChain
    <3> QED
      BY <3>1, <3>2
  <2>3. judges \in BOOLEAN /\ alone' \in BOOLEAN
        /\ (alone' => alone /\ \A z \in Streams \ {s} : ~Running(z))
    BY <1>1, <2>1 DEF Running
  <2>4. now \in Nat /\ now <= now
    BY <1>1
  <2> HIDE DEF judges
  <2> QED
    BY <2>1, <2>2, <2>3, <2>4, JudgeStep
<1>5. ASSUME NEW s \in Streams, TickCheck(s) PROVE CInv'
  <2> DEFINE judges == JudgesChain
             from == start[s]
  <2>1. /\ stream[s] = "on" /\ UNCHANGED <<now, stream, start, ended, alone>>
        /\ checked' = [checked EXCEPT ![s] = judges]
        /\ session' = IF judges /\ session.known /\ Broken(from)
                      THEN [session EXCEPT !.cont = 0] ELSE session
    BY <1>5 DEF TickCheck, CheckLimit, JudgeChain, clock
  <2>2. stream' = [stream EXCEPT ![s] = "on"] /\ start' = [start EXCEPT ![s] = from]
    BY <1>1, <2>1
  <2>3. judges \in BOOLEAN /\ Running(s) /\ alone' \in BOOLEAN
        /\ (alone' => alone /\ \A z \in Streams \ {s} : ~Running(z))
    BY <1>1, <2>1 DEF Running, CInv, SessionIsLast, JudgesChain
  <2>4. from \in Nat /\ from <= now /\ from = start[s]
    BY <1>1
  <2> HIDE DEF judges, from
  <2> QED
    BY <2>1, <2>2, <2>3, <2>4, JudgeStep
<1>6. ASSUME NEW s \in Streams, EndStats(s) PROVE CInv'
  <2>1. \A z \in Streams : Running(z)' <=> Running(z)
    BY <1>1, <1>6 DEF EndStats, Running
  <2> QED
    BY <1>1, <1>6, <2>1, QuietStep DEF EndStats, clock
<1>7. ASSUME NEW s \in Streams, EndLimits(s) PROVE CInv'
  BY <1>7, EndStep
<1>8. CASE UNCHANGED vars
  BY <1>1, <1>8, QuietStep DEF vars, clock, past, Running
<1> QED
  BY <1>2, <1>3, <1>4, <1>5, <1>6, <1>7, <1>8 DEF Next

(* Once a check has judged a stream, the total of the continuous limit is  *)
(* never less than the stream's chain, and equal to it when every session  *)
(* of the chain was judged, one stream at a time (CInv).                   *)
THEOREM ChainIsRight == Spec => []ChainIsContinuous
<1>1. AInv /\ CInv => ChainIsContinuous
  <2> SUFFICES ASSUME AInv, CInv, NEW s \in Streams, Judged(s)
               PROVE  /\ session.cont >= ChainWatched(s)
                      /\ (\A i \in DOMAIN ended : ended[i].judged)
                            => session.cont = ChainWatched(s)
    BY DEF ChainIsContinuous
  <2>1. alone /\ checked[s] /\ Running(s) /\ start[s] \in Nat /\ session.cont \in Nat
    BY DEF Judged, Running, AInv, TypeOK
  <2>2. ChainWatched(s) = IF session.known /\ start[s] - session.lastEnd > RestTicks
                          THEN 0 ELSE CarriedSeconds
    BY <2>1, ChainOfStream, ChainIs DEF CInv
  <2>3. session.cont >= ChainWatched(s)
    BY <2>1, <2>2 DEF CInv, NotLess, Gone
  <2> QED
    BY <2>1, <2>3 DEF CInv, NotMore, AllJudged
<1> QED
  BY InitAInv, NextAInv, InitCInv, NextCInv, <1>1, PTL DEF Spec
=============================================================================
