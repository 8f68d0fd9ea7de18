----------------------------- MODULE Persistence -----------------------------
(***************************************************************************)
(* How the JSON stores reach the disk (limits, rules, channels, stats,     *)
(* settings over storeutil.WriteJSON).  The content of a store is the      *)
(* number of edits it has seen since Open: a later one includes the earlier*)
(* ones, and 0 is what Open loaded.                                        *)
(* A call edits the memory under mu and then makes the file follow.  The   *)
(* stores differ in WHEN the content that is written is read:              *)
(*   "ordered"   limits, rules: under mu, inside saveMu, just before the   *)
(*               file is written;                                          *)
(*   "locked"    channels: edit and write in one critical section;         *)
(*   "early"     stats: under mu (ClearAll: with its edit), then saveMu is *)
(*               waited for;                                               *)
(*   "unlocked"  settings: under mu, with no save mutex at all.            *)
(* WriteJSON writes a temporary file, syncs and renames it: a crash leaves *)
(* the old content or the new one, so the rename is the step that counts.  *)
(***************************************************************************)
EXTENDS Integers, FiniteSets

CONSTANTS Writers,      \* handlers, ending streams, the flush ticker
          Clearers,     \* who may call ClearAll (one: two write the same {})
          Nobody,       \* an unlocked saveMu
          Disciplines,  \* which of the four this store may have
          MaxContent,     \* bound on the content
          MaxCrashes    \* bound on the restarts

ASSUME WritersAssumption == Nobody \notin Writers /\ Clearers \subseteq Writers
ASSUME BoundsAssumption == MaxContent \in Nat /\ MaxCrashes \in Nat
ASSUME DisciplinesAssumption ==
    Disciplines \subseteq {"ordered", "locked", "early", "unlocked"}

VARIABLES discipline,
          mem,      \* the content in memory
          disk,     \* the content of the file
          saveMu,   \* who holds it
          pc,
          goal,     \* the edit a call has to make durable
          snap,     \* the content it read and will write
          quiet,    \* the writers whose call does not report a failing save
          crashes,
          \* history
          acked,    \* the newest edit that a reporting call said is saved
          answered, \* the newest edit that any call returned from without error
          owed      \* the newest edit since the start whose save failed

told == <<acked, answered, owed>>
storeVars == <<discipline, mem, disk, saveMu, pc, goal, snap, quiet, crashes,
               told>>

Idle == [w \in Writers |-> "idle"]
Zero == [w \in Writers |-> 0]

StoreInit ==
    /\ discipline \in Disciplines
    /\ mem = 0 /\ disk = 0 /\ crashes = 0
    /\ acked = 0 /\ answered = 0 /\ owed = 0
    /\ saveMu = Nobody /\ pc = Idle /\ goal = Zero /\ snap = Zero /\ quiet = {}

Goto(w, l) == pc' = [pc EXCEPT ![w] = l]

Later(n, m) == IF n > m THEN n ELSE m

(* Call w makes edit n durable; its next step is l.                        *)
Calls(w, n, l) == /\ pc[w] = "idle"
                  /\ Goto(w, l)
                  /\ goal' = [goal EXCEPT ![w] = n]
                  /\ UNCHANGED <<discipline, disk, crashes, told>>

(* Some calls keep a failing save to themselves: EndSession of limits only *)
(* logs it, ImportM3U of channels drops it and returns its count.          *)
MayBeQuiet(w) == quiet' \in {quiet, quiet \cup {w}}

MemEdited == mem < MaxContent /\ mem' = mem + 1

(* limits: AddLimit, UpdateLimit, DeleteLimit, SetPool, EndSession; rules: *)
(* Add, Update, Delete; settings: Update.  The edit first, then persist.   *)
EditThenSave(w) ==
    /\ discipline \in {"ordered", "unlocked"}
    /\ MemEdited
    /\ Calls(w, mem + 1, IF discipline = "ordered" THEN "lock" ELSE "read")
    /\ IF discipline = "ordered" THEN MayBeQuiet(w) ELSE UNCHANGED quiet
    /\ UNCHANGED <<saveMu, snap>>

(* limits: a session without an enabled limit is dropped from the table, a *)
(* check resets a chain; neither is saved.                                 *)
EditUnsaved ==
    /\ discipline = "ordered"
    /\ MemEdited
    /\ UNCHANGED <<discipline, disk, saveMu, pc, goal, snap, quiet, crashes,
                   told>>

(* channels: Add, Update, Delete, ImportM3U, all under mu (here saveMu).   *)
EditLocked(w) ==
    /\ discipline = "locked"
    /\ saveMu = Nobody /\ saveMu' = w
    /\ MemEdited
    /\ Calls(w, mem + 1, "read")
    /\ MayBeQuiet(w)
    /\ UNCHANGED snap

(* stats: a stream that ends; nothing is saved.                            *)
StatsAddRange ==
    /\ discipline = "early"
    /\ MemEdited
    /\ UNCHANGED <<discipline, disk, saveMu, pc, goal, snap, quiet, crashes,
                   told>>

(* stats: ClearAll remembers the empty table, Flush a copy of the table.   *)
ClearAll(w) ==
    /\ discipline = "early" /\ w \in Clearers
    /\ MemEdited
    /\ Calls(w, mem + 1, "lock")
    /\ snap' = [snap EXCEPT ![w] = mem + 1]
    /\ UNCHANGED <<saveMu, quiet>>

Flush(w) ==
    /\ discipline = "early"
    /\ Calls(w, mem, "lock")
    /\ snap' = [snap EXCEPT ![w] = mem]
    /\ UNCHANGED <<mem, saveMu, quiet>>

LockNothing(w) ==               \* bug: saveMu is not taken
    /\ pc[w] = "lock"
    /\ Goto(w, IF discipline = "early" THEN "write" ELSE "read")
    /\ UNCHANGED <<discipline, mem, disk, saveMu, goal, snap, quiet, crashes,
                   told>>

LockSave(w) ==
    /\ pc[w] = "lock"
    /\ saveMu = Nobody
    /\ saveMu' = w
    /\ Goto(w, IF discipline = "early" THEN "write" ELSE "read")
    /\ UNCHANGED <<discipline, mem, disk, goal, snap, quiet, crashes, told>>

SnapshotBefore(w) ==            \* bug: reads what the call edited, not mem
    /\ pc[w] = "read"
    /\ snap' = [snap EXCEPT ![w] = goal[w]]
    /\ Goto(w, "write")
    /\ UNCHANGED <<discipline, mem, disk, saveMu, goal, quiet, crashes,
                   told>>

Snapshot(w) ==
    /\ pc[w] = "read"
    /\ snap' = [snap EXCEPT ![w] = mem]
    /\ Goto(w, "write")
    /\ UNCHANGED <<discipline, mem, disk, saveMu, goal, quiet, crashes,
                   told>>

Unlock(w) == saveMu' = IF saveMu = w THEN Nobody ELSE saveMu

Finish(w) == /\ Unlock(w)
             /\ Goto(w, "idle")
             /\ goal' = [goal EXCEPT ![w] = 0]
             /\ snap' = [snap EXCEPT ![w] = 0]
             /\ quiet' = quiet \ {w}

(* The rename.                                                             *)
WriteJSON(w) ==
    /\ pc[w] = "write"
    /\ disk' = snap[w]
    /\ acked' = IF w \in quiet THEN acked ELSE Later(goal[w], acked)
    /\ answered' = Later(goal[w], answered)
    /\ Finish(w)
    /\ UNCHANGED <<discipline, mem, owed, crashes>>

FailsBut(w, left) ==
    /\ pc[w] = "write"
    /\ mem' = left
    /\ owed' = Later(goal[w], owed)
    /\ answered' = IF w \in quiet THEN Later(goal[w], answered) ELSE answered
    /\ Finish(w)
    /\ UNCHANGED <<discipline, disk, acked, crashes>>

FailsTakingBack(w) == FailsBut(w, disk)     \* bug: others' edits go with it

(* CreateTemp, Write, Sync, Close, Chmod or Rename failed: a call returns  *)
(* the error unless it is a quiet one, and the edit stays in memory.       *)
WriteFails(w) == FailsBut(w, mem)

(* The process dies and Open loads the file; what is owed is gone with it. *)
CrashRestart ==
    /\ crashes < MaxCrashes
    /\ crashes' = crashes + 1
    /\ mem' = disk
    /\ saveMu' = Nobody /\ pc' = Idle /\ goal' = Zero /\ snap' = Zero /\ quiet' = {}
    /\ owed' = 0
    /\ UNCHANGED <<discipline, disk, acked, answered>>

StoreNext ==
    \/ \E w \in Writers : \/ EditThenSave(w) \/ EditLocked(w)
                          \/ ClearAll(w) \/ Flush(w)
                          \/ LockSave(w) \/ Snapshot(w)
                          \/ WriteJSON(w) \/ WriteFails(w)
    \/ EditUnsaved \/ StatsAddRange \/ CrashRestart

StoreSpec == StoreInit /\ [][StoreNext]_storeVars

-----------------------------------------------------------------------------
WritersHoldSaveMu == \A w \in Writers :
    pc[w] = "write" /\ discipline # "unlocked" => saveMu = w

StoreTypeOK ==
    /\ discipline \in Disciplines
    /\ mem \in Nat /\ disk \in Nat /\ crashes \in 0..MaxCrashes
    /\ acked \in Nat /\ answered \in Nat /\ owed \in Nat
    /\ saveMu \in Writers \cup {Nobody}
    /\ pc \in [Writers -> {"idle", "lock", "read", "write"}]
    /\ goal \in [Writers -> Nat] /\ snap \in [Writers -> Nat]
    /\ quiet \subseteq Writers
    /\ WritersHoldSaveMu

InOrder == discipline \in {"ordered", "locked"}
Durable == acked <= disk /\ acked <= mem

(* limits, rules, channels: an edit whose call reports how its save went,  *)
(* and returned without error, is in the file, and so in memory again after*)
(* a crash and restart at any point, however the calls and their failures  *)
(* overlap.  EndSession and ImportM3U report nothing: for them there is    *)
(* only FailedSavesAreMadeUp.                                              *)
AckedSurvives == InOrder => Durable

(* The edit of a failed save stays in memory, reported (save's and         *)
(* persist's errors) or swallowed (channels.go:199, limits.go:373): as long*)
(* as the process lives, the next save that succeeds writes it too,        *)
(* whoever makes it and whatever it is about.                              *)
FailedSavesAreMadeUp ==
    [][\A w \in Writers : InOrder /\ WriteJSON(w) => owed <= disk']_storeVars

(* "The order of the snapshots is the order of the writes" (limits.go:496):*)
(* a file never goes back to a content it had passed, so that a deleted    *)
(* rule does not come back nor an added one vanish.                        *)
DiskNeverGoesBack == [][InOrder => disk' >= disk]_storeVars

-----------------------------------------------------------------------------
(* What texts of the repository say and the code does not do.              *)

(* The README's list of what is persistent (210-216) has the imported      *)
(* channels, and the page reports them as imported (api.go:1076): success  *)
(* is answered also when the file was not written (channels.go:199), and   *)
(* after a restart they are gone.                                          *)
AnsweredSurvives == InOrder => answered <= mem

(* ClearAll "clears all statistics and saves" (stats.go:197), the last     *)
(* Flush "loses nothing that was aggregated" (121): an older Flush that    *)
(* waits for saveMu undoes both.                                           *)
StatsSurvive == discipline = "early" => Durable
=============================================================================
