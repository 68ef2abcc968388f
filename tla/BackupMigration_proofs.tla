----------------------- MODULE BackupMigration_proofs -----------------------
(***************************************************************************)
(* For every set of directories, backups and requests, and every number of *)
(* faults and kills: the safety properties of BackupMigration.             *)
(*                                                                         *)
(* The slot (OneActive) makes all that is said of a migration's locals     *)
(* depend on its phase alone, since at most one is between Begin and       *)
(* Unlock.  What it has found keeps standing at its source (SourcesStand)  *)
(* until the configuration has been switched; what the user sees is among  *)
(* it (ListedIsMoved), because a backup completed meanwhile was begun      *)
(* before the migration (WritersStraddle).  What has been placed is a true *)
(* copy that no writer touches (PlacedIsTrue), so nothing is lost when its *)
(* source is removed as long as that is still what was copied (Doomed).    *)
(***************************************************************************)
EXTENDS BackupMigration, FiniteSetTheorems, TLAPS

\* Phases in which the old directory is the configured one and is left alone.
Moving == {"scan", "start", "copy", "verify", "place", "rollback"}

Idle(m) == mig[m].at \in {"idle", "lower", "over"}

\* ACTIVE_MIGRATION_ID is set exactly between Begin and Unlock.
OneActive ==
    /\ \A m, n \in active : m = n
    /\ \A m \in Migrations : m \in active <=> ~Idle(m)

\* A backup whose operation has not created it yet is nowhere.
UnwrittenIsNowhere ==
    \A f \in Files : writer[f] \in {"idle", "resolve", "create"} =>
        /\ \A p \in Places : disk[p][f] = "absent"
        /\ \A m \in Migrations : mig[m].files[f] = "absent"

\* An open backup is where its operation opened it.
WritersHold ==
    \A f \in Files : writer[f] = "write" => disk[into[f]][f] # "absent"

\* Who writes during a migration has begun before it.
WritersStraddle ==
    \A f \in Files : /\ active # {} /\ Busy(f) => f \in straddling
                     /\ writer[f] = "adrift" => f \in straddling

\* Nothing has been found before the scan; what has been remains, and is not in the target's place.
SourcesStand(m) ==
    LET task == mig[m] IN
    /\ task.at = "validate" => Found(m) = {}
    /\ task.at \in Moving =>
        /\ root # task.target
        /\ \A f \in Found(m) :
              /\ task.from[f] \in {root, Legacy}
              /\ disk[task.from[f]][f] # "absent"
              /\ task.files[f] = "whole" => disk[task.from[f]][f] = "whole"
    /\ task.at = "clean" =>
        /\ root = task.target
        /\ \A f \in Found(m) : task.from[f] # task.target

\* What the user sees is moved.
ListedIsMoved(m) ==
    mig[m].at \in Moving =>
        \A f \in listed : \/ mig[m].at = "scan" /\ f \in mig[m].todo
                          \/ mig[m].files[f] = "whole"

\* The target has what was found, or is going to get it.
PlacedIsTrue(m) ==
    LET task == mig[m] IN
    /\ task.at \in {"place", "rollback", "clean"} =>
        \A f \in task.placed :
            /\ f \in Found(m)
            /\ disk[task.target][f] = task.files[f]
            /\ writer[f] = "write" => into[f] # task.target
    /\ task.at = "place" =>
        /\ task.todo \subseteq Found(m)
        /\ Found(m) \subseteq task.todo \union task.placed
        /\ \A f \in task.todo : task.staged[f] = task.files[f]
    /\ task.at = "clean" => Found(m) \subseteq task.placed

\* A source about to be removed is what was copied.
Doomed(m) ==
    LET task == mig[m] IN
    /\ task.at # "clean" => task.doomed = {}
    /\ task.at = "clean" =>
        /\ task.todo \subseteq Found(m)
        /\ \A f \in task.doomed :
              /\ f \in Found(m)
              /\ disk[task.from[f]][f] = task.files[f] \/ f \in overtaken

\* Begun, and not switched.
Undecided(m) ==
    \/ mig[m].at \in {"validate", "plain"} \union Moving
    \/ mig[m].at = "unlock" /\ mig[m].result # "ok"

\* Until the switch the target is as it was, but for the renames made so far.
TargetAsBefore(m) ==
    Undecided(m) =>
        /\ mig[m].at \notin {"place", "rollback"} => mig[m].placed = {}
        /\ \A f \in Files \ straddling :
              IF f \in mig[m].placed
              THEN mig[m].before[f] = "absent"
              ELSE disk[mig[m].target][f] = mig[m].before[f]

\* A raised flag is the active migration's own, and stays up while it is owed.
CancelIsOwn(m) ==
    /\ mig[m].result = "cancelled" => m \in asked
    /\ cancel /\ m \in active => m \in asked
    /\ m \in owed => mig[m].at \in Cancellable \union {"unlock", "lower", "over"}
    /\ m \in owed /\ mig[m].at \in Cancellable => cancel /\ mig[m].keep

MigInv(m) ==
    /\ SourcesStand(m)
    /\ ListedIsMoved(m)
    /\ PlacedIsTrue(m)
    /\ Doomed(m)
    /\ TargetAsBefore(m)
    /\ CancelIsOwn(m)

IInv ==
    /\ TypeOK
    /\ OneActive
    /\ UnwrittenIsNowhere
    /\ WritersHold
    /\ WritersStraddle
    /\ CompleteBackupsAreKept
    /\ ListedBackupsStayListed
    /\ \A m \in Migrations : MigInv(m)

----------------------------------------------------------------------------
\* The locals of a request that has not begun have their types.
LEMMA NewTaskTyped == PlacesAreSound => NewTask \in Task
<1> SUFFICES ASSUME PlacesAreSound PROVE NewTask \in Task
  OBVIOUS
<1>1. FirstRoot \in Roots /\ FirstRoot \in Places
  BY DEF PlacesAreSound, Places
<1>2. Nothing \in Copies /\ [f \in Files |-> FirstRoot] \in [Files -> Places]
  BY <1>1 DEF Nothing, Copies, Content
<1>3. "idle" \in Phase
  BY DEF Phase
<1>4. QED
  BY <1>1, <1>2, <1>3 DEF NewTask, Task

\* The slot is taken at most once, counted or not.
LEMMA SlotCounted ==
    ASSUME NEW S, \A x, y \in S : x = y
    PROVE  Cardinality(S) <= 1
<1>1. CASE S = {}
  BY <1>1, FS_EmptySet
<1>2. CASE S # {}
  <2>1. PICK x \in S : S = {x}
    BY <1>2
  <2>2. Cardinality(S) = 1
    BY <2>1, FS_Singleton
  <2>3. QED
    BY <2>2
<1>3. QED
  BY <1>1, <1>2

LEMMA InitIInv == PlacesAreSound /\ Init => IInv
<1> SUFFICES ASSUME PlacesAreSound, Init PROVE IInv
  OBVIOUS
<1>1. \A m \in Migrations : mig[m] = NewTask
  BY DEF Init
<1>2. TypeOK
  <2>1. disk \in [Places -> Copies]
    BY DEF Init, Copies, Content
  <2>2. mig \in [Migrations -> Task]
    BY NewTaskTyped DEF Init
  <2>3. Cardinality(active) <= 1
    BY FS_EmptySet DEF Init
  <2>4. listed \subseteq Files
    BY DEF Init, PlacesAreSound
  <2>5. /\ root \in Roots /\ into \in [Files -> Roots]
        /\ writer \in [Files -> {"idle", "resolve", "create", "write", "adrift",
                                 "done", "dead"}]
        /\ faults \in 0 .. MaxFaults
    BY DEF Init, PlacesAreSound
  <2>6. QED
    BY <2>1, <2>2, <2>3, <2>4, <2>5 DEF Init, TypeOK
<1>3. OneActive
  BY <1>1 DEF Init, OneActive, Idle, NewTask
<1>4. \A f \in Files, p \in Places :
        disk[p][f] = IF f \in DOMAIN Stored /\ Stored[f] = p THEN "whole" ELSE "absent"
  BY DEF Init
<1>5. \A f \in DOMAIN Stored : f \in Files /\ Stored[f] \in Places
  BY DEF PlacesAreSound, Places
<1>6. UnwrittenIsNowhere
  BY <1>1, <1>4 DEF Init, UnwrittenIsNowhere, NewTask, Nothing
<1>7. WritersHold /\ WritersStraddle
  BY DEF Init, WritersHold, WritersStraddle
<1>8. CompleteBackupsAreKept /\ ListedBackupsStayListed
  BY <1>4, <1>5 DEF Init, CompleteBackupsAreKept, ListedBackupsStayListed,
                    PlacesAreSound, Places
<1>9. \A m \in Migrations : MigInv(m)
  BY <1>1 DEF Init, NewTask, Moving, Cancellable, MigInv, SourcesStand, ListedIsMoved,
              PlacedIsTrue, Doomed, TargetAsBefore, Undecided, CancelIsOwn
<1>10. QED
  BY <1>2, <1>3, <1>6, <1>7, <1>8, <1>9 DEF IInv

----------------------------------------------------------------------------
(* Frames                                                                  *)

\* Little is said of a migration that is not active.
LEMMA IdleIInv ==
    ASSUME NEW n \in Migrations, MigInv(n), Idle(n), mig'[n] = mig[n],
           n \notin active', n \in asked => n \in asked', n \in owed' => n \in owed
    PROVE  MigInv(n)'
BY DEF Idle, Moving, Cancellable, MigInv, SourcesStand, ListedIsMoved,
       PlacedIsTrue, Doomed, TargetAsBefore, Undecided, CancelIsOwn

\* A step that changes only the locals of the active migration.
LEMMA StepIInv ==
    ASSUME IInv, NEW m \in Migrations, ~Idle(m),
           mig' \in [Migrations -> Task],
           \A n \in Migrations : n # m => mig'[n] = mig[n],
           mig'[m].at \notin {"idle", "lower", "over"},
           \A f \in Files : mig'[m].files[f] # "absent" =>
               mig[m].files[f] # "absent" \/ \E p \in Places : disk[p][f] # "absent",
           UNCHANGED <<disks, guard, writers, history>>,
           faults' \in 0 .. MaxFaults,
           MigInv(m)'
    PROVE  IInv'
<1> USE DEF disks, guard, writers, history
<1>1. TypeOK'
  BY DEF IInv, TypeOK
<1>2. OneActive'
  BY DEF IInv, OneActive, Idle
<1>3. UnwrittenIsNowhere'
  <2>1. ASSUME NEW f \in Files, writer[f] \in {"idle", "resolve", "create"},
               NEW n \in Migrations
        PROVE  mig'[n].files[f] = "absent"
    BY <2>1 DEF IInv, UnwrittenIsNowhere
  <2>2. QED
    BY <2>1 DEF IInv, UnwrittenIsNowhere
<1>4. WritersHold' /\ WritersStraddle'
  BY DEF IInv, WritersHold, WritersStraddle, Busy
<1>5. CompleteBackupsAreKept' /\ ListedBackupsStayListed'
  BY DEF IInv, CompleteBackupsAreKept, ListedBackupsStayListed
<1>6. \A n \in Migrations : n # m => MigInv(n)'
  <2>1. ASSUME NEW n \in Migrations, n # m PROVE Idle(n) /\ n \notin active'
    BY <2>1 DEF IInv, OneActive
  <2>2. QED
    BY <2>1, IdleIInv DEF IInv
<1>7. QED
  BY <1>1, <1>2, <1>3, <1>4, <1>5, <1>6 DEF IInv

\* A fault leaves the count of faults in its bound.
LEMMA FaultTyped == ASSUME PlacesAreSound, TypeOK, Fault PROVE faults' \in 0 .. MaxFaults
BY DEF PlacesAreSound, TypeOK, Fault

\* A return: an error only as long as nothing has been placed, a cancel only
\* of a flag that is up.
LEMMA ReturnIInv ==
    ASSUME IInv, NEW m \in Migrations, ~Idle(m),
           NEW r \in {"ok", "failed", "cancelled"}, Return(m, r),
           mig[m].doomed = {},
           r # "ok" => /\ mig[m].placed = {}
                       /\ mig[m].at \in {"validate", "plain"} \union Moving,
           r = "cancelled" => cancel,
           UNCHANGED <<disks, guard, writers, history>>,
           faults' \in 0 .. MaxFaults
    PROVE  IInv'
<1>1. mig[m] \in Task /\ mig \in [Migrations -> Task]
  BY DEF IInv, TypeOK
<1>2. /\ mig'[m].at = "unlock" /\ mig'[m].result = r
      /\ mig'[m].doomed = {}
      /\ mig'[m].target = mig[m].target /\ mig'[m].placed = mig[m].placed
      /\ mig'[m].before = mig[m].before /\ mig'[m].files = mig[m].files
      /\ \A n \in Migrations : n # m => mig'[n] = mig[n]
  BY <1>1 DEF Return, Goto, Task
<1>3. mig' \in [Migrations -> Task]
  <2>1. "unlock" \in Phase /\ Nothing \in Copies
    BY DEF Phase, Nothing, Copies, Content
  <2>2. [mig[m] EXCEPT !.at = "unlock", !.result = r, !.staged = Nothing] \in Task
    BY <1>1, <2>1 DEF Task
  <2>3. QED
    BY <1>1, <2>2 DEF Return, Goto
<1>4. MigInv(m)'
  <2>1. SourcesStand(m)' /\ ListedIsMoved(m)' /\ PlacedIsTrue(m)' /\ Doomed(m)'
    BY <1>2 DEF SourcesStand, ListedIsMoved, PlacedIsTrue, Doomed, Moving
  <2>2. TargetAsBefore(m)'
    BY <1>2 DEF IInv, MigInv, TargetAsBefore, Undecided, Moving, disks,
                history
  <2>3. CancelIsOwn(m)'
    BY <1>2 DEF IInv, OneActive, MigInv, CancelIsOwn, guard, history, Cancellable
  <2>4. QED
    BY <2>1, <2>2, <2>3 DEF MigInv
<1>5. QED
  BY <1>2, <1>3, <1>4, StepIInv

----------------------------------------------------------------------------
(* The scan                                                                *)

LEMMA ValidateIInv ==
    ASSUME PlacesAreSound, IInv, NEW m \in Migrations, Validate(m)
    PROVE  IInv'
<1>1. mig[m] \in Task /\ mig \in [Migrations -> Task] /\ faults' \in 0 .. MaxFaults
  BY DEF IInv, TypeOK, Validate
<1>2. ~Idle(m) /\ Undecided(m) /\ mig[m].doomed = {}
  BY DEF IInv, MigInv, Doomed, Idle, Undecided, Validate
<1>3. CASE Return(m, "ok")
  BY <1>1, <1>2, <1>3, ReturnIInv DEF Validate
<1>4. CASE mig[m].target # root
  <2> DEFINE at == IF mig[m].keep THEN "scan" ELSE "plain"
  <2>1. mig' = [mig EXCEPT ![m] = [mig[m] EXCEPT !.at = at, !.todo = Files]]
    BY <1>4 DEF Validate, Goto
  <2>2. /\ mig' \in [Migrations -> Task]
        /\ \A n \in Migrations : n # m => mig'[n] = mig[n]
        /\ mig'[m] = [mig[m] EXCEPT !.at = at, !.todo = Files]
    BY <1>1, <2>1 DEF Task, Phase, Cancellable
  <2>3. /\ mig'[m].at = at /\ mig'[m].todo = Files
        /\ mig'[m].keep = mig[m].keep /\ mig'[m].result = mig[m].result
        /\ mig'[m].target = mig[m].target /\ mig'[m].files = mig[m].files
        /\ mig'[m].placed = mig[m].placed /\ mig'[m].before = mig[m].before
        /\ mig'[m].doomed = mig[m].doomed
    BY <1>1, <2>2 DEF Task
  <2> HIDE <2>1 DEF at
  <2>4. at \in {"scan", "plain"} /\ (at = "plain" => ~mig[m].keep)
    BY DEF at
  <2>5. Found(m) = {} /\ Found(m)' = {}
    BY <2>3 DEF IInv, MigInv, SourcesStand, Found, Validate
  <2>6. SourcesStand(m)' /\ PlacedIsTrue(m)' /\ Doomed(m)'
    BY <1>2, <1>4, <2>3, <2>4, <2>5
    DEF SourcesStand, PlacedIsTrue, Doomed, Moving, Validate, disks
  <2>7. ListedIsMoved(m)'
    BY <2>3, <2>4 DEF IInv, TypeOK, ListedIsMoved, Moving, Validate, history
  <2>8. TargetAsBefore(m)'
    BY <1>2, <2>3, <2>4
    DEF IInv, MigInv, TargetAsBefore, Undecided, Moving, Validate, disks, history
  <2>9. CancelIsOwn(m)'
    BY <2>3, <2>4
    DEF IInv, MigInv, CancelIsOwn, Cancellable, Validate, guard, history
  <2>10. MigInv(m)'
    BY <2>6, <2>7, <2>8, <2>9 DEF MigInv
  <2>11. mig'[m].at \notin {"idle", "lower", "over"}
    BY <2>3, <2>4
  <2>12. QED
    BY <1>1, <1>2, <2>2, <2>3, <2>10, <2>11, StepIInv DEF Validate
<1>5. QED
  BY <1>3, <1>4 DEF Validate

\* A backup the user sees is found in the directory, whole.
LEMMA ScanIInv ==
    ASSUME PlacesAreSound, IInv, NEW m \in Migrations, NEW f \in Files, Scan(m, f)
    PROVE  IInv'
<1>1. mig[m] \in Task /\ mig \in [Migrations -> Task] /\ faults' \in 0 .. MaxFaults
  BY FaultTyped DEF IInv, TypeOK, Scan
<1>2. /\ mig[m].at = "scan" /\ ~Idle(m) /\ mig[m].doomed = {} /\ mig[m].placed = {}
      /\ mig[m].at \in Moving
  BY DEF IInv, MigInv, Doomed, TargetAsBefore, Idle, Undecided, Moving, Scan
<1>3. CASE cancel /\ Return(m, "cancelled")
  BY <1>1, <1>2, <1>3, ReturnIInv DEF Scan
<1>4. CASE Return(m, "failed")
  BY <1>1, <1>2, <1>4, ReturnIInv DEF Scan
<1>5. CASE /\ ~cancel
           /\ Goto(m, [mig[m] EXCEPT !.todo = @ \ {f}, !.from[f] = Source(f),
                                     !.files[f] = disk[Source(f)][f]])
  <2>1. Source(f) \in {root, Legacy} /\ Source(f) \in Places
    BY DEF IInv, TypeOK, Source, Places
  <2>2. disk[Source(f)][f] \in Content /\ disk[root][f] \in Content
    BY <2>1 DEF IInv, TypeOK, Copies, Places
  <2> DEFINE task == [mig[m] EXCEPT !.todo = @ \ {f}, !.from[f] = Source(f),
                                    !.files[f] = disk[Source(f)][f]]
  <2>3. task \in Task
    BY <1>1, <2>1, <2>2 DEF Task, Copies
  <2>4. /\ mig' \in [Migrations -> Task]
        /\ \A n \in Migrations : n # m => mig'[n] = mig[n]
        /\ mig'[m] = task
    BY <1>1, <1>5, <2>3 DEF Goto
  <2>5. /\ task.at = "scan" /\ task.todo = mig[m].todo \ {f}
        /\ task.result = mig[m].result /\ task.keep = mig[m].keep
        /\ task.target = mig[m].target
        /\ task.placed = mig[m].placed /\ task.before = mig[m].before
        /\ task.doomed = mig[m].doomed
        /\ task.files[f] = disk[Source(f)][f] /\ task.from[f] = Source(f)
        /\ \A g \in Files : g # f => task.files[g] = mig[m].files[g]
                                     /\ task.from[g] = mig[m].from[g]
    BY <1>1, <1>2 DEF Task, Copies
  <2> HIDE DEF task
  <2>6. SourcesStand(m)'
    BY <1>2, <2>1, <2>4, <2>5
    DEF IInv, MigInv, SourcesStand, Found, Moving, Scan, disks
  <2>7. ListedIsMoved(m)'
    <3>1. f \in listed => task.files[f] = "whole"
      BY <2>5 DEF IInv, ListedBackupsStayListed, Source
    <3>2. QED
      BY <1>2, <2>4, <2>5, <3>1
      DEF IInv, TypeOK, MigInv, ListedIsMoved, Scan, history
  <2>8. PlacedIsTrue(m)' /\ Doomed(m)'
    BY <1>2, <2>4, <2>5 DEF PlacedIsTrue, Doomed
  <2>9. TargetAsBefore(m)'
    BY <1>2, <2>4, <2>5
    DEF IInv, MigInv, TargetAsBefore, Undecided, Scan, disks, history
  <2>10. CancelIsOwn(m)'
    BY <1>2, <2>4, <2>5
    DEF IInv, MigInv, CancelIsOwn, Scan, guard, history
  <2>11. MigInv(m)'
    BY <2>6, <2>7, <2>8, <2>9, <2>10 DEF MigInv
  <2>12. \A g \in Files : mig'[m].files[g] # "absent" =>
           mig[m].files[g] # "absent" \/ \E p \in Places : disk[p][g] # "absent"
    BY <2>1, <2>4, <2>5
  <2>13. mig'[m].at \notin {"idle", "lower", "over"}
    BY <2>4, <2>5
  <2>14. QED
    BY <1>1, <1>2, <2>4, <2>11, <2>12, <2>13, StepIInv DEF Scan
<1>6. QED
  BY <1>3, <1>4, <1>5 DEF Scan

----------------------------------------------------------------------------
(* Copying                                                                 *)

\* What the locals of two states of a migration have in common, when only
\* its phase, the rest of its loop and its staging directory differ.
SameManifest(t, u) ==
    /\ t.target = u.target /\ t.keep = u.keep /\ t.before = u.before
    /\ t.files = u.files /\ t.from = u.from /\ t.placed = u.placed
    /\ t.doomed = u.doomed /\ t.result = u.result

\* Going on between the scan and the renames, past the last cancel only when
\* the flag is down, and to the renames only with true copies.
LEMMA AdvanceIInv ==
    ASSUME IInv, NEW m \in Migrations,
           mig' \in [Migrations -> Task],
           \A n \in Migrations : n # m => mig'[n] = mig[n],
           SameManifest(mig'[m], mig[m]),
           mig[m].at \in {"scan", "start", "copy", "verify"},
           mig[m].at = "scan" => mig[m].todo = {},
           mig'[m].at \in {"start", "copy", "verify", "place"},
           mig'[m].at \notin Cancellable => ~cancel \/ mig[m].at = "verify",
           mig'[m].at = "place" => /\ mig'[m].todo = Found(m)
                                   /\ mig'[m].staged = mig[m].files,
           UNCHANGED <<disks, guard, writers, history>>,
           faults' \in 0 .. MaxFaults
    PROVE  IInv'
<1> USE DEF SameManifest
<1>1. /\ ~Idle(m) /\ mig[m].doomed = {} /\ mig[m].placed = {}
      /\ mig[m].at \in Moving /\ mig'[m].at \in Moving
  BY DEF IInv, MigInv, Doomed, TargetAsBefore, Idle, Undecided, Moving
<1>2. Found(m)' = Found(m)
  BY DEF Found
<1>3. SourcesStand(m)'
  BY <1>1, <1>2 DEF IInv, MigInv, SourcesStand, Moving, disks
<1>4. ListedIsMoved(m)'
  BY <1>1 DEF IInv, MigInv, ListedIsMoved, history
<1>5. PlacedIsTrue(m)' /\ Doomed(m)'
  BY <1>1, <1>2 DEF PlacedIsTrue, Doomed
<1>6. TargetAsBefore(m)'
  BY <1>1 DEF IInv, MigInv, TargetAsBefore, Undecided, Moving, disks, history
<1>7. CancelIsOwn(m)'
  BY <1>1 DEF IInv, MigInv, CancelIsOwn, Cancellable, guard, history
<1>8. MigInv(m)'
  BY <1>3, <1>4, <1>5, <1>6, <1>7 DEF MigInv
<1>9. mig'[m].at \notin {"idle", "lower", "over"}
  OBVIOUS
<1>10. \A f \in Files : mig'[m].files[f] # "absent" => mig[m].files[f] # "absent"
  OBVIOUS
<1> HIDE DEF SameManifest
<1>11. QED
  BY <1>1, <1>8, <1>9, <1>10, StepIInv

\* Any of these phases may end in an error, and before the last copy by a cancel.
LEMMA GiveUpIInv ==
    ASSUME IInv, NEW m \in Migrations,
           mig[m].at \in {"validate", "plain", "scan", "start", "copy", "verify"},
           NEW r \in {"failed", "cancelled"}, Return(m, r), r = "cancelled" => cancel,
           UNCHANGED <<disks, guard, writers, history>>,
           faults' \in 0 .. MaxFaults
    PROVE  IInv'
<1>1. /\ ~Idle(m) /\ mig[m].doomed = {} /\ mig[m].placed = {}
      /\ mig[m].at \in {"validate", "plain"} \union Moving
  BY DEF IInv, MigInv, Doomed, TargetAsBefore, Idle, Undecided, Moving
<1>2. QED
  BY <1>1, ReturnIInv

LEMMA CopyingIInv ==
    ASSUME PlacesAreSound, IInv, NEW m \in Migrations,
           \/ CheckTarget(m) \/ Start(m) \/ LastCancel(m) \/ Verify(m)
           \/ \E f \in Files : Copy(m, f)
    PROVE  IInv'
<1>1. mig[m] \in Task /\ mig \in [Migrations -> Task] /\ Found(m) \in SUBSET Files
  BY DEF IInv, TypeOK, Found
<1>2. /\ faults' \in 0 .. MaxFaults
      /\ UNCHANGED <<disks, guard, writers, history>>
  BY FaultTyped DEF IInv, TypeOK, CheckTarget, Start, Copy, LastCancel, Verify
<1>3. {"start", "copy", "verify", "place"} \subseteq Phase
  BY DEF Phase, Cancellable
<1>4. CASE CheckTarget(m)
  <2>1. CASE Return(m, "failed")
    BY <1>2, <1>4, <2>1, GiveUpIInv DEF CheckTarget
  <2>2. CASE Goto(m, [mig[m] EXCEPT !.at = "start"])
    <3>1. [mig[m] EXCEPT !.at = "start"] \in Task
      BY <1>1, <1>3 DEF Task
    <3>2. /\ mig' \in [Migrations -> Task]
          /\ \A n \in Migrations : n # m => mig'[n] = mig[n]
          /\ SameManifest(mig'[m], mig[m]) /\ mig'[m].at = "start"
      BY <1>1, <2>2, <3>1 DEF Goto, Task, SameManifest
    <3>3. QED
      BY <1>2, <1>4, <3>2, AdvanceIInv DEF CheckTarget, Cancellable
  <2>3. QED
    BY <1>4, <2>1, <2>2 DEF CheckTarget
<1>5. CASE Start(m)
  <2>1. CASE (cancel /\ Return(m, "cancelled")) \/ Return(m, "failed")
    BY <1>2, <1>5, <2>1, GiveUpIInv DEF Start
  <2>2. CASE ~cancel /\ Goto(m, [mig[m] EXCEPT !.at = "copy", !.todo = Found(m)])
    <3>1. [mig[m] EXCEPT !.at = "copy", !.todo = Found(m)] \in Task
      BY <1>1, <1>3 DEF Task
    <3>2. /\ mig' \in [Migrations -> Task]
          /\ \A n \in Migrations : n # m => mig'[n] = mig[n]
          /\ SameManifest(mig'[m], mig[m]) /\ mig'[m].at = "copy"
      BY <1>1, <2>2, <3>1 DEF Goto, Task, SameManifest
    <3>3. QED
      BY <1>2, <1>5, <3>2, AdvanceIInv DEF Start, Cancellable
  <2>3. QED
    BY <1>5, <2>1, <2>2 DEF Start
<1>6. ASSUME NEW f \in Files, Copy(m, f) PROVE IInv'
  <2> DEFINE read == disk[mig[m].from[f]][f]
  <2>1. CASE (cancel /\ Return(m, "cancelled")) \/ Return(m, "failed")
    BY <1>2, <1>6, <2>1, GiveUpIInv DEF Copy
  <2>2. CASE Goto(m, [mig[m] EXCEPT !.todo = @ \ {f}, !.staged[f] = read])
    <3>1. read \in Content
      BY <1>1 DEF IInv, TypeOK, Copies, Task
    <3> HIDE DEF read
    <3>2. [mig[m] EXCEPT !.todo = @ \ {f}, !.staged[f] = read] \in Task
      BY <1>1, <3>1 DEF Task, Copies
    <3>3. /\ mig' \in [Migrations -> Task]
          /\ \A n \in Migrations : n # m => mig'[n] = mig[n]
          /\ SameManifest(mig'[m], mig[m]) /\ mig'[m].at = mig[m].at
      BY <1>1, <2>2, <3>2 DEF Goto, Task, SameManifest
    <3>4. QED
      BY <1>2, <1>6, <3>3, AdvanceIInv DEF Copy, Cancellable
  <2>3. QED
    BY <1>6, <2>1, <2>2 DEF Copy
<1>7. CASE LastCancel(m)
  <2>1. CASE cancel /\ Return(m, "cancelled")
    BY <1>2, <1>7, <2>1, GiveUpIInv DEF LastCancel
  <2>2. CASE ~cancel /\ Goto(m, [mig[m] EXCEPT !.at = "verify"])
    <3>1. [mig[m] EXCEPT !.at = "verify"] \in Task
      BY <1>1, <1>3 DEF Task
    <3>2. /\ mig' \in [Migrations -> Task]
          /\ \A n \in Migrations : n # m => mig'[n] = mig[n]
          /\ SameManifest(mig'[m], mig[m]) /\ mig'[m].at = "verify"
      BY <1>1, <2>2, <3>1 DEF Goto, Task, SameManifest
    <3>3. QED
      BY <1>2, <1>7, <2>2, <3>2, AdvanceIInv DEF LastCancel
  <2>3. QED
    BY <1>7, <2>1, <2>2 DEF LastCancel
<1>8. CASE Verify(m)
  <2>1. CASE Return(m, "failed")
    BY <1>2, <1>8, <2>1, GiveUpIInv DEF Verify
  <2>2. CASE /\ mig[m].staged = mig[m].files
             /\ Goto(m, [mig[m] EXCEPT !.at = "place", !.todo = Found(m)])
    <3>1. [mig[m] EXCEPT !.at = "place", !.todo = Found(m)] \in Task
      BY <1>1, <1>3 DEF Task
    <3>2. /\ mig' \in [Migrations -> Task]
          /\ \A n \in Migrations : n # m => mig'[n] = mig[n]
          /\ SameManifest(mig'[m], mig[m]) /\ mig'[m].at = "place"
          /\ mig'[m].todo = Found(m) /\ mig'[m].staged = mig[m].files
      BY <1>1, <2>2, <3>1 DEF Goto, Task, SameManifest
    <3>3. QED
      BY <1>2, <1>8, <3>2, AdvanceIInv DEF Verify
  <2>3. QED
    BY <1>8, <2>1, <2>2 DEF Verify
<1>9. QED
  BY <1>4, <1>5, <1>6, <1>7, <1>8

----------------------------------------------------------------------------
(* Switching                                                               *)

\* The disk d with one file of one place written or removed.
Put(d, p, f, x) == [d EXCEPT ![p][f] = x]

LEMMA PutTyped ==
    ASSUME NEW d \in [Places -> Copies], NEW p \in Places, NEW f \in Files,
           NEW x \in Content
    PROVE  /\ Put(d, p, f, x) \in [Places -> Copies]
           /\ \A q \in Places, g \in Files :
                 Put(d, p, f, x)[q][g] = IF q = p /\ g = f THEN x ELSE d[q][g]
<1> DEFINE e == [d EXCEPT ![p] = [d[p] EXCEPT ![f] = x]]
<1>1. d \in [Places -> [Files -> Content]]
  BY DEF Copies
<1>2. [d[p] EXCEPT ![f] = x] \in [Files -> Content]
  BY <1>1
<1>3. e \in [Places -> Copies]
  BY <1>1, <1>2 DEF Copies
<1>4. \A q \in Places, g \in Files : e[q][g] = IF q = p /\ g = f THEN x ELSE d[q][g]
  BY <1>1
<1>5. Put(d, p, f, x) = e
  BY DEF Put
<1>6. QED
  BY <1>3, <1>4, <1>5

\* The configuration alone: what the user sees is what is there.
LEMMA SwitchOnlyIInv ==
    ASSUME PlacesAreSound, IInv, NEW m \in Migrations, SwitchOnly(m)
    PROVE  IInv'
<1>1. mig[m] \in Task /\ mig \in [Migrations -> Task] /\ mig[m].at = "plain"
  BY DEF IInv, TypeOK, SwitchOnly
<1>2. ~Idle(m) /\ mig[m].doomed = {}
  BY <1>1 DEF IInv, MigInv, Doomed, Idle
<1>3. CASE Fault /\ Return(m, "failed") /\ UNCHANGED <<root, listed>>
  <2>1. UNCHANGED <<disks, guard, writers, history>> /\ faults' \in 0 .. MaxFaults
    BY <1>3, FaultTyped DEF IInv, SwitchOnly, disks, history
  <2>2. QED
    BY <1>1, <1>3, <2>1, GiveUpIInv
<1>4. CASE /\ root' = mig[m].target
           /\ listed' = {f \in Files : disk[root'][f] = "whole"}
           /\ Return(m, "ok")
           /\ UNCHANGED faults
  <2>1. UNCHANGED <<disk, active, cancel, writer, into, straddling, overtaken, asked, owed>>
    BY DEF SwitchOnly, guard, writers
  <2>2. [mig[m] EXCEPT !.at = "unlock", !.result = "ok", !.staged = Nothing] \in Task
    BY <1>1 DEF Task, Phase, Nothing, Copies, Content
  <2>3. /\ mig' \in [Migrations -> Task]
        /\ \A n \in Migrations : n # m => mig'[n] = mig[n]
        /\ mig'[m].at = "unlock" /\ mig'[m].result = "ok"
        /\ mig'[m].doomed = {} /\ mig'[m].files = mig[m].files
    BY <1>1, <1>2, <1>4, <2>2 DEF Return, Goto, Task
  <2>4. TypeOK'
    BY <1>1, <1>4, <2>1, <2>3 DEF IInv, TypeOK, Task
  <2>5. OneActive'
    BY <1>2, <2>1, <2>3 DEF IInv, OneActive, Idle
  <2>6. UnwrittenIsNowhere'
    BY <2>1, <2>3 DEF IInv, UnwrittenIsNowhere
  <2>7. WritersHold' /\ WritersStraddle' /\ CompleteBackupsAreKept'
    BY <2>1 DEF IInv, WritersHold, WritersStraddle, Busy, CompleteBackupsAreKept
  <2>8. ListedBackupsStayListed'
    BY <1>4, <2>1 DEF ListedBackupsStayListed
  <2>9. MigInv(m)'
    BY <1>2, <2>1, <2>3
    DEF IInv, OneActive, MigInv, SourcesStand, ListedIsMoved, PlacedIsTrue, Doomed,
        TargetAsBefore, Undecided, CancelIsOwn, Moving, Cancellable
  <2>10. \A n \in Migrations : n # m => MigInv(n)'
    BY <1>2, <2>1, <2>3, IdleIInv DEF IInv, OneActive
  <2>11. QED
    BY <2>4, <2>5, <2>6, <2>7, <2>8, <2>9, <2>10 DEF IInv
<1>5. QED
  BY <1>3, <1>4 DEF SwitchOnly

\* A rename puts a true copy where nothing was, and no writer is.
LEMMA PlaceIInv ==
    ASSUME PlacesAreSound, IInv, NEW m \in Migrations, NEW f \in Files, Place(m, f)
    PROVE  IInv'
<1> DEFINE target == mig[m].target
<1>1. /\ mig[m] \in Task /\ mig \in [Migrations -> Task] /\ mig[m].at = "place"
      /\ f \in mig[m].todo
  BY DEF IInv, TypeOK, Place
<1>2. ~Idle(m) /\ mig[m].doomed = {} /\ mig[m].at \in Moving
  BY <1>1 DEF IInv, MigInv, Doomed, Idle, Moving
<1>3. UNCHANGED <<root, active, cancel, writer, into, listed, straddling, overtaken,
                  asked, owed>>
  BY DEF Place, guard, writers, history
<1>4. CASE /\ (disk[target][f] # "absent" /\ UNCHANGED faults) \/ Fault
           /\ Goto(m, [mig[m] EXCEPT !.at = "rollback"])
           /\ UNCHANGED disk
  <2>1. [mig[m] EXCEPT !.at = "rollback"] \in Task
    BY <1>1 DEF Task, Phase
  <2>2. /\ mig' \in [Migrations -> Task]
        /\ \A n \in Migrations : n # m => mig'[n] = mig[n]
        /\ SameManifest(mig'[m], mig[m]) /\ mig'[m].at = "rollback"
    BY <1>1, <1>4, <2>1 DEF Goto, Task, SameManifest
  <2>3. MigInv(m)'
    <3>1. SourcesStand(m)' /\ ListedIsMoved(m)'
      BY <1>1, <1>2, <1>3, <1>4, <2>2
      DEF IInv, MigInv, SourcesStand, ListedIsMoved, Found, Nothing, Moving, SameManifest
    <3>2. PlacedIsTrue(m)' /\ Doomed(m)'
      BY <1>1, <1>2, <1>3, <1>4, <2>2
      DEF IInv, MigInv, PlacedIsTrue, Doomed, Found, Nothing, SameManifest
    <3>3. TargetAsBefore(m)'
      BY <1>1, <1>2, <1>3, <1>4, <2>2
      DEF IInv, MigInv, TargetAsBefore, Undecided, Moving, SameManifest
    <3>4. CancelIsOwn(m)'
      BY <1>1, <1>2, <1>3, <1>4, <2>2
      DEF IInv, MigInv, CancelIsOwn, Cancellable, Moving, SameManifest
    <3>5. QED
      BY <3>1, <3>2, <3>3, <3>4 DEF MigInv
  <2>4. UNCHANGED <<disks, guard, writers, history>> /\ faults' \in 0 .. MaxFaults
    BY <1>3, <1>4, FaultTyped DEF IInv, TypeOK, disks, guard, writers, history
  <2>5. \A g \in Files : mig'[m].files[g] # "absent" => mig[m].files[g] # "absent"
    BY <2>2 DEF SameManifest
  <2>6. mig'[m].at \notin {"idle", "lower", "over"}
    BY <2>2
  <2>7. QED
    BY <1>2, <2>2, <2>3, <2>4, <2>5, <2>6, StepIInv
<1>5. CASE /\ disk[target][f] = "absent"
           /\ disk' = [disk EXCEPT ![target][f] = mig[m].staged[f]]
           /\ Goto(m, [mig[m] EXCEPT !.todo = @ \ {f}, !.staged[f] = "absent",
                                     !.placed = @ \union {f}])
           /\ UNCHANGED faults
  <2>1. target \in Roots /\ target \in Places /\ mig[m].staged[f] \in Content
    BY <1>1 DEF Task, Places, Copies
  <2>2. /\ mig[m].staged[f] = mig[m].files[f] /\ mig[m].files[f] # "absent"
        /\ f \in Found(m)
    BY <1>1 DEF IInv, MigInv, PlacedIsTrue, Found
  <2>3. /\ disk' \in [Places -> Copies]
        /\ \A q \in Places, g \in Files :
              disk'[q][g] = IF q = target /\ g = f THEN mig[m].files[f] ELSE disk[q][g]
    <3>1. disk' = Put(disk, target, f, mig[m].files[f])
      BY <1>5, <2>2 DEF Put
    <3>2. QED
      BY <2>1, <2>2, <3>1, PutTyped DEF IInv, TypeOK
  <2> DEFINE task == [mig[m] EXCEPT !.todo = @ \ {f}, !.staged[f] = "absent",
                                    !.placed = @ \union {f}]
  <2>4. task \in Task
    BY <1>1 DEF Task, Copies, Content
  <2>5. /\ mig' \in [Migrations -> Task]
        /\ \A n \in Migrations : n # m => mig'[n] = mig[n]
        /\ mig'[m] = task
    BY <1>1, <1>5, <2>4 DEF Goto
  <2>6. /\ task.at = "place" /\ task.target = target
        /\ task.todo = mig[m].todo \ {f} /\ task.placed = mig[m].placed \union {f}
        /\ task.before = mig[m].before /\ task.files = mig[m].files
        /\ task.from = mig[m].from /\ task.doomed = {} /\ task.result = mig[m].result
        /\ task.keep = mig[m].keep
        /\ \A g \in Files : g # f => task.staged[g] = mig[m].staged[g]
    BY <1>1, <1>2 DEF Task, Copies
  <2> HIDE DEF task
  <2>7. Found(m)' = Found(m)
    BY <2>5, <2>6 DEF Found
  <2>8. \A g \in Found(m) : mig[m].from[g] # target /\ mig[m].from[g] \in Places
    BY <1>1, <1>2, <2>1
    DEF IInv, TypeOK, MigInv, SourcesStand, PlacesAreSound, Places
  <2>9. TypeOK'
    BY <1>3, <1>5, <2>3, <2>5 DEF IInv, TypeOK
  <2>10. OneActive'
    BY <1>2, <1>3, <2>5, <2>6 DEF IInv, OneActive, Idle
  <2>11. writer[f] \notin {"idle", "resolve", "create"}
    BY <2>2 DEF IInv, UnwrittenIsNowhere
  <2>12. UnwrittenIsNowhere'
    BY <1>3, <2>3, <2>5, <2>6, <2>11 DEF IInv, UnwrittenIsNowhere
  <2>13. \A g \in Files : into[g] \in Places
    BY DEF IInv, TypeOK, Places
  <2>14. WritersHold' /\ WritersStraddle'
    BY <1>3, <2>2, <2>3, <2>13 DEF IInv, WritersHold, WritersStraddle, Busy
  <2>15. CompleteBackupsAreKept'
    BY <1>3, <1>5, <2>3 DEF IInv, CompleteBackupsAreKept
  <2>16. ListedBackupsStayListed'
    BY <1>2, <1>3, <2>3
    DEF IInv, TypeOK, MigInv, SourcesStand, ListedBackupsStayListed, Places
  <2>17. SourcesStand(m)' /\ ListedIsMoved(m)'
    BY <1>1, <1>2, <1>3, <2>3, <2>5, <2>6, <2>7, <2>8
    DEF IInv, MigInv, SourcesStand, ListedIsMoved, Found
  <2>18. PlacedIsTrue(m)'
    <3>1. writer[f] = "write" => into[f] # target
      BY <1>5 DEF IInv, WritersHold
    <3>2. \A g \in mig[m].placed : g \in Files
      BY <1>1 DEF Task
    <3>3. QED
      BY <1>1, <1>3, <2>1, <2>2, <2>3, <2>5, <2>6, <2>7, <3>1, <3>2
      DEF IInv, MigInv, PlacedIsTrue, Found
  <2>19. Doomed(m)'
    BY <2>5, <2>6 DEF Doomed
  <2>20. TargetAsBefore(m)'
    BY <1>1, <1>2, <1>3, <1>5, <2>1, <2>3, <2>5, <2>6
    DEF IInv, MigInv, TargetAsBefore, Undecided
  <2>21. CancelIsOwn(m)'
    BY <1>1, <1>3, <2>5, <2>6 DEF IInv, MigInv, CancelIsOwn
  <2>22. MigInv(m)'
    BY <2>17, <2>18, <2>19, <2>20, <2>21 DEF MigInv
  <2>23. \A n \in Migrations : n # m => MigInv(n)'
    BY <1>2, <1>3, <2>5, IdleIInv DEF IInv, OneActive
  <2>24. QED
    BY <2>9, <2>10, <2>12, <2>14, <2>15, <2>16, <2>22, <2>23 DEF IInv
<1>6. QED
  BY <1>4, <1>5 DEF Place

\* What is taken back from the target is still at its source.
LEMMA RollbackIInv ==
    ASSUME PlacesAreSound, IInv, NEW m \in Migrations, NEW f \in Files, Rollback(m, f)
    PROVE  IInv'
<1> DEFINE target == mig[m].target
<1>1. /\ mig[m] \in Task /\ mig \in [Migrations -> Task] /\ mig[m].at = "rollback"
      /\ f \in mig[m].placed /\ target \in Roots /\ target \in Places
  BY DEF IInv, TypeOK, Rollback, Task, Places
<1>2. ~Idle(m) /\ mig[m].doomed = {} /\ mig[m].at \in Moving
  BY <1>1 DEF IInv, MigInv, Doomed, Idle, Moving
<1>3. UNCHANGED <<root, active, cancel, writer, into, listed, straddling, overtaken,
                  asked, owed>>
  BY DEF Rollback, guard, writers, history
<1>4. disk[target][f] \in Content
  BY <1>1 DEF IInv, TypeOK, Copies
<1>5. CASE /\ Fault
           /\ Goto(m, [mig[m] EXCEPT !.placed = @ \ {f}, !.before[f] = disk[target][f]])
           /\ UNCHANGED disk
  <2> DEFINE task == [mig[m] EXCEPT !.placed = @ \ {f}, !.before[f] = disk[target][f]]
  <2>1. task \in Task
    BY <1>1, <1>4 DEF Task, Copies
  <2>2. /\ mig' \in [Migrations -> Task]
        /\ \A n \in Migrations : n # m => mig'[n] = mig[n]
        /\ mig'[m] = task
    BY <1>1, <1>5, <2>1 DEF Goto
  <2>3. /\ task.at = "rollback" /\ task.target = target
        /\ task.placed = mig[m].placed \ {f} /\ task.before[f] = disk[target][f]
        /\ \A g \in Files : g # f => task.before[g] = mig[m].before[g]
        /\ task.files = mig[m].files /\ task.from = mig[m].from /\ task.doomed = {}
        /\ task.result = mig[m].result /\ task.keep = mig[m].keep
    BY <1>1, <1>2 DEF Task, Copies
  <2> HIDE DEF task
  <2>4. SourcesStand(m)' /\ ListedIsMoved(m)' /\ PlacedIsTrue(m)' /\ Doomed(m)'
    <3>1. PlacedIsTrue(m) /\ SourcesStand(m) /\ ListedIsMoved(m)
      BY DEF IInv, MigInv
    <3>2. Found(m)' = Found(m)
      BY <2>2, <2>3 DEF Found
    <3>3. Doomed(m)'
      BY <2>2, <2>3 DEF Doomed
    <3>4. SourcesStand(m)'
      BY <1>1, <1>2, <1>3, <1>5, <2>2, <2>3, <3>1, <3>2 DEF SourcesStand, Moving
    <3>5. ListedIsMoved(m)'
      BY <1>1, <1>2, <1>3, <2>2, <2>3, <3>1 DEF ListedIsMoved, Moving
    <3>6. PlacedIsTrue(m)'
      BY <1>1, <1>3, <1>5, <2>2, <2>3, <3>1, <3>2 DEF PlacedIsTrue
    <3>7. QED
      BY <3>3, <3>4, <3>5, <3>6
  <2>5. TargetAsBefore(m)' /\ CancelIsOwn(m)'
    BY <1>1, <1>2, <1>3, <1>5, <2>2, <2>3
    DEF IInv, MigInv, TargetAsBefore, Undecided, CancelIsOwn, Moving, Cancellable
  <2>6. UNCHANGED <<disks, guard, writers, history>> /\ faults' \in 0 .. MaxFaults
    BY <1>3, <1>5, FaultTyped DEF IInv, disks, guard, writers, history
  <2>7. mig'[m].at \notin {"idle", "lower", "over"}
    BY <2>2, <2>3
  <2>8. \A g \in Files : mig'[m].files[g] # "absent" => mig[m].files[g] # "absent"
    BY <2>2, <2>3
  <2>9. MigInv(m)'
    BY <2>4, <2>5 DEF MigInv
  <2>10. QED
    BY <1>2, <2>2, <2>6, <2>7, <2>8, <2>9, StepIInv
<1>6. CASE /\ disk' = [disk EXCEPT ![target][f] = "absent"]
           /\ Goto(m, [mig[m] EXCEPT !.placed = @ \ {f}])
           /\ UNCHANGED faults
  <2>1. /\ disk' \in [Places -> Copies]
        /\ \A q \in Places, g \in Files :
              disk'[q][g] = IF q = target /\ g = f THEN "absent" ELSE disk[q][g]
    <3>1. disk' = Put(disk, target, f, "absent") /\ "absent" \in Content
      BY <1>6 DEF Put, Content
    <3>2. QED
      BY <1>1, <3>1, PutTyped DEF IInv, TypeOK
  <2> DEFINE task == [mig[m] EXCEPT !.placed = @ \ {f}]
  <2>2. task \in Task
    BY <1>1 DEF Task
  <2>3. /\ mig' \in [Migrations -> Task]
        /\ \A n \in Migrations : n # m => mig'[n] = mig[n]
        /\ mig'[m] = task
    BY <1>1, <1>6, <2>2 DEF Goto
  <2>4. /\ task.at = "rollback" /\ task.target = target
        /\ task.placed = mig[m].placed \ {f} /\ task.before = mig[m].before
        /\ task.files = mig[m].files /\ task.from = mig[m].from /\ task.doomed = {}
        /\ task.result = mig[m].result /\ task.keep = mig[m].keep
    BY <1>1, <1>2 DEF Task
  <2> HIDE DEF task
  <2>5. Found(m)' = Found(m)
    BY <2>3, <2>4 DEF Found
  <2>6. /\ root # target /\ root \in Places
        /\ \A g \in Found(m) : mig[m].from[g] # target /\ mig[m].from[g] \in Places
    BY <1>1, <1>2
    DEF IInv, TypeOK, MigInv, SourcesStand, PlacesAreSound, Places
  <2>7. /\ f \in Found(m) /\ disk[target][f] = mig[m].files[f]
        /\ writer[f] = "write" => into[f] # target
    BY <1>1 DEF IInv, MigInv, PlacedIsTrue
  <2>8. TypeOK'
    BY <1>3, <1>6, <2>1, <2>3 DEF IInv, TypeOK
  <2>9. OneActive'
    BY <1>2, <1>3, <2>3, <2>4 DEF IInv, OneActive, Idle
  <2>10. UnwrittenIsNowhere'
    BY <1>3, <2>1, <2>3, <2>4 DEF IInv, UnwrittenIsNowhere
  <2>11. \A g \in Files : into[g] \in Places
    BY DEF IInv, TypeOK, Places
  <2>12. WritersHold' /\ WritersStraddle'
    BY <1>3, <2>1, <2>7, <2>11 DEF IInv, WritersHold, WritersStraddle, Busy
  <2>13. CompleteBackupsAreKept'
    <3>1. disk[target][f] = "whole" =>
            /\ mig[m].from[f] \in Places /\ mig[m].from[f] # target
            /\ disk[mig[m].from[f]][f] = "whole"
      BY <1>2, <2>6, <2>7 DEF IInv, MigInv, SourcesStand
    <3>2. \A g \in Files : (\E p \in Places : disk[p][g] = "whole") =>
                            \E p \in Places : disk'[p][g] = "whole"
      BY <2>1, <3>1
    <3>3. QED
      BY <1>3, <3>2 DEF IInv, CompleteBackupsAreKept
  <2>14. ListedBackupsStayListed'
    BY <1>3, <2>1, <2>6 DEF IInv, TypeOK, ListedBackupsStayListed
  <2>15. SourcesStand(m)' /\ ListedIsMoved(m)'
    BY <1>1, <1>2, <1>3, <2>1, <2>3, <2>4, <2>5, <2>6
    DEF IInv, MigInv, SourcesStand, ListedIsMoved, Found
  <2>16. PlacedIsTrue(m)' /\ Doomed(m)'
    <3>1. \A g \in mig[m].placed : g \in Files
      BY <1>1 DEF Task
    <3>2. QED
      BY <1>1, <1>3, <2>1, <2>3, <2>4, <2>5, <3>1
      DEF IInv, MigInv, PlacedIsTrue, Doomed, Found
  <2>17. TargetAsBefore(m)'
    BY <1>1, <1>2, <1>3, <2>1, <2>3, <2>4
    DEF IInv, MigInv, TargetAsBefore, Undecided
  <2>18. CancelIsOwn(m)'
    BY <1>1, <1>3, <2>3, <2>4 DEF IInv, MigInv, CancelIsOwn
  <2>19. MigInv(m)'
    BY <2>15, <2>16, <2>17, <2>18 DEF MigInv
  <2>20. \A n \in Migrations : n # m => MigInv(n)'
    BY <1>2, <1>3, <2>3, IdleIInv DEF IInv, OneActive
  <2>21. QED
    BY <2>8, <2>9, <2>10, <2>12, <2>13, <2>14, <2>19, <2>20 DEF IInv
<1>7. QED
  BY <1>5, <1>6 DEF Rollback

LEMMA RolledBackIInv ==
    ASSUME IInv, NEW m \in Migrations, RolledBack(m)
    PROVE  IInv'
<1>1. /\ ~Idle(m) /\ mig[m].doomed = {} /\ mig[m].placed = {} /\ mig[m].at \in Moving
  BY DEF IInv, MigInv, Doomed, Idle, Moving, RolledBack
<1>2. /\ Return(m, "failed") /\ faults' \in 0 .. MaxFaults
      /\ UNCHANGED <<disks, guard, writers, history>>
  BY DEF IInv, TypeOK, RolledBack
<1>3. QED
  BY <1>1, <1>2, ReturnIInv

\* All that is listed has been placed when the configuration is switched.
LEMMA SwitchIInv ==
    ASSUME PlacesAreSound, IInv, NEW m \in Migrations, Switch(m)
    PROVE  IInv'
<1> DEFINE target == mig[m].target
<1>1. /\ mig[m] \in Task /\ mig \in [Migrations -> Task] /\ mig[m].at = "place"
      /\ mig[m].todo = {} /\ target \in Roots /\ Found(m) \in SUBSET Files
  BY DEF IInv, TypeOK, Switch, Task, Found
<1>2. ~Idle(m) /\ mig[m].doomed = {} /\ mig[m].at \in Moving
  BY <1>1 DEF IInv, MigInv, Doomed, Idle, Moving
<1>3. UNCHANGED <<disk, active, cancel, writer, into, listed, straddling, overtaken,
                  asked, owed>>
  BY DEF Switch, guard, writers, history
<1>4. CASE /\ Fault
           /\ Goto(m, [mig[m] EXCEPT !.at = "rollback"])
           /\ UNCHANGED root
  <2>1. [mig[m] EXCEPT !.at = "rollback"] \in Task
    BY <1>1 DEF Task, Phase
  <2>2. /\ mig' \in [Migrations -> Task]
        /\ \A n \in Migrations : n # m => mig'[n] = mig[n]
        /\ SameManifest(mig'[m], mig[m]) /\ mig'[m].at = "rollback"
    BY <1>1, <1>4, <2>1 DEF Goto, Task, SameManifest
  <2>3. MigInv(m)'
    <3>1. SourcesStand(m)' /\ ListedIsMoved(m)'
      BY <1>1, <1>2, <1>3, <1>4, <2>2
      DEF IInv, MigInv, SourcesStand, ListedIsMoved, Found, Nothing, Moving, SameManifest
    <3>2. PlacedIsTrue(m)' /\ Doomed(m)'
      BY <1>1, <1>2, <1>3, <1>4, <2>2
      DEF IInv, MigInv, PlacedIsTrue, Doomed, Found, Nothing, SameManifest
    <3>3. TargetAsBefore(m)'
      BY <1>1, <1>2, <1>3, <1>4, <2>2
      DEF IInv, MigInv, TargetAsBefore, Undecided, Moving, SameManifest
    <3>4. CancelIsOwn(m)'
      BY <1>1, <1>2, <1>3, <1>4, <2>2
      DEF IInv, MigInv, CancelIsOwn, Cancellable, Moving, SameManifest
    <3>5. QED
      BY <3>1, <3>2, <3>3, <3>4 DEF MigInv
  <2>4. UNCHANGED <<disks, guard, writers, history>> /\ faults' \in 0 .. MaxFaults
    BY <1>3, <1>4, FaultTyped DEF IInv, disks, guard, writers, history
  <2>5. \A g \in Files : mig'[m].files[g] # "absent" => mig[m].files[g] # "absent"
    BY <2>2 DEF SameManifest
  <2>6. mig'[m].at \notin {"idle", "lower", "over"}
    BY <2>2
  <2>7. QED
    BY <1>2, <2>2, <2>3, <2>4, <2>5, <2>6, StepIInv
<1>5. CASE /\ root' = target
           /\ Goto(m, [mig[m] EXCEPT !.at = "clean", !.todo = Found(m)])
           /\ UNCHANGED faults
  <2> DEFINE task == [mig[m] EXCEPT !.at = "clean", !.todo = Found(m)]
  <2>1. task \in Task
    BY <1>1 DEF Task, Phase
  <2>2. /\ mig' \in [Migrations -> Task]
        /\ \A n \in Migrations : n # m => mig'[n] = mig[n]
        /\ mig'[m] = task
    BY <1>1, <1>5, <2>1 DEF Goto
  <2>3. /\ task.at = "clean" /\ task.todo = Found(m) /\ SameManifest(task, mig[m])
    BY <1>1 DEF Task, SameManifest
  <2> HIDE DEF task
  <2>4. Found(m)' = Found(m)
    BY <2>2, <2>3 DEF Found, SameManifest
  <2>5. Found(m) \subseteq mig[m].placed
    BY <1>1 DEF IInv, MigInv, PlacedIsTrue
  <2>6. \A f \in mig[m].placed : disk[target][f] = mig[m].files[f]
    BY <1>1 DEF IInv, MigInv, PlacedIsTrue
  <2>7. \A f \in Found(m) : mig[m].from[f] # target
    BY <1>1, <1>2 DEF IInv, MigInv, SourcesStand, PlacesAreSound
  <2>8. TypeOK'
    BY <1>1, <1>3, <1>5, <2>2 DEF IInv, TypeOK
  <2>9. OneActive'
    BY <1>2, <1>3, <2>2, <2>3 DEF IInv, OneActive, Idle
  <2>10. UnwrittenIsNowhere'
    BY <1>3, <2>2, <2>3 DEF IInv, UnwrittenIsNowhere, SameManifest
  <2>11. WritersHold' /\ WritersStraddle' /\ CompleteBackupsAreKept'
    BY <1>3 DEF IInv, WritersHold, WritersStraddle, Busy, CompleteBackupsAreKept
  <2>12. ListedBackupsStayListed'
    <3>1. \A f \in listed : f \in Files /\ mig[m].files[f] = "whole"
      BY <1>1, <1>2 DEF IInv, TypeOK, MigInv, ListedIsMoved
    <3>2. \A f \in listed : disk[target][f] = "whole"
      BY <2>5, <2>6, <3>1 DEF Found
    <3>3. QED
      BY <1>3, <1>5, <3>2 DEF ListedBackupsStayListed
  <2>13. SourcesStand(m)' /\ ListedIsMoved(m)' /\ Doomed(m)'
    BY <1>2, <1>5, <2>2, <2>3, <2>4, <2>7
    DEF SourcesStand, ListedIsMoved, Doomed, SameManifest, Moving
  <2>14. PlacedIsTrue(m)'
    BY <1>1, <1>3, <2>2, <2>3, <2>4, <2>5
    DEF IInv, MigInv, PlacedIsTrue, SameManifest
  <2>15. TargetAsBefore(m)' /\ CancelIsOwn(m)'
    BY <1>1, <1>3, <2>2, <2>3
    DEF IInv, MigInv, TargetAsBefore, Undecided, CancelIsOwn, SameManifest, Moving,
        Cancellable
  <2>16. MigInv(m)'
    BY <2>13, <2>14, <2>15 DEF MigInv
  <2>17. \A n \in Migrations : n # m => MigInv(n)'
    BY <1>2, <1>3, <2>2, IdleIInv DEF IInv, OneActive
  <2>18. QED
    BY <2>8, <2>9, <2>10, <2>11, <2>12, <2>16, <2>17 DEF IInv
<1>6. QED
  BY <1>4, <1>5 DEF Switch

----------------------------------------------------------------------------
(* Cleaning                                                                *)

LEMMA InspectIInv ==
    ASSUME IInv, NEW m \in Migrations, NEW f \in Files, Inspect(m, f)
    PROVE  IInv'
<1>1. /\ mig[m] \in Task /\ mig \in [Migrations -> Task] /\ mig[m].at = "clean"
      /\ f \in mig[m].todo
  BY DEF IInv, TypeOK, Inspect
<1> DEFINE doomed == IF Unchanged(m, f) THEN {f} ELSE {}
           task == [mig[m] EXCEPT !.todo = @ \ {f}, !.doomed = doomed]
<1>2. task \in Task
  BY <1>1 DEF Task
<1>3. /\ mig' \in [Migrations -> Task]
      /\ \A n \in Migrations : n # m => mig'[n] = mig[n]
      /\ mig'[m] = task
  BY <1>1, <1>2 DEF Goto, Inspect
<1>4. /\ task.at = "clean" /\ task.target = mig[m].target
      /\ task.todo = mig[m].todo \ {f} /\ task.doomed = doomed
      /\ task.placed = mig[m].placed /\ task.before = mig[m].before
      /\ task.files = mig[m].files /\ task.from = mig[m].from
      /\ task.result = mig[m].result /\ task.keep = mig[m].keep
  BY <1>1 DEF Task
<1>5. \A g \in doomed : g = f /\ disk[mig[m].from[f]][f] = mig[m].files[f]
  BY DEF Unchanged
<1> HIDE DEF task, doomed
<1>6. ~Idle(m) /\ mig'[m].at \notin {"idle", "lower", "over"}
  BY <1>1, <1>3, <1>4 DEF Idle
<1>7. UNCHANGED <<disks, guard, writers, history>> /\ faults' \in 0 .. MaxFaults
  BY DEF IInv, TypeOK, Inspect
<1>8. Found(m)' = Found(m)
  BY <1>3, <1>4 DEF Found
<1>9. SourcesStand(m)' /\ ListedIsMoved(m)' /\ PlacedIsTrue(m)'
  BY <1>1, <1>3, <1>4, <1>7, <1>8
  DEF IInv, MigInv, SourcesStand, ListedIsMoved, PlacedIsTrue, Moving, disks, writers
<1>10. Doomed(m)'
  BY <1>1, <1>3, <1>4, <1>5, <1>7, <1>8 DEF IInv, MigInv, Doomed, disks
<1>11. TargetAsBefore(m)' /\ CancelIsOwn(m)'
  BY <1>1, <1>3, <1>4, <1>7
  DEF IInv, MigInv, TargetAsBefore, Undecided, CancelIsOwn, Moving, Cancellable,
      guard, history
<1>12. MigInv(m)'
  BY <1>9, <1>10, <1>11 DEF MigInv
<1>13. \A g \in Files : mig'[m].files[g] # "absent" => mig[m].files[g] # "absent"
  BY <1>3, <1>4
<1>14. QED
  BY <1>3, <1>6, <1>7, <1>12, <1>13, StepIInv

\* What is removed is in the target, or was completed too late.
LEMMA RemoveSourceIInv ==
    ASSUME PlacesAreSound, IInv, NEW m \in Migrations, NEW f \in Files,
           RemoveSource(m, f)
    PROVE  IInv'
<1> DEFINE from == mig[m].from[f]
           target == mig[m].target
<1>1. /\ mig[m] \in Task /\ mig \in [Migrations -> Task] /\ mig[m].at = "clean"
      /\ f \in mig[m].doomed /\ from \in Places
      /\ target \in Roots /\ target \in Places
  BY DEF IInv, TypeOK, RemoveSource, Task, Places
<1> DEFINE task == [mig[m] EXCEPT !.doomed = {}]
<1>2. task \in Task
  BY <1>1 DEF Task
<1>3. /\ mig' \in [Migrations -> Task]
      /\ \A n \in Migrations : n # m => mig'[n] = mig[n]
      /\ mig'[m] = task
  BY <1>1, <1>2 DEF Goto, RemoveSource
<1>4. /\ task.at = "clean" /\ task.target = target
      /\ task.todo = mig[m].todo /\ task.doomed = {}
      /\ task.placed = mig[m].placed /\ task.before = mig[m].before
      /\ task.files = mig[m].files /\ task.from = mig[m].from
      /\ task.result = mig[m].result /\ task.keep = mig[m].keep
  BY <1>1 DEF Task
<1> HIDE DEF task
<1>5. ~Idle(m) /\ mig'[m].at \notin {"idle", "lower", "over"}
  BY <1>1, <1>3, <1>4 DEF Idle
<1>6. Found(m)' = Found(m)
  BY <1>3, <1>4 DEF Found
<1>7. UNCHANGED <<root, active, cancel, into, listed, straddling, overtaken, asked, owed>>
  BY DEF RemoveSource, guard, history
<1>8. CASE Fault /\ UNCHANGED <<disk, writer>>
  <2>1. UNCHANGED <<disks, guard, writers, history>> /\ faults' \in 0 .. MaxFaults
    BY <1>7, <1>8, FaultTyped DEF IInv, disks, guard, writers, history
  <2>2. SourcesStand(m)' /\ ListedIsMoved(m)' /\ PlacedIsTrue(m)' /\ Doomed(m)'
    BY <1>1, <1>3, <1>4, <1>6, <1>7, <1>8
    DEF IInv, MigInv, SourcesStand, ListedIsMoved, PlacedIsTrue, Doomed, Moving
  <2>3. TargetAsBefore(m)' /\ CancelIsOwn(m)'
    BY <1>1, <1>3, <1>4, <1>7
    DEF IInv, MigInv, TargetAsBefore, Undecided, CancelIsOwn, Moving, Cancellable
  <2>4. MigInv(m)'
    BY <2>2, <2>3 DEF MigInv
  <2>5. \A g \in Files : mig'[m].files[g] # "absent" => mig[m].files[g] # "absent"
    BY <1>3, <1>4
  <2>6. QED
    BY <1>3, <1>5, <2>1, <2>4, <2>5, StepIInv
<1>9. CASE /\ disk' = [disk EXCEPT ![from][f] = "absent"]
           /\ writer' = [writer EXCEPT ![f] =
                 IF @ = "write" /\ into[f] = from THEN "adrift" ELSE @]
           /\ UNCHANGED faults
  <2>1. /\ disk' \in [Places -> Copies]
        /\ \A q \in Places, g \in Files :
              disk'[q][g] = IF q = from /\ g = f THEN "absent" ELSE disk[q][g]
    <3>1. disk' = Put(disk, from, f, "absent") /\ "absent" \in Content
      BY <1>9 DEF Put, Content
    <3>2. QED
      BY <1>1, <3>1, PutTyped DEF IInv, TypeOK
  <2>2. /\ \A g \in Files : g # f => writer'[g] = writer[g]
        /\ writer'[f] = writer[f] \/ (writer[f] = "write" /\ writer'[f] = "adrift")
        /\ writer'[f] = "write" => into[f] # from
        /\ writer' \in [Files -> {"idle", "resolve", "create", "write", "adrift",
                                  "done", "dead"}]
    BY <1>9 DEF IInv, TypeOK
  <2>3. /\ f \in Found(m) /\ f \in mig[m].placed
        /\ disk[target][f] = mig[m].files[f]
        /\ root = target
        /\ \A g \in Found(m) : mig[m].from[g] # target
        /\ disk[from][f] = mig[m].files[f] \/ f \in overtaken
    BY <1>1 DEF IInv, MigInv, SourcesStand, PlacedIsTrue, Doomed
  <2>4. \A g \in Files : disk'[target][g] = disk[target][g]
    BY <1>1, <2>1, <2>3
  <2>5. TypeOK'
    BY <1>3, <1>7, <1>9, <2>1, <2>2 DEF IInv, TypeOK
  <2>6. OneActive'
    BY <1>3, <1>5, <1>7 DEF IInv, OneActive, Idle
  <2>7. UnwrittenIsNowhere'
    BY <1>3, <1>4, <2>1, <2>2 DEF IInv, UnwrittenIsNowhere
  <2>8. WritersHold'
    <3>1. \A g \in Files : into[g] \in Places
      BY DEF IInv, TypeOK, Places
    <3>2. QED
      BY <1>7, <2>1, <2>2, <3>1 DEF IInv, WritersHold
  <2>9. WritersStraddle'
    <3>1. active # {}
      BY <1>5 DEF IInv, OneActive
    <3>2. QED
      BY <1>7, <2>2, <3>1 DEF IInv, WritersStraddle, Busy
  <2>10. CompleteBackupsAreKept'
    <3> SUFFICES ASSUME NEW g \in Files, writer'[g] = "done", g \notin overtaken
                 PROVE  \E p \in Places : disk'[p][g] = "whole"
      BY <1>7 DEF CompleteBackupsAreKept
    <3>1. PICK p \in Places : disk[p][g] = "whole"
      BY <2>2 DEF IInv, CompleteBackupsAreKept
    <3>2. CASE p = from /\ g = f
      BY <1>1, <2>3, <2>4, <3>1, <3>2
    <3>3. CASE ~(p = from /\ g = f)
      BY <2>1, <3>1, <3>3
    <3>4. QED
      BY <3>2, <3>3
  <2>11. ListedBackupsStayListed'
    BY <1>7, <2>3, <2>4 DEF IInv, TypeOK, ListedBackupsStayListed
  <2>12. SourcesStand(m)' /\ ListedIsMoved(m)' /\ Doomed(m)'
    BY <1>1, <1>3, <1>4, <1>6, <1>7
    DEF IInv, MigInv, SourcesStand, ListedIsMoved, Doomed, Moving
  <2>13. PlacedIsTrue(m)'
    <3>1. \A g \in mig[m].placed : g \in Files
      BY <1>1 DEF Task
    <3>2. QED
      BY <1>1, <1>3, <1>4, <1>6, <1>7, <2>2, <2>4, <3>1
      DEF IInv, MigInv, PlacedIsTrue
  <2>14. TargetAsBefore(m)' /\ CancelIsOwn(m)'
    BY <1>1, <1>3, <1>4, <1>7
    DEF IInv, MigInv, TargetAsBefore, Undecided, CancelIsOwn, Moving, Cancellable
  <2>15. MigInv(m)'
    BY <2>12, <2>13, <2>14 DEF MigInv
  <2>16. \A n \in Migrations : n # m => MigInv(n)'
    BY <1>3, <1>5, <1>7, IdleIInv DEF IInv, OneActive
  <2>17. QED
    BY <2>5, <2>6, <2>7, <2>8, <2>9, <2>10, <2>11, <2>15, <2>16 DEF IInv
<1>10. QED
  BY <1>8, <1>9 DEF RemoveSource

LEMMA FinishIInv ==
    ASSUME IInv, NEW m \in Migrations, Finish(m)
    PROVE  IInv'
<1>1. ~Idle(m) /\ mig[m].doomed = {}
  BY DEF Idle, Finish
<1>2. /\ Return(m, "ok") /\ faults' \in 0 .. MaxFaults
      /\ UNCHANGED <<disks, guard, writers, history>>
  BY DEF IInv, TypeOK, Finish
<1>3. QED
  BY <1>1, <1>2, ReturnIInv

----------------------------------------------------------------------------
(* Beginning, cancelling and leaving                                       *)

LEMMA BeginIInv ==
    ASSUME PlacesAreSound, IInv, NEW m \in Migrations, NEW target \in Roots,
           NEW keep \in BOOLEAN, Begin(m, target, keep)
    PROVE  IInv'
<1> DEFINE task == [NewTask EXCEPT !.at = "validate", !.target = target, !.keep = keep,
                                   !.before = disk[target]]
<1>1. mig \in [Migrations -> Task] /\ disk[target] \in Copies
  BY DEF IInv, TypeOK, Places
<1>2. task \in Task
  BY <1>1, NewTaskTyped DEF Task, Phase, Cancellable
<1>3. /\ mig' \in [Migrations -> Task]
      /\ \A n \in Migrations : n # m => mig'[n] = mig[n]
      /\ mig'[m] = task
  BY <1>1, <1>2 DEF Goto, Begin
<1>4. /\ task.at = "validate" /\ task.target = target /\ task.before = disk[target]
      /\ task.files = Nothing /\ task.placed = {} /\ task.doomed = {}
      /\ task.result = "none"
  BY DEF NewTask
<1> HIDE DEF task
<1>5. /\ active = {} /\ active' = {m} /\ cancel' = FALSE /\ mig[m].at = "idle"
      /\ straddling' = straddling \union {f \in Files : Busy(f)}
      /\ UNCHANGED <<disk, root, writer, into, faults, listed, overtaken, asked, owed>>
  BY DEF Begin, disks, writers
<1>6. TypeOK'
  <2>1. Cardinality(active') <= 1
    BY <1>5, SlotCounted
  <2>2. QED
    BY <1>3, <1>5, <2>1 DEF IInv, TypeOK
<1>7. OneActive'
  BY <1>3, <1>4, <1>5 DEF IInv, OneActive, Idle
<1>8. UnwrittenIsNowhere'
  BY <1>3, <1>4, <1>5 DEF IInv, UnwrittenIsNowhere, Nothing
<1>9. WritersHold' /\ WritersStraddle' /\ CompleteBackupsAreKept'
      /\ ListedBackupsStayListed'
  BY <1>5 DEF IInv, WritersHold, WritersStraddle, Busy, CompleteBackupsAreKept,
              ListedBackupsStayListed
<1>10. MigInv(m)'
  <2>1. Found(m)' = {}
    BY <1>3, <1>4 DEF Found, Nothing
  <2>2. m \notin owed'
    BY <1>5 DEF IInv, MigInv, CancelIsOwn, Cancellable
  <2>3. QED
    BY <1>3, <1>4, <1>5, <2>1, <2>2
    DEF MigInv, SourcesStand, ListedIsMoved, PlacedIsTrue, Doomed, TargetAsBefore,
        Undecided, CancelIsOwn, Moving, Cancellable
<1>11. \A n \in Migrations : n # m => MigInv(n)'
  BY <1>3, <1>5, IdleIInv DEF IInv, OneActive
<1>12. QED
  BY <1>6, <1>7, <1>8, <1>9, <1>10, <1>11 DEF IInv

LEMMA CancelIInv ==
    ASSUME IInv, NEW m \in Migrations, Cancel(m)
    PROVE  IInv'
<1>1. /\ m \in active /\ mig[m].keep /\ cancel' = TRUE
      /\ asked' = asked \union {m} /\ owed \subseteq owed'
      /\ owed' \subseteq owed \union {m}
      /\ m \in owed' => m \in owed \/ mig[m].at \in Cancellable
      /\ UNCHANGED <<disk, root, active, mig, writer, into, faults, listed, straddling,
                     overtaken>>
  BY DEF Cancel, disks, writers
<1>2. TypeOK' /\ OneActive'
  BY <1>1 DEF IInv, TypeOK, OneActive, Idle
<1>3. UnwrittenIsNowhere' /\ WritersHold' /\ WritersStraddle'
  BY <1>1 DEF IInv, UnwrittenIsNowhere, WritersHold, WritersStraddle, Busy
<1>4. CompleteBackupsAreKept' /\ ListedBackupsStayListed'
  BY <1>1 DEF IInv, CompleteBackupsAreKept, ListedBackupsStayListed
<1>5. MigInv(m)'
  <2>1. SourcesStand(m)' /\ ListedIsMoved(m)' /\ PlacedIsTrue(m)' /\ Doomed(m)'
        /\ TargetAsBefore(m)'
    <3>1. SourcesStand(m)' /\ ListedIsMoved(m)' /\ Doomed(m)'
      BY <1>1 DEF IInv, MigInv, SourcesStand, ListedIsMoved, Doomed, Found
    <3>2. PlacedIsTrue(m)'
      BY <1>1 DEF IInv, MigInv, PlacedIsTrue, Found
    <3>3. TargetAsBefore(m)'
      BY <1>1 DEF IInv, MigInv, TargetAsBefore, Undecided
    <3>4. QED
      BY <3>1, <3>2, <3>3
  <2>2. CancelIsOwn(m)'
    BY <1>1 DEF IInv, MigInv, CancelIsOwn
  <2>3. QED
    BY <2>1, <2>2 DEF MigInv
<1>6. \A n \in Migrations : n # m => MigInv(n)'
  BY <1>1, IdleIInv DEF IInv, OneActive
<1>7. QED
  BY <1>2, <1>3, <1>4, <1>5, <1>6 DEF IInv

LEMMA UnlockIInv ==
    ASSUME IInv, NEW m \in Migrations, Unlock(m)
    PROVE  IInv'
<1> DEFINE task == [mig[m] EXCEPT !.at = "lower"]
<1>1. mig \in [Migrations -> Task] /\ mig[m] \in Task /\ mig[m].at = "unlock"
  BY DEF IInv, TypeOK, Unlock
<1>2. task \in Task
  BY <1>1 DEF Task, Phase
<1>3. /\ mig' \in [Migrations -> Task]
      /\ \A n \in Migrations : n # m => mig'[n] = mig[n]
      /\ mig'[m] = task
  BY <1>1, <1>2 DEF Goto, Unlock
<1>4. /\ task.at = "lower" /\ task.files = mig[m].files
      /\ task.doomed = mig[m].doomed /\ task.result = mig[m].result
  BY <1>1 DEF Task
<1> HIDE DEF task
<1>5. /\ active' = active \ {m}
      /\ UNCHANGED <<disk, root, cancel, writer, into, faults, listed, straddling,
                     overtaken, asked, owed>>
  BY DEF Unlock, disks, writers, history
<1>6. TypeOK'
  <2>1. Cardinality(active') <= 1
    BY <1>5, SlotCounted DEF IInv, OneActive
  <2>2. QED
    BY <1>3, <1>5, <2>1 DEF IInv, TypeOK
<1>7. OneActive' /\ active' = {}
  BY <1>1, <1>3, <1>4, <1>5 DEF IInv, TypeOK, OneActive, Idle
<1>8. UnwrittenIsNowhere' /\ WritersHold' /\ WritersStraddle'
  BY <1>3, <1>4, <1>5, <1>7
  DEF IInv, UnwrittenIsNowhere, WritersHold, WritersStraddle, Busy
<1>9. CompleteBackupsAreKept' /\ ListedBackupsStayListed'
  BY <1>5 DEF IInv, CompleteBackupsAreKept, ListedBackupsStayListed
<1>10. MigInv(m)'
  BY <1>1, <1>3, <1>4, <1>5
  DEF IInv, MigInv, SourcesStand, ListedIsMoved, PlacedIsTrue, Doomed, TargetAsBefore,
      Undecided, CancelIsOwn, Moving, Cancellable
<1>11. \A n \in Migrations : n # m => MigInv(n)'
  BY <1>1, <1>3, <1>5, <1>7, IdleIInv DEF IInv, OneActive, Idle
<1>12. QED
  BY <1>6, <1>7, <1>8, <1>9, <1>10, <1>11 DEF IInv

\* The flag that comes down may be the next migration's: it is owed no longer.
LEMMA LowerIInv ==
    ASSUME PlacesAreSound, IInv, NEW m \in Migrations, Lower(m)
    PROVE  IInv'
<1> DEFINE task == [NewTask EXCEPT !.at = "over", !.target = mig[m].target,
                                   !.result = mig[m].result]
<1>1. mig \in [Migrations -> Task] /\ mig[m] \in Task /\ mig[m].at = "lower"
  BY DEF IInv, TypeOK, Lower
<1>2. task \in Task
  BY <1>1, NewTaskTyped DEF Task, Phase
<1>3. /\ mig' \in [Migrations -> Task]
      /\ \A n \in Migrations : n # m => mig'[n] = mig[n]
      /\ mig'[m] = task
  BY <1>1, <1>2 DEF Goto, Lower
<1>4. /\ task.at = "over" /\ task.files = Nothing
      /\ task.doomed = {} /\ task.result = mig[m].result
  BY DEF NewTask
<1> HIDE DEF task
<1>5. /\ cancel' = FALSE /\ owed' = owed \ active
      /\ UNCHANGED <<disk, root, active, writer, into, faults, listed, straddling,
                     overtaken, asked>>
  BY DEF Lower, disks, writers
<1>6. TypeOK'
  BY <1>3, <1>5 DEF IInv, TypeOK
<1>7. OneActive'
  BY <1>1, <1>3, <1>4, <1>5 DEF IInv, OneActive, Idle
<1>8. UnwrittenIsNowhere'
  BY <1>3, <1>4, <1>5 DEF IInv, UnwrittenIsNowhere, Nothing
<1>9. WritersHold' /\ WritersStraddle'
  BY <1>5 DEF IInv, WritersHold, WritersStraddle, Busy
<1>10. CompleteBackupsAreKept' /\ ListedBackupsStayListed'
  BY <1>5 DEF IInv, CompleteBackupsAreKept, ListedBackupsStayListed
<1>11. MigInv(m)'
  BY <1>1, <1>3, <1>4, <1>5
  DEF IInv, MigInv, SourcesStand, ListedIsMoved, PlacedIsTrue, Doomed, TargetAsBefore,
      Undecided, CancelIsOwn, Moving, Cancellable
<1>12. ASSUME NEW n \in Migrations, n # m PROVE MigInv(n)'
  <2>1. /\ SourcesStand(n)' /\ ListedIsMoved(n)' /\ PlacedIsTrue(n)' /\ Doomed(n)'
        /\ TargetAsBefore(n)'
    <3>1. SourcesStand(n)' /\ ListedIsMoved(n)'
      BY <1>3, <1>5, <1>12 DEF IInv, MigInv, SourcesStand, ListedIsMoved, Found
    <3>2. PlacedIsTrue(n)' /\ Doomed(n)'
      BY <1>3, <1>5, <1>12 DEF IInv, MigInv, PlacedIsTrue, Doomed, Found
    <3>3. TargetAsBefore(n)'
      BY <1>3, <1>5, <1>12 DEF IInv, MigInv, TargetAsBefore, Undecided
    <3>4. QED
      BY <3>1, <3>2, <3>3
  <2>2. CancelIsOwn(n)'
    BY <1>3, <1>5, <1>12 DEF IInv, OneActive, Idle, MigInv, CancelIsOwn, Cancellable
  <2>3. QED
    BY <2>1, <2>2 DEF MigInv
<1>13. QED
  BY <1>6, <1>7, <1>8, <1>9, <1>10, <1>11, <1>12 DEF IInv

----------------------------------------------------------------------------
(* Operations that write backups                                           *)

\* The states of an operation.
LEMMA WriterTyped ==
    ASSUME TypeOK, NEW f \in Files,
           NEW at \in {"idle", "resolve", "create", "write", "adrift", "done", "dead"},
           writer' = [writer EXCEPT ![f] = at]
    PROVE  /\ writer' \in [Files -> {"idle", "resolve", "create", "write", "adrift",
                                     "done", "dead"}]
           /\ writer'[f] = at
           /\ \A g \in Files : g # f => writer'[g] = writer[g]
BY DEF TypeOK

\* An operation begins while no migration is active.
LEMMA MayWriteIInv ==
    ASSUME IInv, NEW f \in Files, MayWrite(f)
    PROVE  IInv'
<1>1. /\ active = {} /\ writer[f] = "idle" /\ writer' = [writer EXCEPT ![f] = "resolve"]
      /\ UNCHANGED <<disk, root, active, cancel, mig, into, faults, listed, straddling,
                     overtaken, asked, owed>>
  BY DEF MayWrite, disks, guard, history
<1>2. /\ writer' \in [Files -> {"idle", "resolve", "create", "write", "adrift",
                                "done", "dead"}]
      /\ writer'[f] = "resolve"
      /\ \A g \in Files : g # f => writer'[g] = writer[g]
  BY <1>1, WriterTyped DEF IInv
<1>3. TypeOK' /\ OneActive'
  BY <1>1, <1>2 DEF IInv, TypeOK, OneActive, Idle
<1>4. UnwrittenIsNowhere' /\ WritersHold' /\ WritersStraddle'
  BY <1>1, <1>2 DEF IInv, UnwrittenIsNowhere, WritersHold, WritersStraddle
<1>5. CompleteBackupsAreKept' /\ ListedBackupsStayListed'
  BY <1>1, <1>2 DEF IInv, CompleteBackupsAreKept, ListedBackupsStayListed
<1>6. \A m \in Migrations : MigInv(m)'
  BY <1>1, IdleIInv DEF IInv, OneActive
<1>7. QED
  BY <1>3, <1>4, <1>5, <1>6 DEF IInv

LEMMA ResolveIInv ==
    ASSUME IInv, NEW f \in Files, Resolve(f)
    PROVE  IInv'
<1>1. /\ writer[f] = "resolve" /\ writer' = [writer EXCEPT ![f] = "create"]
      /\ into' = [into EXCEPT ![f] = root]
      /\ UNCHANGED <<disk, root, active, cancel, mig, faults, listed, straddling,
                     overtaken, asked, owed>>
  BY DEF Resolve, disks, guard, history
<1>2. /\ writer' \in [Files -> {"idle", "resolve", "create", "write", "adrift",
                                "done", "dead"}]
      /\ writer'[f] = "create"
      /\ \A g \in Files : g # f => writer'[g] = writer[g] /\ into'[g] = into[g]
  BY <1>1, WriterTyped DEF IInv, TypeOK
<1>3. TypeOK' /\ OneActive'
  BY <1>1, <1>2 DEF IInv, TypeOK, OneActive, Idle
<1>4. UnwrittenIsNowhere' /\ WritersHold' /\ WritersStraddle'
  BY <1>1, <1>2 DEF IInv, UnwrittenIsNowhere, WritersHold, WritersStraddle, Busy
<1>5. CompleteBackupsAreKept' /\ ListedBackupsStayListed'
  BY <1>1, <1>2 DEF IInv, CompleteBackupsAreKept, ListedBackupsStayListed
<1>6. ASSUME NEW m \in Migrations PROVE MigInv(m)'
  <2>1. \A g \in mig[m].placed : g \in Files
    BY DEF IInv, TypeOK, Task
  <2>2. PlacedIsTrue(m)'
    BY <1>1, <1>2, <2>1 DEF IInv, MigInv, PlacedIsTrue, Found
  <2>3. /\ SourcesStand(m)' /\ ListedIsMoved(m)' /\ Doomed(m)' /\ TargetAsBefore(m)'
        /\ CancelIsOwn(m)'
    BY <1>1
    DEF IInv, MigInv, SourcesStand, ListedIsMoved, Doomed, Found, TargetAsBefore,
        Undecided, CancelIsOwn
  <2>4. QED
    BY <2>2, <2>3 DEF MigInv
<1>7. QED
  BY <1>3, <1>4, <1>5, <1>6 DEF IInv

\* No migration has found a backup that is only now created.
LEMMA CreateIInv ==
    ASSUME IInv, NEW f \in Files, Create(f)
    PROVE  IInv'
<1>1. /\ writer[f] = "create" /\ writer' = [writer EXCEPT ![f] = "write"]
      /\ disk' = [disk EXCEPT ![into[f]][f] = "half"]
      /\ UNCHANGED <<root, active, cancel, mig, into, faults, listed, straddling,
                     overtaken, asked, owed>>
  BY DEF Create, guard, history
<1>2. /\ writer' \in [Files -> {"idle", "resolve", "create", "write", "adrift",
                                "done", "dead"}]
      /\ writer'[f] = "write"
      /\ \A g \in Files : g # f => writer'[g] = writer[g]
  BY <1>1, WriterTyped DEF IInv
<1>3. /\ disk' \in [Places -> Copies] /\ into[f] \in Places
      /\ \A q \in Places, g \in Files :
            disk'[q][g] = IF q = into[f] /\ g = f THEN "half" ELSE disk[q][g]
  <2>1. /\ disk' = Put(disk, into[f], f, "half") /\ "half" \in Content
        /\ into[f] \in Places
    BY <1>1 DEF IInv, TypeOK, Put, Content, Places
  <2>2. QED
    BY <2>1, PutTyped DEF IInv, TypeOK
<1>4. /\ \A p \in Places : disk[p][f] = "absent"
      /\ \A m \in Migrations : mig[m].files[f] = "absent"
  BY <1>1 DEF IInv, UnwrittenIsNowhere
<1>5. TypeOK' /\ OneActive'
  BY <1>1, <1>2, <1>3 DEF IInv, TypeOK, OneActive, Idle
<1>6. UnwrittenIsNowhere'
  BY <1>1, <1>2, <1>3 DEF IInv, UnwrittenIsNowhere
<1>7. WritersHold' /\ WritersStraddle'
  <2>1. \A g \in Files : into[g] \in Places
    BY DEF IInv, TypeOK, Places
  <2>2. QED
    BY <1>1, <1>2, <1>3, <2>1 DEF IInv, WritersHold, WritersStraddle, Busy
<1>8. CompleteBackupsAreKept'
  BY <1>1, <1>2, <1>3 DEF IInv, CompleteBackupsAreKept
<1>9. ListedBackupsStayListed'
  <2>1. root \in Places /\ listed \subseteq Files
    BY DEF IInv, TypeOK, Places
  <2>2. f \notin listed
    BY <1>4, <2>1 DEF IInv, ListedBackupsStayListed
  <2>3. QED
    BY <1>1, <1>3, <2>1, <2>2 DEF IInv, ListedBackupsStayListed
<1>10. ASSUME NEW m \in Migrations PROVE MigInv(m)'
  <2>1. /\ mig[m] \in Task /\ mig[m].target \in Places
        /\ \A g \in Files : mig[m].from[g] \in Places
        /\ \A g \in mig[m].placed : g \in Files
    BY DEF IInv, TypeOK, Task, Places
  <2>2. Found(m)' = Found(m) /\ f \notin Found(m) /\ Found(m) \subseteq Files
    BY <1>1, <1>4 DEF Found
  <2>3. SourcesStand(m)' /\ ListedIsMoved(m)'
    BY <1>1, <1>3, <2>1, <2>2 DEF IInv, MigInv, SourcesStand, ListedIsMoved
  <2>4. PlacedIsTrue(m)' /\ Doomed(m)'
    BY <1>1, <1>2, <1>3, <2>1, <2>2 DEF IInv, MigInv, PlacedIsTrue, Doomed
  <2>5. TargetAsBefore(m)'
    <3>1. Undecided(m) => f \in straddling
      BY <1>1 DEF IInv, OneActive, Idle, Undecided, Moving, WritersStraddle, Busy
    <3>2. QED
      BY <1>1, <1>3, <2>1, <3>1 DEF IInv, MigInv, TargetAsBefore, Undecided
  <2>6. CancelIsOwn(m)'
    BY <1>1 DEF IInv, MigInv, CancelIsOwn
  <2>7. QED
    BY <2>3, <2>4, <2>5, <2>6 DEF MigInv
<1>11. QED
  BY <1>5, <1>6, <1>7, <1>8, <1>9, <1>10 DEF IInv

\* A backup that is completed after cleaning has passed it is overtaken.
LEMMA CompleteIInv ==
    ASSUME IInv, NEW f \in Files, Complete(f)
    PROVE  IInv'
<1> DEFINE x == IF writer[f] = "write" THEN "whole" ELSE disk[into[f]][f]
<1>1. /\ writer[f] \in {"write", "adrift"} /\ writer' = [writer EXCEPT ![f] = "done"]
      /\ disk' = [disk EXCEPT ![into[f]][f] = x]
      /\ overtaken' = IF Passed(f) THEN overtaken \union {f} ELSE overtaken
      /\ listed' = IF into[f] = root /\ f \notin straddling
                   THEN listed \union {f} ELSE listed
      /\ UNCHANGED <<root, active, cancel, mig, into, faults, straddling, asked, owed>>
  BY DEF Complete, guard
<1>2. /\ writer' \in [Files -> {"idle", "resolve", "create", "write", "adrift",
                                "done", "dead"}]
      /\ writer'[f] = "done"
      /\ \A g \in Files : g # f => writer'[g] = writer[g]
  BY <1>1, WriterTyped DEF IInv
<1>3. into[f] \in Places /\ root \in Places /\ disk[into[f]][f] \in Content
      /\ x \in Content
  BY DEF IInv, TypeOK, Places, Copies, Content
<1>4. /\ disk' \in [Places -> Copies]
      /\ \A q \in Places, g \in Files :
            disk'[q][g] = IF q = into[f] /\ g = f THEN x ELSE disk[q][g]
  <2>1. disk' = Put(disk, into[f], f, x)
    BY <1>1 DEF Put
  <2> HIDE DEF x
  <2>2. QED
    BY <1>3, <2>1, PutTyped DEF IInv, TypeOK
<1>5. /\ \A q \in Places, g \in Files : disk[q][g] = "whole" => disk'[q][g] = "whole"
      /\ \A q \in Places, g \in Files :
            disk'[q][g] # disk[q][g] => disk'[q][g] = "whole"
      /\ writer[f] = "write" => disk'[into[f]][f] = "whole"
      /\ \A q \in Places : q # into[f] => disk'[q][f] = disk[q][f]
      /\ writer[f] = "adrift" => \A q \in Places : disk'[q][f] = disk[q][f]
      /\ \A q \in Places, g \in Files : g # f => disk'[q][g] = disk[q][g]
  BY <1>1, <1>3, <1>4
<1> HIDE DEF x
<1>6. active # {} => f \in straddling
  BY <1>1 DEF IInv, WritersStraddle, Busy
<1>7. TypeOK' /\ OneActive'
  BY <1>1, <1>2, <1>4 DEF IInv, TypeOK, OneActive, Idle
<1>8. UnwrittenIsNowhere'
  BY <1>1, <1>2, <1>5 DEF IInv, UnwrittenIsNowhere
<1>9. WritersHold' /\ WritersStraddle'
  <2>1. \A g \in Files : into[g] \in Places
    BY DEF IInv, TypeOK, Places
  <2>2. QED
    BY <1>1, <1>2, <1>5, <2>1 DEF IInv, WritersHold, WritersStraddle, Busy
<1>10. CompleteBackupsAreKept'
  <2>1. writer[f] = "adrift" => f \in overtaken'
    BY <1>1 DEF Passed
  <2>2. overtaken \subseteq overtaken'
    BY <1>1
  <2>3. QED
    BY <1>1, <1>2, <1>3, <1>5, <2>1, <2>2 DEF IInv, CompleteBackupsAreKept
<1>11. ListedBackupsStayListed'
  <2>1. into[f] = root /\ f \notin straddling => disk'[root][f] = "whole"
    BY <1>1, <1>5 DEF IInv, WritersStraddle
  <2>2. listed \subseteq Files
    BY DEF IInv, TypeOK
  <2>3. QED
    BY <1>1, <1>3, <1>5, <2>1, <2>2 DEF IInv, ListedBackupsStayListed
<1>12. ASSUME NEW m \in Migrations PROVE MigInv(m)'
  <2>1. /\ mig[m] \in Task /\ mig[m].target \in Places
        /\ \A g \in Files : mig[m].from[g] \in Places
        /\ \A g \in mig[m].placed : g \in Files
    BY DEF IInv, TypeOK, Task, Places
  <2>2. Found(m)' = Found(m) /\ Found(m) \subseteq Files
    BY <1>1 DEF Found
  <2>3. SourcesStand(m)'
    BY <1>1, <1>5, <2>1, <2>2 DEF IInv, MigInv, SourcesStand
  <2>4. ListedIsMoved(m)'
    BY <1>1, <1>6 DEF IInv, OneActive, Idle, MigInv, ListedIsMoved, Moving
  <2>5. PlacedIsTrue(m)'
    BY <1>1, <1>2, <1>5, <2>1, <2>2 DEF IInv, MigInv, PlacedIsTrue
  <2>6. Doomed(m)'
    <3>1. \A g \in mig[m].doomed :
            disk'[mig[m].from[g]][g] = disk[mig[m].from[g]][g] \/ g \in overtaken'
      <4> SUFFICES ASSUME NEW g \in mig[m].doomed
                   PROVE  disk'[mig[m].from[g]][g] = disk[mig[m].from[g]][g]
                            \/ g \in overtaken'
        OBVIOUS
      <4>1. g \in Files
        BY DEF IInv, TypeOK, Task
      <4>2. CASE g = f /\ mig[m].from[f] = into[f]
        BY <1>1, <4>2 DEF Passed
      <4>3. CASE g # f \/ mig[m].from[f] # into[f]
        BY <1>5, <2>1, <4>1, <4>3
      <4>4. QED
        BY <4>2, <4>3
    <3>2. overtaken \subseteq overtaken'
      BY <1>1
    <3>3. QED
      BY <1>1, <2>2, <3>1, <3>2 DEF IInv, MigInv, Doomed
  <2>7. TargetAsBefore(m)'
    <3>1. Undecided(m) => f \in straddling
      BY <1>6 DEF IInv, OneActive, Idle, Undecided, Moving
    <3>2. QED
      BY <1>1, <1>5, <2>1, <3>1 DEF IInv, MigInv, TargetAsBefore, Undecided
  <2>8. CancelIsOwn(m)'
    BY <1>1 DEF IInv, MigInv, CancelIsOwn
  <2>9. QED
    BY <2>3, <2>4, <2>5, <2>6, <2>7, <2>8 DEF MigInv
<1>13. QED
  BY <1>7, <1>8, <1>9, <1>10, <1>11, <1>12 DEF IInv

----------------------------------------------------------------------------
\* A kill ends every operation and every migration, and touches no file.
LEMMA CrashIInv ==
    ASSUME PlacesAreSound, IInv, Crash
    PROVE  IInv'
<1>1. /\ active' = {} /\ cancel' = FALSE /\ owed' = {}
      /\ mig' = [m \in Migrations |->
            IF mig[m].at \in {"idle", "over"} THEN mig[m]
            ELSE [NewTask EXCEPT !.at = "over"]]
      /\ writer' = [f \in Files |-> IF Busy(f) THEN "dead" ELSE writer[f]]
      /\ UNCHANGED <<disk, root, into, listed, straddling, overtaken, asked>>
  BY DEF Crash, disks
<1>2. /\ [NewTask EXCEPT !.at = "over"] \in Task
      /\ [NewTask EXCEPT !.at = "over"].at = "over"
      /\ [NewTask EXCEPT !.at = "over"].files = Nothing
      /\ [NewTask EXCEPT !.at = "over"].doomed = {}
      /\ [NewTask EXCEPT !.at = "over"].result = "none"
  BY NewTaskTyped DEF Task, Phase, NewTask
<1>3. /\ mig' \in [Migrations -> Task]
      /\ \A m \in Migrations :
            \/ mig'[m] = mig[m] /\ mig[m].at \in {"idle", "over"}
            \/ /\ mig'[m].at = "over" /\ mig'[m].files = Nothing
               /\ mig'[m].doomed = {} /\ mig'[m].result = "none"
  BY <1>1, <1>2 DEF IInv, TypeOK
<1>4. \A f \in Files : writer'[f] = writer[f] \/ writer'[f] = "dead"
  BY <1>1
<1>5. \A f \in Files : writer'[f] \notin {"resolve", "create", "write", "adrift"}
  BY <1>1 DEF Busy
<1>6. TypeOK'
  <2>1. Cardinality(active') <= 1
    BY <1>1, FS_EmptySet
  <2>2. writer' \in [Files -> {"idle", "resolve", "create", "write", "adrift",
                               "done", "dead"}]
    BY <1>1 DEF IInv, TypeOK
  <2>3. faults' \in 0 .. MaxFaults
    BY FaultTyped DEF IInv, Crash
  <2>4. QED
    BY <1>1, <1>3, <2>1, <2>2, <2>3 DEF IInv, TypeOK
<1>7. OneActive'
  BY <1>1, <1>3 DEF OneActive, Idle
<1>8. UnwrittenIsNowhere'
  BY <1>1, <1>3, <1>4 DEF IInv, UnwrittenIsNowhere, Nothing
<1>9. WritersHold' /\ WritersStraddle'
  BY <1>1, <1>5 DEF WritersHold, WritersStraddle
<1>10. CompleteBackupsAreKept' /\ ListedBackupsStayListed'
  BY <1>1, <1>4 DEF IInv, CompleteBackupsAreKept, ListedBackupsStayListed
<1>11. ASSUME NEW m \in Migrations PROVE MigInv(m)'
  <2>1. SourcesStand(m)' /\ ListedIsMoved(m)'
    BY <1>1, <1>3
    DEF IInv, MigInv, SourcesStand, ListedIsMoved, Found, Nothing, Moving
  <2>2. PlacedIsTrue(m)' /\ Doomed(m)'
    BY <1>1, <1>3
    DEF IInv, MigInv, PlacedIsTrue, Doomed, Found, Nothing
  <2>3. TargetAsBefore(m)'
    BY <1>1, <1>3
    DEF IInv, MigInv, TargetAsBefore, Undecided, Moving
  <2>4. CancelIsOwn(m)'
    BY <1>1, <1>3
    DEF IInv, MigInv, CancelIsOwn, Cancellable, Moving
  <2>5. QED
    BY <2>1, <2>2, <2>3, <2>4 DEF MigInv
<1>12. QED
  BY <1>6, <1>7, <1>8, <1>9, <1>10, <1>11 DEF IInv

LEMMA StutterIInv ==
    ASSUME IInv, UNCHANGED vars
    PROVE  IInv'
<1> USE DEF vars, disks, guard, writers, history
<1>1. TypeOK' /\ OneActive'
  BY DEF IInv, TypeOK, OneActive, Idle
<1>2. UnwrittenIsNowhere' /\ WritersHold' /\ WritersStraddle'
  BY DEF IInv, UnwrittenIsNowhere, WritersHold, WritersStraddle, Busy
<1>3. CompleteBackupsAreKept' /\ ListedBackupsStayListed'
  BY DEF IInv, CompleteBackupsAreKept, ListedBackupsStayListed
<1>4. ASSUME NEW m \in Migrations PROVE MigInv(m)'
  <2>1. SourcesStand(m)' /\ ListedIsMoved(m)'
    BY DEF IInv, MigInv, SourcesStand, ListedIsMoved, Found
  <2>2. PlacedIsTrue(m)' /\ Doomed(m)'
    BY DEF IInv, MigInv, PlacedIsTrue, Doomed, Found
  <2>3. TargetAsBefore(m)'
    BY DEF IInv, MigInv, TargetAsBefore, Undecided
  <2>4. CancelIsOwn(m)'
    BY DEF IInv, MigInv, CancelIsOwn, Cancellable
  <2>5. QED
    BY <2>1, <2>2, <2>3, <2>4 DEF MigInv
<1>5. QED
  BY <1>1, <1>2, <1>3, <1>4 DEF IInv

LEMMA Inductive == PlacesAreSound /\ IInv /\ [Next]_vars => IInv'
<1> SUFFICES ASSUME PlacesAreSound, IInv, [Next]_vars PROVE IInv'
  OBVIOUS
<1>1. CASE \E f \in Files : MayWrite(f) \/ Resolve(f) \/ Create(f) \/ Complete(f)
  BY <1>1, MayWriteIInv, ResolveIInv, CreateIInv, CompleteIInv
<1>2. ASSUME NEW m \in Migrations,
             \/ \E target \in Roots, keep \in BOOLEAN : Begin(m, target, keep)
             \/ Cancel(m) \/ Unlock(m) \/ Lower(m)
      PROVE  IInv'
  BY <1>2, BeginIInv, CancelIInv, UnlockIInv, LowerIInv
<1>3. ASSUME NEW m \in Migrations,
             \/ Validate(m) \/ SwitchOnly(m) \/ CheckTarget(m) \/ Start(m)
             \/ LastCancel(m) \/ Verify(m) \/ RolledBack(m) \/ Switch(m) \/ Finish(m)
      PROVE  IInv'
  BY <1>3, ValidateIInv, SwitchOnlyIInv, CopyingIInv, RolledBackIInv, SwitchIInv,
     FinishIInv
<1>4. ASSUME NEW m \in Migrations, NEW f \in Files,
             \/ Scan(m, f) \/ Copy(m, f) \/ Place(m, f)
             \/ Rollback(m, f) \/ Inspect(m, f) \/ RemoveSource(m, f)
      PROVE  IInv'
  BY <1>4, ScanIInv, CopyingIInv, PlaceIInv, RollbackIInv, InspectIInv,
     RemoveSourceIInv
<1>5. CASE Crash
  BY <1>5, CrashIInv
<1>6. CASE UNCHANGED vars
  BY <1>6, StutterIInv
<1>7. QED
  BY <1>1, <1>2, <1>3, <1>4, <1>5, <1>6 DEF Next

\* The places are sound in every instance that a run checks.
THEOREM Invariance ==
    ASSUME PlacesAreSound
    PROVE  Spec => []IInv
<1>1. Init => IInv
  BY InitIInv
<1>2. IInv /\ [Next]_vars => IInv'
  BY Inductive
<1>3. QED
  BY <1>1, <1>2, PTL DEF Spec

----------------------------------------------------------------------------
\* Every reachable state is a state of the types; at most one migration holds
\* the slot of ACTIVE_MIGRATION_ID.
THEOREM TypeCorrect ==
    ASSUME PlacesAreSound
    PROVE  Spec => []TypeOK
<1>1. IInv => TypeOK
  BY DEF IInv
<1>2. QED
  BY Invariance, <1>1, PTL

\* A migration that fails, is cancelled or killed, at whatever step, loses no
\* complete backup, and what the user has seen in the configured directory is
\* in the configured directory.
THEOREM BackupsKept ==
    ASSUME PlacesAreSound
    PROVE  Spec => []BackupsAreKept
<1>1. IInv => BackupsAreKept
  BY DEF IInv, BackupsAreKept
<1>2. QED
  BY Invariance, <1>1, PTL

\* A cancel accepted before the last copy stops the migration it was meant
\* for, and no migration is cancelled by another's.
THEOREM CancelsReach ==
    ASSUME PlacesAreSound
    PROVE  Spec => []CancelsReachTheirOwn
<1>1. IInv => CancelsReachTheirOwn
  <2> SUFFICES ASSUME IInv PROVE CancelsReachTheirOwn
    OBVIOUS
  <2>1. owed \subseteq Migrations
    BY DEF IInv, TypeOK
  <2>2. QED
    BY <2>1 DEF IInv, MigInv, CancelIsOwn, CancelsReachTheirOwn, CancelsAreHonoured,
                OnlyItsOwnCancelStopsIt
<1>2. QED
  BY Invariance, <1>1, PTL

\* When a migration returns an error the target is as it was, but for files
\* that could not be removed again.
THEOREM FailureUndone ==
    ASSUME PlacesAreSound
    PROVE  Spec => []FailureLeavesTargetAlone
<1>1. IInv => FailureLeavesTargetAlone
  BY DEF IInv, MigInv, TargetAsBefore, Undecided, FailureLeavesTargetAlone
<1>2. QED
  BY Invariance, <1>1, PTL
=============================================================================
