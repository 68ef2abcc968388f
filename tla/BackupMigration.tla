-------------------------- MODULE BackupMigration --------------------------
(***************************************************************************)
(* src-tauri/src/modules/backup_storage.rs: moving the backup directory.   *)
(*                                                                         *)
(* A migration scans the current directory and the directories older       *)
(* versions used, copies what it found to a staging directory inside the   *)
(* target, renames the copies into place, switches the configuration, and  *)
(* only then removes the sources that have not changed since the scan.     *)
(* The user may cancel it until the last copy; every step may fail, and    *)
(* the program may be killed.  Session transfers write backups meanwhile:  *)
(* they ask whether a migration is active only before they start.          *)
(*                                                                         *)
(* A backup is one file of one operation, in a scope of its own, so the    *)
(* pruning of older operations (990, 1242-1280) has nothing to remove.     *)
(* Empty directories are not represented.  Patching the configuration is   *)
(* one step: get_user_config reads under the lock the patch is made under. *)
(***************************************************************************)
EXTENDS Naturals, FiniteSets, BackupStorage

CONSTANTS
    FirstRoot,  \* the configured directory
    Stored,     \* backups that exist already: where each is
    MaxFaults   \* bound on failing file operations and kills

PlacesAreSound ==
    /\ Legacy \notin Roots
    /\ FirstRoot \in Roots
    /\ DOMAIN Stored \subseteq Files
    /\ \A f \in DOMAIN Stored : Stored[f] \in {FirstRoot, Legacy}
    /\ MaxFaults \in Nat

VARIABLES
    active,     \* ACTIVE_MIGRATION_ID: at most one
    cancel,     \* MIGRATION_CANCEL_REQUESTED
    into,       \* the directory it has resolved
    faults      \* faults so far

disks == <<disk, root>>
guard == <<active, cancel>>
writers == <<writer, into>>
history == <<listed, straddling, overtaken, asked, owed>>

vars == <<disks, guard, mig, writers, faults, history>>

\* Size and modification time of a file differ in each of these.
Content == {"absent", "half", "whole"}

Copies == [Files -> Content]

Nothing == [f \in Files |-> "absent"]

Phase == {"idle", "plain", "verify", "place", "rollback", "patch", "clean",
          "unlock", "lower", "over"} \union Cancellable

\* files: the manifest, from: where each was found; todo: what the loop
\* of the phase has left; staged: the staging directory; placed: `finalized`;
\* doomed: the source found unchanged, to be removed; before (history): what
\* the target held when the migration began, and what could not be undone.
Task ==
    [at : Phase, target : Roots, keep : BOOLEAN, before : Copies, files : Copies,
     from : [Files -> Places], todo : SUBSET Files, staged : Copies,
     placed : SUBSET Files, doomed : SUBSET Files,
     result : {"none", "ok", "failed", "cancelled"}]

NewTask ==
    [at |-> "idle", target |-> FirstRoot, keep |-> FALSE, before |-> Nothing,
     files |-> Nothing,
     from |-> [f \in Files |-> FirstRoot], todo |-> {}, staged |-> Nothing,
     placed |-> {}, doomed |-> {}, result |-> "none"]

TypeOK ==
    /\ disk \in [Places -> Copies]
    /\ root \in Roots
    /\ active \in SUBSET Migrations /\ Cardinality(active) <= 1
    /\ cancel \in BOOLEAN
    /\ mig \in [Migrations -> Task]
    /\ writer \in [Files -> {"idle", "resolve", "create", "write", "adrift",
                           "done", "dead"}]
    /\ into \in [Files -> Roots]
    /\ faults \in 0..MaxFaults
    /\ listed \subseteq Files /\ straddling \subseteq Files
    /\ overtaken \subseteq Files
    /\ asked \subseteq Migrations /\ owed \subseteq asked

Init ==
    /\ disk = [p \in Places |-> [f \in Files |->
          IF f \in DOMAIN Stored /\ Stored[f] = p THEN "whole" ELSE "absent"]]
    /\ root = FirstRoot
    /\ active = {}
    /\ cancel = FALSE
    /\ mig = [m \in Migrations |-> NewTask]
    /\ writer = [f \in Files |-> IF f \in DOMAIN Stored THEN "done" ELSE "idle"]
    /\ into = [f \in Files |-> FirstRoot]
    /\ faults = 0
    /\ listed = {f \in DOMAIN Stored : Stored[f] = FirstRoot}
    /\ straddling = {} /\ overtaken = {} /\ asked = {} /\ owed = {}

Fault == faults < MaxFaults /\ faults' = faults + 1

\* The migration goes on with these locals.
Goto(m, task) == mig' = [mig EXCEPT ![m] = task]

\* It returns: the staging directory goes, then the guard is dropped.
Return(m, result) ==
    Goto(m, [mig[m] EXCEPT !.at = "unlock", !.result = result, !.staged = Nothing])

----------------------------------------------------------------------------
(* Operations that write a backup                                          *)

Busy(f) == writer[f] \in {"resolve", "create", "write", "adrift"}

\* ensure_backup_write_available.
MayWrite(f) ==
    /\ writer[f] = "idle"
    /\ active = {}
    /\ writer' = [writer EXCEPT ![f] = "resolve"]
    /\ UNCHANGED <<disks, guard, mig, into, faults, history>>

\* Plausible bug: the operation uses the directory of older versions.
Resolve_Legacy(f) ==
    /\ writer[f] = "resolve"
    /\ into' = [into EXCEPT ![f] = Legacy]
    /\ writer' = [writer EXCEPT ![f] = "create"]
    /\ UNCHANGED <<disks, guard, mig, faults, history>>

\* get_backup_root_dir; the caller keeps the path.
Resolve(f) ==
    /\ writer[f] = "resolve"
    /\ into' = [into EXCEPT ![f] = root]
    /\ writer' = [writer EXCEPT ![f] = "create"]
    /\ UNCHANGED <<disks, guard, mig, faults, history>>

Create(f) ==
    /\ writer[f] = "create"
    /\ disk' = [disk EXCEPT ![into[f]][f] = "half"]
    /\ writer' = [writer EXCEPT ![f] = "write"]
    /\ UNCHANGED <<root, guard, mig, into, faults, history>>

\* Cleaning has removed the backup, or has just found it unchanged.
Passed(f) ==
    \/ writer[f] = "adrift"
    \/ \E m \in Migrations : f \in mig[m].doomed /\ mig[m].from[f] = into[f]

\* A writer whose file has been removed still writes to it, and succeeds.
Complete(f) ==
    /\ writer[f] \in {"write", "adrift"}
    /\ disk' = [disk EXCEPT ![into[f]][f] = IF writer[f] = "write" THEN "whole" ELSE @]
    /\ writer' = [writer EXCEPT ![f] = "done"]
    /\ overtaken' = IF Passed(f) THEN overtaken \union {f} ELSE overtaken
    /\ listed' = IF into[f] = root /\ f \notin straddling
                 THEN listed \union {f} ELSE listed
    /\ UNCHANGED <<root, guard, mig, into, faults, straddling, asked, owed>>

----------------------------------------------------------------------------
(* Beginning, cancelling and leaving a migration                           *)

\* Plausible bug: only Drop lowers the cancel flag.
Begin_KeepCancel(m, target, keep) ==
    /\ mig[m].at = "idle"
    /\ active = {}
    /\ active' = {m}
    /\ Goto(m, [NewTask EXCEPT !.at = "validate", !.target = target, !.keep = keep,
                               !.before = disk[target]])
    /\ straddling' = straddling \union {f \in Files : Busy(f)}
    /\ UNCHANGED <<disks, cancel, writers, faults, listed, overtaken, asked, owed>>

\* begin_migration: a request that finds another one active is refused.
Begin(m, target, keep) ==
    /\ mig[m].at = "idle"
    /\ active = {}
    /\ active' = {m}
    /\ cancel' = FALSE
    /\ Goto(m, [NewTask EXCEPT !.at = "validate", !.target = target, !.keep = keep,
                               !.before = disk[target]])
    /\ straddling' = straddling \union {f \in Files : Busy(f)}
    /\ UNCHANGED <<disks, writers, faults, listed, overtaken, asked, owed>>

\* cancel_backup_root_dir_change; the dialog offers it until it hears that
\* the copying is over, and not for a change without migration.
Cancel(m) ==
    /\ m \in active
    /\ mig[m].keep
    /\ m \notin asked
    /\ cancel' = TRUE
    /\ asked' = asked \union {m}
    /\ owed' = IF mig[m].at \in Cancellable THEN owed \union {m} ELSE owed
    /\ UNCHANGED <<disks, active, mig, writers, faults, listed, straddling, overtaken>>

\* ActiveMigrationGuard::drop gives the slot back and then lowers the flag:
\* a cancel of the next migration that comes between the two is lost.
Unlock(m) ==
    /\ mig[m].at = "unlock"
    /\ active' = active \ {m}
    /\ Goto(m, [mig[m] EXCEPT !.at = "lower"])
    /\ UNCHANGED <<disks, cancel, writers, faults, history>>

Lower(m) ==
    /\ mig[m].at = "lower"
    /\ cancel' = FALSE
    /\ owed' = owed \ active
    /\ Goto(m, [NewTask EXCEPT !.at = "over", !.target = mig[m].target,
                               !.result = mig[m].result])
    /\ UNCHANGED <<disks, active, writers, faults, listed, straddling, overtaken, asked>>

----------------------------------------------------------------------------
(* The scan                                                                *)

\* The current directory is the target already, or it is to be left as it is.
Validate(m) ==
    /\ mig[m].at = "validate"
    /\ IF mig[m].target = root
       THEN Return(m, "ok")
       ELSE Goto(m, [mig[m] EXCEPT !.at = IF mig[m].keep THEN "scan" ELSE "plain",
                                   !.todo = Files])
    /\ UNCHANGED <<disks, guard, writers, faults, history>>

\* patch_user_config without moving anything.
SwitchOnly(m) ==
    /\ mig[m].at = "plain"
    /\ \/ /\ root' = mig[m].target
          /\ listed' = {f \in Files : disk[root'][f] = "whole"}
          /\ Return(m, "ok")
          /\ UNCHANGED faults
       \/ Fault /\ Return(m, "failed") /\ UNCHANGED <<root, listed>>
    /\ UNCHANGED <<disk, guard, writers, straddling, overtaken, asked, owed>>

\* The current directory is read before the older ones, and the first file
\* for a destination is the one that is moved.
Source(f) == IF disk[root][f] # "absent" THEN root ELSE Legacy

\* collect_migration_tree: one entry.
Scan(m, f) ==
    /\ mig[m].at = "scan" /\ f \in mig[m].todo
    /\ \/ /\ cancel
          /\ Return(m, "cancelled")
          /\ UNCHANGED faults
       \/ /\ ~cancel
          /\ Goto(m, [mig[m] EXCEPT !.todo = @ \ {f}, !.from[f] = Source(f),
                                    !.files[f] = disk[Source(f)][f]])
          /\ UNCHANGED faults
       \/ Fault /\ Return(m, "failed")
    /\ UNCHANGED <<disks, guard, writers, history>>

Found(m) == {f \in Files : mig[m].files[f] # "absent"}

\* No file of the manifest may exist in the target.
CheckTarget(m) ==
    /\ mig[m].at = "scan" /\ mig[m].todo = {}
    /\ IF \E f \in Found(m) : disk[mig[m].target][f] # "absent"
       THEN Return(m, "failed")
       ELSE Goto(m, [mig[m] EXCEPT !.at = "start"])
    /\ UNCHANGED <<disks, guard, writers, faults, history>>

----------------------------------------------------------------------------
(* Copying                                                                 *)

Start(m) ==
    /\ mig[m].at = "start"
    /\ \/ cancel /\ Return(m, "cancelled") /\ UNCHANGED faults
       \/ /\ ~cancel
          /\ Goto(m, [mig[m] EXCEPT !.at = "copy", !.todo = Found(m)])
          /\ UNCHANGED faults
       \/ ~cancel /\ Fault /\ Return(m, "failed")
    /\ UNCHANGED <<disks, guard, writers, history>>

\* A source that is gone or has another size ends the migration.
Copy(m, f) ==
    LET read == disk[mig[m].from[f]][f] IN
    /\ mig[m].at = "copy" /\ f \in mig[m].todo
    /\ \/ cancel /\ Return(m, "cancelled") /\ UNCHANGED faults
       \/ /\ ~cancel
          /\ IF read = mig[m].files[f]
             THEN Goto(m, [mig[m] EXCEPT !.todo = @ \ {f}, !.staged[f] = read])
             ELSE Return(m, "failed")
          /\ UNCHANGED faults
       \/ ~cancel /\ Fault /\ Return(m, "failed")
    /\ UNCHANGED <<disks, guard, writers, history>>

\* Plausible bug: a cancel during the last copy is not looked for.
LastCancel_Skipped(m) ==
    /\ mig[m].at = "copy" /\ mig[m].todo = {}
    /\ Goto(m, [mig[m] EXCEPT !.at = "verify"])
    /\ UNCHANGED <<disks, guard, writers, faults, history>>

\* The last point at which a cancel stops the migration.
LastCancel(m) ==
    /\ mig[m].at = "copy" /\ mig[m].todo = {}
    /\ IF cancel THEN Return(m, "cancelled")
                 ELSE Goto(m, [mig[m] EXCEPT !.at = "verify"])
    /\ UNCHANGED <<disks, guard, writers, faults, history>>

Verify(m) ==
    /\ mig[m].at = "verify"
    /\ \/ /\ mig[m].staged = mig[m].files
          /\ Goto(m, [mig[m] EXCEPT !.at = "place", !.todo = Found(m)])
          /\ UNCHANGED faults
       \/ Fault /\ Return(m, "failed")
    /\ UNCHANGED <<disks, guard, writers, history>>

----------------------------------------------------------------------------
(* Switching                                                               *)

\* The copy is renamed into place; a destination that has appeared since
\* the scan, or a failing rename, undoes the renames made so far.
Place(m, f) ==
    LET target == mig[m].target IN
    /\ mig[m].at = "place" /\ f \in mig[m].todo
    /\ \/ /\ disk[target][f] = "absent"
          /\ disk' = [disk EXCEPT ![target][f] = mig[m].staged[f]]
          /\ Goto(m, [mig[m] EXCEPT !.todo = @ \ {f}, !.staged[f] = "absent",
                                    !.placed = @ \union {f}])
          /\ UNCHANGED faults
       \/ /\ (disk[target][f] # "absent" /\ UNCHANGED faults) \/ Fault
          /\ Goto(m, [mig[m] EXCEPT !.at = "rollback"])
          /\ UNCHANGED disk
    /\ UNCHANGED <<root, guard, writers, history>>

\* rollback_finalized_files: a file that cannot be removed stays.
Rollback(m, f) ==
    /\ mig[m].at = "rollback" /\ f \in mig[m].placed
    /\ \/ /\ disk' = [disk EXCEPT ![mig[m].target][f] = "absent"]
          /\ Goto(m, [mig[m] EXCEPT !.placed = @ \ {f}])
          /\ UNCHANGED faults
       \/ /\ Fault
          /\ Goto(m, [mig[m] EXCEPT !.placed = @ \ {f},
                                    !.before[f] = disk[mig[m].target][f]])
          /\ UNCHANGED disk
    /\ UNCHANGED <<root, guard, writers, history>>

\* Plausible bug: an error returns without undoing the renames.
RolledBack_Early(m) ==
    /\ mig[m].at = "rollback"
    /\ Return(m, "failed")
    /\ UNCHANGED <<disks, guard, writers, faults, history>>

RolledBack(m) ==
    /\ mig[m].at = "rollback" /\ mig[m].placed = {}
    /\ Return(m, "failed")
    /\ UNCHANGED <<disks, guard, writers, faults, history>>

\* Plausible bug: the configuration is patched before the renames are done.
Switch_Early(m) ==
    /\ mig[m].at = "place"
    /\ root' = mig[m].target
    /\ Goto(m, [mig[m] EXCEPT !.at = "clean", !.todo = Found(m)])
    /\ UNCHANGED <<disk, guard, writers, faults, history>>

\* patch_user_config: if it fails, the old directory remains configured.
Switch(m) ==
    /\ mig[m].at = "place" /\ mig[m].todo = {}
    /\ \/ /\ root' = mig[m].target
          /\ Goto(m, [mig[m] EXCEPT !.at = "clean", !.todo = Found(m)])
          /\ UNCHANGED faults
       \/ /\ Fault
          /\ Goto(m, [mig[m] EXCEPT !.at = "rollback"])
          /\ UNCHANGED root
    /\ UNCHANGED <<disk, guard, writers, history>>

----------------------------------------------------------------------------
(* Cleaning                                                                *)

\* Plausible bug: a source is removed because it was copied.
Unchanged_Assumed(m, f) == disk[mig[m].from[f]][f] # "absent"

\* source_file_is_unchanged, of a source that exists.
Unchanged(m, f) ==
    /\ disk[mig[m].from[f]][f] # "absent"
    /\ disk[mig[m].from[f]][f] = mig[m].files[f]

\* cleanup_migrated_sources looks at a source ...
Inspect(m, f) ==
    /\ mig[m].at = "clean" /\ mig[m].doomed = {} /\ f \in mig[m].todo
    /\ Goto(m, [mig[m] EXCEPT !.todo = @ \ {f},
                              !.doomed = IF Unchanged(m, f) THEN {f} ELSE {}])
    /\ UNCHANGED <<disks, guard, writers, faults, history>>

\* ... and removes it, also from under a writer; one that cannot be removed stays.
RemoveSource(m, f) ==
    /\ mig[m].at = "clean" /\ f \in mig[m].doomed
    /\ \/ /\ disk' = [disk EXCEPT ![mig[m].from[f]][f] = "absent"]
          /\ writer' = [writer EXCEPT ![f] =
                IF @ = "write" /\ into[f] = mig[m].from[f] THEN "adrift" ELSE @]
          /\ UNCHANGED faults
       \/ Fault /\ UNCHANGED <<disk, writer>>
    /\ Goto(m, [mig[m] EXCEPT !.doomed = {}])
    /\ UNCHANGED <<root, guard, into, history>>

Finish(m) ==
    /\ mig[m].at = "clean" /\ mig[m].doomed = {} /\ mig[m].todo = {}
    /\ Return(m, "ok")
    /\ UNCHANGED <<disks, guard, writers, faults, history>>

\* The program is killed: threads, guard and flag are gone, files stay.
Crash ==
    /\ Fault
    /\ active' = {}
    /\ cancel' = FALSE
    /\ mig' = [m \in Migrations |->
          IF mig[m].at \in {"idle", "over"} THEN mig[m]
          ELSE [NewTask EXCEPT !.at = "over"]]
    /\ writer' = [f \in Files |-> IF Busy(f) THEN "dead" ELSE writer[f]]
    /\ owed' = {}
    /\ UNCHANGED <<disks, into, listed, straddling, overtaken, asked>>

Next ==
    \/ \E f \in Files : MayWrite(f) \/ Resolve(f) \/ Create(f) \/ Complete(f)
    \/ \E m \in Migrations :
          \/ \E target \in Roots, keep \in BOOLEAN : Begin(m, target, keep)
          \/ Cancel(m) \/ Unlock(m) \/ Lower(m)
          \/ Validate(m) \/ SwitchOnly(m) \/ CheckTarget(m) \/ Start(m)
          \/ LastCancel(m) \/ Verify(m) \/ RolledBack(m) \/ Switch(m) \/ Finish(m)
          \/ \E f \in Files : Scan(m, f) \/ Copy(m, f) \/ Place(m, f)
                             \/ Rollback(m, f) \/ Inspect(m, f) \/ RemoveSource(m, f)
    \/ Crash

Spec == Init /\ [][Next]_vars
=============================================================================
