--------------------------- MODULE BackupStorage ---------------------------
(***************************************************************************)
(* The backups of session transfers, the directories they are in, and the  *)
(* requests to move them (src-tauri/src/modules/backup_storage.rs): what   *)
(* is there to be seen of them, and what the user is promised of it.       *)
(* BackupMigration is how that comes about.                                *)
(***************************************************************************)
CONSTANTS
    Roots,      \* directories the user may choose
    Legacy,     \* the directories of older versions, as one place
    Files,      \* relative paths of backups
    Migrations  \* requests to change the directory, by their id

VARIABLES
    disk,       \* what each place holds of each backup
    root,       \* backup_directory of the configuration
    mig,        \* where each migration is, and its locals
    writer,     \* where the operation that writes each backup is
    listed,     \* history: complete backups the user has seen in the directory
    straddling, \* history: backups being written while a migration ran
    overtaken,  \* history: backups completed after cleaning had passed them
    asked,      \* history: migrations a cancel was accepted for
    owed        \* history: those among them that must still stop

Places == Roots \union {Legacy}

\* The phases a cancel can still be honoured in.
Cancellable == {"validate", "scan", "check", "start", "copy", "last"}

\* A backup whose operation has ended is complete in some directory, however
\* migrations fail, are cancelled or killed -- unless cleaning had already
\* passed it when its last byte was written.
CompleteBackupsAreKept ==
    \A f \in Files : writer[f] = "done" /\ f \notin overtaken =>
        \E p \in Places : disk[p][f] = "whole"

\* What the user has seen in the configured directory he finds in the
\* configured directory, before, during and after a migration; only a
\* change without migration hides it.
ListedBackupsStayListed == \A f \in listed : disk[root][f] = "whole"

\* No complete backup is lost, nor hidden by a migration.
BackupsAreKept == CompleteBackupsAreKept /\ ListedBackupsStayListed

\* A cancel accepted while the files were still being scanned or copied
\* keeps the migration from going any further.  (Excepted is a cancel that the
\* guard of the previous migration wipes out, see Lower.)
CancelsAreHonoured ==
    \A m \in owed : mig[m].at \in Cancellable \union {"unlock", "lower", "over"}

\* Nobody's migration is cancelled by the cancel of another.
OnlyItsOwnCancelStopsIt ==
    \A m \in Migrations : mig[m].result = "cancelled" => m \in asked

\* A cancel stops the migration it was accepted for, and no other.
CancelsReachTheirOwn == CancelsAreHonoured /\ OnlyItsOwnCancelStopsIt

\* A migration that returns an error has taken back whatever it put into the
\* target, so that the user can try again.
FailureLeavesTargetAlone ==
    \A m \in Migrations :
        mig[m].at = "unlock" /\ mig[m].result \in {"failed", "cancelled"} =>
            \A f \in Files \ straddling :
                disk[mig[m].target][f] = mig[m].before[f]
=============================================================================
