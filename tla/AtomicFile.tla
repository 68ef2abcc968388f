---------------------------- MODULE AtomicFile ----------------------------
(***************************************************************************)
(* src-tauri/src/modules/atomic_write.rs: one path of the application's    *)
(* data directory, its .bak companion, and the threads that write, delete, *)
(* conditionally migrate and read it.                                      *)
(*                                                                         *)
(* Every mutation runs under the path's entry of PATH_WRITE_LOCKS.  A      *)
(* reader takes no lock: it reads, and only when the content does not      *)
(* parse does it probe for the .bak file (still without the lock), take    *)
(* the lock, and roll the main file back.  Between any two file-system     *)
(* calls another thread may run, the outside world may damage a file, or   *)
(* the process may die.                                                    *)
(*                                                                         *)
(* A content is a value with an identity (its SHA-256): Json contents      *)
(* parse, Alien ones are well-formed JSON of another shape, Junk is empty, *)
(* torn or NUL-filled.  A temporary file is private to its writer until it *)
(* is renamed, so only the rename appears.                                 *)
(***************************************************************************)
CONSTANTS
    Threads,
    Json,       \* contents the reader's type accepts
    Alien,      \* JSON, but not of the reader's type (another version's file)
    Junk,       \* content that fails content_is_safe_backup_source
    Rot,        \* a .bak damaged from outside
    Absent,     \* no such file
    NoThread,
    BackupMayFail \* whether writing the .bak may fail

Contents == Json \union Alien

ASSUME ContentsDistinct ==
    /\ Json \intersect Alien = {}
    /\ {Junk, Rot, Absent} \intersect Contents = {}
    /\ Junk # Rot /\ Junk # Absent /\ Rot # Absent

ASSUME NoThreadIsNoThread == NoThread \notin Threads

ASSUME BackupMayFailIsBoolean == BackupMayFail \in BOOLEAN

VARIABLES
    main,       \* content of the path
    bak,        \* content of <path>.bak
    lock,       \* holder of path_write_lock(path)
    pc,         \* where each thread is inside atomic_write.rs
    call,       \* the call each thread executes
    stored      \* ghost: contents the path has ever held

vars == <<main, bak, lock, pc, call, stored>>

Foreign == Alien \union {Junk}

Ops == {"write", "bytes", "cas", "remove", "removeIf", "restore"}

Idle == [op |-> "none", seen |-> Absent, arg |-> Absent]

\* Mutant: whatever is on disk counts as a backup source.
Safe_Anything(c) == c # Absent

\* content_is_safe_backup_source
Safe(c) == c \in Contents

TypeOK ==
    /\ main \in Contents \union {Junk, Absent}
    /\ bak \in Contents \union {Junk, Rot, Absent}
    /\ lock \in Threads \union {NoThread}
    /\ pc \in [Threads -> {"idle", "probe", "wait", "locked", "backup",
                           "rename", "unlink", "reread"}]
    /\ call \in [Threads -> [op: Ops \union {"none"},
                             seen: Contents \union {Junk, Absent},
                             arg: Contents \union {Absent}]]
    /\ stored \subseteq Contents \union {Junk}

\* A start of the application on files an earlier run left behind.
Init ==
    /\ main \in Contents \union {Junk, Absent}
    /\ bak \in (Contents \union {Absent, Rot})
    /\ lock = NoThread
    /\ pc = [t \in Threads |-> "idle"]
    /\ call = [t \in Threads |-> Idle]
    /\ stored = ({main} \union {bak}) \ {Absent, Rot}

Goto(t, l) == pc' = [pc EXCEPT ![t] = l]

\* The guard of the path lock is dropped and the call returns.
Return(t) ==
    /\ Goto(t, "idle")
    /\ lock' = NoThread
    /\ call' = [call EXCEPT ![t] = Idle]

Enter(t, op, seen, arg, l) ==
    /\ pc[t] = "idle"
    /\ Goto(t, l)
    /\ call' = [call EXCEPT ![t] = [op |-> op, seen |-> seen, arg |-> arg]]
    /\ UNCHANGED <<main, bak, lock, stored>>

CallWrite(t) == \E c \in Json : Enter(t, "write", Absent, c, "wait")

CallWriteBytes(t) == \E c \in Json : Enter(t, "bytes", Absent, c, "wait")

\* The caller has read and parsed the file earlier; its hash is the condition.
CallCas(t) ==
    /\ main \in Json
    /\ \E c \in Json : Enter(t, "cas", main, c, "wait")

CallRemove(t) == Enter(t, "remove", Absent, Absent, "wait")

CallRemoveIf(t) == main # Absent /\ Enter(t, "removeIf", main, Absent, "wait")

\* A reader whose content does not parse; one that parses changes nothing.
CallParse(t) ==
    /\ main \in Foreign
    /\ Enter(t, "restore", main, Absent, "probe")

\* restore_from_backup looks for the .bak before it takes the lock.
ProbeBackup(t) ==
    /\ pc[t] = "probe"
    /\ \/ /\ bak = Absent
          /\ Goto(t, "idle")
          /\ call' = [call EXCEPT ![t] = Idle]
       \/ /\ bak # Absent
          /\ Goto(t, "wait")
          /\ UNCHANGED call
    /\ UNCHANGED <<main, bak, lock, stored>>

\* Mutant: the caller does not take the path's lock.
Acquire_NoLock(t) ==
    /\ pc[t] = "wait"
    /\ lock' = t
    /\ Goto(t, "locked")
    /\ UNCHANGED <<main, bak, call, stored>>

Acquire(t) ==
    /\ pc[t] = "wait"
    /\ lock = NoThread
    /\ lock' = t
    /\ Goto(t, "locked")
    /\ UNCHANGED <<main, bak, call, stored>>

\* Mutant: the file only has to exist, its hash is not compared.
ConditionMatches_Exists(t) == main # Absent

\* The re-read and hash comparison under the lock.
ConditionMatches(t) == main = call[t].seen

\* The first thing each operation does under the lock.
Locked(t) ==
    /\ pc[t] = "locked"
    /\ \/ /\ call[t].op = "write"
          /\ Goto(t, "backup")
          /\ UNCHANGED <<lock, call>>
       \/ /\ call[t].op = "bytes"
          /\ Goto(t, "rename")
          /\ UNCHANGED <<lock, call>>
       \/ /\ call[t].op = "remove"
          /\ Goto(t, "unlink")
          /\ UNCHANGED <<lock, call>>
       \/ /\ call[t].op \in {"cas", "removeIf"}
          /\ ConditionMatches(t)
          /\ Goto(t, IF call[t].op = "cas" THEN "backup" ELSE "unlink")
          /\ UNCHANGED <<lock, call>>
       \/ /\ call[t].op \in {"cas", "removeIf"}
          /\ ~ConditionMatches(t)
          /\ Return(t)
       \/ /\ call[t].op = "restore"
          /\ Safe(bak)
          /\ Goto(t, "rename")
          /\ call' = [call EXCEPT ![t].arg = bak]
          /\ UNCHANGED lock
       \/ /\ call[t].op = "restore"
          /\ ~Safe(bak)
          /\ Return(t)
    /\ UNCHANGED <<main, bak, stored>>

\* Mutant: the current file is copied unread, damaged or not.
BackUp_Unchecked(t) ==
    /\ pc[t] = "backup"
    /\ bak' = main
    /\ Goto(t, "rename")
    /\ UNCHANGED <<main, lock, call, stored>>

\* Mutant: an existing backup is left alone.
BackUp_FirstOnly(t) ==
    /\ pc[t] = "backup"
    /\ IF bak = Absent /\ Safe(main) THEN bak' = main ELSE UNCHANGED bak
    /\ Goto(t, "rename")
    /\ UNCHANGED <<main, lock, call, stored>>

\* write_string_atomic_internal copies a safe main file to the .bak; a
\* failure to do so is logged and the write goes on.
BackUp(t) ==
    /\ pc[t] = "backup"
    /\ \/ Safe(main) /\ bak' = main
       \/ ~Safe(main) /\ UNCHANGED bak
       \/ BackupMayFail /\ UNCHANGED bak
    /\ Goto(t, "rename")
    /\ UNCHANGED <<main, lock, call, stored>>

\* The synced temporary file replaces the path.
Rename(t) ==
    /\ pc[t] = "rename"
    /\ main' = call[t].arg
    /\ stored' = stored \union {call[t].arg}
    /\ IF call[t].op = "restore"
       THEN Goto(t, "reread") /\ lock' = NoThread /\ UNCHANGED call
       ELSE Return(t)
    /\ UNCHANGED bak

Unlink(t) ==
    /\ pc[t] = "unlink"
    /\ main' = Absent
    /\ Return(t)
    /\ UNCHANGED <<bak, stored>>

\* Any file-system call under the lock may fail and end the operation.
Fail(t) ==
    /\ pc[t] \in {"locked", "rename", "unlink"}
    /\ Return(t)
    /\ UNCHANGED <<main, bak, stored>>

\* After a rollback the reader reads and parses the path once more.
Reread(t) ==
    /\ pc[t] = "reread"
    /\ Goto(t, "idle")
    /\ call' = [call EXCEPT ![t] = Idle]
    /\ UNCHANGED <<main, bak, lock, stored>>

\* Another program, another version of this one, or the disk.
Interfere ==
    /\ \/ /\ \E c \in Foreign : main' = c /\ stored' = stored \union {c}
          /\ UNCHANGED bak
       \/ /\ bak # Absent /\ bak' = Rot
          /\ UNCHANGED <<main, stored>>
    /\ UNCHANGED <<lock, pc, call>>

Crash ==
    /\ lock' = NoThread
    /\ pc' = [t \in Threads |-> "idle"]
    /\ call' = [t \in Threads |-> Idle]
    /\ UNCHANGED <<main, bak, stored>>

Step(t) ==
    \/ CallWrite(t) \/ CallWriteBytes(t) \/ CallCas(t) \/ CallRemove(t)
    \/ CallRemoveIf(t) \/ CallParse(t)
    \/ ProbeBackup(t) \/ Acquire(t) \/ Locked(t) \/ BackUp(t) \/ Rename(t)
    \/ Unlink(t) \/ Fail(t) \/ Reread(t)

Next == (\E t \in Threads : Step(t)) \/ Interfere \/ Crash

Spec == Init /\ [][Next]_vars
---------------------------------------------------------------------------
(***************************************************************************)
(* Properties                                                              *)
(***************************************************************************)

\* A thread is inside the critical section of the path lock.
Critical(t) == pc[t] \in {"locked", "backup", "rename", "unlink"}

\* The .bak is only ever a well-formed content that the path itself has
\* held: neither a torn file nor a half-written one is copied over the last
\* good backup, and no write of one caller ends in the backup of another
\* (write_string_atomic_internal's copy, restore_from_backup's source).
BackupUsable == bak \in (stored \intersect Contents) \union {Absent, Rot}

\* When a string write is about to replace a content of this program, the
\* .bak holds exactly that content: whatever ran since the copy was made, a
\* rollback after the write returns the content just replaced.  It needs the
\* copy to succeed (BackupMayFail = FALSE).
PreviousKept ==
    \A t \in Threads :
        pc[t] = "rename" /\ call[t].op \in {"write", "cas"} /\ main \in Json
            => bak \in {main, Rot}

\* A conditional write or delete takes effect only on the content whose hash
\* it was bound to: never over a newer write of this program, never to
\* recreate a deleted file (write_string_atomic_if_hash_matches,
\* remove_file_if_hash_matches).
ConditionalNeverClobbers ==
    [][\A t \in Threads :
          call[t].op \in {"cas", "removeIf"} /\ pc[t] # pc'[t] /\ main' # main
              => main \in ({call[t].seen} \union Foreign) \ {Absent}]_vars

\* The comment on restore_from_backup's lock: a restore cannot race a
\* concurrent migration or delete.  A rollback would then replace the content
\* its reader failed to parse, or other foreign content, and neither a newer
\* write of this program nor a file it has deleted.
RestoreReplacesWhatItRead ==
    [][\A t \in Threads :
          call[t].op = "restore" /\ pc[t] = "rename" /\ pc'[t] = "reread"
              => main \in {call[t].seen} \union Foreign]_vars

\* What makes the properties above inductive: exactly the lock holder is in
\* a critical section, a thread's place in the code fits its call, a bound
\* condition that was verified stays true, and the path's past covers what
\* is on disk.
LockHeld == \A t \in Threads : Critical(t) <=> lock = t

CallFitsPlace ==
    \A t \in Threads :
        /\ pc[t] = "idle" <=> call[t] = Idle
        /\ pc[t] = "idle" <=> call[t].op = "none"
        /\ pc[t] = "unlink" => call[t].op \in {"remove", "removeIf"}
        /\ pc[t] = "backup" => call[t].op \in {"write", "cas"}
        /\ pc[t] = "rename" => call[t].op \in {"write", "bytes", "cas", "restore"}
        /\ pc[t] \in {"probe", "reread"} => call[t].op = "restore"
        /\ call[t].op \in {"write", "bytes", "cas"} => call[t].arg \in Json
        /\ call[t].op \in {"cas", "removeIf"} => call[t].seen # Absent
        /\ call[t].op = "restore" /\ pc[t] = "rename"
             => call[t].arg \in stored \intersect Contents

ConditionHolds ==
    \A t \in Threads :
        pc[t] \in {"backup", "rename", "unlink"} /\ call[t].op \in {"cas", "removeIf"}
            => main \in {call[t].seen} \union Foreign

StoredCovers == main \in stored \union {Absent}

IInv ==
    /\ TypeOK
    /\ LockHeld
    /\ CallFitsPlace
    /\ ConditionHolds
    /\ StoredCovers
    /\ BackupUsable

\* atomic_write.rs implements the linearizable file.
Linear == INSTANCE LinearFile WITH
    file <- main,
    past <- stored,
    call <- [t \in Threads |->
               IF call[t].op = "restore" THEN [call[t] EXCEPT !.arg = Absent]
                                         ELSE call[t]]

\* Every call takes effect at one instant between its start and its return,
\* whatever the interleaving and wherever the process dies.
ImplementsLinearFile == Linear!Spec
===========================================================================
