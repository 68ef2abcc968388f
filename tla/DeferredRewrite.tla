-------------------------- MODULE DeferredRewrite --------------------------
(***************************************************************************)
(* src-tauri/src/modules/deferred_account_rewrite.rs with the load path    *)
(* that feeds it (load_account and deserialize_account_file): an account   *)
(* detail file found in plaintext, or encrypted too long ago, is encrypted *)
(* again by a background worker.                                           *)
(*                                                                         *)
(* A loader reads the file, puts the account's key into PENDING_KEYS and   *)
(* tries to enqueue a job bound to the hash of what it read; these are     *)
(* separate steps.  One worker takes jobs off the bounded queue and        *)
(* performs the conditional write of AtomicFile, which takes effect at one *)
(* instant.  Meanwhile accounts are saved and deleted.                     *)
(*                                                                         *)
(* A content is identified by the stamp of the write that produced it (an  *)
(* encryption draws a fresh nonce, so equal accounts have unequal files);  *)
(* data is the account it holds.                                           *)
(***************************************************************************)
EXTENDS Naturals, Sequences, FiniteSets

CONSTANTS
    Accounts,
    Loaders,        \* threads that load accounts
    Capacity,       \* REWRITE_QUEUE_CAPACITY
    MaxEdits,       \* bound on saves and rotations of a behaviour
    MaxFaults,      \* bound on failed rewrites of a behaviour
    Absent,
    NoJob

ASSUME AccountsFinite == IsFiniteSet(Accounts)
ASSUME CapacityPositive == Capacity \in Nat \ {0}
ASSUME BoundsAreNat == MaxEdits \in Nat /\ MaxFaults \in Nat

VARIABLES
    file,       \* detail file of each account, or Absent
    aged,       \* accounts whose envelope is past ROTATION_SECONDS
    pending,    \* PENDING_KEYS
    queue,      \* the sync channel
    job,        \* what the worker holds, or NoJob
    ran,        \* whether the worker has run the job it holds
    loader,     \* each loader's place and what it read
    stamp,      \* last stamp used
    edits,
    faults

vars == <<file, aged, pending, queue, job, ran, loader, stamp, edits, faults>>

\* Every stamp is a save, or the rewrite of a file that was plain at the
\* start or has been aged since.
MaxStamp == MaxEdits + Cardinality(Accounts)

Content == [data: 0 .. MaxStamp, stamp: 0 .. MaxStamp, plain: BOOLEAN]

Job == [key: Accounts, src: Content]

ASSUME SpecialValues == Absent \notin Content /\ NoJob \notin Job

\* `at` is "idle", "insert" (has read, not yet in PENDING_KEYS) or "send".
LoaderState ==
    [at: {"insert", "send"}, key: Accounts, src: Content]
        \union {[at |-> "idle"]}

TypeOK ==
    /\ file \in [Accounts -> Content \union {Absent}]
    /\ aged \subseteq Accounts
    /\ pending \subseteq Accounts
    /\ queue \in Seq(Job)
    /\ job \in Job \union {NoJob}
    /\ ran \in BOOLEAN
    /\ loader \in [Loaders -> LoaderState]
    /\ stamp \in 0 .. MaxStamp
    /\ edits \in 0 .. MaxEdits
    /\ faults \in 0 .. MaxFaults

\* A start of the application on the files an earlier version left.
Init ==
    /\ file \in [Accounts -> [data: {0}, stamp: {0}, plain: BOOLEAN]
                                \union {Absent}]
    /\ aged = {}
    /\ pending = {}
    /\ queue = << >>
    /\ job = NoJob
    /\ ran = FALSE
    /\ loader = [l \in Loaders |-> [at |-> "idle"]]
    /\ stamp = 0
    /\ edits = 0
    /\ faults = 0

\* Mutant: the loader schedules before it knows there is an account to
\* rewrite.
NeedsRewrite_NotChecked(a) == a \notin aged

\* deserialize_account_file's needs_rewrite.
NeedsRewrite(a) == file[a] # Absent /\ (file[a].plain \/ a \in aged)

\* load_account reads a file that wants rewriting.
Load(l) ==
    /\ loader[l].at = "idle"
    /\ \E a \in Accounts :
         /\ NeedsRewrite(a)
         /\ loader' = [loader EXCEPT ![l] =
                         [at |-> "insert", key |-> a, src |-> file[a]]]
    /\ UNCHANGED <<file, aged, pending, queue, job, ran, stamp, edits, faults>>

\* schedule_keyed: one job per key at a time.
Insert(l) ==
    /\ loader[l].at = "insert"
    /\ IF loader[l].key \in pending
       THEN /\ loader' = [loader EXCEPT ![l] = [at |-> "idle"]]
            /\ UNCHANGED pending
       ELSE /\ pending' = pending \union {loader[l].key}
            /\ loader' = [loader EXCEPT ![l].at = "send"]
    /\ UNCHANGED <<file, aged, queue, job, ran, stamp, edits, faults>>

\* Mutant: a full queue drops the job but keeps its key.
Send_KeyKept(l) ==
    /\ loader[l].at = "send"
    /\ queue' = IF Len(queue) < Capacity
                THEN Append(queue, [key |-> loader[l].key, src |-> loader[l].src])
                ELSE queue
    /\ loader' = [loader EXCEPT ![l] = [at |-> "idle"]]
    /\ UNCHANGED <<file, aged, pending, job, ran, stamp, edits, faults>>

\* try_send: a full queue gives the key back.
Send(l) ==
    /\ loader[l].at = "send"
    /\ IF Len(queue) < Capacity
       THEN /\ queue' = Append(queue, [key |-> loader[l].key,
                                       src |-> loader[l].src])
            /\ UNCHANGED pending
       ELSE /\ pending' = pending \ {loader[l].key}
            /\ UNCHANGED queue
    /\ loader' = [loader EXCEPT ![l] = [at |-> "idle"]]
    /\ UNCHANGED <<file, aged, job, ran, stamp, edits, faults>>

Receive ==
    /\ job = NoJob
    /\ queue # << >>
    /\ job' = Head(queue)
    /\ queue' = Tail(queue)
    /\ ran' = FALSE
    /\ UNCHANGED <<file, aged, pending, loader, stamp, edits, faults>>

\* Mutant: the rewrite does not compare, it only finds the file there.
Unchanged_Exists(a, src) == file[a] # Absent

\* The condition of write_string_atomic_if_hash_matches.
Unchanged(a, src) == file[a] = src

\* The job's action: the account captured at load time, encrypted afresh,
\* over the very bytes it was loaded from; otherwise nothing.
RunJob ==
    /\ job # NoJob
    /\ ~ran
    /\ ran' = TRUE
    /\ IF Unchanged(job.key, job.src)
       THEN /\ stamp' = stamp + 1
            /\ file' = [file EXCEPT ![job.key] =
                          [data |-> job.src.data, stamp |-> stamp + 1,
                           plain |-> FALSE]]
            /\ aged' = aged \ {job.key}
       ELSE UNCHANGED <<file, aged, stamp>>
    /\ UNCHANGED <<pending, queue, job, loader, edits, faults>>

\* The rewrite fails or panics (catch_unwind): the file stays as it is.
FailJob ==
    /\ job # NoJob
    /\ ~ran
    /\ faults < MaxFaults
    /\ faults' = faults + 1
    /\ ran' = TRUE
    /\ UNCHANGED <<file, aged, pending, queue, job, loader, stamp, edits>>

\* Mutant: the key is released only when the rewrite succeeded.
Release_OnSuccess ==
    /\ job # NoJob
    /\ ran
    /\ pending' = IF file[job.key] # Absent /\ ~file[job.key].plain
                  THEN pending \ {job.key} ELSE pending
    /\ job' = NoJob
    /\ ran' = FALSE
    /\ UNCHANGED <<file, aged, queue, loader, stamp, edits, faults>>

\* remove_pending_key after the action, whatever its outcome.
Release ==
    /\ job # NoJob
    /\ ran
    /\ pending' = pending \ {job.key}
    /\ job' = NoJob
    /\ ran' = FALSE
    /\ UNCHANGED <<file, aged, queue, loader, stamp, edits, faults>>

\* save_account_file: a new account state, always encrypted.
Save(a) ==
    /\ edits < MaxEdits
    /\ edits' = edits + 1
    /\ stamp' = stamp + 1
    /\ file' = [file EXCEPT ![a] =
                  [data |-> stamp + 1, stamp |-> stamp + 1, plain |-> FALSE]]
    /\ aged' = aged \ {a}
    /\ UNCHANGED <<pending, queue, job, ran, loader, faults>>

\* delete_account_file
Delete(a) ==
    /\ file[a] # Absent
    /\ file' = [file EXCEPT ![a] = Absent]
    /\ aged' = aged \ {a}
    /\ UNCHANGED <<pending, queue, job, ran, loader, stamp, edits, faults>>

\* ROTATION_SECONDS go by; the bytes stay the same.
Age(a) ==
    /\ file[a] # Absent
    /\ ~file[a].plain
    /\ a \notin aged
    /\ edits < MaxEdits
    /\ edits' = edits + 1
    /\ aged' = aged \union {a}
    /\ UNCHANGED <<file, pending, queue, job, ran, loader, stamp, faults>>

\* The process ends; what it queued in memory is gone.
Crash ==
    /\ faults < MaxFaults
    /\ faults' = faults + 1
    /\ pending' = {}
    /\ queue' = << >>
    /\ job' = NoJob
    /\ ran' = FALSE
    /\ loader' = [l \in Loaders |-> [at |-> "idle"]]
    /\ UNCHANGED <<file, aged, stamp, edits>>

Worker == Receive \/ RunJob \/ FailJob \/ Release

Next ==
    \/ \E l \in Loaders : Load(l) \/ Insert(l) \/ Send(l)
    \/ Worker
    \/ \E a \in Accounts : Save(a) \/ Delete(a) \/ Age(a)
    \/ Crash

\* A thread inside schedule_keyed goes on, the worker takes and finishes its
\* jobs, and accounts are loaded again and again: the UI lists them on every
\* refresh.  Saving, deleting, failing and crashing are never due.
Fairness ==
    /\ \A l \in Loaders : WF_vars(Insert(l)) /\ WF_vars(Send(l))
    /\ \A l \in Loaders : WF_vars(Load(l))
    /\ WF_vars(Receive) /\ WF_vars(RunJob) /\ WF_vars(Release)

Spec == Init /\ [][Next]_vars

FairSpec == Spec /\ Fairness
---------------------------------------------------------------------------
\* Keys a job or a loader about to enqueue one accounts for.
Queued == {queue[i].key : i \in DOMAIN queue}
Sending == {loader[l].key : l \in {m \in Loaders : loader[m].at = "send"}}
Holding == IF job = NoJob THEN {} ELSE {job.key}

\* PENDING_KEYS holds exactly the keys some job or sender will release, and
\* each of them once: a key without a job would stop the account's migration
\* for good, a key with two jobs would let a second writer queue behind.
KeysAccountedFor ==
    /\ pending = Queued \union Sending \union Holding
    /\ Queued \intersect Sending = {}
    /\ Holding \intersect (Queued \union Sending) = {}
    /\ Cardinality(Queued) = Len(queue)
    /\ \A l, m \in Loaders :
         loader[l].at = "send" /\ loader[m].at = "send" /\ l # m
           => loader[l].key # loader[m].key

\* A delayed migration never overwrites a newer account update and never
\* recreates a deleted account (the header of deferred_account_rewrite.rs):
\* when the worker's job has run, every account is still as it was.
MigrationKeepsAccounts ==
    [][~ran /\ ran' =>
         \A a \in Accounts :
           /\ (file[a] = Absent) <=> (file'[a] = Absent)
           /\ file[a] # Absent => file'[a].data = file[a].data]_vars

\* Every key in PENDING_KEYS is released, so an account is never locked out
\* of migration by a job that failed, panicked or found the queue full.
KeysAreReleased == \A a \in Accounts : a \in pending ~> a \notin pending

\* Once accounts are no longer saved or aged and rewrites no longer fail,
\* every file that wants rewriting gets rewritten: no coalesced, rejected or
\* stale job keeps an account in plaintext for good.
EventuallyMigrated == <>[](\A a \in Accounts : ~NeedsRewrite(a))
===========================================================================
