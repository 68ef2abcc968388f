# AI CodePass in TLA+

AI CodePass is a Tauri desktop application: a Rust backend
(`src/src-tauri/src`) and a TypeScript window (`src/src`) that keep accounts of
several AI coding tools (CodeBuddy, CodeBuddy CN, WorkBuddy, Qoder, Trae),
refresh their tokens, switch the tools from one account to another, check in
daily, and back up session transfers. Its own logic is about a handful of small
JSON files that many threads, timers and windows read and rewrite, and about
commands of a window that overlap. That is what is modelled here: who may
overwrite what, what survives a crash, which flag or slot is released by whom,
which late reply still counts, and what must happen eventually.

Paths below are relative to the repository; `modules/x.rs` stands for
`src-tauri/src/modules/x.rs`.

## 1. Inventory

### Modelled

| Component | State it keeps | Operations | What makes it hard | What makes it correct |
|---|---|---|---|---|
| Atomic file writes (`modules/atomic_write.rs`) | a file, its `.bak`, one mutex per path | string and byte writes, conditional write and delete, delete, reading with rollback to the `.bak` | a reader takes no lock until it has decided to roll back; copies to the `.bak` may fail or be skipped; other programs write the same files; the process may die between two system calls | each call takes effect at one instant; a conditional call never overwrites a newer content; a damaged file never replaces the good backup |
| Deferred rewrite (`modules/deferred_account_rewrite.rs`, `secure_account_storage.rs`) | the set of pending keys, a bounded queue, one worker | loads that find a plaintext or aged detail file enqueue a job; the worker encrypts and conditionally writes | the job is old when it runs; a full queue; failing jobs; coalescing of a newer need with an older job | a migration never changes or resurrects an account; every key is given back; every file is migrated in the end |
| Account identity and duplicate merging (`modules/codebuddy_account.rs`; copied in `codebuddy_cn_account.rs`, `workbuddy_account.rs`) | none (pure) | match of a login, duplicate test, union-find grouping, merge | the duplicate test is not transitive, the grouping makes it so | nothing known of a user is lost, a second run changes nothing, users stay apart |
| Account stores (the same files, `qoder_account.rs`, `trae_account_platform_storage.rs`, `account_index_repair.rs`) | an index file and one detail file per account, an index lock | add, import, refresh and tag edits, remove, list, rebuild of an empty or missing index | several files per call, no lock around listings, crashes and I/O errors at and between the files | the index names only what exists; added accounts stay stored and listed, removed ones stay removed; a listing shows accounts that are there all the while; nobody's last account disappears |
| Tray menu rebuilds (`modules/tray.rs`) | a request counter, a slot, a generation, the UI thread's queue | request, claim, collect a snapshot, apply it on the UI thread, release, look again | every atomic access is a step; retiring workers race callers for the slot; the UI thread may refuse | one rebuild at a time; no request is forgotten; the menu never goes back |
| Automatic check-in (`modules/workbuddy_auto_checkin.rs`) | a settings file with a minute and a mark per account and day, a running flag | the scheduler's and the command's cycle, saves from a dialog | minutes pass between reading and writing the settings; midnight; lost replies; retries; kills | a mark is true; one cycle at a time; everybody is checked in |
| Backup directory (`modules/backup_storage.rs`, with `modules/config.rs`) | the configured directory, backups in it and in older places, the active migration, a cancel flag | change of directory with or without migration (scan, stage, rename, switch, clean), cancel, writers of backups | a writer asks only before it starts; every file operation may fail; kills; a cancel meant for one migration meets another | complete backups are kept and stay where they were seen; a failure takes back what it did; a cancel stops its own migration and no other |
| Token keeper (`modules/provider_token_keeper.rs`) | per platform: when it is scanned next, a single-flight mark of its listing; per account: its back-off | a cycle every minute: list, renew what expires within fifteen minutes, three per scan, follow up or wait ten minutes; reset when the setting changes | a listing that exceeds its 15 s goes on in the background; failing accounts come first in every scan; a scan's end overwrites a reset made meanwhile | no token expires that could have been renewed; failing accounts do not starve the others; one listing at a time |
| Trae login (`modules/trae_oauth.rs`, `oauth_pending_state.rs`; the dialog in `src/hooks/useProviderAccountsPage.ts`) | a map of pending logins, one of them also on disk, a callback server per login; the dialog's attempt, its login and the commands in flight | start, callback, completion, cancel, expiry, reading back after a restart; open, close, retry, the closing after a success | map and disk change one after the other; a cancel and the next attempt are not awaited; a login expires while the map's mutex is held | map and disk agree when nothing is in flight; a login is forgotten for a reason only; a closed dialog leaves no login behind; every command ends |
| CodeBuddy, CodeBuddy CN, WorkBuddy and WorkBuddy AI logins (`modules/codebuddy_oauth.rs`, ...; the same dialog) | one slot for a pending login | start, polling, completion, cancel | a poller asks the provider with the slot unlocked, and a newer login takes its slot meanwhile | a newer login survives the end of an older one |
| Qoder login (`modules/qoder_oauth.rs`, the dialog in `src/pages/QoderAccountsPage.tsx`; Qoder CN and QwenWork are alike) | one slot; a dialog of its own | start with a timeout, peek at what a late start has left, replace, completion, cancel | a start that is given up goes on; a mutex is locked twice by a login that times out | a dialog that waits has something to wait for; nothing is left behind |
| Trae sessions (`modules/trae_account_token_injection.rs`, `commands/trae.rs`, `commands/trae_instance.rs`) | the refresh token of an account in its detail file, in the storage of the default client and of each managed instance, and in running clients | refresh, keep-alive, switch, edit, start, stop, rebind; clients that rotate tokens, come and go | each exchange spends the old token; what runs is asked before an await, and no lock covers it | the newest token is kept somewhere; a client that runs keeps its login; a client runs with the account it was started for |
| Automatic refreshing of the window (`src/hooks/useAutoRefresh.ts`, `src/utils/autoRefreshScheduler.ts`) | the set-up under way, a pending one, the scheduler, what is due | set-ups, changes of the configuration, tasks | a change comes while a set-up waits; tasks of a replaced scheduler go on; one task at a time | the scheduler is the one for the configuration; every task runs again and again |
| The window's accounts (`src/stores/createProviderAccountStore.ts`) | the list shown, the current account, the number of the last request of each kind, two flags that let emptiness through | list, refresh, import, switch, delete | operations overlap, answers are late, empty or missing; the flags are shared | the window at rest shows what the backend has |
| Automatic import of a client's login (`modules/auto_local_import.rs`) | the identity last seen, one reader in flight, a lock around a cycle | a poll every 30 s, a scan asked for by the window | the reader outlives its timeout; the account is read again after the identity; imports fail | a login that stays is imported |
| General settings (`src/pages/SettingsPage.tsx`, `commands/system_network_general.rs`) | the configuration; in the form: what it shows, what it knows to be saved, a timer, a queue of saves, the newest load, a reload that was put off | edit, save 300 ms later, load, reload after a change in the quick settings | the form sends differences to what it knows, while earlier saves are under way and others change the same file; the effect that saves does not watch all it sends, and the backend refuses a part of it | form and configuration end as the user chose, and neither takes the other's changes back |

How they interact: every store, the settings of the check-in and the
configuration are written with `atomic_write` (calls to AtomicFile's
operations). A store's `load_account` feeds the deferred rewrite, whose worker
uses the conditional write. The stores call the merge when they list. Whoever
has changed an account calls `update_tray_menu`; the worker then lists the
stores. The backup writers are the session transfers; the migration patches the
user configuration. A login that succeeds, and an import of a client's login,
add an account to a store. Switching to an account makes it the current one and
writes its tokens into the client's storage; the refreshing of the window and
the token keeper exchange the same tokens. The window calls all of this through
Tauri commands, each on a thread or task of its own, and handles their replies
one at a time.

### Left out

`PROJECT.json` lists these with their reasons: the legacy Antigravity accounts
(no page of the frontend calls their commands), WorkBuddy AI and QwenWork
accounts, session transfers, quota cache and alerts, WebDAV, WebSocket, web
report, webhooks, updates, window geometry, the macOS menu, preferences and
logs, check-in schedulers of the frontend, frontend pages, build scripts. They
are data conversion, presentation, or sequential calls of other programs, with
little state of their own.

### Hazards

`PROJECT.json` "hazards" has every place where this code is hard to test, at its
line, with the properties that watch it; the ones without a property say why.

## 2. Plan

Written, in this order, the most depended-on part first:

1. `LinearFile`, `AtomicFile`, `AtomicFile_proofs`
2. `DeferredRewrite` (uses the conditional write as one step)
3. `AccountIdentity`, `DuplicateMerge`, `AccountStore`
4. `TrayRebuild`, `TrayRebuild_proofs`
5. `AutoCheckin`
6. `BackupMigration`
7. `TokenKeeper`
8. `LoginDialog`, with `TraeLogin` and `SlotLogin` under it, and `QoderLogin`
9. `TraeSessions`
10. `AutoRefresh`, `ProviderStore`, `LocalImport`, `SettingsForm`

Proofs, after those of 1 and 4, in this order: `DeferredRewrite_proofs`,
`BackupMigration_proofs`, `AutoCheckin_proofs`, `AccountStore_proofs`, `Window_proofs`,
`LoginDialog_proofs` (section 5).

Composition: `AtomicFile` is the ground of all others; they use one of its
operations as one step, which is what `ImplementsLinearFile` entitles them to.
`AccountStore` and `DuplicateMerge` extend `AccountIdentity`. `TraeLogin` and
`SlotLogin` extend `LoginDialog`: the dialog's steps and the backend's work on
the same set of commands in flight. `MCStores` and `MCWindow` hold several
components that have no state in common: their initial states pick one of them,
which the run then explores while the others keep still.

## 3. Modules and code

**LinearFile** is what `atomic_write.rs` promises: `file`, `past`, and calls that
take effect at one instant. **AtomicFile** has the `.bak`, the lock and the
program counter of each thread inside `atomic_write.rs`. Actions: `Call*` (a
thread enters a function), `ProbeBackup` (the unlocked `exists` of
`restore_from_backup`), `Acquire`, `Locked` (what is done on the first read under
the lock), `BackUp`, `Rename`, `Unlink`, and the environment's damage and crash.
A content has an identity, its hash; `Json` parses, `Alien` is well-formed but of
another version, `Junk` is torn. Temporary files are private until renamed, so
only the rename appears.

**DeferredRewrite**: `file[a]` is the detail file with the stamp of the write that
produced it (a nonce makes equal accounts unequal files); `pending` is
`PENDING_KEYS`, `queue` the sync channel, `job` and `ran` the worker. A panic in
a job is caught in development builds; the release profile has
`panic = "abort"` (`src/Cargo.toml:54`), where it is one of the module's crashes.

**AccountIdentity** has the pure operators; **DuplicateMerge** applies them to every
list. **AccountStore** has one step per file operation: `call[t]` is what a thread
has read and its plan, the operations it is still going to do. `use` selects a
kind of store and which calls are made, so one run covers the stores whose
listing merges and the ones whose listing only reads. Each read and each write
may fail. An index that cannot be read is an empty one for `load_account_index`,
and rebuilt by the checked listing (`ReadIndexFails` has both); a detail file
that cannot be read is an account that is not there (`ReadDetailFails`, `Collect`,
`Decide`). Three variables are history: `owned` are the accounts that were added
and nobody has removed or merged, `hidden` the ones a failed read may have left
out of the index, and `mishaps` says which of the four losses the code is known
for have occurred, each named at `Mishaps`; the properties except these and no
others.

**TrayRebuild** has one step per atomic of `tray.rs`: `requests`, `scheduled`,
`generation` are its three statics, `queue` holds the closures given to
`run_on_main_thread`, `data` and `menu` are versions of the accounts and of what
the menu shows of them.

**AutoCheckin** has the cycle in the code's order (`Steps`): load, schedule,
select, status, perform, second status, save. `config` is the settings file,
`cycle[r].conf` the copy a cycle took of it, `ui` the copy the dialog edits,
`credited` the server's truth.

**BackupStorage** has what is seen of the backups and the properties that are promised
of it; **BackupMigration** is how it comes about: `disk[place][file]` with the states a backup's file passes
through, `root` the configured directory, `active` and `cancel` the two statics,
`mig[m]` where a migration is, `writer[f]` where the operation that writes a
backup is.

**TokenKeeper** is one platform of `provider_token_keeper.rs`: the code is the same
for codebuddy, codebuddy_cn and workbuddy. A clock time of the code (`NEXT_*`,
`expires_at`) is the minutes that are left until it, and `Tick` lets a minute
pass. `at` is where the cycle is, `copy` the expiries of the listed accounts,
`listings` the blocking tasks, of which a timed-out one goes on, and `permit`
what `Notify` keeps for a task that is not waiting. `hindered` is history: the
accounts whose renewal something has stood in the way of since they were due.

**LoginDialog** is the dialog of most providers' pages and the commands it has in
flight (`calls`); an attempt's number is what tells a stale reply. **TraeLogin**
and **SlotLogin** carry the commands out. In `TraeLogin` a command's `pc` stops
between the map (`pending`) and the platform's file (`file`), and every command
first reads the file when the map is empty (`Hydrate`). `Expire` is the clock
passing a login's time, which may come between two readings of it
(`StartAtTheSecond`). In `SlotLogin` the slot is overwritten by a start and
looked at before each poll. **QoderLogin** has its own dialog: `page` keeps what the
refs and states of the component keep, `StartTimesOut` gives a start up that
goes on in `calls`, and `PeekReply` looks for what it has left. `page`, `calls` and what
is promised of them are in **QoderPage**.

**TraeSessions**: `server[a]` is the refresh token the service takes, `saved[a]` the
one in the detail file, `storage[l]` what is in the client's file at place `l`
(0 is the default client, the others the instances), `client[l]` what a running
client holds. `newer` stands for the comparison of the two files' times. A
command is a record in `op`, and a step is a stretch of it without an await.
`check_login_token` is two of them: `Verify` reads the account before the request,
and `Checked` saves that copy, whatever the answer. It is called after a start
and, for the current account, by the token keeper (`Check`).

**AutoRefresh** has the hook's refs (`setup`, `again`) and the scheduler made last;
`wait` and `due` are its `nextRunAt`, `refreshing` the tasks in progress, also
those of a replaced scheduler. **ProviderStore** has the window's view (`shown`,
`current`), the two flags, and `lister` and `resolver`, the operations whose
answer counts; what its promise is about is in **AccountList**. **LocalImport** is one platform of the watcher: `baseline` is its entry
in `LAST_IDENTITIES`, `reader` the blocking thread, `cycle` the poll and the scan,
`holder` who has the lock. **SettingsForm** has the refs of the page: `persisted` is
`persistedGeneralPayloadRef`, `timer` what the next save will send, `saves` the queue of
promises, `load` the newest load. `Unwatched` are the fields that the payload of the
form has and the dependency list of the effect has not (in the code
`codexAutoRestoreTakeoverOnLaunch`, `codexOAuthAppVersion`, `qoderCnAppPath`,
`qoderCnAutoRefresh`, `qoderCnQuotaAlertEnabled` and `qoderCnQuotaAlertThreshold`):
changing one starts no timer, and stops none. `Refused` are the ones that
`is_general_config_patch_field` does not know (`codex_auto_restore_takeover_on_launch`,
`qoder_cn_quota_alert_enabled`, `qoder_cn_quota_alert_threshold`): a save that has
one of them fails as a whole. `chosen` and `excused` are history.

`PROJECT.json` "map" names the lines each definition stands for. A definition
whose name has an underscore and a phrase (`Take_One`, `Safe_Anything`) is a
plausible bug; no specification uses it. Each property of the passing runs is
known to be violated when one of them takes the place of the definition it is
named after.

## 4. Runs

States are distinct states. `pass` runs find no error.

| Run | Instance and bounds | States | What it shows |
|---|---|---|---|
| `atomic_file` | 2 threads, 2 contents, 1 foreign one, symmetric in threads and contents | 41,652 | backups usable, conditional calls never clobber, refinement of `LinearFile`, with damage, failing copies and crashes anywhere |
| `atomic_file_restore_race` | the same | – | **violation**, finding 1 |
| `deferred_rewrite` | 2 accounts, 2 loaders, queue of 1, 2 edits, 1 failure | 299,338 | migrations keep accounts, keys are accounted for and come back, every file is migrated |
| `stores` | one of: an account store with 2 threads, 4 calls, 1 fault in six uses (3 calls where there are listings); every list of up to 4 accounts to be merged; a migration with 3 backups, 2 directories, 2 requests, 2 faults; Trae sessions of 2 accounts with 1 instance, 2 commands, 2 events | 2,780,689 | stores keep their accounts; merging loses nothing and is done in one go; backups are kept and cancels reach their own; tokens are kept and clients left alone |
| `duplicate_merge_users` | lists of up to 3 | – | **violation**, finding 2 |
| `tray_rebuild` | 2 platforms with 2 and 1 changes, 2 callers, 2 workers | 37,934 | one rebuild at a time, monotonic menu, no request lost or waiting for the next |
| `auto_checkin` | 2 accounts, 2 days of 2 minutes, 2 windows, 1 fault, 1 act of the user | 281,658 | true marks, only saves that race a cycle are lost, everybody is checked in |
| `token_keeper` | 3 accounts, the first always fails; the code's times, a token life of 20 minutes, 1 renewal per scan, cycles of up to 1 minute, 1 fault, 1 act of the user | 1,310,578 | no token expires without cause, everyone is renewed |
| `window` | one of: logins in the dialog of Trae (2 attempts, 1 restart), of the providers with a slot (3) or of Qoder (3, 1 fault), the user waiting while 2 commands are in flight; refreshing with 3 tasks, 2 changes, 1 failure; 2 accounts, 2 overlapping operations, 3 operations and mishaps; a client with 2 logins, 3 acts of the user, 1 miss; a form with 3 fields of 2 values (one is typed, one not watched, one not watched and refused), 4 edits there or elsewhere, 1 failure | 649,285 | see the table of section 1 |
| `login_left_pending` | Trae, 2 attempts | – | **violation**, finding 3 |
| `qoder_timeout` | 1 attempt | – | **violation**, finding 4 |
| `trae_guard` | 2 accounts, 1 instance, 2 commands, 1 event | – | **violation**, finding 5 |

**Why the bounds are enough.** Two threads meet every race of the code: each
critical section is entered by one, and every unlocked window is between two
steps of one thread and one step of another. Three contents are the one a
condition was bound to, another, and one that does not parse. A queue of one
with two accounts is full and is drained; two edits make a queued job stale
twice. Four accounts are the least in which two groups can meet over a filled
gap. Two platforms are needed for a snapshot that is old in one part and new in
the other; two workers for one that retires while one serves. Two days have one
midnight, two minutes a window before and after the clock. Three backups are
one for each way a backup comes to a migration. A fault bound of one or two
lets one fault meet the recovery of another where there is a recovery
(the migration), and one fault otherwise. Two attempts to log in are one whose
commands are late and one they can harm; with three, a dialog is closed and
shown again between the two. Two accounts and one instance beside the default
client are the least with which a client can hold another account than the one
a command is about. Three tasks are one in progress, one that is due and one
that could overtake it. Three acts are a switched login, a second one while the
first is imported, and a change of the setting. Three fields are one that the
effect watches and saves, one that it does not watch, and one that the backend
refuses as well; while one is being saved another is changed elsewhere. Four
edits put saves into the queue and change their fields again.

The six uses of a store: `LockedCalls` (additions, imports and removals of two
users, from an empty store), `ReadOnlyLists` (the same beside a listing that only
reads), `ListsAndRefreshes` (two users of one mailbox, who are no duplicates),
`StoredTwice` (one user stored twice, the second time with the uid or without,
with listings and refreshes: a refresh that moves the survivor between two
merges is in it), and `OneMailbox` (logins of two users of one mailbox, and of
someone of it without a uid). Three calls are two listings and the refresh
between them, or a removal and an addition around a listing that rebuilds.

`token_keeper` has all times of the code, in minutes, but for its batch: one
renewal per scan for three in the code, with one failing account and two others
for the three failing ones that would fill a batch. A life of 20 minutes is just
longer than the lead. Its results hold within bounds that it names: with two
failing accounts at the head of the list (in the code, six) their batches take
turns and the accounts behind them are never tried; with cycles of two minutes
(slow replies of every platform) the accounts at the end of a batch can expire.

`stores` and `window` explore components side by side, not together: the initial
states pick one, so the number of states is a sum, and each property is about
the part it names. What is interchangeable is fixed by name: in `stores` whose
login the default client begins with, which of two users or addresses comes first
in a list to be merged (`FirstInList`), and which of two idle threads or requests
begins (`FirstThread`, `FirstRequest`); in `window` the value that all settings begin
with (`FirstValues`).

**Deadlock.** Checked in the runs of `AtomicFile`, whose threads call for ever,
and of `TokenKeeper`, whose task loops for ever.
The others end by their bounds on edits, calls, versions, days or requests, so
a last state without a successor is normal and their configurations switch the
check off. What would be a stuck thread there is caught by the liveness
properties (`CommandsEnd` for the logins), or, in `stores`, is not claimed.

**Fairness.**
- `DeferredRewrite`: weak fairness of the steps of a loader that has started
  (insert, send), of the worker's steps (`Receive`, `RunJob`, `Release`), and
  of loads. The first are running threads; the worker blocks only on its
  channel. Loads are fair because every listing loads every account and the
  window lists periodically; without them nothing promises a migration. Edits,
  faults and crashes are not fair.
- `TrayRebuild`: callers and workers that have been started run, and the UI thread
  serves `run_on_main_thread`. Changes are not fair.
- `AutoCheckin`: the clock goes on; the scheduler's loop starts cycles; a cycle that
  has started continues (every request has a timeout of 30 s,
  `modules/codebuddy_cn_oauth.rs:55`, and a timeout is a lost reply in the
  model). The command, the user and the faults are not fair.
- `TokenKeeper`: time goes on, the task goes on (its waits have timeouts), a
  listing ends, and a thread that has changed the setting carries the change
  through. Faults and the user are not fair. `EveryoneIsRenewed` asks only of
  behaviours in which the keeper stays switched on.
- Logins: commands are carried out, replies are handled, and a login's time passes
  (ten minutes after its start it expires). Neither the user nor the browser
  ever has to do anything.
- `AutoRefresh`: replies are handled, the timer fires, and each command of the
  backend ends. Changes are not fair.
- `LocalImport`: the watcher polls while the setting is on, a scan that was asked for
  is begun, readers and imports that were begun go on. Nobody has to log in.

`AtomicFile`, `AccountStore`, `BackupMigration`, `DuplicateMerge`, `TraeSessions`,
`ProviderStore` and `SettingsForm` state safety only, without fairness.

### Findings

1. **A restore undoes a write or delete it raced** (`atomic_write.rs:273`). The
   comment above says that the path lock keeps a restore from racing a concurrent
   conditional migration or delete. The content it decides on was read before
   the lock, and is not read again under it.
2. **Accounts of different users merge** (`codebuddy_account.rs:485`). An account with
   a mail address and no uid joins two with that address and different uids,
   which are no duplicates of each other. `CHANGELOG.md:86` promises that
   accounts coexist. Logins alone have the same effect: one without a uid takes
   the uid from the account it matches by its address (`codebuddy_account.rs:590`),
   and the next user with that address is written over it.
3. **A login is left pending by the closing after a success**
   (`useProviderAccountsPage.ts:2105`). The dialog stays on screen for 1.2 s after
   a success and begins another attempt meanwhile; the closing does not cancel
   that attempt's login, though the comment of the effect says that closing
   cancels.
4. **A Qoder login that times out blocks its provider** (`qoder_oauth.rs:1401`). The
   function that clears it locks the mutex whose guard its caller holds.
5. **Switching Trae is refused while an instance runs**
   (`trae_account_token_injection.rs:905`). The guard counts every process of the
   platform, while the start of the default client closes only that one.

Met while modelling, without a document to contradict, or beside the one run that
shows a loss of its kind; each is excepted by name in the property that would
otherwise say so, or left out of the uses that a property speaks of:

- **AccountStore.** A merging listing reads the index without the lock and writes
  it back later. An account added in between is stored but no longer listed
  (`codebuddy_account.rs:557`), so `AddedStayListed` is checked for merging
  listings beside refreshes only, and for additions beside each other.
  An index that cannot be read counts as empty (`codebuddy_account.rs:152`): a
  locked call then writes an index of its own account, or of none, and the others
  are no longer listed, though stored (`hidden`). A listing that finds no index
  rebuilds it without the lock, and may put back one older than what was
  written meanwhile (`rebuilt`); the account that an older index names may be
  gone. `UsersKeepTheirAccounts` excepts three ways in which a user's last
  account goes: two listings merge two accounts of the user into different ones,
  since a refresh between their reads has moved the survivor, and each deletes
  what the other keeps (`opposed`); an account loses its uid to a login, an import
  or an older copy without one (`nameless`); a merge deletes the others though
  it could not save the survivor (`unsaved`). Each exception is needed: without
  it TLC finds the property violated.
- **BackupMigration.** `CompleteBackupsAreKept` excepts backups that are completed
  after cleaning has found their source unchanged (`overtaken`). The comment at
  `backup_storage.rs:986` is about such files; the check and the removal are two
  steps. `CancelsAreHonoured` excepts a cancel that falls between the two halves
  of the previous migration's guard, which frees the slot first and lowers the
  flag second (`Lower`).
- **AutoCheckin.** `OnlyRacingSavesAreLost` excepts, as its name says, what the user
  saves while a cycle runs: the cycle writes back all settings it has read,
  minutes earlier.
- **TrayRebuild.** The generation never drops a snapshot (theorem
  `NoSnapshotIsDropped`): the slot already excludes a second one. Were there two
  workers, it would drop the wrong one, since it is drawn after collecting
  (the mutant `Reclaim_NoSwap` of `MenuNeverGoesBack`).
- **TraeLogin.** A start or a restoration that overlaps another command of the map can leave
  map and file apart (`overlapped`), as can a command that reads the file while
  another is about to remove it (`revived`). At the second a login expires,
  `start_login` asks for a mutex that it holds (`Stuck`, `trae_oauth.rs:2475`).
  A success that comes after the dialog has gone on to a later attempt drops
  that attempt's login (`abandoned`; finding 3 is its plainest case). The
  completion of a login that was dropped so goes on, and its end may delete the
  file of a later attempt: two attempts are too few for that, so
  `MapAndFileAgree` and `Forgets` were checked with three as well, outside the
  run, before they were proved with that exception. A login that a restart has
  left may be resumed by a dialog that is then closed before it shows it
  (`resumable`).
- **SlotLogin.** The poller past its own ten minutes clears the slot, whoever is in
  it; WorkBuddy AI's does so with every success.
- **QoderLogin.** A dialog that is closed and shown again while a cancel is awaited
  says for ever that it prepares (`torn`). A start that was given up and answers
  after the dialog has looked for it is nobody's (`givenUp`).
- **TraeSessions.** The newest token of an account is lost when the answer to its
  exchange is lost; when another account takes the place of a client's login;
  when a token edit or a failed refresh has made the detail file younger than
  what a client left (`newer`); or when a command saves an account that it read
  earlier: a refresh, an edit, and the check of a login
  (`trae_account_token_injection.rs:2011`), which saves its old copy after every
  bound start. A client is not seen when its process is not recorded yet, when it
  was bound while it ran, or when it is the second instance of one account (the
  map of running clients keeps one place per account).
- **AutoRefresh.** The quick settings send `config-updated`, to which the hook does not
  listen, so their change waits for another set-up (`silent`); a configuration
  that cannot be read ends the refreshing and drops a set-up asked for meanwhile
  (`failed`).
- **ProviderStore.** When the deletion of the last accounts overlaps another
  operation, its end takes back the flag that would let the empty list through,
  and the accounts stay on screen (`crossed`).
- **LocalImport.** A login that a poll finds where it remembers none is only
  remembered, as meant for the start of the program; but the identity is also
  forgotten when the client is logged out, so who logs out and in as somebody
  else between two polls is imported, and who stays logged out for a poll is not
  (`first`). The setting's text (`SettingsGeneralPanel.tsx:674`) makes no such
  difference. A login that the client leaves while it is being imported may be
  remembered without having been imported (`replaced`).
- **SettingsForm.** A field that is set back to what the form knows to be saved is not
  sent, although another value of it is in the queue, or came from elsewhere and
  was not yet loaded (`SetBack`). A reload that is put off for an edit is not
  made when the edit is undone. A failed save is followed by a load that takes
  back what was edited since, and so does a load while a number is being typed.
  The edit of a field that the effect does not watch is not saved until a watched
  one is edited, and a load in between takes it back (`Waiting`); a refused field
  fails each save it is in, with the other fields of that save, and the load that
  follows takes them back.

## 5. Proofs

All theorems hold for every value of the constants allowed by the named
assumptions of the modules; those say that the special values (`Absent`, `Junk`,
`NoThread`, ...) are distinct from the ordinary ones and that bounds are natural
numbers. Most assume no set finite; the exceptions are the accounts of
`DeferredRewrite`, which a cardinality counts, the users of `AccountStore`, whose
files a rebuild lists, and the tasks of `AutoRefresh`, of which the timer seeks
the first. Where a module's assumptions are a
definition (`PlacesAreSound`, `RefreshBounds`, `StoreBounds`, `QoderBounds`), the theorems have it
as their hypothesis, and TLC evaluates it in `PartsAreSound` of the module that
instantiates the component. Every inductive invariant was checked with TLC on the
instances of the runs before it was proved.

**AtomicFile_proofs** proves `Invariance` (`Spec => []IInv`) and from it
`TypeCorrect`, `BackupsAreUsable`, `ConditionalWritesAreSafe`, `PreviousIsKept`, and
`Refinement`: every step of `AtomicFile` is a step of `LinearFile` or a stutter. The
inductive invariant adds to what is wanted: `LockHeld` (a thread is between
`Acquire` and its return exactly when it holds the path lock), `CallFitsPlace`
(which operation can be where, with what arguments), `ConditionHolds` (a
conditional call past its comparison still sees the content it compared, or a
foreign one) and `StoredCovers` (the file is one of its past contents).
`ConditionHolds` is not inductive without `LockHeld`: only the lock keeps
another thread's rename out of the gap between comparison and rename.

**TrayRebuild_proofs** proves `TypeCorrect`, `RebuildsDoNotOverlap`, `NoRequestIsLost`,
`MenuIsMonotonic` and `NoSnapshotIsDropped`, for any number of platforms, callers,
workers and changes. `OneSlot` is inductive by itself. On it rest `QueueMatches`
and `SnapshotReady` (the UI thread's one closure is that of the one worker and
has the last generation), then `VersionsOrdered` (menu, snapshot and data are in
that order, platform by platform), and `NothingForgotten` with `SomebodyServes`,
which say together where a request is: counted, and somebody will look at the
counter; taken, and in a worker's snapshot; or settled. `NoRequestIsLost` is
their instance with nobody left.

**DeferredRewrite_proofs** proves `KeysAccounted`, `MigrationKeeps`, `RewritesWanted`
and `TypeCorrect`, for every finite set of accounts, any loaders, capacity of the
queue, edits and failures. `EachKeyOnce` says of the queue's positions what
`KeysAccountedFor` counts. That a job is still wanted when it is carried out,
though it is old, is because a content that was replaced never comes back
(`StampsAreFresh`), so a job that finds its content finds it in need
(`SourcesWantRewriting`). Each rewrite therefore uses up a need, of which only
the edits and the start bring any (`NeedsAreCounted`): this bounds the rewrites
without a bound in their guard.

**BackupMigration_proofs** proves `BackupsKept`, `CancelsReach`, `FailureUndone` and
`TypeCorrect`, for any directories, backups, requests, faults and kills. `OneActive`
(the slot is taken exactly while a migration is between its guard's two ends,
and by one) lets everything else speak of one migration. `SourcesStand` and
`ListedIsMoved` say that what the user sees is among what is moved, and stands
at its source until the switch; the backups that writers complete meanwhile are
excepted by being known (`WritersStraddle`). `PlacedIsTrue` says that what is in
the target's place is what was found, and `Doomed` that a source about to be
removed is a copy of it, or was overtaken. `TargetAsBefore` follows the renames
one by one, which a rollback then takes back one by one.

**AutoCheckin_proofs** proves `CyclesExclude`, `MarksTrue`, `OnlyRacingLost` and
`TypeCorrect`, for any accounts, days, windows and faults. A mark travels from a
reply through the targets to be marked, the settings and their copies in the
dialog and the next cycle, so `MarksAreTrue` speaks of all copies, and
`RepliesAreTrue` of what a reply says of the day its cycle selected the accounts
on. Neither is inductive for the day alone: a midnight would make a mark of the
day to come true by accident, so marks are of no later day.

**AccountStore_proofs** proves `NoEntryDangles`, `AddedStay`, `RemovedStayAway`,
`ListsAreComplete` and `TypeCorrect`, for any threads, users, calls and faults, in
stores that are `Plain`: without listings, or whose listing only reads. `Stage` says
what the holder of the lock relies on at each step: while it rebuilds, that the
index is empty or missing; before its plan, that its list has every account
owned and not hidden, and none that is not stored (`Tells`); then which of its two
writes are left (`SavesInOrder`, `RemovesInOrder`). That there is one holder
(`Locking(call[t]) <=> lock = t`) makes it inductive. A failed read widens `hidden`
in the step in which the list of the call gets short, and only the return of an
addition narrows it, so an index that cannot be read leaves `Tells` true of the
empty list. A listing relies on nothing of the kind, only on what the writers
keep true for everyone: accounts owned are stored, and listed but for the
hidden. What is said of the index is said until a listing rebuilds it without the
lock (`Rebuilt`), since an older index is then over a later one; what is said of
the detail files is said of every behaviour. Without that exception TLC finds
`NoDangling`, `AddedStayListed` and `ListSeesOwned` violated, and with refreshes beside
removals `RemovedStayRemoved` (`RefreshesRaceRemovals`). `retain` is a recursive
function (`Without`); that it takes away what it says, and that there is such a
function at all, is by its least counterexample (`WithoutTakes`, `RetainRuns`).

**Window_proofs** has three parts of the window.

- `AutoRefresh`: `SchedulerFollows`, `TasksArePlanned` and `TypeCorrect`, for any finite
  set of tasks, any configurations, changes and failures. `SchedulerFollowsConfig`
  needs `AnswerIsTrue`: what a set-up has got is the configuration, or someone
  will say that it is not. `NoTaskIsForgotten` is the safety half of
  `EveryTaskRuns`: a task that is on waits or is in the queue, and a queue is not
  left while nothing runs.
- `ProviderStore`: `QuietWindow` and `StoreTypeCorrect`, for any accounts, slots and
  numbers of operations and failures. What is shown is what there is, or an
  answer that is still to come will make it so (`ListIsTrue`, `CurrentIsTrue`): a
  request that is overtaken has one after it. The flags that let an empty
  answer through are a deletion's (`FlagsAreOwned`). That a deletion of the last
  accounts is believed needs `DeletionIsAlone` and `EmptyIsExpected`, and both end
  where another operation overlaps it, which is where the code fails
  (`crossed`).
- `QoderLogin`: `WorkGoesOn`, `ClosedCancelled` and `QoderTypeCorrect`, for any numbers of
  attempts, faults and commands in flight. An attempt leads through one command
  at a time (`OneCallEach`), so the flags of the dialog tell which one it is
  (`PreparingIsTrue`, `CompletingIsTrue`). `LoginIsHeld` says who will drop the login
  in the slot: the dialog, a cancel, or a start that is still to come. It needs
  `CompletedIsGone`, since a dialog lets a login go that was completed, and
  `GivenUpIsKnown`, since a start that was given up is in nobody's hands.
  `StartsAreCounted` bounds the logins by the attempts.

**LoginDialog_proofs** has the backends under the shared dialog, for any numbers of
attempts, commands in flight and restarts.

- `SlotLogin`: `ClosedLeavesNoSlot` (a closed dialog leaves nothing that could still
  be completed) and `DroppedOnlyForAReason`. A live login is somebody's
  (`SlotHeld`): the dialog's that shows it, that of the start that has replied
  with it, or that of a cancel that will find it. A start answers each attempt
  once (`OneStartEach`), so a dialog never gets two logins, and what was
  completed is not in the slot (`CompletedIsGone`), so a dialog may let go of it.
- `TraeLogin`: `FileIsTrue` (`MapAndFileAgree` in every reachable state) and
  `ForgottenOnlyForAReason`. Both speak of behaviours in which the commands of
  overlapping attempts have not met (`Calm`). There is then one start, cancel or
  restoration at a time, with the dialog that is shown or a closed one
  (`OneChange`), and a login that is being completed is the dialog's, or is
  being cancelled (`CompletedIsShown`). Map and file agree unless some command
  stands between the two, and at each such step the invariant says how they
  differ (`MapMeetsFile`, `ApartAsItShould`): which is what the file must hold for
  the command's second half to put it right.

**Only model-checked.** Liveness (`KeysAreReleased`, `EventuallyMigrated`,
`RequestsAreServed`, `CheckedInWhileEnabled`, `EveryoneIsRenewed`, `CommandsEnd`,
`EveryTaskRuns`, `SwitchesAreImported`): proofs under fairness need `ENABLED`,
which is out of the prover's reach. `AccountIdentity`'s grouping and
merging: folds over data, whose results for every list would need induction
over an operator; for the same reason `AccountStore` with merging listings. Safety of
the other modules: `TokenKeeper` (whose `KeptAlive` is a matter of its times, and
holds for the bounds of section 4 only), `TraeSessions`, `LocalImport` and
`SettingsForm`. And `OnlyTheClosingLeavesLogins` of `TraeLogin`, which, unlike the two
invariants proved there, also speaks of behaviours in which commands of
overlapping attempts have met: its invariant would have to follow a login
through any number of starts, cancels and readers of the file at once. `MCWindow`
checks it for two attempts; outside the runs TLC found it to hold for three with a
restart, and for four without (29 million states).

Modules that are instantiated by `MCStores` and `MCWindow` state the assumptions on
their constants as definitions (`PlacesAreSound`, `MergeBounds`, `SessionBounds`,
`DialogBounds`, `QoderBounds`, `RefreshBounds`, `StoreBounds`, `ImportBounds`,
`FormBounds`),
which the two modules assume together (`PartsAreSound`), so that TLC evaluates
them.

## 6. What the models leave out

- `AtomicFile`: durability of a rename after a power cut (the model's crash is the
  death of the process), symbolic links, and programs that write the path
  between two instructions of one system call. `quarantine_file` is part of its
  callers.
- `DeferredRewrite`: creation of the encryption key on first use (a race between two
  first users, listed as a hazard), and the cipher.
- `AccountIdentity`: ties of `last_used` are broken by place in the list only; the
  code compares `created_at` first. Normalisation of addresses is done before
  the model begins.
- `AccountStore`: the contents of an account beyond identity and time of use; in a
  rebuilt index, accounts of the same `last_used` are in either order.
  `ListSeesOwned` and `AddedStayListed` hold for the uses the run names: calls
  that hold the lock, read-only listings beside them, merging listings with
  refreshes. Other mixtures lose accounts, as section 4
  and the hazards say.
- `TrayRebuild`: macOS, which does not collect a snapshot; menu layout; click
  handlers. The coalescing sleep takes any time.
- `AutoCheckin`: the log of 30 days, the webhook report, the one-time take-over of
  the WebView's settings, a list of accounts that changes under a cycle. The
  server's day is the local day.
- `BackupMigration`: pruning of older operations and of expired scheduled backups,
  usage statistics, symbolic links, empty directories, nested directories
  (refused by the code). That a destination already exists under a backup's own
  name is in the model (`Place`), but does not occur in its instance.
- `TokenKeeper`: the Trae scan (strict checks every ten minutes, an hour of back-off,
  the protection of a running client), the write-back of a renewed token to the
  client that uses it, and accounts that come and go during a scan. The scans of
  the other platforms only take time. A refresh of the user leaves an account's
  back-off as it is (`Renew`), as in the code.
- Logins: what is said to a provider's server is one step that may fail; the
  contents of a callback are whether one has arrived; the port of a callback
  server is always free. Qoder CN and QwenWork are Qoder.
- `TraeSessions`: the formats of the clients' files, creating and deleting instances,
  the four platforms (each has a world of its own), and what a client does with
  a login that has been taken from it.
- `AutoRefresh`: a window that is hidden, whose timer the browser slows down, and a
  hook that is mounted twice. Of the three events the hook listens to, nobody
  sends `config:changed`, the import of a bundle sends `app-config-changed`, and
  `accounts:current-changed` is sent through Tauri and listened to in the DOM.
- `ProviderStore`: the options `acceptEmptyCurrentAccountId`, `hydrate` and `persist`, which
  no store uses; accounts changed by somebody else than this window; two
  platforms switched at once (`provider_current_state.rs` loads, changes and saves
  one file without a lock, and can lose one of them).
- `LocalImport`: how an identity is made of what a client stores, imports from files,
  accounts deleted in the window, and the other platforms, which only take time.
- `SettingsForm`: what a change sets off (tray, watchers, the language, the registration
  for automatic start and its rollback), the normalisation of values, the network
  settings, a page that is left and opened again, and a second process that
  writes the same file under the cross-process lock.
- No module: the creation of the encryption key by two first users at once
  (`secure_account_storage.rs:36`), which the program's start makes unlikely and
  nothing excludes.

The map covers a small part of the implementation's lines. Most of them read and
write the formats of other vendors' programs, find their processes and paths,
keep the legacy accounts that no page uses, or lay out windows and menus; what
could be said of them would restate them.
