------------------------------ MODULE MCStores ------------------------------
(***************************************************************************)
(* What is kept of accounts: AccountStore (two threads, two users), its    *)
(* DuplicateMerge on lists over two uids, two emails and two times of use, *)
(* TraeSessions with two accounts, the default client and one instance,    *)
(* and two commands; and BackupMigration with one backup in the directory, *)
(* one of an older version and one to be written, two directories and two  *)
(* requests.  Init picks one of the four; the others stay as they begin.   *)
(***************************************************************************)
EXTENDS AccountStore, BackupStorage, TLC

CONSTANTS
    t1, t2, u1, u2, e1, e2,
    MaxAccounts,    \* of a list to be merged
    MaxUsed,
    here, there, f1, f2, f3, m1, m2,
    BackupFaults,   \* bound on the faults that meet the backups
    a1, a2, o1, o2, NoOne,
    MaxCommands, MaxEvents    \* of the sessions

VARIABLES
    part,
    before, now, runs,
    active, cancel, into,     \* of the backups, with those of BackupStorage
    server, saved, storage, newer, running, client, launcher, bind, recorded,
    current, op, commands, events

MCThreads == {t1, t2}
MCUids == {u1, u2}
MCEmails == {e1, e2}
MCRoots == {here, there}
MCFiles == {f1, f2, f3}
MCMigrations == {m1, m2}

Merge == INSTANCE DuplicateMerge

Backups == INSTANCE BackupMigration WITH
    FirstRoot <- here, Stored <- f1 :> here @@ f2 :> Legacy, MaxFaults <- BackupFaults

Sessions == INSTANCE TraeSessions WITH
    Accounts <- {a1, a2}, NumInstances <- 1, Ops <- {o1, o2}

ASSUME PartsAreSound ==
    Merge!MergeBounds /\ Backups!PlacesAreSound /\ Sessions!SessionBounds

Stored(u, e) == [id |-> u, uid |-> u, email |-> e, used |-> 0]

\* Two users log in without an email.
TwoUsers == {[uid |-> u, email |-> None] : u \in MCUids}

\* The calls that hold the lock, on a store that starts empty.
LockedCalls ==
    [initial |-> << >>, merges |-> TRUE, kinds |-> {"add", "import", "remove"},
     payloads |-> TwoUsers, removable |-> MCUids, calls |-> MaxCalls]

\* A store whose listing only reads.
ReadOnlyLists ==
    [initial |-> <<Stored(u1, None)>>, merges |-> FALSE,
     kinds |-> {"list", "add", "remove"},
     payloads |-> TwoUsers, removable |-> MCUids, calls |-> 3]

\* A store whose listing merges, with two users of one mailbox.
ListsAndRefreshes ==
    [initial |-> <<Stored(u1, e1), Stored(u2, e1)>>, merges |-> TRUE,
     kinds |-> {"list", "refresh"}, payloads |-> {}, removable |-> {},
     calls |-> 3]

\* A merging store in which one user is stored twice, the second time with the
\* uid or without.
StoredTwice(u) ==
    [initial |-> <<Stored(u1, e1),
                   [id |-> e1, uid |-> u, email |-> e1, used |-> 0]>>,
     merges |-> TRUE, kinds |-> {"list", "refresh"},
     payloads |-> {}, removable |-> {}, calls |-> 3]

\* Two users of one mailbox log in, and someone of that mailbox without a uid.
OneMailbox ==
    [initial |-> << >>, merges |-> TRUE, kinds |-> {"add"},
     payloads |-> {[uid |-> u, email |-> e1] : u \in MCUids \union {None}},
     removable |-> {}, calls |-> MaxCalls]

SoundUses ==
    {LockedCalls, ReadOnlyLists, ListsAndRefreshes,
     StoredTwice(u1), StoredTwice(None), OneMailbox}

-----------------------------------------------------------------------------

storeAlone ==
    <<use, index, details, lock, call, clock, owned, gone, due, hidden, mishaps>>
mergeAlone == <<before, now, runs>>
backupsAlone ==
    <<disk, root, active, cancel, mig, writer, into,
      listed, straddling, overtaken, asked, owed>>
sessionsAlone ==
    <<server, saved, storage, newer, running, client, launcher, bind, recorded,
      current, op, commands, events>>
mcVars == <<part, vars, mergeAlone, backupsAlone, sessionsAlone>>

NoList == before = << >> /\ now = << >> /\ runs = 0
AnyUse == use = CHOOSE u \in Uses : TRUE

\* Users, mailboxes, threads, requests and accounts are interchangeable: the first
\* of each that does something is the first by name.
FirstInList ==
    \A i \in DOMAIN before :
      /\ before[i].uid = u2 => \E j \in 1 .. i - 1 : before[j].uid = u1
      /\ before[i].email = e2 => \E j \in 1 .. i - 1 : before[j].email = e1

FirstThread == call[t1] = Idle /\ call[t2] = Idle => call'[t2] = Idle

FirstRequest == mig[m1].at = "idle" => mig'[m2].at = "idle"

MCInit ==
    /\ Init /\ Backups!Init /\ Sessions!Init
    /\ storage[Sessions!Default].who = a1
    /\ \/ part = "store" /\ NoList
       \/ part = "merge" /\ AnyUse /\ Merge!Init /\ FirstInList
       \/ part \in {"backups", "sessions"} /\ AnyUse /\ NoList

MCNext ==
    /\ UNCHANGED part
    /\ \/ /\ part = "store" /\ Next /\ FirstThread
          /\ UNCHANGED <<mergeAlone, backupsAlone, sessionsAlone>>
       \/ part = "merge" /\ Merge!Next /\ UNCHANGED <<vars, backupsAlone, sessionsAlone>>
       \/ /\ part = "backups" /\ Backups!Next /\ FirstRequest
          /\ UNCHANGED <<storeAlone, mergeAlone, sessionsAlone>>
       \/ part = "sessions" /\ Sessions!Next /\ UNCHANGED <<vars, mergeAlone, backupsAlone>>

MCSpec == MCInit /\ [][MCNext]_mcVars

\* A merge loses nothing that is known of a user (DuplicateMerge).
NothingKnownIsLost == Merge!NothingKnownIsLost

\* A second listing rewrites and deletes nothing (DuplicateMerge).
OneRunIsEnough == Merge!OneRunIsEnough

\* CHANGELOG.md:86: users with different uids are never merged (DuplicateMerge).
DifferentUsersStayApart == Merge!DifferentUsersStayApart

\* An account loses its newest token only for the reasons named (TraeSessions);
NewestTokenIsKept == Sessions!NewestTokenIsKept

\* clients that the app can see keep their logins and their storages;
ClientsAreLeftAlone == Sessions!ClientsAreLeftAlone

\* and a client runs with the account it was started for.
StartedAsBound == Sessions!StartedAsBound
=============================================================================
