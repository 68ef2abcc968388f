---------------------------- MODULE AccountStore ----------------------------
(***************************************************************************)
(* The accounts of one platform on disk: an index file that lists them and *)
(* one detail file for each (src-tauri/src/modules/codebuddy_account.rs    *)
(* and account_index_repair.rs; codebuddy_cn, workbuddy, qoder and trae    *)
(* keep their accounts the same way).                                      *)
(*                                                                         *)
(* Calls that add, import, refresh and remove hold the index lock from     *)
(* reading the index to their last write.  A listing holds no lock: it     *)
(* reads the index, then each detail file, and in a merging store writes   *)
(* back what it normalised (codebuddy, codebuddy_cn, workbuddy); in the    *)
(* others it only reads (qoder, trae).  Any call that finds the index      *)
(* empty or missing rebuilds it from the detail files first; a listing     *)
(* does so, too, without the lock.                                         *)
(*                                                                         *)
(* Any read or write may fail.  An index that cannot be read counts as     *)
(* empty, a detail file that cannot be read as absent.                     *)
(*                                                                         *)
(* One file operation is one step (AtomicFile).  What a call is going to   *)
(* write is fixed when it has read: its plan.                              *)
(***************************************************************************)
EXTENDS AccountIdentity

CONSTANTS
    Threads,
    Uses,           \* stores and the use made of them, see Use
    MaxCalls,       \* bound on the calls of a behaviour, whatever its use
    MaxFaults,      \* bound on the steps of a behaviour that fail, crashes included
    Missing,
    NoThread

ASSUME StoreBounds ==
    /\ MaxCalls \in Nat /\ MaxFaults \in Nat
    /\ IsFiniteSet(Uids \union Emails)
    /\ NoThread \notin Threads

VARIABLES
    use,        \* which of Uses this behaviour is about; never changes
    index,      \* accounts of the index file (id and last_used), or Missing
    details,    \* each account's detail file, or Missing
    lock,       \* holder of the index lock
    call,       \* what each thread is doing
    clock,      \* now_ts; counts the calls
    faults,
    owned,      \* accounts added, not removed or merged since
    gone,       \* accounts removed, not added since
    due,        \* for each thread, accounts owned and not hidden ever since
                \* its call began
    hidden,     \* accounts that a call could not read and may have left out of
                \* the index, not added since
    mishaps     \* see Mishaps

files == <<use, index, details>>
ghosts == <<owned, gone, due, hidden, mishaps>>
vars == <<use, index, details, lock, call, clock, faults, ghosts>>

\* What the code does that is known to lose something:
\*   rebuilt   a listing rebuilds the index, without the lock;
\*   opposed   two listings merge the same two accounts, each into another one;
\*   nameless  an account loses its uid: to a login or import without one, or
\*             to a refresh that read it before it had one;
\*   unsaved   a merge deletes accounts though it could not save the others.
Mishaps == {"rebuilt", "opposed", "nameless", "unsaved"}

Ids == Uids \union Emails
Account == [id: Ids, uid: Uids \union {None}, email: Emails \union {None},
            used: 0 .. MaxCalls]
Entry == [id: Ids, used: 0 .. MaxCalls]

ASSUME MissingIsNoFile == Missing \notin Account \union Seq(Entry)

\* Who logs in.  The code gives a login with neither uid nor email an id of its
\* own: here that is one more uid.
Login == {p \in Identity : p.uid # None \/ p.email # None}

Kinds == {"list", "add", "import", "refresh", "remove"}

\* A store and its use: the accounts it starts with, whether its listing
\* merges, the calls made, who logs in, which accounts the user removes, and a
\* bound on its calls.
Use == [initial: Seq(Account), merges: BOOLEAN, kinds: SUBSET Kinds,
        payloads: SUBSET Login, removable: SUBSET Ids, calls: Nat]

ASSUME UsesAreUses == Uses \subseteq Use

FileOp == [do: {"save"}, account: Account]
            \union [do: {"delete"}, id: Ids]
            \union [do: {"index"}, list: Seq(Entry)]

Idle == [at |-> "idle"]

Call == [at: {"await", "lock", "index", "collect", "backup", "resave",
              "decide", "details", "plan"},
         kind: Kinds,
         account: Account \union {Missing},     \* what it adds or removes
         list: Seq(Entry),      \* the index as read or rebuilt
         todo: Seq(Ids),        \* details a listing has still to read
         seen: Seq(Account),    \* details a listing has read
         plan: Seq(FileOp)]     \* writes left

Present == {id \in Ids : details[id] # Missing}
Listed == IF index = Missing THEN {} ELSE IdsOf(index)

Summary(a) == [id |-> a.id, used |-> a.used]
Summaries(accounts) == [i \in DOMAIN accounts |-> Summary(accounts[i])]

Init ==
    /\ use \in Uses
    /\ index = Summaries(use.initial)
    /\ details = [id \in Ids |->
                    IF id \in IdsOf(use.initial)
                    THEN CHOOSE a \in ToSet(use.initial) : a.id = id
                    ELSE Missing]
    /\ lock = NoThread
    /\ call = [t \in Threads |-> Idle]
    /\ clock = 0
    /\ faults = 0
    /\ owned = IdsOf(use.initial)
    /\ gone = {}
    /\ due = [t \in Threads |-> {}]
    /\ hidden = {}
    /\ mishaps = {}

\* An I/O error.
Fault == faults < MaxFaults /\ faults' = faults + 1

\* The call goes on as if these accounts were not there, and may write so.
Hide(ids) ==
    /\ hidden' = hidden \union ids
    /\ due' = [t \in Threads |-> due[t] \ ids]

\* The same for a listing that writes nothing.
Overlook(t, ids) == due' = [due EXCEPT ![t] = @ \ ids] /\ UNCHANGED hidden
----------------------------------------------------------------------------
\* Calls begin.

\* generated_id: the hash of the uid, or else of the email.
GeneratedId(p) == IF p.uid # None THEN p.uid ELSE p.email

NewAccount(p, now) ==
    [id |-> GeneratedId(p), uid |-> p.uid, email |-> p.email, used |-> now]

Begin(t, kind, account, at) ==
    /\ call[t] = Idle
    /\ kind \in use.kinds
    /\ clock < use.calls /\ clock < MaxCalls
    /\ clock' = clock + 1
    /\ call' = [call EXCEPT ![t] =
                  [at |-> at, kind |-> kind, account |-> account,
                   list |-> << >>, todo |-> << >>, seen |-> << >>,
                   plan |-> << >>]]
    /\ UNCHANGED <<files, lock, faults>>

\* list_accounts, list_accounts_checked: no lock.
BeginList(t) ==
    /\ Begin(t, "list", Missing, "index")
    /\ due' = [due EXCEPT ![t] = owned \ hidden]
    /\ UNCHANGED <<owned, gone, hidden, mishaps>>

\* upsert_account with a login's payload.
BeginAdd(t) ==
    /\ \E p \in use.payloads : Begin(t, "add", NewAccount(p, clock), "lock")
    /\ UNCHANGED ghosts

\* upsert_account_record_from_payload
BeginImport(t) ==
    /\ \E p \in use.payloads : Begin(t, "import", NewAccount(p, clock), "lock")
    /\ UNCHANGED ghosts

\* refresh_account_token_once and update_account_tags read the account
\* before they take the lock; the first awaits the server in between.
BeginRefresh(t) ==
    /\ \E id \in Present : Begin(t, "refresh", details[id], "await")
    /\ UNCHANGED ghosts

\* remove_account
BeginRemove(t) ==
    /\ \E id \in use.removable \intersect (Present \union Listed) :
         Begin(t, "remove",
               [id |-> id, uid |-> None, email |-> None, used |-> 0], "lock")
    /\ UNCHANGED ghosts

\* The server has answered; the record read before gets its new last_used.
Answer(t) ==
    /\ call[t].at = "await"
    /\ call' = [call EXCEPT ![t].at = "lock", ![t].account.used = clock]
    /\ UNCHANGED <<files, lock, clock, faults, ghosts>>

Acquire(t) ==
    /\ call[t].at = "lock"
    /\ lock = NoThread
    /\ lock' = t
    /\ call' = [call EXCEPT ![t].at = "index"]
    /\ UNCHANGED <<files, clock, faults, ghosts>>
----------------------------------------------------------------------------
\* load_account_index

\* The call goes on with the index it has.
GoOn(t, list) ==
    call' = IF call[t].kind = "list"
            THEN [call EXCEPT ![t].at = "details", ![t].list = list,
                    ![t].todo = [i \in DOMAIN list |-> list[i].id]]
            ELSE [call EXCEPT ![t].at = "decide", ![t].list = list]

ReadIndex(t) ==
    /\ call[t].at = "index"
    /\ IF index \in {Missing, << >>}
       THEN call' = [call EXCEPT ![t].at = "collect"]
       ELSE GoOn(t, index)
    /\ UNCHANGED <<files, lock, clock, faults, ghosts>>

\* An index that cannot be read is empty, and not rebuilt: a call that holds
\* the lock writes an index of one account, or of none.  A checked listing
\* rebuilds it.
ReadIndexFails(t) ==
    /\ call[t].at = "index"
    /\ index # Missing
    /\ Fault
    /\ \/ /\ call[t].kind = "list"
          /\ call' = [call EXCEPT ![t].at = "collect"]
          /\ UNCHANGED <<due, hidden>>
       \/ /\ GoOn(t, << >>)
          /\ IF call[t].kind = "list" THEN Overlook(t, Ids) ELSE Hide(Present)
    /\ UNCHANGED <<files, lock, clock, owned, gone, mishaps>>

\* The lists of all the accounts in the set, the most recently used first; ties,
\* which the code breaks by created_at, are in either order.
ByRecency(entries) ==
    {list \in [1 .. Cardinality(entries) -> entries] :
       /\ ToSet(list) = entries
       /\ \A i, j \in DOMAIN list : i < j => list[i].used >= list[j].used}

\* load_accounts_from_details, sort_accounts_by_recency.  Some or all of the
\* detail files cannot be read; no account found is an empty index.
Collect(t) ==
    /\ call[t].at = "collect"
    /\ \E found \in SUBSET Present :
         /\ IF found = Present THEN UNCHANGED faults ELSE Fault
         /\ IF found = {}
            THEN GoOn(t, << >>)
            ELSE \E list \in ByRecency({Summary(details[id]) : id \in found}) :
                   call' = [call EXCEPT ![t].at = "backup", ![t].list = list]
         /\ IF found = {} /\ call[t].kind = "list"
            THEN Overlook(t, Present)
            ELSE Hide(Present \ found)
         /\ mishaps' = IF found # {} /\ call[t].kind = "list"
                       THEN mishaps \union {"rebuilt"} ELSE mishaps
    /\ UNCHANGED <<files, lock, clock, owned, gone>>

\* backup_existing_index renames the index away; if that fails it stays.
Backup(t) ==
    /\ call[t].at = "backup"
    /\ \/ index' = Missing /\ UNCHANGED faults
       \/ faults < MaxFaults /\ faults' = faults + 1 /\ UNCHANGED index
    /\ call' = [call EXCEPT ![t].at = "resave"]
    /\ UNCHANGED <<use, details, lock, clock, ghosts>>

\* The rebuilt index is written; if that fails the call goes on with it.
Resave(t) ==
    /\ call[t].at = "resave"
    /\ \/ index' = call[t].list /\ UNCHANGED faults
       \/ faults < MaxFaults /\ faults' = faults + 1 /\ UNCHANGED index
    /\ GoOn(t, call[t].list)
    /\ UNCHANGED <<use, details, lock, clock, ghosts>>
----------------------------------------------------------------------------
\* The calls that hold the lock.

SaveOf(account) == [do |-> "save", account |-> account]
DeleteOf(id) == [do |-> "delete", id |-> id]
IndexOf(list) == [do |-> "index", list |-> list]

\* Mutant: the index is written with the new account alone.
RefreshSummary_Alone(list, account) == <<Summary(account)>>

\* Mutant: the index takes the whole account.
RefreshSummary_Whole(list, account) == Append(list, account)

\* refresh_summary: replaced in place, or appended.
RefreshSummary(list, account) ==
    IF account.id \in IdsOf(list)
    THEN [i \in DOMAIN list |->
            IF list[i].id = account.id THEN Summary(account) ELSE list[i]]
    ELSE Append(list, Summary(account))

\* Mutant: the index is written before the detail file.
Saving_IndexFirst(list, account) ==
    <<IndexOf(RefreshSummary(list, account)), SaveOf(account)>>

\* Mutant: the old detail file is deleted before the new one is written.
Saving_DeleteFirst(list, account) ==
    <<DeleteOf(account.id), SaveOf(account),
      IndexOf(RefreshSummary(list, account))>>

Saving(list, account) ==
    <<SaveOf(account), IndexOf(RefreshSummary(list, account))>>

\* The entries of the list but for those with the id (retain).
Without(list, id) ==
    LET kept[n \in 0 .. Len(list)] ==
          IF n = 0 THEN << >>
          ELSE IF list[n].id = id THEN kept[n - 1]
               ELSE Append(kept[n - 1], list[n])
    IN  kept[Len(list)]

\* Mutant: the detail file is left behind.
Removing_IndexOnly(list, id) ==
    <<IndexOf(Without(list, id))>>

Removing(list, id) ==
    <<IndexOf(Without(list, id)), DeleteOf(id)>>

\* upsert_account: the first stored account the payload matches, among those
\* that could be searched, takes its uid, and its email if it has one; it is
\* read once more for what it keeps.
Upserted(list, p, searched, reread) ==
    LET matching == {i \in DOMAIN list :
                       /\ list[i].id \in searched
                       /\ Matches(details[list[i].id], p)}
        id == IF matching # {} THEN list[Min(matching)].id ELSE p.id
        email == IF p.email = None /\ reread /\ details[id] # Missing
                 THEN details[id].email ELSE p.email
    IN  [id |-> id, uid |-> p.uid, email |-> email, used |-> clock]

Decide(t) ==
    /\ call[t].at = "decide"
    /\ \E searched \in SUBSET Present, reread \in BOOLEAN :
       LET c == call[t]
           account == IF c.kind = "add"
                      THEN Upserted(c.list, c.account, searched, reread)
                      ELSE c.account
       IN  /\ \/ searched = Present /\ reread /\ UNCHANGED faults
              \/ c.kind = "add" /\ ~(searched = Present /\ reread) /\ Fault
           /\ call' = [call EXCEPT
                         ![t].at = "plan",
                         ![t].account = account,
                         ![t].plan = IF c.kind = "remove"
                                     THEN Removing(c.list, account.id)
                                     ELSE Saving(c.list, account)]
           /\ IF c.kind = "remove"
              THEN /\ owned' = owned \ {account.id}
                   /\ due' = [u \in Threads |-> due[u] \ {account.id}]
                   /\ UNCHANGED gone
              ELSE /\ gone' = IF c.kind \in {"add", "import"}
                              THEN gone \ {account.id} ELSE gone
                   /\ UNCHANGED <<owned, due>>
    /\ UNCHANGED <<files, lock, clock, hidden, mishaps>>
----------------------------------------------------------------------------
\* A listing.

ReadDetail(t) ==
    /\ call[t].at = "details"
    /\ call[t].todo # << >>
    /\ LET id == Head(call[t].todo)
       IN  call' = [call EXCEPT ![t].todo = Tail(@),
                      ![t].seen = IF details[id] = Missing THEN @
                                  ELSE Append(@, details[id])]
    /\ UNCHANGED <<files, lock, clock, faults, ghosts>>

\* A detail file that cannot be read: the account is not listed, and a merging
\* listing drops it from the index.
ReadDetailFails(t) ==
    /\ call[t].at = "details"
    /\ call[t].todo # << >>
    /\ Fault
    /\ call' = [call EXCEPT ![t].todo = Tail(@)]
    /\ LET missed == {Head(call[t].todo)} \intersect Present
       IN  IF use.merges THEN Hide(missed) ELSE Overlook(t, missed)
    /\ UNCHANGED <<files, lock, clock, owned, gone, mishaps>>

\* normalize_account_index and the write of the index after it.  A merge
\* writes every account of the list, then deletes the merged ones; an index
\* none of whose accounts could be read is left alone.
Normalizing(list, seen) ==
    LET after == Normalized(seen)
        away == SetToSeq(MergedAway(seen))
    IN  (IF away = << >> THEN << >>
         ELSE [i \in DOMAIN after |-> SaveOf(after[i])]
                \o [i \in DOMAIN away |-> DeleteOf(away[i])])
        \o (IF after = << >> \/ Summaries(after) = list THEN << >>
            ELSE <<IndexOf(Summaries(after))>>)

\* Accounts merged into another one of the same user.
OwnDuplicates(seen) ==
    {a.id : a \in {x \in ToSet(seen) :
                     /\ x.id \in MergedAway(seen)
                     /\ \E b \in ToSet(Normalized(seen)) : AreDuplicates(x, b)}}

\* Another listing is going to delete an account that this one merges others
\* into.
Opposed(t, seen) ==
    /\ MergedAway(seen) # {}
    /\ \E u \in Threads \ {t} :
         /\ call[u].at = "plan" /\ call[u].kind = "list"
         /\ \E op \in ToSet(call[u].plan) :
              op.do = "delete" /\ op.id \in IdsOf(Normalized(seen))

Normalize(t) ==
    /\ call[t].at = "details"
    /\ call[t].todo = << >>
    /\ LET seen == call[t].seen
           merged == IF use.merges THEN OwnDuplicates(seen) ELSE {}
       IN  /\ call' = [call EXCEPT
                         ![t].at = "plan",
                         ![t].plan = IF use.merges
                                     THEN Normalizing(call[t].list, seen)
                                     ELSE << >>]
           /\ owned' = owned \ merged
           /\ due' = [u \in Threads |-> due[u] \ merged]
           /\ mishaps' = IF use.merges /\ Opposed(t, seen)
                         THEN mishaps \union {"opposed"} ELSE mishaps
    /\ UNCHANGED <<files, lock, clock, faults, gone, hidden>>
----------------------------------------------------------------------------
\* Writes.

\* An account with a uid is replaced by one without.
Nameless(op) ==
    /\ op.do = "save" /\ op.account.uid = None
    /\ details[op.account.id] # Missing /\ details[op.account.id].uid # None

Write(t) ==
    /\ call[t].at = "plan"
    /\ call[t].plan # << >>
    /\ LET op == Head(call[t].plan)
       IN  /\ index' = IF op.do = "index" THEN op.list ELSE index
           /\ details' = CASE op.do = "save" ->
                                [details EXCEPT ![op.account.id] = op.account]
                           [] op.do = "delete" ->
                                [details EXCEPT ![op.id] = Missing]
                           [] OTHER -> details
           /\ mishaps' = IF Nameless(op) THEN mishaps \union {"nameless"}
                         ELSE mishaps
    /\ call' = [call EXCEPT ![t].plan = Tail(@)]
    /\ UNCHANGED <<use, lock, clock, faults, owned, gone, due, hidden>>

Unlock(t) == lock' = IF lock = t THEN NoThread ELSE lock

\* A write fails: a listing goes on with the next, the others give up.
WriteFails(t) ==
    /\ call[t].at = "plan"
    /\ call[t].plan # << >>
    /\ Fault
    /\ IF call[t].kind = "list"
       THEN call' = [call EXCEPT ![t].plan = Tail(@)] /\ UNCHANGED lock
       ELSE call' = [call EXCEPT ![t] = Idle] /\ Unlock(t)
    /\ mishaps' = IF call[t].kind = "list" /\ Head(call[t].plan).do = "save"
                  THEN mishaps \union {"unsaved"} ELSE mishaps
    /\ UNCHANGED <<files, clock, owned, gone, due, hidden>>

\* The call returns Ok.
Return(t) ==
    /\ call[t].at = "plan"
    /\ call[t].plan = << >>
    /\ Unlock(t)
    /\ call' = [call EXCEPT ![t] = Idle]
    /\ LET id == {call[t].account.id}
           added == call[t].kind \in {"add", "import"}
       IN  /\ owned' = IF added THEN owned \union id ELSE owned
           /\ hidden' = IF added THEN hidden \ id ELSE hidden
           /\ gone' = IF call[t].kind = "remove" THEN gone \union id ELSE gone
    /\ due' = [due EXCEPT ![t] = {}]
    /\ UNCHANGED <<files, clock, faults, mishaps>>

\* The application dies and is started again.
Crash ==
    /\ faults < MaxFaults
    /\ faults' = faults + 1
    /\ lock' = NoThread
    /\ call' = [t \in Threads |-> Idle]
    /\ due' = [t \in Threads |-> {}]
    /\ UNCHANGED <<files, clock, owned, gone, hidden, mishaps>>

Next ==
    \/ \E t \in Threads :
         \/ BeginList(t) \/ BeginAdd(t) \/ BeginImport(t)
         \/ BeginRefresh(t) \/ BeginRemove(t)
         \/ Answer(t) \/ Acquire(t)
         \/ ReadIndex(t) \/ ReadIndexFails(t)
         \/ Collect(t) \/ Backup(t) \/ Resave(t)
         \/ Decide(t) \/ ReadDetail(t) \/ ReadDetailFails(t) \/ Normalize(t)
         \/ Write(t) \/ WriteFails(t) \/ Return(t)
    \/ Crash

Spec == Init /\ [][Next]_vars
----------------------------------------------------------------------------
TypeOK ==
    /\ use \in Uses
    /\ index \in Seq(Entry) \union {Missing}
    /\ details \in [Ids -> Account \union {Missing}]
    /\ lock \in Threads \union {NoThread}
    /\ call \in [Threads -> Call \union {Idle}]
    /\ clock \in 0 .. MaxCalls
    /\ faults \in 0 .. MaxFaults
    /\ owned \subseteq Ids /\ gone \subseteq Ids
    /\ due \in [Threads -> SUBSET Ids]
    /\ hidden \subseteq Ids /\ mishaps \subseteq Mishaps

\* A listing has rebuilt the index without the lock: it may have put back an
\* index older than what the other calls wrote.
Rebuilt == "rebuilt" \in mishaps

\* The index never names an account whose detail file is not there, at no
\* instant of any call, failed read or write, or crash: the order in which the
\* calls that hold the lock write their two files makes it so, until a listing
\* rebuilds the index without the lock.  A merging listing is left out: it
\* deletes before it writes the index.
NoDangling ==
    (use.merges /\ "list" \in use.kinds) \/ Rebuilt \/ Listed \subseteq Present

\* An account whose add or import has returned stays stored until a removal of
\* it holds the lock, or a listing finds another account of the same user:
\* accounts added coexist (CHANGELOG.md:86), a new one pushes no other out
\* (CHANGELOG.md:100).  So long it stays listed, too, unless a call that could
\* not read the index or the account's file wrote the index without it, or a
\* listing rebuilt the index without the lock.  An index empty or missing is
\* rebuilt from the detail files by the next call that reads it.
AddedStayListed ==
    /\ owned \subseteq Present
    /\ \/ Rebuilt
       \/ index \in {Missing, << >>}
       \/ owned \ hidden \subseteq Listed

\* An account whose removal has returned is not stored again until it is added
\* again, nor listed unless a listing rebuilds the index without the lock.
RemovedStayRemoved ==
    /\ gone \intersect Present = {}
    /\ Rebuilt \/ gone \intersect Listed = {}

\* A listing, which takes no lock and reads file after file, returns every
\* account that was there all the while and that no failed read hid from it or
\* from the index, unless a listing rebuilt the index without the lock.
ListSeesOwned ==
    Rebuilt \/ \A t \in Threads :
      call[t].at = "plan" /\ call[t].kind = "list" =>
        due[t] \subseteq IdsOf(call[t].seen)

\* A user's last account is taken away by a removal only, however logins,
\* listings that merge and refreshes meet and fail, but for three things the
\* code is known to do: two listings that merge the same accounts each into
\* another one, an account that loses its uid, and a merge that goes on though
\* it could not save.
Users == {details[id].uid : id \in Present} \ {None}

UsersKeepTheirAccounts ==
    [][\/ Users \subseteq Users'
       \/ mishaps' \intersect {"opposed", "nameless", "unsaved"} # {}
       \/ \E t \in Threads :
            /\ call[t].at = "plan" /\ call[t].kind = "remove"
            /\ call'[t] # call[t]]_vars
=============================================================================
