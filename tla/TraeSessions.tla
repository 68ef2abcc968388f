---------------------------- MODULE TraeSessions ----------------------------
(***************************************************************************)
(* Refresh tokens of Trae accounts, and the clients that use them (one     *)
(* platform).  Each exchange of a refresh token makes a new one and spends *)
(* the old, so the app and a client that hold the same login can log each  *)
(* other out.  The app therefore asks which clients run before it          *)
(* exchanges a token or writes a client's storage.json, and adopts tokens  *)
(* that a client has left there.  No lock covers what it asked.            *)
(*                                                                         *)
(* Place 0 is the default client, the others are the managed instances, in *)
(* the order of the instance store.  A step is a stretch without an await  *)
(* or a wait for a process.                                                *)
(***************************************************************************)
EXTENDS Naturals

CONSTANTS
    Accounts,
    NoOne,          \* no account
    NumInstances,   \* managed instances
    Ops,            \* commands that may be in flight together
    MaxCommands,    \* bound: commands given
    MaxEvents       \* bound: acts of the user or a client, and lost replies

SessionBounds ==
    /\ NoOne \notin Accounts
    /\ {NumInstances, MaxCommands, MaxEvents} \subseteq Nat

Default == 0
Places == 0..NumInstances
Nowhere == NumInstances + 1

VARIABLES
    server,    \* the refresh token the service takes for each account
    saved,     \* the one in the account's detail file
    storage,   \* storage.json of each place: a login
    newer,     \* <<place, account>>: the storage was written after the detail file
    running,   \* places whose client runs
    client,    \* the login it runs with
    launcher,  \* the command that launched it and has yet to record it
    bind,      \* bind_account_id of each place
    recorded,  \* places whose last_pid is that of the running client
    current,   \* the current account, by provider_current_state
    op,        \* commands in flight
    commands, events

files == <<saved, storage, newer>>
clients == <<running, client, launcher, recorded>>
settings == <<bind, current>>
vars == <<server, files, clients, settings, op, commands, events>>

Login(a, t) == [who |-> a, tok |-> t]
NoLogin == Login(NoOne, 0)
Idle == [cmd |-> "none", who |-> NoOne, at |-> Nowhere, tok |-> 0, pc |-> "idle",
         crossed |-> FALSE]

Init ==
    /\ server = [a \in Accounts |-> 1] /\ saved = server /\ newer = {}
    /\ \E a \in Accounts :
         storage = [l \in Places |-> IF l = Default THEN Login(a, 1) ELSE NoLogin]
    /\ running = {} /\ recorded = {}
    /\ client = [l \in Places |-> NoLogin] /\ launcher = [l \in Places |-> NoOne]
    /\ bind = [l \in Places |-> NoOne] /\ current = NoOne
    /\ op = [o \in Ops |-> Idle] /\ commands = 0 /\ events = 0

-----------------------------------------------------------------------------
\* What the app asks about clients.

First(S) == CHOOSE l \in S : \A k \in S : l <= k
Last(S) == CHOOSE l \in S : \A k \in S : k <= l

\* Places whose recorded process runs, by the account they are bound to.
BoundTo(a) == {l \in recorded : bind[l] = a}

\* Any process of the platform counts for the default client.
CurrentId == IF storage[Default].who # NoOne THEN storage[Default].who ELSE current

\* Bug: the accounts of managed instances are not looked up.
ProtectedAt_DefaultOnly(a) ==
    IF running # {} /\ CurrentId = a THEN Default ELSE Nowhere

\* The place of the running client that owns a, by all the app knows.
ProtectedAt(a) ==
    IF running # {} /\ CurrentId = a THEN Default
    ELSE IF BoundTo(a) # {} THEN First(BoundTo(a)) ELSE Nowhere

\* Of the places bound to one account, only the first is seen.
IsLive(l) ==
    \/ l = Default /\ running # {}
    \/ \E a \in Accounts : BoundTo(a) # {} /\ l = First(BoundTo(a))

\* The places whose storage may have a fresher token of a.
Fresher(a) ==
    {l \in Places : /\ storage[l].who = a /\ <<l, a>> \in newer
                    /\ l = Default \/ bind[l] = a}

-----------------------------------------------------------------------------
\* Writing the detail file and a storage.

Save(a, t) ==
    /\ saved' = [saved EXCEPT ![a] = t]
    /\ newer' = newer \ (Places \X {a})

Goto(o, pc) == op' = [op EXCEPT ![o].pc = pc]
Finish(o) == op' = [op EXCEPT ![o] = Idle]

\* The storage of l is written: commands about to launch its client find that.
Crossed(l) ==
    [p \in Ops |->
       [op[p] EXCEPT !.crossed = @ \/ (op[p].at = l /\ op[p].pc = "launch")]]

\* Bug: inject overwrites a storage without looking at it.
Adopted_Never(a, l) == saved[a]

\* What inject adopts from the storage it is about to replace.
Adopted(a, l) ==
    IF <<l, a>> \in newer /\ storage[l].who = a THEN storage[l].tok ELSE saved[a]

Inject(a, l) ==
    LET t == Adopted(a, l)
        kept == IF t = saved[a] THEN newer ELSE newer \ (Places \X {a})
    IN  /\ saved' = [saved EXCEPT ![a] = t]
        /\ storage' = [storage EXCEPT ![l] = Login(a, t)]
        /\ newer' = kept \cup ({l} \X Accounts)

-----------------------------------------------------------------------------
\* The commands.

Command(o, cmd, a, l, t, pc) ==
    /\ op[o] = Idle /\ o = CHOOSE p \in Ops : op[p] = Idle
    /\ commands < MaxCommands /\ commands' = commands + 1
    /\ op' = [op EXCEPT ![o] = [Idle EXCEPT !.cmd = cmd, !.who = a, !.at = l,
                                            !.tok = t, !.pc = pc]]
    /\ UNCHANGED <<server, files, clients, settings, events>>

Refresh(o, a) == Command(o, "refresh", a, Nowhere, 0, "refresh")

\* The token keeper writes the new token to the default storage of its account.
Keep(o, a) ==
    Command(o, "keep", a, IF CurrentId = a THEN Default ELSE Nowhere, 0, "refresh")

Start(o, l) == Command(o, "start", bind[l], l, 0, "close")
Switch(o, a) == Command(o, "switch", a, Default, 0, "refresh")
Edit(o, a) == Command(o, "edit", a, Nowhere, saved[a], "edited")

\* The token keeper's strict check of the current account.
Check(o, a) == CurrentId = a /\ Command(o, "check", a, Nowhere, 0, "verify")

Edited(o) ==
    /\ op[o].pc = "edited" /\ Save(op[o].who, op[o].tok) /\ Finish(o)
    /\ UNCHANGED <<server, storage, clients, settings, commands, events>>

-----------------------------------------------------------------------------
\* The refresh of an account, a part of several commands.

\* The account's client runs: only the quota is asked for, with its token.
UsageOnly(o) ==
    LET a == op[o].who
        l == ProtectedAt(a)
    IN  /\ op[o].pc = "refresh" /\ l # Nowhere
        /\ op' = [op EXCEPT ![o].pc = "usage",
                    ![o].tok = IF storage[l].who = a THEN storage[l].tok ELSE saved[a]]
        /\ UNCHANGED <<server, files, clients, settings, commands, events>>

\* Otherwise fresher tokens are adopted and saved, and the token is exchanged.
Prepare(o) ==
    LET a == op[o].who
        t == IF Fresher(a) = {} THEN saved[a] ELSE storage[Last(Fresher(a))].tok
    IN  /\ op[o].pc = "refresh" /\ ProtectedAt(a) = Nowhere
        /\ op' = [op EXCEPT ![o].pc = "asking", ![o].tok = t]
        /\ IF t = saved[a] THEN UNCHANGED <<saved, newer>> ELSE Save(a, t)
        /\ UNCHANGED <<server, storage, clients, settings, commands, events>>

Refused(o) == op' = [op EXCEPT ![o].pc = "refused", ![o].tok = 0]

\* The service takes only the newest token, and answers with the next.
Exchange(o) ==
    LET a == op[o].who
    IN  /\ op[o].pc = "asking" /\ op[o].tok = server[a]
        /\ server' = [server EXCEPT ![a] = @ + 1]
        /\ \/ /\ op' = [op EXCEPT ![o].pc = "answered", ![o].tok = server'[a]]
              /\ UNCHANGED events
           \/ \* the answer is lost; the older interface is refused the spent token
              /\ events < MaxEvents /\ events' = events + 1 /\ Refused(o)
        /\ UNCHANGED <<files, clients, settings, commands>>

Refuse(o) ==
    /\ op[o].pc = "asking" /\ op[o].tok # server[op[o].who] /\ Refused(o)
    /\ UNCHANGED <<server, files, clients, settings, commands, events>>

\* How the command goes on after its refresh.
GoOn(o, exchanged) ==
    LET then(pc) == [op EXCEPT ![o].pc = pc, ![o].tok = 0]
    IN  op' = CASE op[o].cmd = "switch" -> then("shut")
                [] op[o].cmd = "start" -> then("inject")
                [] op[o].cmd = "keep" /\ exchanged /\ op[o].at = Default -> then("write back")
                [] op[o].cmd = "verify" /\ exchanged -> then("inject again")
                [] OTHER -> [op EXCEPT ![o] = Idle]

\* The account is saved as it was read, with the token that was found or got.
Saved(o) ==
    /\ op[o].pc \in {"usage", "answered"}
    /\ Save(op[o].who, op[o].tok) /\ GoOn(o, op[o].pc = "answered")
    /\ UNCHANGED <<server, storage, clients, settings, commands, events>>

\* The error is saved in the account, which is read anew.
ErrorSaved(o) ==
    /\ op[o].pc = "refused"
    /\ Save(op[o].who, saved[op[o].who]) /\ GoOn(o, FALSE)
    /\ UNCHANGED <<server, storage, clients, settings, commands, events>>

-----------------------------------------------------------------------------
\* Closing, injecting, launching.

ClosedAt(S) ==
    /\ running' = running \ S /\ recorded' = recorded \ S
    /\ client' = [l \in Places |-> IF l \in S THEN NoLogin ELSE client[l]]
    /\ launcher' = [l \in Places |-> IF l \in S THEN NoOne ELSE launcher[l]]

Fails(o) ==
    /\ op[o].pc \in {"shut", "close", "launch", "checking"} /\ Finish(o)
    /\ UNCHANGED <<server, files, clients, settings, commands, events>>

\* The switch closes the default client, makes the account current and binds it.
Shut(o) ==
    /\ op[o].pc = "shut" /\ ClosedAt({Default})
    /\ current' = op[o].who /\ bind' = [bind EXCEPT ![Default] = op[o].who]
    /\ op' = [op EXCEPT ![o].cmd = "start", ![o].pc = "close"]
    /\ UNCHANGED <<server, files, commands, events>>

Close(o) ==
    /\ op[o].pc = "close" /\ ClosedAt({op[o].at})
    /\ Goto(o, IF op[o].who = NoOne THEN "inject" ELSE "refresh")
    /\ UNCHANGED <<server, files, settings, commands, events>>

\* An instance without an account starts without a login.
Purge(o) ==
    LET l == op[o].at
    IN  /\ op[o].pc = "inject" /\ op[o].who = NoOne
        /\ op' = [Crossed(l) EXCEPT ![o].pc = "launch"]
        /\ IF l = Default \/ storage[l] = NoLogin THEN UNCHANGED <<storage, newer>>
           ELSE /\ storage' = [storage EXCEPT ![l] = NoLogin]
                /\ newer' = newer \cup ({l} \X Accounts)
        /\ UNCHANGED <<server, saved, clients, settings, commands, events>>

InjectBound(o) ==
    /\ op[o].pc = "inject" /\ op[o].who # NoOne /\ ~IsLive(op[o].at)
    /\ Inject(op[o].who, op[o].at)
    /\ op' = [Crossed(op[o].at) EXCEPT ![o].pc = "launch"]
    /\ UNCHANGED <<server, clients, settings, commands, events>>

\* Bug: the start goes on after an injection that was refused.
InjectRefused_GoesOn(o) ==
    /\ op[o].pc = "inject" /\ op[o].who # NoOne /\ IsLive(op[o].at)
    /\ Goto(o, "launch")
    /\ UNCHANGED <<server, files, clients, settings, commands, events>>

\* A storage in use is not written: the command ends with an error.
InjectRefused(o) ==
    /\ \/ op[o].pc = "inject" /\ op[o].who # NoOne /\ IsLive(op[o].at)
       \/ op[o].pc = "inject again" /\ IsLive(op[o].at)
       \/ op[o].pc = "write back" /\ running # {}
    /\ Finish(o)
    /\ UNCHANGED <<server, files, clients, settings, commands, events>>

WriteBack(o) ==
    /\ \/ op[o].pc = "inject again" /\ ~IsLive(op[o].at)
       \/ op[o].pc = "write back" /\ running = {}
    /\ Inject(op[o].who, op[o].at) /\ op' = [Crossed(op[o].at) EXCEPT ![o] = Idle]
    /\ UNCHANGED <<server, clients, settings, commands, events>>

Open(l, by) ==
    /\ running' = running \cup {l}
    /\ client' = [client EXCEPT ![l] = storage[l]]
    /\ launcher' = [launcher EXCEPT ![l] = by]

\* A second process on one directory hands over to the first and ends.
Launch(o) ==
    LET l == op[o].at
    IN  /\ op[o].pc = "launch"
        /\ op' = [op EXCEPT ![o].pc = "launched", ![o].crossed = FALSE]
        /\ IF l \in running THEN UNCHANGED <<running, client, launcher>> ELSE Open(l, o)
        /\ UNCHANGED <<server, files, recorded, settings, commands, events>>

\* The pid is recorded; it is that of the running client if this command launched it.
Record(o) ==
    LET l == op[o].at
    IN  /\ op[o].pc = "launched"
        /\ recorded' = IF l \in running /\ launcher[l] = o THEN recorded \cup {l}
                                                           ELSE recorded \ {l}
        /\ launcher' = [launcher EXCEPT ![l] = IF @ = o THEN NoOne ELSE @]
        /\ op' = [op EXCEPT ![o] =
                     IF op[o].who = NoOne THEN Idle
                     ELSE [op[o] EXCEPT !.cmd = "verify", !.pc = "verify"]]
        /\ UNCHANGED <<server, files, running, client, settings, commands, events>>

\* check_login_token reads the account and asks the service about its login.
Verify(o) ==
    /\ op[o].pc = "verify"
    /\ op' = [op EXCEPT ![o].pc = "checking", ![o].tok = saved[op[o].who]]
    /\ UNCHANGED <<server, files, clients, settings, commands, events>>

\* The account is saved as it was read, whatever the service says; after a start
\* it is refreshed if its login is not valid.
Checked(o) ==
    /\ op[o].pc = "checking" /\ Save(op[o].who, op[o].tok)
    /\ \/ Finish(o)
       \/ /\ op[o].cmd = "verify"
          /\ op' = [op EXCEPT ![o].pc = "refresh", ![o].tok = 0]
    /\ UNCHANGED <<server, storage, clients, settings, commands, events>>

-----------------------------------------------------------------------------
\* The user and the clients.

Event == events < MaxEvents /\ events' = events + 1

Opens ==
    /\ Event /\ Default \notin running /\ Open(Default, NoOne)
    /\ UNCHANGED <<server, files, recorded, settings, op, commands>>

Stop(l) ==
    /\ Event /\ l \in running /\ ClosedAt({l})
    /\ UNCHANGED <<server, files, settings, op, commands>>

CloseAll ==
    /\ Event /\ running # {} /\ ClosedAt(Places)
    /\ UNCHANGED <<server, files, settings, op, commands>>

Rebind(l, a) ==
    /\ Event /\ bind[l] # a /\ bind' = [bind EXCEPT ![l] = a]
    /\ UNCHANGED <<server, files, clients, current, op, commands>>

\* A client exchanges its token and stores the next one.
Rotate(l) ==
    LET a == client[l].who
    IN  /\ Event /\ l \in running /\ a # NoOne /\ client[l].tok = server[a]
        /\ server' = [server EXCEPT ![a] = @ + 1]
        /\ client' = [client EXCEPT ![l] = Login(a, server'[a])]
        /\ storage' = [storage EXCEPT ![l] = client'[l]]
        /\ newer' = newer \cup ({l} \X Accounts)
        /\ op' = Crossed(l)
        /\ UNCHANGED <<saved, running, launcher, recorded, settings, commands>>

-----------------------------------------------------------------------------

Refreshing(o) ==
    UsageOnly(o) \/ Prepare(o) \/ Exchange(o) \/ Refuse(o) \/ Saved(o) \/ ErrorSaved(o)
Starting(o) ==
    \/ Shut(o) \/ Close(o) \/ Purge(o) \/ InjectBound(o) \/ InjectRefused(o)
    \/ WriteBack(o) \/ Launch(o) \/ Record(o) \/ Verify(o) \/ Checked(o) \/ Fails(o)

Next ==
    \/ \E o \in Ops, a \in Accounts :
         Refresh(o, a) \/ Keep(o, a) \/ Switch(o, a) \/ Edit(o, a) \/ Check(o, a)
    \/ \E o \in Ops, l \in Places : Start(o, l)
    \/ \E o \in Ops : Edited(o) \/ Refreshing(o) \/ Starting(o)
    \/ Opens \/ CloseAll
    \/ \E l \in Places : Stop(l) \/ Rotate(l)
    \/ \E l \in Places, a \in Accounts \cup {NoOne} : Rebind(l, a)

Spec == Init /\ [][Next]_vars

-----------------------------------------------------------------------------

TypeOK ==
    /\ server \in [Accounts -> Nat] /\ saved \in [Accounts -> Nat]
    /\ storage \in [Places -> [who : Accounts \cup {NoOne}, tok : Nat]]
    /\ client \in [Places -> [who : Accounts \cup {NoOne}, tok : Nat]]
    /\ newer \subseteq Places \X Accounts
    /\ running \subseteq Places /\ recorded \subseteq running
    /\ bind \in [Places -> Accounts \cup {NoOne}] /\ current \in Accounts \cup {NoOne}
    /\ commands \in 0..MaxCommands /\ events \in 0..MaxEvents

\* The token the service takes is in a file, or a command is sure to save it.
Held(a) ==
    \/ saved[a] = server[a]
    \/ \E l \in Places : storage[l] = Login(a, server[a])
    \/ \E o \in Ops : /\ op[o].who = a /\ op[o].tok = server[a]
                      /\ op[o].pc \in {"usage", "asking", "answered", "edited"}

\* An account loses its newest token, and with it the login, only
\*   - when the answer to its exchange is lost, or
\*   - when another account, or none, takes the place of a client's login, or
\*   - when a token is injected over a newer one that a client left before the
\*     detail file was last written, for whatever reason, or
\*   - when a command saves an account it has read earlier (a refresh, an edit, the
\*     check of a login), or with the token of the default storage though another
\*     client runs.
\* In particular an injection keeps what a client left, and an exchange what it got.
NewestTokenIsKept == [][
    \A a \in Accounts : Held(a) /\ ~Held(a)' =>
        \/ \E o \in Ops : op[o].pc = "asking" /\ op'[o].pc = "refused" /\ op[o].who = a
        \/ \E l \in Places : storage[l].who = a /\ storage'[l].who # a
        \/ \E l \in Places : storage[l] # storage'[l] /\ <<l, a>> \notin newer
        \/ saved'[a] < saved[a]
    ]_vars

\* No token is exchanged, and no storage written, under a client that runs with it
\* when the app asks, except
\*   - of an instance whose process is not recorded yet, or that is bound to no
\*     account, or was bound to another while it ran, or
\*   - (the storage) of a further instance bound to the same account, of which the
\*     app sees only the first, or by a start of an unbound instance, which does not
\*     ask.
ClientsAreLeftAlone == [][
    \A l \in running :
        LET a == client[l].who
            unseen == l # Default /\ (l \notin recorded \/ bind[l] \notin {a} \ {NoOne})
        IN  /\ \A o \in Ops :
                 op[o].who = a /\ op[o].pc = "refresh" /\ op'[o].pc = "asking" => unseen
            /\ storage'[l] # storage[l] /\ client'[l] = client[l] =>
                 unseen \/ l # First(BoundTo(a)) \/ storage'[l] = NoLogin
    ]_vars

\* A client is launched with the login of the account its command read as bound,
\* unless another command, or a client, has written its storage in between.
StartedAsBound == [][
    \A o \in Ops :
        op[o].pc = "launch" /\ launcher' # launcher /\ launcher'[op[o].at] = o =>
            \/ op[o].crossed
            \/ client'[op[o].at].who = op[o].who
            \/ op[o].who = NoOne /\ op[o].at = Default
    ]_vars

\* "switch/start paths close Trae first so this guard stays out of the way": what is
\* closed for an injection is not taken for a running client.
GuardStaysOutOfTheWay ==
    \A o \in Ops : op[o].pc = "inject" /\ op[o].who # NoOne /\ IsLive(op[o].at) =>
        op[o].at \in running
=============================================================================
