----------------------------- MODULE AutoRefresh -----------------------------
(***************************************************************************)
(* The window's automatic refreshing of accounts (useAutoRefresh) and its  *)
(* scheduler (createAutoRefreshScheduler).  A set-up asks the backend for  *)
(* the configuration and replaces the scheduler; set-ups asked for         *)
(* meanwhile are taken together.  The scheduler runs one task at a time;   *)
(* the task of a scheduler that was replaced goes on, and is not run twice *)
(* at once.  A task is the refresh of all accounts of a platform, or that  *)
(* of its current account.                                                 *)
(***************************************************************************)
EXTENDS Naturals, SequencesExt

CONSTANTS
    Tasks,        \* numbered from 1 in the order of their keys
    Configs,      \* intervals of the tasks in ticks; 0 is off
    Off,          \* no scheduler
    MaxChanges,   \* bound: changes of the configuration
    MaxFailures   \* bound: failures to read it

RefreshBounds ==
    /\ Tasks \subseteq Nat \ {0} /\ IsFiniteSet(Tasks)
    /\ Configs \subseteq [Tasks -> Nat] /\ Off \notin Configs
    /\ {MaxChanges, MaxFailures} \subseteq Nat

NoTask == 0

VARIABLES
    config,     \* in the backend
    setup,      \* [at, got]: setupRunningRef, and the configuration read
    again,      \* setupPendingRef
    scheduler,  \* the configuration it was made from
    wait,       \* ticks until a task is due
    due,        \* the tasks that are due, by nextRunAt
    running,    \* the scheduler's task
    refreshing, \* tasks that run: refreshingRef of each
    news,       \* changes yet to be announced
    silent,     \* a change was not announced, and no set-up has seen it
    failed,     \* the last configuration could not be read
    changes, failures

setupVars == <<setup, again, failed>>
schedule == <<scheduler, wait, due, running>>
refreshVars ==
    <<config, setupVars, schedule, refreshing, news, silent, changes, failures>>

Asking == [at |-> "asking", got |-> Off]
NoSetup == [at |-> "idle", got |-> Off]

Init ==
    /\ config \in Configs /\ setup = Asking /\ again = FALSE
    /\ scheduler = Off /\ wait = [t \in Tasks |-> 0] /\ due = << >> /\ running = NoTask
    /\ refreshing = {} /\ news = 0 /\ silent = FALSE /\ failed = FALSE
    /\ changes = 0 /\ failures = 0

-----------------------------------------------------------------------------
\* Changes of the configuration.

\* An import announces the change when it is done; the settings send another
\* event, which is not listened to.
ChangeConfig(c) ==
    /\ changes < MaxChanges /\ changes' = changes + 1
    /\ c # config /\ config' = c
    /\ \/ news' = news + 1 /\ UNCHANGED silent
       \/ silent' = TRUE /\ UNCHANGED news
    /\ UNCHANGED <<setupVars, schedule, refreshing, failures>>

\* Plausible bug: a change during a set-up is left to that set-up.
Announce_Once ==
    /\ news > 0 /\ news' = news - 1
    /\ setup' = IF setup.at = "idle" THEN Asking ELSE setup
    /\ UNCHANGED <<config, again, failed, schedule, refreshing, silent, changes, failures>>

Announce ==
    /\ news > 0 /\ news' = news - 1
    /\ IF setup.at = "idle" THEN setup' = Asking /\ again' = FALSE
                            ELSE again' = TRUE /\ UNCHANGED setup
    /\ UNCHANGED <<config, failed, schedule, refreshing, silent, changes, failures>>

-----------------------------------------------------------------------------
\* The set-up.

Answer ==
    /\ setup.at = "asking" /\ setup' = [at |-> "answered", got |-> config]
    /\ failed' = FALSE /\ silent' = FALSE
    /\ UNCHANGED <<config, again, schedule, refreshing, news, changes, failures>>

Stopped ==
    /\ scheduler' = Off /\ running' = NoTask /\ due' = << >>
    /\ wait' = [t \in Tasks |-> 0]

\* The set-up ends, also when another one was asked for.
AnswerFails ==
    /\ setup.at = "asking" /\ failures < MaxFailures /\ failures' = failures + 1
    /\ setup' = NoSetup /\ failed' = TRUE /\ Stopped
    /\ UNCHANGED <<config, again, refreshing, news, silent, changes>>

\* The first delay of a task is a part of its interval that depends on its key.
FirstDelays(c) ==
    {d \in [Tasks -> 0..Max(Range(c))] :
        \A t \in Tasks : IF c[t] <= 1 THEN d[t] = c[t] ELSE d[t] \in 1..(c[t] - 1)}

Build ==
    /\ setup.at = "answered"
    /\ IF \A t \in Tasks : setup.got[t] = 0
       THEN Stopped
       ELSE /\ scheduler' = setup.got /\ running' = NoTask /\ due' = << >>
            /\ wait' \in FirstDelays(setup.got)
    /\ setup' = IF again THEN Asking ELSE NoSetup
    /\ again' = FALSE
    /\ UNCHANGED <<config, failed, refreshing, news, silent, changes, failures>>

-----------------------------------------------------------------------------
\* The scheduler, with the tasks q due, the times w to wait, and b in progress.

Free(q, b) == {i \in DOMAIN q : q[i] \notin b}

\* Plausible bug: of the tasks that are due, the first by key is run.
Dispatch_ByKey(q, w, b) ==
    LET t == Min({q[i] : i \in Free(q, b)})
    IN  IF Free(q, b) = {} THEN running' = NoTask /\ due' = q /\ wait' = w /\ refreshing' = b
        ELSE /\ running' = t /\ due' = Remove(q, t)
             /\ wait' = [w EXCEPT ![t] = scheduler[t]]
             /\ refreshing' = b \cup {t}

\* The task that has been due for longest is run.  One that is still in progress
\* for an earlier scheduler is passed over until its interval has passed again.
Dispatch(q, w, b) ==
    LET n == IF Free(q, b) = {} THEN Len(q) ELSE Min(Free(q, b))
        taken == {q[i] : i \in 1..n}
    IN  /\ running' = IF Free(q, b) = {} THEN NoTask ELSE q[n]
        /\ due' = SubSeq(q, n + 1, Len(q))
        /\ wait' = [t \in Tasks |-> IF t \in taken THEN scheduler[t] ELSE w[t]]
        /\ refreshing' = b \cup ({running'} \ {NoTask})

Tick ==
    LET w == [t \in Tasks |-> IF wait[t] > 0 THEN wait[t] - 1 ELSE 0]
    IN  /\ scheduler # Off
        /\ \E q \in SetToSeqs({t \in Tasks : wait[t] = 1}) :
             IF running = NoTask THEN Dispatch(due \o q, w, refreshing)
             ELSE due' = due \o q /\ wait' = w /\ UNCHANGED <<running, refreshing>>
        /\ UNCHANGED <<config, setupVars, scheduler, news, silent, changes, failures>>

Finish(t) ==
    /\ t \in refreshing
    /\ IF running = t THEN Dispatch(due, wait, refreshing \ {t})
       ELSE refreshing' = refreshing \ {t} /\ UNCHANGED <<wait, due, running>>
    /\ UNCHANGED <<config, setupVars, scheduler, news, silent, changes, failures>>

-----------------------------------------------------------------------------

Replies == Answer \/ Build

Next ==
    \/ \E c \in Configs : ChangeConfig(c)
    \/ Announce \/ Replies \/ AnswerFails \/ Tick
    \/ \E t \in Tasks : Finish(t)

Spec == Init /\ [][Next]_refreshVars

\* Replies are handled, the timer fires, and every command of the backend ends.
FairSpec ==
    /\ Spec
    /\ WF_refreshVars(Replies) /\ WF_refreshVars(Tick)
    /\ \A t \in Tasks : WF_refreshVars(Finish(t))

-----------------------------------------------------------------------------

\* When no set-up is under way, the scheduler is the one for the configuration:
\* no change is lost that comes while a set-up waits for its answer.  Excepted are
\* changes nobody announces, and what follows a configuration that cannot be read.
SchedulerFollowsConfig ==
    setup.at = "idle" /\ news = 0 /\ ~silent /\ ~failed =>
        scheduler = IF \A t \in Tasks : config[t] = 0 THEN Off ELSE config

\* A task that is on is run again and again: neither a task with a shorter interval
\* nor one that takes longer than its own keeps it waiting for ever.
EveryTaskRuns ==
    \A t \in Tasks : []<>(t \in refreshing \/ scheduler = Off \/ scheduler[t] = 0)
==============================================================================
