---------------------------- MODULE TrayRebuild ----------------------------
(***************************************************************************)
(* src-tauri/src/modules/tray.rs: requests to rebuild the tray menu, and   *)
(* the worker that serves them (all systems but macOS, whose rebuild does  *)
(* not collect a snapshot).                                                *)
(*                                                                         *)
(* Whoever has changed an account counts a request and tries to claim the  *)
(* one rebuild slot; the one that gets it spawns a worker.  The worker     *)
(* takes all requests counted so far, collects a snapshot platform by      *)
(* platform, submits it to the UI thread, waits until it is applied,       *)
(* releases the slot and looks whether more requests have come.  Each      *)
(* access to an atomic is a step, so callers and retiring workers race for *)
(* the slot.                                                               *)
(*                                                                         *)
(* What the menu shows of a platform is the version of its accounts.       *)
(***************************************************************************)
EXTENDS Naturals, Sequences

CONSTANTS
    Platforms,
    Callers,    \* threads that change accounts and request a rebuild
    Workers,    \* rebuild threads that can exist at a time
    MaxVersion  \* bound on the changes of each platform

ASSUME ThreadsAreDistinct == Callers \intersect Workers = {}
ASSUME MaxVersionIsNat == MaxVersion \in [Platforms -> Nat]

VARIABLES
    data,       \* version of each platform's accounts
    menu,       \* version the tray menu shows
    requests,   \* TRAY_MENU_REQUESTS
    scheduled,  \* TRAY_MENU_REBUILD_SCHEDULED
    generation, \* TRAY_MENU_APPLY_GENERATION
    caller,     \* where each caller is in update_tray_menu
    worker,     \* where each worker is in its loop, and its locals
    queue,      \* closures waiting for the UI thread, by their worker
    asked,      \* history: data when a request was last counted
    given_up    \* history: `asked` when a failed rebuild took its requests

vars == <<data, menu, requests, scheduled, generation, caller, worker, queue,
          asked, given_up>>

history == <<asked, given_up>>

Version == [Platforms -> Nat]

None == [p \in Platforms |-> 0]

Idle == [at |-> "idle", unread |-> {}, seen |-> None, gen |-> 0, took |-> None]

WorkerState ==
    [at : {"idle", "sleep", "collect", "submit", "wait", "release", "recheck",
           "reclaim"},
     unread : SUBSET Platforms,     \* platforms still to be collected
     seen : Version,                \* the snapshot
     gen : Nat,                     \* its generation
     took : Version]                \* history: `asked` when it took requests

TypeOK ==
    /\ data \in Version
    /\ menu \in Version
    /\ requests \in Nat
    /\ scheduled \in BOOLEAN
    /\ generation \in Nat
    /\ caller \in [Callers -> {"idle", "count", "claim", "spawn"}]
    /\ worker \in [Workers -> WorkerState]
    /\ queue \in Seq(Workers)
    /\ asked \in Version
    /\ given_up \in Version

Init ==
    /\ data = None
    /\ menu = None
    /\ requests = 0
    /\ scheduled = FALSE
    /\ generation = 0
    /\ caller = [c \in Callers |-> "idle"]
    /\ worker = [w \in Workers |-> Idle]
    /\ queue = <<>>
    /\ asked = None
    /\ given_up = None

----------------------------------------------------------------------------
(* Callers of update_tray_menu                                             *)

\* An account of the platform is saved, removed or made current.
Change(c, p) ==
    /\ caller[c] = "idle"
    /\ data[p] < MaxVersion[p]
    /\ data' = [data EXCEPT ![p] = @ + 1]
    /\ caller' = [caller EXCEPT ![c] = "count"]
    /\ UNCHANGED <<menu, requests, scheduled, generation, worker, queue, history>>

CountRequest(c) ==
    /\ caller[c] = "count"
    /\ requests' = requests + 1
    /\ asked' = data
    /\ caller' = [caller EXCEPT ![c] = "claim"]
    /\ UNCHANGED <<data, menu, scheduled, generation, worker, queue, given_up>>

\* If the slot is taken, its worker is going to pick the request up.
Claim(c) ==
    /\ caller[c] = "claim"
    /\ scheduled' = TRUE
    /\ caller' = [caller EXCEPT ![c] = IF scheduled THEN "idle" ELSE "spawn"]
    /\ UNCHANGED <<data, menu, requests, generation, worker, queue, history>>

Spawn(c, w) ==
    /\ caller[c] = "spawn"
    /\ worker[w].at = "idle"
    /\ worker' = [worker EXCEPT ![w] = [Idle EXCEPT !.at = "sleep"]]
    /\ caller' = [caller EXCEPT ![c] = "idle"]
    /\ UNCHANGED <<data, menu, requests, scheduled, generation, queue, history>>

----------------------------------------------------------------------------
(* The worker and the UI thread                                            *)

\* Plausible bug: a worker takes one request off the counter, not all.
Take_One(w) ==
    /\ worker[w].at = "sleep"
    /\ requests' = requests - 1
    /\ worker' = [worker EXCEPT ![w] =
                    [Idle EXCEPT !.at = "collect", !.unread = Platforms,
                                 !.took = asked]]
    /\ UNCHANGED <<data, menu, scheduled, generation, caller, queue, history>>

\* After the coalescing window.
Take(w) ==
    /\ worker[w].at = "sleep"
    /\ requests' = 0
    /\ worker' = [worker EXCEPT ![w] =
                    [Idle EXCEPT !.at = "collect", !.unread = Platforms,
                                 !.took = asked]]
    /\ UNCHANGED <<data, menu, scheduled, generation, caller, queue, history>>

Collect(w, p) ==
    /\ worker[w].at = "collect"
    /\ p \in worker[w].unread
    /\ worker' = [worker EXCEPT ![w].unread = @ \ {p}, ![w].seen[p] = data[p]]
    /\ UNCHANGED <<data, menu, requests, scheduled, generation, caller, queue,
                   history>>

\* The snapshot gets the next generation.
Number(w) ==
    /\ worker[w].at = "collect"
    /\ worker[w].unread = {}
    /\ generation' = generation + 1
    /\ worker' = [worker EXCEPT ![w].at = "submit", ![w].gen = generation + 1]
    /\ UNCHANGED <<data, menu, requests, scheduled, caller, queue, history>>

Submit(w) ==
    /\ worker[w].at = "submit"
    /\ queue' = Append(queue, w)
    /\ worker' = [worker EXCEPT ![w].at = "wait"]
    /\ UNCHANGED <<data, menu, requests, scheduled, generation, caller, history>>

\* run_on_main_thread fails; the requests this rebuild took are dropped.
SubmitFails(w) ==
    /\ worker[w].at = "submit"
    /\ worker' = [worker EXCEPT ![w] = [Idle EXCEPT !.at = "release"]]
    /\ given_up' = worker[w].took
    /\ UNCHANGED <<data, menu, requests, scheduled, generation, caller, queue, asked>>

IsStale(w) == generation # worker[w].gen

\* The UI thread runs the first closure, whose worker gets its answer.
Answer ==
    /\ queue # <<>>
    /\ queue' = Tail(queue)
    /\ worker' = [worker EXCEPT ![Head(queue)] = [Idle EXCEPT !.at = "release"]]
    /\ UNCHANGED <<data, requests, scheduled, generation, caller, asked>>

\* A stale snapshot drops itself.
Apply ==
    /\ Answer
    /\ menu' = IF IsStale(Head(queue)) THEN menu ELSE worker[Head(queue)].seen
    /\ UNCHANGED given_up

\* The menu cannot be built or set.
ApplyFails ==
    /\ Answer
    /\ ~IsStale(Head(queue))
    /\ given_up' = worker[Head(queue)].took
    /\ UNCHANGED menu

\* Plausible bug: The worker ends without a second look at the counter.
Release_NoRecheck(w) ==
    /\ worker[w].at = "release"
    /\ scheduled' = FALSE
    /\ worker' = [worker EXCEPT ![w].at = "idle"]
    /\ UNCHANGED <<data, menu, requests, generation, caller, queue, history>>

\* Plausible bug: The counter is cleared again with the release.
Release_Clears(w) ==
    /\ worker[w].at = "release"
    /\ scheduled' = FALSE
    /\ requests' = 0
    /\ worker' = [worker EXCEPT ![w].at = "recheck"]
    /\ UNCHANGED <<data, menu, generation, caller, queue, history>>

Release(w) ==
    /\ worker[w].at = "release"
    /\ scheduled' = FALSE
    /\ worker' = [worker EXCEPT ![w].at = "recheck"]
    /\ UNCHANGED <<data, menu, requests, generation, caller, queue, history>>

Recheck(w) ==
    /\ worker[w].at = "recheck"
    /\ worker' = [worker EXCEPT ![w].at = IF requests = 0 THEN "idle" ELSE "reclaim"]
    /\ UNCHANGED <<data, menu, requests, scheduled, generation, caller, queue, history>>

\* Plausible bug: The worker goes on without claiming the slot again.
Reclaim_NoSwap(w) ==
    /\ worker[w].at = "reclaim"
    /\ scheduled' = TRUE
    /\ worker' = [worker EXCEPT ![w].at = "sleep"]
    /\ UNCHANGED <<data, menu, requests, generation, caller, queue, history>>

\* If somebody else has claimed the slot, they do the work.
Reclaim(w) ==
    /\ worker[w].at = "reclaim"
    /\ scheduled' = TRUE
    /\ worker' = [worker EXCEPT ![w].at = IF scheduled THEN "idle" ELSE "sleep"]
    /\ UNCHANGED <<data, menu, requests, generation, caller, queue, history>>

----------------------------------------------------------------------------
CallerStep(c) == CountRequest(c) \/ Claim(c) \/ \E w \in Workers : Spawn(c, w)

WorkerStep(w) ==
    \/ Take(w) \/ Number(w) \/ Submit(w) \/ SubmitFails(w)
    \/ Release(w) \/ Recheck(w) \/ Reclaim(w)
    \/ \E p \in Platforms : Collect(w, p)

UIStep == Apply \/ ApplyFails

Next ==
    \/ \E c \in Callers, p \in Platforms : Change(c, p)
    \/ \E c \in Callers : CallerStep(c)
    \/ \E w \in Workers : WorkerStep(w)
    \/ UIStep

Spec == Init /\ [][Next]_vars

\* Threads that have been started run; the UI thread serves its queue.
FairSpec ==
    /\ Spec
    /\ \A c \in Callers : WF_vars(CallerStep(c))
    /\ \A w \in Workers : WF_vars(WorkerStep(w))
    /\ WF_vars(UIStep)

----------------------------------------------------------------------------
(* Properties                                                              *)

\* A worker from its start to the release of the slot.
Rebuilding(w) ==
    worker[w].at \in {"sleep", "collect", "submit", "wait", "release"}

\* A worker or a caller that owns the slot.
Owners ==
    {w \in Workers : Rebuilding(w)} \union {c \in Callers : caller[c] = "spawn"}

\* The slot has one owner while it is taken and none while it is free, so no
\* two threads rebuild at once, although a worker that retires and a caller
\* may both find it free (the release, the second look and the claim in
\* spawn_tray_menu_rebuild_worker are three steps).
OneRebuilder ==
    /\ \A x, y \in Owners : x = y
    /\ scheduled <=> Owners # {}

\* What no rebuild owes any more: shown, or dropped with a failed rebuild.
Settled(p) == asked[p] <= menu[p] \/ asked[p] <= given_up[p]

\* When every request has returned and no worker is left, the menu shows all
\* that was changed before the last request, unless the rebuild that took the
\* request failed: no request falls between a worker's swap of the counter and
\* its exit (the comment of spawn_tray_menu_rebuild_worker).
QuietMenuIsCurrent ==
    ((\A c \in Callers : caller[c] \in {"idle", "count"}) /\ (\A w \in Workers : worker[w].at = "idle"))
        => \A p \in Platforms : Settled(p)

\* The menu never goes back to an older state of a platform (what
\* is_stale_tray_menu_apply is there for).
MenuNeverGoesBack ==
    [][\A p \in Platforms : menu[p] <= menu'[p]]_vars

\* Every request is served, by whichever worker, or dropped by a failed
\* rebuild; none waits until the next request comes.
RequestsAreServed ==
    \A p \in Platforms : \A v \in 1 .. MaxVersion[p] :
        (asked[p] = v) ~> (menu[p] >= v \/ given_up[p] >= v)
============================================================================
