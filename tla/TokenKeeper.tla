----------------------------- MODULE TokenKeeper -----------------------------
(***************************************************************************)
(* src-tauri/src/modules/provider_token_keeper.rs: the task that renews    *)
(* tokens shortly before they expire, for one of the platforms codebuddy,  *)
(* codebuddy_cn and workbuddy, whose scans are the same code three times.  *)
(*                                                                         *)
(* The task sleeps a minute, or until the setting changes.  If a scan of   *)
(* the platform is due it lists the accounts in a blocking task, waits for *)
(* at most 15 seconds, and renews the tokens that are close to expiry, a   *)
(* few per scan, one after another.  A scan that renewed something is      *)
(* followed by another a minute later; otherwise the platform waits ten.   *)
(*                                                                         *)
(* Time is in minutes, and a timer is what is left of it.  A cycle takes   *)
(* at most MaxLag minutes; the sleeping task wakes when it is time.        *)
(***************************************************************************)
EXTENDS Naturals, Sequences, FiniteSets

CONSTANTS
    Order,      \* the accounts, in the order of the index
    Bad,        \* accounts whose renewal always fails
    Expiries,   \* what may be left of a token when the program starts
    Life,       \* of a renewed token
    Lead,       \* TOKEN_REFRESH_LEAD_SECONDS
    Idle,       \* TOKEN_KEEPER_IDLE_SCAN_SECONDS
    Active,     \* TOKEN_KEEPER_ACTIVE_SCAN_SECONDS
    Backoff,    \* REFRESH_FAILURE_BACKOFF_SECONDS
    Limit,      \* TOKEN_KEEPER_MAX_REFRESHES_PER_PLATFORM
    Startup,    \* TOKEN_KEEPER_STARTUP_DELAY_SECONDS
    MaxLag,
    MaxFaults,  \* bound on listings and renewals that fail by accident
    MaxActs     \* bound on the user's changes of the setting and renewals

Accounts == {Order[i] : i \in DOMAIN Order}

ASSUME TimesAreSound ==
    /\ {Life, Lead, Idle, Active, Backoff, Limit} \subseteq Nat \ {0}
    /\ {Startup, MaxLag, MaxFaults, MaxActs} \subseteq Nat
    /\ Expiries \subseteq 0 .. Life
    /\ Active <= Idle
    /\ Bad \subseteq Accounts

Nap == 1        \* TOKEN_KEEPER_TICK_SECONDS

VARIABLES
    enabled,    \* token_keeper_enabled
    notifier,   \* where a change of it is in notify_config_changed
    permit,     \* what notify_one leaves in TOKEN_KEEPER_CONFIG_CHANGED
    wake,       \* timer of the sleep
    scanIn,     \* NEXT_PLATFORM_SCAN_AT
    allowedIn,  \* NEXT_ALLOWED_ATTEMPT_AT of each account
    expiresIn,  \* what is left of each token
    inFlight,   \* ACCOUNT_LIST_IN_FLIGHT
    listings,   \* blocking tasks that list the platform
    at,         \* where the cycle is
    copy,       \* expiry in the listed copies
    left,       \* listed accounts not yet looked at
    tried,      \* attempted_refreshes
    renewed,    \* refreshed_any
    lag,        \* minutes since the cycle began
    faults, acts,
    hindered    \* history: accounts whose renewal something stood in the way of

timers == <<wake, scanIn, allowedIn, expiresIn>>
setting == <<enabled, notifier, permit>>
list == <<inFlight, listings>>
locals == <<copy, left, tried, renewed>>
vars == <<timers, setting, list, locals, at, lag, faults, acts, hindered>>

None == [a \in Accounts |-> 0]

TypeOK ==
    /\ enabled \in BOOLEAN /\ permit \in BOOLEAN
    /\ notifier \in {"idle", "reset", "notify"}
    /\ wake \in 0 .. Startup + Nap
    /\ scanIn \in 0 .. Idle
    /\ allowedIn \in [Accounts -> 0 .. Backoff]
    /\ expiresIn \in [Accounts -> 0 .. Life]
    /\ inFlight \in BOOLEAN
    /\ listings \in Nat
    /\ at \in {"sleep", "check", "start", "list", "work", "mark"}
    /\ copy \in [Accounts -> 0 .. Life]
    /\ left \in Seq(Accounts)
    /\ tried \in 0 .. Limit
    /\ renewed \in BOOLEAN
    /\ lag \in 0 .. MaxLag
    /\ faults \in 0 .. MaxFaults
    /\ acts \in 0 .. MaxActs
    /\ hindered \subseteq Accounts

\* expires_at_seconds_due
IsDue(expiry) == expiry <= Lead

Due == {a \in Accounts : IsDue(expiresIn[a])}

Init ==
    /\ enabled \in BOOLEAN /\ notifier = "idle" /\ permit = FALSE
    /\ wake = Startup
    /\ scanIn = 0
    /\ allowedIn = None
    /\ expiresIn \in [Accounts -> Expiries]
    /\ inFlight = FALSE /\ listings = 0
    /\ at = "sleep" /\ copy = None /\ left = <<>> /\ tried = 0 /\ renewed = FALSE
    /\ lag = 0 /\ faults = 0 /\ acts = 0
    /\ hindered = Due

----------------------------------------------------------------------------
(* Time, and what others do                                                *)

Less(t) == IF t = 0 THEN 0 ELSE t - 1
AllLess(f) == [a \in Accounts |-> Less(f[a])]

\* A minute passes while the task sleeps, or in the middle of a cycle.
Tick ==
    /\ \/ at = "sleep" /\ wake > 0 /\ ~permit /\ UNCHANGED lag
       \/ at # "sleep" /\ lag < MaxLag /\ lag' = lag + 1
    /\ wake' = Less(wake)
    /\ scanIn' = Less(scanIn)
    /\ allowedIn' = AllLess(allowedIn)
    /\ expiresIn' = AllLess(expiresIn)
    /\ copy' = AllLess(copy)
    /\ hindered' = IF enabled THEN hindered ELSE hindered \union Due
    /\ UNCHANGED <<setting, list, at, left, tried, renewed, faults, acts>>

\* The user switches the keeper on or off; then the schedule is reset, then
\* the task is notified.
Toggle ==
    /\ notifier = "idle" /\ acts < MaxActs
    /\ enabled' = ~enabled
    /\ notifier' = "reset"
    /\ acts' = acts + 1
    /\ UNCHANGED <<permit, timers, list, locals, at, lag, faults, hindered>>

Reset ==
    /\ notifier = "reset"
    /\ scanIn' = 0
    /\ notifier' = "notify"
    /\ UNCHANGED <<enabled, permit, wake, allowedIn, expiresIn, list, locals, at,
                   lag, faults, acts, hindered>>

Notify ==
    /\ notifier = "notify"
    /\ permit' = TRUE
    /\ notifier' = "idle"
    /\ UNCHANGED <<enabled, timers, list, locals, at, lag, faults, acts, hindered>>

\* The user refreshes an account or logs in again.  Its back-off stays.
Renew(a) ==
    /\ acts < MaxActs
    /\ acts' = acts + 1
    /\ expiresIn' = [expiresIn EXCEPT ![a] = Life]
    /\ hindered' = IF allowedIn[a] = 0 THEN hindered \ {a} ELSE hindered
    /\ UNCHANGED <<wake, scanIn, allowedIn, setting, list, locals, at, lag, faults>>

----------------------------------------------------------------------------
(* The cycle                                                               *)

Sleep ==
    /\ at' = "sleep"
    /\ wake' = Nap
    /\ lag' = 0
    /\ copy' = None /\ left' = <<>> /\ tried' = 0 /\ renewed' = FALSE

\* The sleep ends by itself or by the notification (both may be there; the
\* notification then stays).
Wake ==
    /\ at = "sleep"
    /\ \/ wake = 0 /\ UNCHANGED permit
       \/ permit /\ permit' = FALSE
    /\ IF enabled
       THEN at' = "check" /\ UNCHANGED <<wake, locals, lag>>
       ELSE Sleep
    /\ UNCHANGED <<scanIn, allowedIn, expiresIn, enabled, notifier, list, faults,
                   acts, hindered>>

\* allow_platform_scan, after the scans of the platforms before this one.
CheckScan ==
    /\ at = "check"
    /\ IF scanIn = 0 THEN at' = "start" /\ UNCHANGED <<wake, locals, lag>> ELSE Sleep
    /\ UNCHANGED <<scanIn, allowedIn, expiresIn, setting, list, faults, acts, hindered>>

\* One listing of a platform at a time; a scan that finds one ends.
StartListing ==
    /\ at = "start"
    /\ IF inFlight
       THEN /\ at' = "mark"
            /\ hindered' = hindered \union Due
            /\ UNCHANGED list
       ELSE /\ at' = "list"
            /\ inFlight' = TRUE
            /\ listings' = listings + 1
            /\ UNCHANGED hindered
    /\ UNCHANGED <<timers, setting, locals, lag, faults, acts>>

\* The blocking task ends and with it its guard.
TaskEnds ==
    /\ listings' = listings - 1
    /\ inFlight' = FALSE

Listed ==
    /\ at = "list"
    /\ TaskEnds
    /\ at' = "work"
    /\ copy' = expiresIn
    /\ left' = Order
    /\ UNCHANGED <<timers, setting, tried, renewed, lag, faults, acts, hindered>>

ListingFails ==
    /\ at = "list"
    /\ faults < MaxFaults
    /\ faults' = faults + 1
    /\ TaskEnds
    /\ at' = "mark"
    /\ hindered' = hindered \union Due
    /\ UNCHANGED <<timers, setting, locals, lag, acts>>

\* The task goes on in the background and keeps its guard.
ListingTimesOut ==
    /\ at = "list"
    /\ faults < MaxFaults
    /\ faults' = faults + 1
    /\ at' = "mark"
    /\ hindered' = hindered \union Due
    /\ UNCHANGED <<timers, setting, list, locals, lag, acts>>

LateListingEnds ==
    /\ listings > (IF at = "list" THEN 1 ELSE 0)
    /\ TaskEnds
    /\ UNCHANGED <<timers, setting, locals, at, lag, faults, acts, hindered>>

\* Plausible bug: the limit is checked after one more attempt.
LimitReached_OneMore == tried > Limit

\* reached_platform_refresh_limit
LimitReached == tried >= Limit

\* Accounts that are fresh in the copy, or have failed lately, are passed over.
Skip ==
    /\ at = "work" /\ left # <<>> /\ ~LimitReached
    /\ ~IsDue(copy[Head(left)]) \/ allowedIn[Head(left)] > 0
    /\ left' = Tail(left)
    /\ UNCHANGED <<timers, setting, list, copy, tried, renewed, at, lag, faults,
                   acts, hindered>>

\* Whoever is due in the copy and not backing off is tried.
Attempt(a) ==
    /\ at = "work" /\ left # <<>> /\ ~LimitReached
    /\ a = Head(left)
    /\ IsDue(copy[a]) /\ allowedIn[a] = 0
    /\ left' = Tail(left)
    /\ tried' = tried + 1
    /\ UNCHANGED <<wake, scanIn, setting, list, copy, at, lag, acts>>

Succeed ==
    \E a \in Accounts \ Bad :
        /\ Attempt(a)
        /\ expiresIn' = [expiresIn EXCEPT ![a] = Life]
        /\ allowedIn' = [allowedIn EXCEPT ![a] = 0]
        /\ renewed' = TRUE
        /\ hindered' = hindered \ {a}
        /\ UNCHANGED faults

\* Plausible bug: a failure does not make the account wait.
Fail_NoBackoff ==
    \E a \in Accounts :
        /\ Attempt(a)
        /\ IF a \in Bad THEN UNCHANGED faults
           ELSE faults < MaxFaults /\ faults' = faults + 1
        /\ hindered' = hindered \union Due \union {a}
        /\ UNCHANGED <<expiresIn, allowedIn, renewed>>

Fail ==
    \E a \in Accounts :
        /\ Attempt(a)
        /\ IF a \in Bad THEN UNCHANGED faults
           ELSE faults < MaxFaults /\ faults' = faults + 1
        /\ allowedIn' = [allowedIn EXCEPT ![a] = Backoff]
        /\ hindered' = hindered \union Due \union {a}
        /\ UNCHANGED <<expiresIn, renewed>>

EndWork ==
    /\ at = "work"
    /\ left = <<>> \/ LimitReached
    /\ at' = "mark"
    /\ UNCHANGED <<timers, setting, list, locals, lag, faults, acts, hindered>>

\* Plausible bug: a scan that renewed something is not followed up.
Mark_AlwaysIdle ==
    /\ at = "mark"
    /\ scanIn' = Idle
    /\ Sleep
    /\ UNCHANGED <<allowedIn, expiresIn, setting, list, faults, acts, hindered>>

\* mark_platform_scan, whatever has been reset meanwhile.
Mark ==
    /\ at = "mark"
    /\ scanIn' = IF renewed THEN Active ELSE Idle
    /\ Sleep
    /\ UNCHANGED <<allowedIn, expiresIn, setting, list, faults, acts, hindered>>

CycleStep ==
    \/ Wake \/ CheckScan \/ StartListing \/ Listed \/ ListingFails \/ ListingTimesOut
    \/ Skip \/ Succeed \/ Fail \/ EndWork \/ Mark

Next ==
    \/ Tick \/ CycleStep \/ LateListingEnds
    \/ Toggle \/ Reset \/ Notify
    \/ \E a \in Accounts : Renew(a)

Spec == Init /\ [][Next]_vars

\* Time goes on, the task runs, listings end, and a change of the setting is
\* carried through.  Neither the user nor a fault ever has to come.
FairSpec ==
    /\ Spec
    /\ WF_vars(Tick) /\ WF_vars(CycleStep) /\ WF_vars(LateListingEnds)
    /\ WF_vars(Reset \/ Notify)

----------------------------------------------------------------------------
(* Properties                                                              *)

\* A token expires only if something stood in the way since it was close to
\* expiry: the program was not running or the keeper off, or a listing or the
\* renewal of some account failed.  The scans, the batches and the follow-ups
\* are quick enough for all others, if no cycle takes more than MaxLag = 1.
KeptAlive == \A a \in Accounts : expiresIn[a] = 0 => a \in hindered

\* Accounts that always fail do not keep the others from being renewed, though
\* they come first in every scan: back-off outlasts the idle scan.
EveryoneIsRenewed ==
    <>[]enabled => \A a \in Accounts \ Bad : []<>(~IsDue(expiresIn[a]))
==============================================================================
