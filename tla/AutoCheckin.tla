----------------------------- MODULE AutoCheckin -----------------------------
(***************************************************************************)
(* src-tauri/src/modules/workbuddy_auto_checkin.rs: the cycle that checks  *)
(* WorkBuddy accounts in once a day at a random minute of the user's       *)
(* window.                                                                 *)
(*                                                                         *)
(* A cycle is run by the scheduler and, when the user asks for it, by a    *)
(* command; IS_CHECKIN_RUNNING keeps them apart.  It reads the settings    *)
(* file once, gives every account a minute of today, sends one request     *)
(* after another, and writes the settings it has read back with today's    *)
(* marks.  Meanwhile midnight may pass, requests and replies may be lost,  *)
(* the user may save the settings from a dialog's copy or check in         *)
(* elsewhere, and the program may be killed.                               *)
(*                                                                         *)
(* The server's day is the local day.  The scheduler's sleeps (30 s, or 5  *)
(* to 60 minutes after a failure, cut short by a save) take any time.      *)
(***************************************************************************)
EXTENDS Naturals

CONSTANTS
    Accounts,   \* the accounts of both WorkBuddy stores
    Days,       \* the clock goes from day 1 to this day
    Minutes,    \* minutes of a day
    Windows,    \* the windows <<start, end>> the user chooses from
    MaxFaults,  \* bound on lost requests, refusals, failing saves and kills
    MaxActs     \* bound on what the user does: saves and check-ins of his own

ASSUME DaysAssumption == Days \in Nat \ {0} /\ Minutes \in Nat \ {0}
ASSUME BoundsAssumption == MaxFaults \in Nat /\ MaxActs \in Nat
ASSUME WindowsAssumption ==
    \A w \in Windows : w \in (0 .. Minutes - 1) \X (0 .. Minutes - 1) /\ w[1] <= w[2]

VARIABLES
    today, minute,  \* the clock
    config,         \* workbuddy_auto_checkin_config.json
    running,        \* IS_CHECKIN_RUNNING
    cycle,          \* where each runner is in its cycle, and its locals
    ui,             \* the schedules in the copy of the settings a dialog edits
    credited,       \* the server: the days each account is checked in for
    faults, acts    \* what is left of the bounds

vars == <<today, minute, config, running, cycle, ui, credited, faults, acts>>
clock == <<today, minute>>
user == <<ui, acts>>

Runners == {"scheduler", "command"}

Never == 0      \* a date that no day is

Schedule == [date : 0 .. Days, minute : 0 .. Minutes - 1, checked : 0 .. Days]

Config == [enabled : BOOLEAN, window : Windows, schedules : [Accounts -> Schedule]]

Unscheduled == [a \in Accounts |-> [date |-> Never, minute |-> 0, checked |-> Never]]

Fresh(enabled, w) == [enabled |-> enabled, window |-> w, schedules |-> Unscheduled]

\* Where a cycle may be, in the order of the code.
Steps == {"idle", "load", "schedule", "select", "ask", "status", "perform", "performed",
          "recheck", "rechecked", "save"}

Replies == {"none", "checked", "open", "inactive", "success", "refused", "error"}

CycleState ==
    [at : Steps, force : BOOLEAN,
     conf : Config,                 \* the settings it has read
     day : 0 .. Days,               \* today_str
     todo : SUBSET Accounts,        \* the current target and those to come
     reply : Replies,
     marked : SUBSET Accounts,      \* targets to be marked as checked in
     raced : BOOLEAN]               \* history: the user saved since it read

Idle == [at |-> "idle", force |-> FALSE, conf |-> Fresh(FALSE, CHOOSE w \in Windows : TRUE),
         day |-> Never, todo |-> {}, reply |-> "none", marked |-> {},
         raced |-> FALSE]

TypeOK ==
    /\ today \in 1 .. Days /\ minute \in 0 .. Minutes - 1
    /\ config \in Config
    /\ running \in BOOLEAN
    /\ cycle \in [Runners -> CycleState]
    /\ ui \in [Accounts -> Schedule]
    /\ credited \in [Accounts -> SUBSET (1 .. Days)]
    /\ faults \in 0 .. MaxFaults /\ acts \in 0 .. MaxActs

Init ==
    /\ today = 1 /\ minute = 0
    /\ config \in {Fresh(e, w) : e \in BOOLEAN, w \in Windows}
    /\ running = FALSE
    /\ cycle = [r \in Runners |-> Idle]
    /\ ui = Unscheduled
    /\ credited = [a \in Accounts |-> {}]
    /\ faults = MaxFaults /\ acts = MaxActs

----------------------------------------------------------------------------
(* The surroundings                                                        *)

Tick ==
    /\ \/ minute < Minutes - 1 /\ minute' = minute + 1 /\ today' = today
       \/ minute = Minutes - 1 /\ today < Days /\ minute' = 0 /\ today' = today + 1
    /\ UNCHANGED <<config, running, cycle, credited, faults, user>>

Act == acts > 0 /\ acts' = acts - 1

\* The settings page reads the file again.
OpenDialog ==
    /\ acts > 0     \* what is not saved does not matter
    /\ ui' = config.schedules
    /\ UNCHANGED <<clock, config, running, cycle, credited, faults, acts>>

\* The dialog writes its own copy: the settings page keeps the schedules it has
\* read, the dialog with the log drops them.
SaveSettings(enabled, window, keep) ==
    /\ Act
    /\ config' = [enabled |-> enabled, window |-> window,
                  schedules |-> IF keep THEN ui ELSE Unscheduled]
    /\ ui' = Unscheduled
    /\ cycle' = [r \in Runners |-> [cycle[r] EXCEPT !.raced = @ \/ cycle[r].at # "idle"]]
    /\ UNCHANGED <<clock, running, credited, faults>>

\* The user closes the dialog and checks an account in himself, here or
\* elsewhere.
CheckInElsewhere(a) ==
    /\ Act
    /\ credited' = [credited EXCEPT ![a] = @ \union {today}]
    /\ ui' = Unscheduled
    /\ UNCHANGED <<clock, config, running, cycle, faults>>

Fault == faults > 0 /\ faults' = faults - 1

NoFault == UNCHANGED faults

Crash ==
    /\ Fault
    /\ running' = FALSE
    /\ cycle' = [r \in Runners |-> Idle]
    /\ ui' = config.schedules
    /\ UNCHANGED <<clock, config, credited, acts>>

----------------------------------------------------------------------------
(* A cycle                                                                 *)

\* Plausible bug: the guard that clears the flag is made before the flag is
\* looked at, so that a runner that is turned away clears it.
Begin_GuardFirst(r, force) ==
    /\ cycle[r].at = "idle"
    /\ running' = ~running
    /\ cycle' = IF running THEN cycle
                ELSE [cycle EXCEPT ![r] = [Idle EXCEPT !.at = "load", !.force = force]]
    /\ UNCHANGED <<clock, config, credited, faults, user>>

\* A runner that finds the flag set returns at once.
Begin(r, force) ==
    /\ cycle[r].at = "idle"
    /\ ~running
    /\ running' = TRUE
    /\ cycle' = [cycle EXCEPT ![r] = [Idle EXCEPT !.at = "load", !.force = force]]
    /\ UNCHANGED <<clock, config, credited, faults, user>>

\* However a cycle returns, its guard clears the flag.
Return(r) ==
    /\ running' = FALSE
    /\ cycle' = [cycle EXCEPT ![r] = Idle]

Load(r) ==
    /\ cycle[r].at = "load"
    /\ \/ /\ config.enabled \/ cycle[r].force
          /\ cycle' = [cycle EXCEPT ![r].at = "schedule", ![r].conf = config,
                                    ![r].raced = FALSE]
          /\ UNCHANGED running
       \/ /\ ~config.enabled /\ ~cycle[r].force
          /\ Return(r)
    /\ UNCHANGED <<clock, config, credited, faults, user>>

\* Plausible bug: a minute of an earlier day stays.
Stands_AnyDay(s, window) == s.date # Never /\ s.minute \in window[1] .. window[2]

\* A minute chosen today and within the window stays.
Stands(s, window) == s.date = today /\ s.minute \in window[1] .. window[2]

\* Plausible bug: the random offset is one too large.
Chosen_OffByOne(s, window) ==
    {[date |-> today, minute |-> m, checked |-> IF s.checked = today THEN today ELSE Never] :
        m \in window[1] .. window[2] + 1}

Chosen(s, window) ==
    {[date |-> today, minute |-> m, checked |-> IF s.checked = today THEN today ELSE Never] :
        m \in window[1] .. window[2]}

\* ensure_account_schedules, and the save when it has changed anything.
EnsureSchedules(r) ==
    LET conf == cycle[r].conf
    IN  /\ cycle[r].at = "schedule"
        /\ \E new \in [Accounts -> UNION {Chosen(conf.schedules[a], conf.window) : a \in Accounts}
                                   \union {conf.schedules[a] : a \in Accounts}] :
              /\ \A a \in Accounts :
                    IF Stands(conf.schedules[a], conf.window)
                    THEN new[a] = conf.schedules[a]
                    ELSE new[a] \in Chosen(conf.schedules[a], conf.window)
              /\ config' = IF new = conf.schedules THEN config
                           ELSE [conf EXCEPT !.schedules = new]
              /\ cycle' = [cycle EXCEPT ![r].at = "select", ![r].conf.schedules = new]
        /\ UNCHANGED <<clock, running, credited, faults, user>>

Due(s) == s.checked # today /\ s.date = today /\ s.minute <= minute

\* The day is read again here, once for all targets.
Select(r) ==
    LET targets == {a \in Accounts : cycle[r].force \/ Due(cycle[r].conf.schedules[a])}
    IN  /\ cycle[r].at = "select"
        /\ IF targets = {} THEN Return(r)
           ELSE /\ cycle' = [cycle EXCEPT ![r].at = "ask", ![r].day = today,
                                          ![r].todo = targets]
                /\ UNCHANGED running
        /\ UNCHANGED <<clock, config, credited, faults, user>>

\* Targets are taken in the order of the account list, which does not change.
Target(r) == CHOOSE a \in cycle[r].todo : TRUE

Reply(r, at, reply) ==
    cycle' = [cycle EXCEPT ![r].at = at, ![r].reply = reply]

Status(a) == IF today \in credited[a] THEN "checked" ELSE "open"

\* get_checkin_status, for the next target.
AskStatus(r) ==
    /\ cycle[r].at = "ask"
    /\ \/ NoFault /\ Reply(r, "status", Status(Target(r)))
       \/ Fault /\ \E e \in {"error", "inactive"} : Reply(r, "status", e)
    /\ UNCHANGED <<clock, config, running, credited, user>>

\* perform_checkin: the server may refuse, the request or the reply be lost.
Perform(r) ==
    LET a == Target(r)
        Credit == credited' = [credited EXCEPT ![a] = @ \union {today}]
    IN  /\ cycle[r].at = "perform"
        /\ \/ today \notin credited[a] /\ NoFault /\ Credit /\ Reply(r, "performed", "success")
           \/ today \in credited[a] /\ NoFault /\ UNCHANGED credited
                 /\ Reply(r, "performed", "refused")
           \/ Fault /\ UNCHANGED credited /\ \E e \in {"refused", "error"} : Reply(r, "performed", e)
           \/ Fault /\ Credit /\ Reply(r, "performed", "error")
        /\ UNCHANGED <<clock, config, running, user>>

\* After a refusal the status is asked for once more.
AskAgain(r) ==
    /\ cycle[r].at = "recheck"
    /\ \/ NoFault /\ Reply(r, "rechecked", Status(Target(r)))
       \/ Fault /\ Reply(r, "rechecked", "error")
    /\ UNCHANGED <<clock, config, running, credited, user>>

Advance(r, mark) ==
    LET rest == cycle[r].todo \ {Target(r)}
    IN  cycle' = [cycle EXCEPT
            ![r].at = IF rest = {} THEN "save" ELSE "ask", ![r].todo = rest,
            ![r].reply = "none", ![r].marked = IF mark THEN @ \union {Target(r)} ELSE @]

\* Plausible bug: a refusal is taken for "already checked in" right away.
Received_TrustRefusal(r) ==
    /\ \/ /\ cycle[r].reply \in {"checked", "success", "refused"}
          /\ Advance(r, TRUE)
       \/ cycle[r].at = "status" /\ cycle[r].reply = "open" /\ Reply(r, "perform", "none")
       \/ cycle[r].at # "status" /\ cycle[r].reply = "open" /\ Advance(r, FALSE)
       \/ cycle[r].reply \in {"inactive", "error"} /\ Advance(r, FALSE)
    /\ UNCHANGED <<clock, config, running, credited, faults, user>>

\* What a reply leads to.  A target is marked when the server says that it is
\* checked in; anything else leaves it to a later cycle.
Received(r) ==
    /\ \/ cycle[r].reply \in {"checked", "success"} /\ Advance(r, TRUE)
       \/ cycle[r].at = "status" /\ cycle[r].reply = "open" /\ Reply(r, "perform", "none")
       \/ cycle[r].at = "performed" /\ cycle[r].reply = "refused" /\ Reply(r, "recheck", "none")
       \/ cycle[r].at = "rechecked" /\ cycle[r].reply = "open" /\ Advance(r, FALSE)
       \/ cycle[r].reply \in {"inactive", "error"} /\ Advance(r, FALSE)
    /\ UNCHANGED <<clock, config, running, credited, faults, user>>

\* Plausible bug: the mark carries the day of the save.
SaveMarks_NewDay(r) ==
    /\ cycle[r].at = "save"
    /\ config' = [cycle[r].conf EXCEPT !.schedules = [a \in Accounts |->
            IF a \in cycle[r].marked THEN [@[a] EXCEPT !.checked = today] ELSE @[a]]]
    /\ Return(r)
    /\ UNCHANGED <<clock, credited, faults, user>>

\* All settings are written as they were read, with the marks of the day the
\* targets were selected on.
SaveMarks(r) ==
    /\ cycle[r].at = "save"
    /\ config' = [cycle[r].conf EXCEPT !.schedules = [a \in Accounts |->
            IF a \in cycle[r].marked THEN [@[a] EXCEPT !.checked = cycle[r].day] ELSE @[a]]]
    /\ Return(r)
    /\ UNCHANGED <<clock, credited, faults, user>>

\* The settings file cannot be read or written; the marks of this cycle are lost.
FileFails(r) ==
    /\ cycle[r].at \in {"load", "schedule", "save"}
    /\ Fault
    /\ Return(r)
    /\ UNCHANGED <<clock, config, credited, user>>

----------------------------------------------------------------------------
CycleStep(r) ==
    \/ Load(r) \/ EnsureSchedules(r) \/ Select(r) \/ AskStatus(r) \/ Perform(r) \/ AskAgain(r)
    \/ Received(r) \/ SaveMarks(r) \/ FileFails(r)

Next ==
    \/ Tick \/ OpenDialog \/ Crash
    \/ \E e, k \in BOOLEAN, w \in Windows : SaveSettings(e, w, k)
    \/ \E a \in Accounts : CheckInElsewhere(a)
    \/ Begin("scheduler", FALSE) \/ \E force \in BOOLEAN : Begin("command", force)
    \/ \E r \in Runners : CycleStep(r)

Spec == Init /\ [][Next]_vars

\* Time passes; the scheduler's loop begins a cycle again and again; a cycle
\* that has begun goes on (every request has a timeout).
FairSpec ==
    /\ Spec
    /\ WF_vars(Tick)
    /\ WF_vars(Begin("scheduler", FALSE))
    /\ \A r \in Runners : WF_vars(CycleStep(r))

----------------------------------------------------------------------------
(* Properties                                                              *)

\* An account that is marked for today is checked in for today, so no day is
\* skipped on a wrong mark: not when midnight falls between a reply and the
\* save, not after a refusal, and not when the user saves an older copy.  (A
\* cycle that runs past midnight may leave a wrong mark for yesterday.)
TodaysMarkIsTrue ==
    \A a \in Accounts :
        config.schedules[a].checked = today => today \in credited[a]

\* A cycle writes back other settings than the user's only if he saved while it
\* was running: the file never carries anybody else's old copy.
OnlyRacingSavesAreLost ==
    \A r \in Runners :
        cycle[r].at \notin {"idle", "load"} /\ ~cycle[r].raced
            => /\ cycle[r].conf.enabled = config.enabled
               /\ cycle[r].conf.window = config.window

\* If automatic check-in stays on, every account is checked in on a day that
\* lasts long enough, whatever failed before (the retries of
\* start_auto_checkin_scheduler; the last day of the clock does not end).
CheckedInWhileEnabled ==
    <>[](config.enabled) => <>(\A a \in Accounts : Days \in credited[a])
============================================================================
