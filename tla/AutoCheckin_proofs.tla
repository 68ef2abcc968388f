------------------------- MODULE AutoCheckin_proofs -------------------------
(***************************************************************************)
(* For every set of accounts, every length of the days, every choice of    *)
(* windows and every number of faults and acts of the user: the safety     *)
(* properties of AutoCheckin.                                              *)
(*                                                                         *)
(* A mark travels: from a reply into the targets to be marked, into the    *)
(* settings file, into the copies of a dialog and of the next cycle, and   *)
(* back.  So it is asked of every copy that its marks are of no day to     *)
(* come, and true if they are of today (TrueMarks); then a midnight makes  *)
(* nothing false.  What a reply says is only used for the day the targets  *)
(* were selected on (RepliesAreTrue), which is today or over.  That a      *)
(* cycle has read the settings that stand in the file rests on cycles      *)
(* excluding each other (OneCycle).                                        *)
(***************************************************************************)
EXTENDS AutoCheckin, TLAPS

\* IS_CHECKIN_RUNNING is set while some runner is in a cycle, and only one is.
OneCycle ==
    /\ \A r, q \in Runners : cycle[r].at # "idle" /\ cycle[q].at # "idle" => r = q
    /\ running <=> \E r \in Runners : cycle[r].at # "idle"

\* Marks of a copy of the schedules.
TrueMarks(schedules) ==
    \A a \in Accounts :
        /\ schedules[a].checked <= today
        /\ schedules[a].checked = today => today \in credited[a]

MarksAreTrue ==
    /\ TrueMarks(config.schedules)
    /\ TrueMarks(ui)
    /\ \A r \in Runners : TrueMarks(cycle[r].conf.schedules)

\* Where a cycle has a target, and where it has heard of it.
Targeting == {"ask", "status", "perform", "performed", "recheck", "rechecked"}
Answered == {"status", "performed", "rechecked"}

InOrder(r) ==
    /\ cycle[r].at \in Targeting => cycle[r].todo # {}
    /\ cycle[r].at \notin Answered => cycle[r].reply = "none"
    /\ cycle[r].at \notin Targeting \union {"save"} => cycle[r].marked = {}

\* What has been heard, and what is to be marked, as long as it is today.
RepliesAreTrue(r) ==
    /\ cycle[r].day <= today
    /\ cycle[r].day = today =>
        /\ \A a \in cycle[r].marked : today \in credited[a]
        /\ cycle[r].reply \in {"checked", "success"} => today \in credited[Target(r)]

IInv ==
    /\ TypeOK
    /\ OneCycle
    /\ MarksAreTrue
    /\ \A r \in Runners : InOrder(r) /\ RepliesAreTrue(r)
    /\ OnlyRacingSavesAreLost

----------------------------------------------------------------------------
\* There is a window as soon as there are settings, so Idle is a cycle.
LEMMA IdleTyped == ASSUME NEW c \in Config PROVE Idle \in CycleState
<1>1. (CHOOSE w \in Windows : TRUE) \in Windows
  BY DEF Config
<1>2. Unscheduled \in [Accounts -> Schedule]
  BY DaysAssumption DEF Unscheduled, Schedule, Never
<1>3. Fresh(FALSE, CHOOSE w \in Windows : TRUE) \in Config
  BY <1>1, <1>2 DEF Fresh, Config
<1>4. "idle" \in Steps /\ "none" \in Replies /\ Never \in 0 .. Days
  BY DaysAssumption DEF Steps, Replies, Never
<1> HIDE DEF Steps, Replies, Never
<1>5. QED
  BY <1>3, <1>4 DEF Idle, CycleState

\* What an idle runner has.
LEMMA IdleFacts ==
    /\ Idle.at = "idle" /\ Idle.reply = "none" /\ Idle.marked = {} /\ Idle.day = 0
    /\ Idle.conf.schedules = Unscheduled
BY DEF Idle, Fresh, Never

\* Schedules without marks are true on every day.
LEMMA UnscheduledTrue ==
    ASSUME TypeOK
    PROVE  TrueMarks(Unscheduled) /\ Unscheduled \in [Accounts -> Schedule]
BY DaysAssumption DEF TypeOK, TrueMarks, Unscheduled, Schedule, Never

\* The current target is one of those to come.
LEMMA TargetTyped ==
    ASSUME TypeOK, NEW r \in Runners, cycle[r].todo # {}
    PROVE  Target(r) \in cycle[r].todo /\ Target(r) \in Accounts
BY DEF TypeOK, Target, CycleState

\* A cycle that stays where it is stays true while the server only adds credits.
LEMMA StaysTrue ==
    ASSUME IInv, NEW r \in Runners,
           cycle'[r].at = cycle[r].at, cycle'[r].day = cycle[r].day,
           cycle'[r].todo = cycle[r].todo, cycle'[r].reply = cycle[r].reply,
           cycle'[r].marked = cycle[r].marked,
           today' = today, \A b \in Accounts : credited[b] \subseteq credited'[b]
    PROVE  InOrder(r)' /\ RepliesAreTrue(r)'
<1>1. Target(r)' = Target(r)
  BY DEF Target
<1>2. \A b \in cycle[r].marked : b \in Accounts
  BY DEF IInv, TypeOK, CycleState
<1>3. cycle[r].reply \in {"checked", "success"} => Target(r) \in Accounts
  BY TargetTyped DEF IInv, InOrder, Answered, Targeting
<1>4. InOrder(r) /\ RepliesAreTrue(r)
  BY DEF IInv
<1>5. InOrder(r)'
  BY <1>4 DEF InOrder
<1>6. RepliesAreTrue(r)'
  BY <1>1, <1>2, <1>3, <1>4 DEF RepliesAreTrue
<1>7. QED
  BY <1>5, <1>6

LEMMA InitIInv == Init => IInv
<1> SUFFICES ASSUME Init PROVE IInv
  OBVIOUS
<1>1. /\ today = 1 /\ minute = 0 /\ running = FALSE /\ ui = Unscheduled
      /\ \A r \in Runners : cycle[r] = Idle
      /\ config.schedules = Unscheduled
  BY DEF Init, Fresh
<1>2. TypeOK
  <2>1. config \in Config /\ ui \in [Accounts -> Schedule]
    <3>1. Unscheduled \in [Accounts -> Schedule]
      BY DaysAssumption DEF Unscheduled, Schedule, Never
    <3>2. QED
      BY <1>1, <3>1 DEF Init, Fresh, Config
  <2>2. cycle \in [Runners -> CycleState]
    BY <2>1, IdleTyped DEF Init
  <2>3. today \in 1 .. Days /\ minute \in 0 .. Minutes - 1
    BY <1>1, DaysAssumption
  <2>4. credited \in [Accounts -> SUBSET (1 .. Days)]
    BY DEF Init
  <2>5. faults \in 0 .. MaxFaults /\ acts \in 0 .. MaxActs
    BY BoundsAssumption DEF Init
  <2>6. QED
    BY <1>1, <2>1, <2>2, <2>3, <2>4, <2>5 DEF TypeOK
<1>3. OneCycle
  BY <1>1, IdleFacts DEF OneCycle
<1>4. MarksAreTrue
  BY <1>1, <1>2, IdleFacts, UnscheduledTrue DEF MarksAreTrue
<1>5. \A r \in Runners : InOrder(r) /\ RepliesAreTrue(r)
  BY <1>1, IdleFacts DEF InOrder, RepliesAreTrue, Targeting
<1>6. OnlyRacingSavesAreLost
  BY <1>1, IdleFacts DEF OnlyRacingSavesAreLost
<1>7. QED
  BY <1>2, <1>3, <1>4, <1>5, <1>6 DEF IInv

----------------------------------------------------------------------------
(* The surroundings                                                        *)

\* The new day is one that no mark and no cycle has.
LEMMA TickIInv == ASSUME IInv, Tick PROVE IInv'
<1>1. /\ today' \in 1 .. Days /\ minute' \in 0 .. Minutes - 1
      /\ today' = today \/ today' = today + 1
      /\ today \in Nat /\ today' \in Nat
  BY DaysAssumption DEF IInv, TypeOK, Tick
<1>2. UNCHANGED <<config, running, cycle, credited, faults, ui, acts>>
  BY DEF Tick, user
<1>3. TypeOK' /\ OneCycle' /\ OnlyRacingSavesAreLost'
  BY <1>1, <1>2 DEF IInv, TypeOK, OneCycle, OnlyRacingSavesAreLost
<1>4. ASSUME NEW s \in [Accounts -> Schedule], TrueMarks(s)
      PROVE  \A a \in Accounts : /\ s[a].checked <= today'
                                 /\ s[a].checked = today' => today' \in credited[a]
  BY <1>1, <1>4 DEF TrueMarks, Schedule
<1>5. MarksAreTrue'
  <2>1. /\ config.schedules \in [Accounts -> Schedule] /\ ui \in [Accounts -> Schedule]
        /\ \A r \in Runners : cycle[r].conf.schedules \in [Accounts -> Schedule]
    BY DEF IInv, TypeOK, Config, CycleState
  <2>2. /\ TrueMarks(config.schedules) /\ TrueMarks(ui)
        /\ \A r \in Runners : TrueMarks(cycle[r].conf.schedules)
    BY DEF IInv, MarksAreTrue
  <2>3. TrueMarks(config.schedules)' /\ TrueMarks(ui)'
    BY <1>2, <1>4, <2>1, <2>2 DEF TrueMarks
  <2>4. \A r \in Runners : TrueMarks(cycle[r].conf.schedules)'
    BY <1>2, <1>4, <2>1, <2>2 DEF TrueMarks
  <2>5. QED
    BY <2>3, <2>4 DEF MarksAreTrue
<1>6. \A r \in Runners : cycle[r].day \in Nat
  BY DEF IInv, TypeOK, CycleState
<1>7. \A r \in Runners : InOrder(r)' /\ RepliesAreTrue(r)'
  BY <1>1, <1>2, <1>6 DEF IInv, InOrder, RepliesAreTrue, Target
<1>8. QED
  BY <1>3, <1>5, <1>7 DEF IInv

LEMMA OpenDialogIInv == ASSUME IInv, OpenDialog PROVE IInv'
<1> USE DEF OpenDialog, clock
<1>1. TypeOK' /\ OneCycle' /\ OnlyRacingSavesAreLost'
  BY DEF IInv, TypeOK, Config, OneCycle, OnlyRacingSavesAreLost
<1>2. MarksAreTrue'
  BY DEF IInv, MarksAreTrue, TrueMarks
<1>3. \A r \in Runners : InOrder(r)' /\ RepliesAreTrue(r)'
  BY DEF IInv, InOrder, RepliesAreTrue, Target
<1>4. QED
  BY <1>1, <1>2, <1>3 DEF IInv

\* Every cycle under way learns (in its history) that it is raced.
LEMMA SaveSettingsIInv ==
    ASSUME IInv, NEW e \in BOOLEAN, NEW w \in Windows, NEW k \in BOOLEAN,
           SaveSettings(e, w, k)
    PROVE  IInv'
<1>1. /\ config' = [enabled |-> e, window |-> w,
                    schedules |-> IF k THEN ui ELSE Unscheduled]
      /\ ui' = Unscheduled /\ acts' = acts - 1 /\ acts > 0
      /\ UNCHANGED <<today, minute, running, credited, faults>>
  BY DEF SaveSettings, Act, clock
<1>2. \A r \in Runners :
        cycle'[r] = [cycle[r] EXCEPT !.raced = @ \/ cycle[r].at # "idle"]
  BY DEF SaveSettings
<1>3. /\ cycle' \in [Runners -> CycleState]
      /\ \A r \in Runners :
            /\ cycle'[r].at = cycle[r].at /\ cycle'[r].conf = cycle[r].conf
            /\ cycle'[r].day = cycle[r].day /\ cycle'[r].todo = cycle[r].todo
            /\ cycle'[r].reply = cycle[r].reply /\ cycle'[r].marked = cycle[r].marked
            /\ cycle[r].at # "idle" => cycle'[r].raced
  <2>1. \A r \in Runners : cycle[r] \in CycleState
    BY DEF IInv, TypeOK
  <2>2. \A r \in Runners :
            /\ cycle'[r] \in CycleState
            /\ cycle'[r].at = cycle[r].at /\ cycle'[r].conf = cycle[r].conf
            /\ cycle'[r].day = cycle[r].day /\ cycle'[r].todo = cycle[r].todo
            /\ cycle'[r].reply = cycle[r].reply /\ cycle'[r].marked = cycle[r].marked
            /\ cycle[r].at # "idle" => cycle'[r].raced
    <3> SUFFICES ASSUME NEW r \in Runners
                 PROVE  /\ cycle'[r] \in CycleState
                        /\ cycle'[r].at = cycle[r].at /\ cycle'[r].conf = cycle[r].conf
                        /\ cycle'[r].day = cycle[r].day /\ cycle'[r].todo = cycle[r].todo
                        /\ cycle'[r].reply = cycle[r].reply
                        /\ cycle'[r].marked = cycle[r].marked
                        /\ cycle[r].at # "idle" => cycle'[r].raced
      OBVIOUS
    <3> DEFINE hit == cycle[r].raced \/ cycle[r].at # "idle"
    <3>1. hit \in BOOLEAN
      OBVIOUS
    <3>2. cycle'[r] = [cycle[r] EXCEPT !.raced = hit]
      BY <1>2
    <3>3. cycle[r].at # "idle" => hit = TRUE
      OBVIOUS
    <3> HIDE DEF hit
    <3>4. cycle'[r].raced = hit
      BY <3>2, <2>1 DEF CycleState
    <3>5. QED
      BY <3>1, <3>2, <3>3, <3>4, <2>1 DEF CycleState
  <2>3. cycle' = [r \in Runners |-> cycle'[r]]
    BY DEF SaveSettings
  <2>4. QED
    BY <2>2, <2>3
<1>4. Unscheduled \in [Accounts -> Schedule] /\ TrueMarks(Unscheduled)
  BY UnscheduledTrue DEF IInv
<1>5. TypeOK'
  <2>1. ui \in [Accounts -> Schedule] /\ acts' \in 0 .. MaxActs
    BY <1>1, BoundsAssumption DEF IInv, TypeOK
  <2>2. config' \in Config
    BY <1>1, <1>4, <2>1 DEF Config
  <2>3. QED
    BY <1>1, <1>3, <1>4, <2>1, <2>2 DEF IInv, TypeOK
<1>6. OneCycle' /\ OnlyRacingSavesAreLost'
  BY <1>1, <1>3 DEF IInv, OneCycle, OnlyRacingSavesAreLost
<1>7. MarksAreTrue'
  BY <1>1, <1>3, <1>4 DEF IInv, MarksAreTrue, TrueMarks
<1>8. \A r \in Runners : InOrder(r)' /\ RepliesAreTrue(r)'
  BY <1>1, <1>3, StaysTrue
<1>9. QED
  BY <1>5, <1>6, <1>7, <1>8 DEF IInv

\* The server credits; nothing becomes false by that.
LEMMA CheckInElsewhereIInv ==
    ASSUME IInv, NEW a \in Accounts, CheckInElsewhere(a)
    PROVE  IInv'
<1>1. /\ credited' = [credited EXCEPT ![a] = @ \union {today}]
      /\ ui' = Unscheduled /\ acts' = acts - 1 /\ acts > 0
      /\ UNCHANGED <<today, minute, config, running, cycle, faults>>
  BY DEF CheckInElsewhere, Act, clock
<1>2. \A b \in Accounts : credited[b] \subseteq credited'[b]
  BY <1>1 DEF IInv, TypeOK
<1>3. Unscheduled \in [Accounts -> Schedule] /\ TrueMarks(Unscheduled)
  BY UnscheduledTrue DEF IInv
<1>4. TypeOK'
  <2>1. credited' \in [Accounts -> SUBSET (1 .. Days)]
    BY <1>1 DEF IInv, TypeOK
  <2>2. QED
    BY <1>1, <1>3, <2>1, BoundsAssumption DEF IInv, TypeOK
<1>5. OneCycle' /\ OnlyRacingSavesAreLost'
  BY <1>1 DEF IInv, OneCycle, OnlyRacingSavesAreLost
<1>6. MarksAreTrue'
  BY <1>1, <1>2, <1>3 DEF IInv, MarksAreTrue, TrueMarks
<1>7. \A r \in Runners : InOrder(r)' /\ RepliesAreTrue(r)'
  BY <1>1, <1>2, StaysTrue
<1>8. QED
  BY <1>4, <1>5, <1>6, <1>7 DEF IInv

LEMMA FaultTyped == ASSUME TypeOK, Fault PROVE faults' \in 0 .. MaxFaults
BY BoundsAssumption DEF TypeOK, Fault

LEMMA CrashIInv == ASSUME IInv, Crash PROVE IInv'
<1>1. /\ running' = FALSE /\ ui' = config.schedules
      /\ cycle' = [r \in Runners |-> Idle]
      /\ \A r \in Runners : cycle'[r] = Idle
      /\ UNCHANGED <<today, minute, config, credited, acts>>
  BY DEF Crash, clock
<1>2. TypeOK'
  <2>1. config \in Config /\ faults' \in 0 .. MaxFaults
    BY FaultTyped DEF IInv, TypeOK, Crash
  <2>2. cycle' \in [Runners -> CycleState]
    BY <1>1, <2>1, IdleTyped
  <2>3. QED
    BY <1>1, <2>1, <2>2 DEF IInv, TypeOK, Config
<1>3. OneCycle' /\ OnlyRacingSavesAreLost'
  BY <1>1, IdleFacts DEF OneCycle, OnlyRacingSavesAreLost
<1>4. MarksAreTrue'
  BY <1>1, IdleFacts, UnscheduledTrue DEF IInv, MarksAreTrue, TrueMarks
<1>5. \A r \in Runners : InOrder(r)' /\ RepliesAreTrue(r)'
  BY <1>1, IdleFacts DEF IInv, TypeOK, InOrder, RepliesAreTrue, Targeting
<1>6. QED
  BY <1>2, <1>3, <1>4, <1>5 DEF IInv

----------------------------------------------------------------------------
(* A cycle                                                                 *)

\* While one runner is in a cycle, the other is not.
LEMMA OthersIdle ==
    ASSUME IInv, NEW r \in Runners, cycle[r].at # "idle",
           NEW q \in Runners, q # r
    PROVE  cycle[q].at = "idle"
BY DEF IInv, OneCycle

\* Marks stay true while the server only adds credits.
LEMMA MarksStayTrue ==
    ASSUME NEW s, TrueMarks(s), today' = today,
           \A b \in Accounts : credited[b] \subseteq credited'[b]
    PROVE  \A a \in Accounts : /\ s[a].checked <= today'
                               /\ s[a].checked = today' => today' \in credited'[a]
BY DEF TrueMarks

\* A step within a cycle of r.
LEMMA StepIInv ==
    ASSUME IInv, NEW r \in Runners, cycle[r].at # "idle", cycle'[r].at # "idle",
           UNCHANGED <<today, minute, running, ui, acts>>,
           cycle' \in [Runners -> CycleState],
           \A q \in Runners \ {r} : cycle'[q] = cycle[q],
           config' \in Config, TrueMarks(config'.schedules),
           TrueMarks(cycle'[r].conf.schedules),
           credited' \in [Accounts -> SUBSET (1 .. Days)],
           \A b \in Accounts : credited[b] \subseteq credited'[b],
           faults' \in 0 .. MaxFaults,
           InOrder(r)', RepliesAreTrue(r)',
           cycle'[r].at # "load" /\ ~cycle'[r].raced =>
              /\ cycle'[r].conf.enabled = config'.enabled
              /\ cycle'[r].conf.window = config'.window
    PROVE  IInv'
<1>1. TypeOK'
  BY DEF IInv, TypeOK
<1>2. \A q \in Runners \ {r} : cycle[q].at = "idle" /\ cycle'[q].at = "idle"
  BY OthersIdle
<1>3. OneCycle'
  BY <1>2 DEF IInv, OneCycle
<1>4. MarksAreTrue'
  <2>1. TrueMarks(ui) /\ \A q \in Runners : TrueMarks(cycle[q].conf.schedules)
    BY DEF IInv, MarksAreTrue
  <2>2. TrueMarks(config.schedules)'
    BY MarksStayTrue DEF TrueMarks
  <2>3. TrueMarks(ui)'
    BY <2>1, MarksStayTrue DEF TrueMarks
  <2>4. ASSUME NEW q \in Runners PROVE TrueMarks(cycle[q].conf.schedules)'
    <3>1. TrueMarks(cycle'[q].conf.schedules)
      BY <2>1
    <3>2. QED
      BY <3>1, MarksStayTrue DEF TrueMarks
  <2>5. QED
    BY <2>2, <2>3, <2>4 DEF MarksAreTrue
<1>5. \A q \in Runners : InOrder(q)' /\ RepliesAreTrue(q)'
  BY StaysTrue
<1>6. OnlyRacingSavesAreLost'
  BY <1>2 DEF OnlyRacingSavesAreLost
<1>7. QED
  BY <1>1, <1>3, <1>4, <1>5, <1>6 DEF IInv

\* However a cycle of r returns.
LEMMA ReturnIInv ==
    ASSUME IInv, NEW r \in Runners, cycle[r].at # "idle", Return(r),
           UNCHANGED <<today, minute, ui, credited, acts>>,
           config' \in Config, TrueMarks(config'.schedules),
           faults' \in 0 .. MaxFaults
    PROVE  IInv'
<1>1. /\ running' = FALSE /\ cycle'[r] = Idle
      /\ \A q \in Runners \ {r} : cycle'[q] = cycle[q]
      /\ cycle' \in [Runners -> CycleState]
  <2>1. Idle \in CycleState
    BY IdleTyped
  <2>2. QED
    BY <2>1 DEF IInv, TypeOK, Return
<1>2. \A q \in Runners : cycle'[q].at = "idle"
  BY <1>1, OthersIdle, IdleFacts
<1>3. TypeOK'
  BY <1>1 DEF IInv, TypeOK
<1>4. OneCycle' /\ OnlyRacingSavesAreLost'
  BY <1>1, <1>2 DEF OneCycle, OnlyRacingSavesAreLost
<1>5. MarksAreTrue'
  <2>1. TrueMarks(Unscheduled)
    BY UnscheduledTrue DEF IInv
  <2>2. \A q \in Runners : TrueMarks(cycle'[q].conf.schedules)
    BY <1>1, <2>1, IdleFacts DEF IInv, MarksAreTrue
  <2>3. QED
    BY <2>2 DEF IInv, MarksAreTrue, TrueMarks
<1>6. InOrder(r)' /\ RepliesAreTrue(r)'
  BY <1>1, IdleFacts DEF IInv, TypeOK, InOrder, RepliesAreTrue, Targeting
<1>7. \A q \in Runners : InOrder(q)' /\ RepliesAreTrue(q)'
  BY <1>1, <1>6, StaysTrue
<1>8. QED
  BY <1>3, <1>4, <1>5, <1>7 DEF IInv

\* A cycle begins only when both runners are idle.
LEMMA BeginIInv ==
    ASSUME IInv, NEW r \in Runners, NEW force \in BOOLEAN, Begin(r, force)
    PROVE  IInv'
<1> DEFINE c == [Idle EXCEPT !.at = "load", !.force = force]
<1>1. c \in CycleState
  <2>1. Idle \in CycleState
    BY IdleTyped DEF IInv, TypeOK
  <2>2. QED
    BY <2>1 DEF CycleState, Steps
<1>2. /\ c.at = "load" /\ c.reply = "none" /\ c.marked = {} /\ c.day = 0
      /\ c.conf.schedules = Unscheduled
  BY DEF Idle, Fresh, Never
<1>3. cycle' = [cycle EXCEPT ![r] = c]
  BY DEF Begin
<1> HIDE DEF c
<1>4. /\ ~running /\ running' = TRUE
      /\ UNCHANGED <<today, minute, config, credited, faults, ui, acts>>
  BY DEF Begin, clock, user
<1>5. /\ cycle'[r] = c /\ \A q \in Runners \ {r} : cycle'[q] = cycle[q]
      /\ cycle' \in [Runners -> CycleState]
  BY <1>1, <1>3 DEF IInv, TypeOK
<1>6. \A q \in Runners : cycle[q].at = "idle"
  BY <1>4 DEF IInv, OneCycle
<1>7. TypeOK'
  BY <1>4, <1>5 DEF IInv, TypeOK
<1>8. OneCycle' /\ OnlyRacingSavesAreLost'
  BY <1>2, <1>4, <1>5, <1>6 DEF OneCycle, OnlyRacingSavesAreLost
<1>9. MarksAreTrue'
  <2>1. TrueMarks(Unscheduled)
    BY UnscheduledTrue DEF IInv
  <2>2. \A q \in Runners : TrueMarks(cycle'[q].conf.schedules)
    BY <1>2, <1>5, <2>1 DEF IInv, MarksAreTrue
  <2>3. QED
    BY <1>4, <2>2 DEF IInv, MarksAreTrue, TrueMarks
<1>10. InOrder(r)' /\ RepliesAreTrue(r)'
  BY <1>2, <1>4, <1>5 DEF IInv, TypeOK, InOrder, RepliesAreTrue, Targeting
<1>11. \A q \in Runners : InOrder(q)' /\ RepliesAreTrue(q)'
  BY <1>4, <1>5, <1>10, StaysTrue
<1>12. QED
  BY <1>7, <1>8, <1>9, <1>11 DEF IInv

\* The settings are read.
LEMMA LoadIInv == ASSUME IInv, NEW r \in Runners, Load(r) PROVE IInv'
<1>1. /\ cycle[r].at = "load"
      /\ UNCHANGED <<today, minute, config, credited, faults, ui, acts>>
  BY DEF Load, clock, user
<1>2. TypeOK /\ config \in Config /\ TrueMarks(config.schedules) /\ cycle[r] \in CycleState
  BY DEF IInv, TypeOK, MarksAreTrue
<1>3. CASE Return(r)
  BY <1>1, <1>2, <1>3, ReturnIInv DEF TypeOK
<1>4. CASE /\ cycle' = [cycle EXCEPT ![r].at = "schedule", ![r].conf = config,
                                     ![r].raced = FALSE]
           /\ UNCHANGED running
  <2> DEFINE c == [cycle[r] EXCEPT !.at = "schedule", !.conf = config, !.raced = FALSE]
  <2>1. cycle' = [cycle EXCEPT ![r] = c]
    BY <1>2, <1>4 DEF TypeOK
  <2>2. /\ c \in CycleState /\ c.at = "schedule" /\ c.conf = config
        /\ c.day = cycle[r].day /\ c.todo = cycle[r].todo /\ c.reply = cycle[r].reply
        /\ c.marked = cycle[r].marked
    BY <1>2 DEF CycleState, Steps
  <2> HIDE DEF c
  <2>3. /\ cycle'[r] = c /\ \A q \in Runners \ {r} : cycle'[q] = cycle[q]
        /\ cycle' \in [Runners -> CycleState]
    BY <1>2, <2>1, <2>2 DEF TypeOK
  <2>4. InOrder(r)'
    BY <1>1, <2>2, <2>3 DEF IInv, InOrder, Targeting, Answered
  <2>5. RepliesAreTrue(r)'
    BY <1>1, <2>2, <2>3 DEF IInv, InOrder, RepliesAreTrue, Targeting, Answered
  <2>6. QED
    BY <1>1, <1>2, <1>4, <2>2, <2>3, <2>4, <2>5, StepIInv DEF TypeOK
<1>5. QED
  BY <1>3, <1>4 DEF Load

\* A new minute of today keeps a mark of today and drops any other.
LEMMA ChosenTyped ==
    ASSUME TypeOK, NEW s \in Schedule, NEW w \in Windows, NEW n \in Chosen(s, w)
    PROVE  /\ n \in Schedule
           /\ n.checked <= today
           /\ n.checked = today => s.checked = today
<1>1. PICK m \in w[1] .. w[2] :
        n = [date |-> today, minute |-> m,
             checked |-> IF s.checked = today THEN today ELSE Never]
  BY DEF Chosen
<1>2. w[1] \in 0 .. Minutes - 1 /\ w[2] \in 0 .. Minutes - 1
  BY WindowsAssumption
<1>3. m \in 0 .. Minutes - 1
  BY <1>2, DaysAssumption
<1>4. today \in 1 .. Days
  BY DEF TypeOK
<1>5. QED
  BY <1>1, <1>3, <1>4, DaysAssumption DEF Schedule, Never

\* The schedules of a cycle are made ready, and saved when they have changed.
LEMMA EnsureSchedulesIInv ==
    ASSUME IInv, NEW r \in Runners, EnsureSchedules(r) PROVE IInv'
<1> DEFINE conf == cycle[r].conf
<1>1. /\ cycle[r].at = "schedule"
      /\ UNCHANGED <<today, minute, running, credited, faults, ui, acts>>
  BY DEF EnsureSchedules, clock, user
<1>2. /\ TypeOK /\ config \in Config /\ TrueMarks(config.schedules)
      /\ cycle[r] \in CycleState /\ conf \in Config /\ TrueMarks(conf.schedules)
  BY DEF IInv, TypeOK, MarksAreTrue, CycleState
<1>3. PICK new :
        /\ new \in [Accounts -> UNION {Chosen(conf.schedules[a], conf.window) : a \in Accounts}
                                \union {conf.schedules[a] : a \in Accounts}]
        /\ \A a \in Accounts : \/ new[a] = conf.schedules[a]
                               \/ new[a] \in Chosen(conf.schedules[a], conf.window)
        /\ config' = IF new = conf.schedules THEN config
                     ELSE [conf EXCEPT !.schedules = new]
        /\ cycle' = [cycle EXCEPT ![r].at = "select", ![r].conf.schedules = new]
  BY DEF EnsureSchedules
<1> DEFINE fresh == [conf EXCEPT !.schedules = new]
           c == [cycle[r] EXCEPT !.at = "select", !.conf = fresh]
<1>4. cycle' = [cycle EXCEPT ![r] = c]
  BY <1>2, <1>3 DEF TypeOK, CycleState, Config
<1>5. new \in [Accounts -> Schedule] /\ TrueMarks(new)
  <2>1. conf.schedules \in [Accounts -> Schedule] /\ conf.window \in Windows
    BY <1>2 DEF Config
  <2>2. ASSUME NEW a \in Accounts
        PROVE  /\ new[a] \in Schedule /\ new[a].checked <= today
               /\ new[a].checked = today => today \in credited[a]
    <3>1. conf.schedules[a] \in Schedule
      BY <2>1
    <3>2. CASE new[a] = conf.schedules[a]
      BY <1>2, <3>1, <3>2 DEF TrueMarks
    <3>3. CASE new[a] \in Chosen(conf.schedules[a], conf.window)
      BY <1>2, <2>1, <3>1, <3>3, ChosenTyped DEF TrueMarks
    <3>4. QED
      BY <1>3, <3>2, <3>3
  <2>3. QED
    BY <1>3, <2>2 DEF TrueMarks
<1>6. /\ fresh \in Config /\ fresh.schedules = new
      /\ fresh.enabled = conf.enabled /\ fresh.window = conf.window
  BY <1>2, <1>5 DEF Config
<1> HIDE DEF fresh
<1>7. /\ c \in CycleState /\ c.at = "select" /\ c.conf = fresh
      /\ c.day = cycle[r].day /\ c.todo = cycle[r].todo /\ c.reply = cycle[r].reply
      /\ c.marked = cycle[r].marked /\ c.raced = cycle[r].raced
  BY <1>2, <1>6 DEF CycleState, Steps
<1> HIDE DEF c
<1>8. /\ cycle'[r] = c /\ \A q \in Runners \ {r} : cycle'[q] = cycle[q]
      /\ cycle' \in [Runners -> CycleState]
  BY <1>2, <1>4, <1>7 DEF TypeOK
<1>9. config' \in Config /\ TrueMarks(config'.schedules)
  BY <1>2, <1>3, <1>5, <1>6 DEF fresh
<1>10. ~c.raced => c.conf.enabled = config'.enabled /\ c.conf.window = config'.window
  <2>1. ~c.raced => conf.enabled = config.enabled /\ conf.window = config.window
    BY <1>1, <1>7 DEF IInv, OnlyRacingSavesAreLost
  <2>2. config' = config \/ config' = fresh
    BY <1>3 DEF fresh
  <2>3. QED
    BY <1>6, <1>7, <2>1, <2>2
<1>11. InOrder(r)'
  BY <1>1, <1>7, <1>8 DEF IInv, InOrder, Targeting, Answered
<1>12. RepliesAreTrue(r)'
  BY <1>1, <1>7, <1>8 DEF IInv, InOrder, RepliesAreTrue, Targeting, Answered
<1>13. /\ cycle[r].at # "idle" /\ cycle'[r].at # "idle"
       /\ TrueMarks(cycle'[r].conf.schedules)
       /\ credited' \in [Accounts -> SUBSET (1 .. Days)]
       /\ \A b \in Accounts : credited[b] \subseteq credited'[b]
       /\ faults' \in 0 .. MaxFaults
  BY <1>1, <1>2, <1>5, <1>6, <1>7, <1>8 DEF TypeOK
<1>14. QED
  BY <1>1, <1>8, <1>9, <1>10, <1>11, <1>12, <1>13, StepIInv

\* The targets are selected, on the day it is now.
LEMMA SelectIInv == ASSUME IInv, NEW r \in Runners, Select(r) PROVE IInv'
<1> DEFINE targets == {a \in Accounts : cycle[r].force \/ Due(cycle[r].conf.schedules[a])}
<1>1. /\ cycle[r].at = "select"
      /\ UNCHANGED <<today, minute, config, credited, faults, ui, acts>>
      /\ IF targets = {} THEN Return(r)
         ELSE /\ cycle' = [cycle EXCEPT ![r].at = "ask", ![r].day = today,
                                        ![r].todo = targets]
              /\ UNCHANGED running
  BY DEF Select, clock, user
<1>2. targets \in SUBSET Accounts
  OBVIOUS
<1> HIDE DEF targets
<1>3. /\ TypeOK /\ config \in Config /\ TrueMarks(config.schedules)
      /\ cycle[r] \in CycleState /\ TrueMarks(cycle[r].conf.schedules)
      /\ today \in 0 .. Days
  BY DEF IInv, TypeOK, MarksAreTrue
<1>4. CASE targets = {}
  BY <1>1, <1>3, <1>4, ReturnIInv DEF TypeOK
<1>5. CASE targets # {}
  <2> DEFINE c == [cycle[r] EXCEPT !.at = "ask", !.day = today, !.todo = targets]
  <2>1. cycle' = [cycle EXCEPT ![r] = c]
    BY <1>1, <1>3, <1>5 DEF TypeOK
  <2>2. /\ c \in CycleState /\ c.at = "ask" /\ c.conf = cycle[r].conf
        /\ c.day = today /\ c.todo = targets /\ c.reply = cycle[r].reply
        /\ c.marked = cycle[r].marked /\ c.raced = cycle[r].raced
    BY <1>2, <1>3 DEF CycleState, Steps
  <2> HIDE DEF c
  <2>3. /\ cycle'[r] = c /\ \A q \in Runners \ {r} : cycle'[q] = cycle[q]
        /\ cycle' \in [Runners -> CycleState]
    BY <1>3, <2>1, <2>2 DEF TypeOK
  <2>4. c.reply = "none" /\ c.marked = {}
    BY <1>1, <2>2 DEF IInv, InOrder, Targeting, Answered
  <2>5. InOrder(r)'
    BY <1>5, <2>2, <2>3, <2>4 DEF InOrder, Targeting, Answered
  <2>6. RepliesAreTrue(r)'
    BY <1>1, <1>3, <2>2, <2>3, <2>4 DEF RepliesAreTrue
  <2>7. ~c.raced => c.conf.enabled = config.enabled /\ c.conf.window = config.window
    BY <1>1, <2>2 DEF IInv, OnlyRacingSavesAreLost
  <2>8. QED
    BY <1>1, <1>3, <1>5, <2>2, <2>3, <2>5, <2>6, <2>7, StepIInv DEF TypeOK
<1>6. QED
  BY <1>4, <1>5

\* What changes when a request is sent or answered.
LEMMA ReplyFacts ==
    ASSUME TypeOK, NEW r \in Runners, NEW at \in Steps, NEW reply \in Replies,
           Reply(r, at, reply)
    PROVE  /\ cycle' \in [Runners -> CycleState]
           /\ \A q \in Runners \ {r} : cycle'[q] = cycle[q]
           /\ cycle'[r].at = at /\ cycle'[r].reply = reply
           /\ cycle'[r].conf = cycle[r].conf /\ cycle'[r].day = cycle[r].day
           /\ cycle'[r].todo = cycle[r].todo /\ cycle'[r].marked = cycle[r].marked
           /\ cycle'[r].raced = cycle[r].raced
<1> DEFINE c == [cycle[r] EXCEPT !.at = at, !.reply = reply]
<1>1. cycle' = [cycle EXCEPT ![r] = c]
  BY DEF TypeOK, Reply
<1>2. /\ c \in CycleState /\ c.at = at /\ c.conf = cycle[r].conf
      /\ c.day = cycle[r].day /\ c.todo = cycle[r].todo /\ c.reply = reply
      /\ c.marked = cycle[r].marked /\ c.raced = cycle[r].raced
  <2>1. cycle[r] \in CycleState
    BY DEF TypeOK
  <2>2. QED
    BY <2>1 DEF CycleState
<1> HIDE DEF c
<1>3. QED
  BY <1>1, <1>2 DEF TypeOK

\* A request is sent, or answered by the truth about today.
LEMMA ReplyIInv ==
    ASSUME IInv, NEW r \in Runners, NEW at \in Targeting, NEW reply \in Replies,
           cycle[r].at \in Targeting, Reply(r, at, reply),
           UNCHANGED <<today, minute, config, running, ui, acts>>,
           credited' \in [Accounts -> SUBSET (1 .. Days)],
           \A b \in Accounts : credited[b] \subseteq credited'[b],
           faults' \in 0 .. MaxFaults,
           at \notin Answered => reply = "none",
           reply \in {"checked", "success"} => today \in credited'[Target(r)]
    PROVE  IInv'
<1>1. at \in Steps /\ at # "idle" /\ at # "load" /\ cycle[r].at \notin {"idle", "load"}
  BY DEF Targeting, Steps
<1>2. /\ TypeOK /\ config \in Config /\ TrueMarks(config.schedules)
      /\ cycle[r] \in CycleState /\ TrueMarks(cycle[r].conf.schedules)
  BY DEF IInv, TypeOK, MarksAreTrue
<1>3. /\ cycle' \in [Runners -> CycleState]
      /\ \A q \in Runners \ {r} : cycle'[q] = cycle[q]
      /\ cycle'[r].at = at /\ cycle'[r].reply = reply
      /\ cycle'[r].conf = cycle[r].conf /\ cycle'[r].day = cycle[r].day
      /\ cycle'[r].todo = cycle[r].todo /\ cycle'[r].marked = cycle[r].marked
      /\ cycle'[r].raced = cycle[r].raced
  BY <1>1, <1>2, ReplyFacts
<1>4. InOrder(r)'
  BY <1>3 DEF IInv, InOrder
<1>5. RepliesAreTrue(r)'
  <2>1. Target(r)' = Target(r)
    BY <1>3 DEF Target
  <2>2. cycle[r].marked \in SUBSET Accounts
    BY <1>2 DEF CycleState
  <2>3. QED
    BY <1>3, <2>1, <2>2 DEF IInv, RepliesAreTrue
<1>6. ~cycle'[r].raced => /\ cycle'[r].conf.enabled = config'.enabled
                          /\ cycle'[r].conf.window = config'.window
  BY <1>1, <1>3 DEF IInv, OnlyRacingSavesAreLost
<1>7. QED
  BY <1>1, <1>2, <1>3, <1>4, <1>5, <1>6, StepIInv

\* The server's answer to a status request is the truth about today.
LEMMA StatusTrue ==
    ASSUME NEW a PROVE /\ Status(a) \in Replies
                       /\ Status(a) \in {"checked", "success"} => today \in credited[a]
BY DEF Status, Replies

LEMMA AskStatusIInv == ASSUME IInv, NEW r \in Runners, AskStatus(r) PROVE IInv'
<1>1. /\ cycle[r].at \in Targeting /\ "status" \in Targeting /\ "status" \in Answered
      /\ UNCHANGED <<today, minute, config, running, credited, ui, acts>>
  BY DEF AskStatus, Targeting, Answered, clock, user
<1>2. /\ credited' \in [Accounts -> SUBSET (1 .. Days)]
      /\ \A b \in Accounts : credited[b] \subseteq credited'[b]
      /\ faults \in 0 .. MaxFaults
  BY <1>1 DEF IInv, TypeOK
<1>3. CASE NoFault /\ Reply(r, "status", Status(Target(r)))
  BY <1>1, <1>2, <1>3, StatusTrue, ReplyIInv DEF NoFault
<1>4. CASE Fault /\ \E e \in {"error", "inactive"} : Reply(r, "status", e)
  <2>1. PICK e \in {"error", "inactive"} : Reply(r, "status", e)
    BY <1>4
  <2>2. e \in Replies /\ e \notin {"checked", "success"}
    BY DEF Replies
  <2>3. faults' \in 0 .. MaxFaults
    BY <1>4, FaultTyped DEF IInv
  <2>4. QED
    BY <1>1, <1>2, <2>1, <2>2, <2>3, ReplyIInv
<1>5. QED
  BY <1>3, <1>4 DEF AskStatus

LEMMA PerformIInv == ASSUME IInv, NEW r \in Runners, Perform(r) PROVE IInv'
<1> DEFINE a == Target(r)
           Credit == credited' = [credited EXCEPT ![a] = @ \union {today}]
<1>1. /\ cycle[r].at = "perform" /\ cycle[r].at \in Targeting
      /\ "performed" \in Targeting /\ "performed" \in Answered
      /\ UNCHANGED <<today, minute, config, running, ui, acts>>
  BY DEF Perform, Targeting, Answered, clock, user
<1>2. TypeOK /\ a \in Accounts
  BY <1>1, TargetTyped DEF IInv, InOrder
<1>3. credited \in [Accounts -> SUBSET (1 .. Days)] /\ today \in 1 .. Days
  BY <1>2 DEF TypeOK
<1> HIDE DEF a
<1>4. ASSUME Credit
      PROVE  /\ credited' \in [Accounts -> SUBSET (1 .. Days)]
             /\ \A b \in Accounts : credited[b] \subseteq credited'[b]
             /\ today \in credited'[a]
  BY <1>2, <1>3, <1>4
<1>5. ASSUME UNCHANGED credited
      PROVE  /\ credited' \in [Accounts -> SUBSET (1 .. Days)]
             /\ \A b \in Accounts : credited[b] \subseteq credited'[b]
  BY <1>3, <1>5
<1>6. /\ faults \in 0 .. MaxFaults
      /\ Fault => faults' \in 0 .. MaxFaults
  BY <1>2, FaultTyped DEF TypeOK
<1>7. {"success", "refused", "error"} \subseteq Replies
  BY DEF Replies
<1>8. CASE NoFault /\ Credit /\ Reply(r, "performed", "success")
  BY <1>1, <1>4, <1>6, <1>7, <1>8, ReplyIInv DEF NoFault, a
<1>9. CASE NoFault /\ UNCHANGED credited /\ Reply(r, "performed", "refused")
  BY <1>1, <1>5, <1>6, <1>7, <1>9, ReplyIInv DEF NoFault
<1>10. CASE Fault /\ UNCHANGED credited /\ \E e \in {"refused", "error"} : Reply(r, "performed", e)
  <2>1. PICK e \in {"refused", "error"} : Reply(r, "performed", e)
    BY <1>10
  <2>2. QED
    BY <1>1, <1>5, <1>6, <1>7, <1>10, <2>1, ReplyIInv
<1>11. CASE Fault /\ Credit /\ Reply(r, "performed", "error")
  BY <1>1, <1>4, <1>6, <1>7, <1>11, ReplyIInv
<1>12. QED
  BY <1>8, <1>9, <1>10, <1>11 DEF Perform, a

LEMMA AskAgainIInv == ASSUME IInv, NEW r \in Runners, AskAgain(r) PROVE IInv'
<1>1. /\ cycle[r].at \in Targeting /\ "rechecked" \in Targeting /\ "rechecked" \in Answered
      /\ "error" \in Replies
      /\ UNCHANGED <<today, minute, config, running, credited, ui, acts>>
  BY DEF AskAgain, Targeting, Answered, Replies, clock, user
<1>2. /\ credited' \in [Accounts -> SUBSET (1 .. Days)]
      /\ \A b \in Accounts : credited[b] \subseteq credited'[b]
      /\ faults \in 0 .. MaxFaults
      /\ Fault => faults' \in 0 .. MaxFaults
  BY <1>1, FaultTyped DEF IInv, TypeOK
<1>3. CASE NoFault /\ Reply(r, "rechecked", Status(Target(r)))
  BY <1>1, <1>2, <1>3, StatusTrue, ReplyIInv DEF NoFault
<1>4. CASE Fault /\ Reply(r, "rechecked", "error")
  BY <1>1, <1>2, <1>4, ReplyIInv
<1>5. QED
  BY <1>3, <1>4 DEF AskAgain

\* The next target, or the save: the target just answered for joins the marked
\* ones only if the answer was that it is checked in.
LEMMA AdvanceIInv ==
    ASSUME IInv, NEW r \in Runners, NEW mark \in BOOLEAN, Advance(r, mark),
           cycle[r].at \in Targeting,
           mark => cycle[r].reply \in {"checked", "success"},
           UNCHANGED <<today, minute, config, running, credited, faults, ui, acts>>
    PROVE  IInv'
<1> DEFINE rest == cycle[r].todo \ {Target(r)}
           at == IF rest = {} THEN "save" ELSE "ask"
           marked == IF mark THEN cycle[r].marked \union {Target(r)} ELSE cycle[r].marked
           c == [cycle[r] EXCEPT !.at = at, !.todo = rest, !.reply = "none",
                                 !.marked = marked]
<1>1. /\ TypeOK /\ config \in Config /\ TrueMarks(config.schedules)
      /\ cycle[r] \in CycleState /\ TrueMarks(cycle[r].conf.schedules)
      /\ cycle[r].at \notin {"idle", "load"}
  BY DEF IInv, TypeOK, MarksAreTrue, Targeting
<1>2. cycle' = [cycle EXCEPT ![r] = c]
  BY <1>1 DEF Advance, TypeOK
<1>3. Target(r) \in Accounts
  BY TargetTyped DEF IInv, InOrder
<1>4. /\ at \in Steps /\ rest \in SUBSET Accounts /\ marked \in SUBSET Accounts
      /\ at \in {"save", "ask"} /\ (at = "ask" => rest # {})
  BY <1>1, <1>3 DEF CycleState, Steps
<1>5. cycle[r].day = today => \A b \in marked : today \in credited[b]
  BY DEF IInv, RepliesAreTrue
<1> HIDE DEF rest, at, marked
<1>6. /\ c \in CycleState /\ c.at = at /\ c.conf = cycle[r].conf
      /\ c.day = cycle[r].day /\ c.todo = rest /\ c.reply = "none"
      /\ c.marked = marked /\ c.raced = cycle[r].raced
  BY <1>1, <1>4 DEF CycleState, Replies
<1> HIDE DEF c
<1>7. /\ cycle'[r] = c /\ \A q \in Runners \ {r} : cycle'[q] = cycle[q]
      /\ cycle' \in [Runners -> CycleState]
  BY <1>1, <1>2, <1>6 DEF TypeOK
<1>8. InOrder(r)'
  BY <1>4, <1>6, <1>7 DEF InOrder, Targeting, Answered
<1>9. RepliesAreTrue(r)'
  BY <1>5, <1>6, <1>7 DEF IInv, RepliesAreTrue
<1>10. ~c.raced => c.conf.enabled = config.enabled /\ c.conf.window = config.window
  BY <1>1, <1>6 DEF IInv, OnlyRacingSavesAreLost
<1>11. QED
  BY <1>1, <1>4, <1>6, <1>7, <1>8, <1>9, <1>10, StepIInv DEF TypeOK

LEMMA ReceivedIInv == ASSUME IInv, NEW r \in Runners, Received(r) PROVE IInv'
<1>1. UNCHANGED <<today, minute, config, running, credited, faults, ui, acts>>
  BY DEF Received, clock, user
<1>2. /\ credited' \in [Accounts -> SUBSET (1 .. Days)]
      /\ \A b \in Accounts : credited[b] \subseteq credited'[b]
      /\ faults' \in 0 .. MaxFaults
  BY <1>1 DEF IInv, TypeOK
<1>3. cycle[r].reply # "none" => cycle[r].at \in Targeting
  BY DEF IInv, InOrder, Answered, Targeting
<1>4. {"status", "performed", "rechecked", "perform", "recheck"} \subseteq Targeting
  BY DEF Targeting
<1>5. "none" \in Replies
  BY DEF Replies
<1>6. CASE cycle[r].reply \in {"checked", "success"} /\ Advance(r, TRUE)
  BY <1>1, <1>3, <1>6, AdvanceIInv
<1>7. CASE cycle[r].at = "status" /\ cycle[r].reply = "open" /\ Reply(r, "perform", "none")
  BY <1>1, <1>2, <1>4, <1>5, <1>7, ReplyIInv
<1>8. CASE /\ cycle[r].at = "performed" /\ cycle[r].reply = "refused"
           /\ Reply(r, "recheck", "none")
  BY <1>1, <1>2, <1>4, <1>5, <1>8, ReplyIInv
<1>9. CASE Advance(r, FALSE) /\ cycle[r].reply # "none"
  BY <1>1, <1>3, <1>9, AdvanceIInv
<1>10. QED
  BY <1>6, <1>7, <1>8, <1>9 DEF Received

\* The marks carry the day of the selection: it is today, and they are true, or
\* it is over.
LEMMA SaveMarksIInv == ASSUME IInv, NEW r \in Runners, SaveMarks(r) PROVE IInv'
<1> DEFINE conf == cycle[r].conf
           day == cycle[r].day
           marked == cycle[r].marked
           new == [a \in Accounts |->
                     IF a \in marked THEN [conf.schedules[a] EXCEPT !.checked = day]
                     ELSE conf.schedules[a]]
<1>1. /\ cycle[r].at = "save" /\ Return(r)
      /\ config' = [conf EXCEPT !.schedules = new]
      /\ UNCHANGED <<today, minute, ui, credited, faults, acts>>
  BY DEF SaveMarks, clock, user
<1>2. /\ TypeOK /\ conf \in Config /\ day \in 0 .. Days /\ TrueMarks(conf.schedules)
      /\ faults' \in 0 .. MaxFaults
  BY <1>1 DEF IInv, TypeOK, MarksAreTrue, CycleState
<1>3. day <= today /\ (day = today => \A b \in marked : today \in credited[b])
  BY DEF IInv, RepliesAreTrue
<1>4. new \in [Accounts -> Schedule] /\ TrueMarks(new)
  <2>1. conf.schedules \in [Accounts -> Schedule]
    BY <1>2 DEF Config
  <2> HIDE DEF conf, day, marked
  <2>2. ASSUME NEW a \in Accounts
        PROVE  /\ new[a] \in Schedule /\ new[a].checked <= today
               /\ new[a].checked = today => today \in credited[a]
    <3>1. conf.schedules[a] \in Schedule
      BY <2>1
    <3>2. CASE a \in marked
      <4>1. /\ new[a] \in Schedule /\ new[a].checked = day
        BY <1>2, <3>1, <3>2 DEF Schedule
      <4>2. QED
        BY <1>3, <3>2, <4>1
    <3>3. CASE a \notin marked
      BY <1>2, <3>1, <3>3 DEF TrueMarks
    <3>4. QED
      BY <3>2, <3>3
  <2>3. QED
    BY <2>2 DEF TrueMarks
<1> HIDE DEF new
<1>5. config' \in Config /\ config'.schedules = new
  BY <1>1, <1>2, <1>4 DEF Config
<1>6. QED
  BY <1>1, <1>2, <1>4, <1>5, ReturnIInv

LEMMA FileFailsIInv == ASSUME IInv, NEW r \in Runners, FileFails(r) PROVE IInv'
<1>1. /\ cycle[r].at # "idle" /\ Return(r)
      /\ UNCHANGED <<today, minute, config, credited, ui, acts>>
  BY DEF FileFails, clock, user
<1>2. config \in Config /\ TrueMarks(config.schedules) /\ faults' \in 0 .. MaxFaults
  BY FaultTyped DEF IInv, TypeOK, MarksAreTrue, FileFails
<1>3. QED
  BY <1>1, <1>2, ReturnIInv

----------------------------------------------------------------------------
LEMMA StutterIInv == ASSUME IInv, UNCHANGED vars PROVE IInv'
<1> USE DEF vars
<1>1. TypeOK' /\ OneCycle' /\ OnlyRacingSavesAreLost'
  BY DEF IInv, TypeOK, OneCycle, OnlyRacingSavesAreLost
<1>2. MarksAreTrue'
  BY DEF IInv, MarksAreTrue, TrueMarks
<1>3. \A r \in Runners : InOrder(r)' /\ RepliesAreTrue(r)'
  BY StaysTrue
<1>4. QED
  BY <1>1, <1>2, <1>3 DEF IInv

LEMMA Inductive == IInv /\ [Next]_vars => IInv'
<1> SUFFICES ASSUME IInv, [Next]_vars PROVE IInv'
  OBVIOUS
<1>1. CASE Tick
  BY <1>1, TickIInv
<1>2. CASE OpenDialog
  BY <1>2, OpenDialogIInv
<1>3. CASE Crash
  BY <1>3, CrashIInv
<1>4. CASE \E e, k \in BOOLEAN, w \in Windows : SaveSettings(e, w, k)
  BY <1>4, SaveSettingsIInv
<1>5. CASE \E a \in Accounts : CheckInElsewhere(a)
  BY <1>5, CheckInElsewhereIInv
<1>6. CASE Begin("scheduler", FALSE) \/ \E force \in BOOLEAN : Begin("command", force)
  BY <1>6, BeginIInv DEF Runners
<1>7. ASSUME NEW r \in Runners, CycleStep(r) PROVE IInv'
  BY <1>7, LoadIInv, EnsureSchedulesIInv, SelectIInv, AskStatusIInv, PerformIInv,
     AskAgainIInv, ReceivedIInv, SaveMarksIInv, FileFailsIInv DEF CycleStep
<1>8. CASE UNCHANGED vars
  BY <1>8, StutterIInv
<1>9. QED
  BY <1>1, <1>2, <1>3, <1>4, <1>5, <1>6, <1>7, <1>8 DEF Next

\* Invariance: in every state, the whole of what the argument needs holds.
THEOREM Invariance == Spec => []IInv
<1>1. QED
  BY InitIInv, Inductive, PTL DEF Spec

\* Type correctness: the clock stays on its days, and settings, dialogs' copies
\* and cycles hold what the code's types let them hold.
THEOREM TypeCorrect == Spec => []TypeOK
<1>1. IInv => TypeOK
  BY DEF IInv
<1>2. QED
  BY <1>1, Invariance, PTL

\* Two cycles never run at a time, and the flag IS_CHECKIN_RUNNING is set exactly
\* while one runs: whatever way a cycle ends, the next one is not turned away.
THEOREM CyclesExclude == Spec => []OneCycle
<1>1. IInv => OneCycle
  BY DEF IInv
<1>2. QED
  BY <1>1, Invariance, PTL

\* A mark of today in the settings file is true: the server has the account
\* checked in for today, whatever midnights, refusals, lost replies, stale copies
\* of a dialog and kills came before.
THEOREM MarksTrue == Spec => []TodaysMarkIsTrue
<1>1. IInv => TodaysMarkIsTrue
  BY DEF IInv, MarksAreTrue, TrueMarks, TodaysMarkIsTrue
<1>2. QED
  BY <1>1, Invariance, PTL

\* A cycle writes back the settings that stand in the file, unless the user has
\* saved since the cycle read them.
THEOREM OnlyRacingLost == Spec => []OnlyRacingSavesAreLost
<1>1. IInv => OnlyRacingSavesAreLost
  BY DEF IInv
<1>2. QED
  BY <1>1, Invariance, PTL
=============================================================================
