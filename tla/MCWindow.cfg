SPECIFICATION MCSpec
CONSTANTS
    Tasks <- MCTasks
    Configs <- MCConfigs
    Off <- MCOff
    Slots <- MCSlots
    TraeAttempts = 2
    SlotAttempts = 3
    QoderAttempts = 3
    MaxCalls = 2
    MaxRestarts = 1
    MaxFaults = 1
    MaxChanges = 2
    MaxFailures = 1
    Accounts = {a, b}
    None = none
    MaxOps = 3
    MaxActs = 3
    MaxMisses = 1
    Fields = {f, g, h}
    Values = {0, 1}
    Numbers = {f}
    Blank = blank
    Unwatched = {g, h}
    Refused = {h}
    MaxEdits = 4
    MaxTroubles = 1
CHECK_DEADLOCK FALSE
INVARIANTS
    StoredIsKnown
    OnlyTheClosingLeavesLogins
    WorkInProgress
    SchedulerFollowsConfig
    QuietWindowIsTrue
PROPERTIES
    LoginsGoForAReason
    CommandsEnd
    EveryTaskRuns
    SwitchesAreImported
