SPECIFICATION FairSpec
CONSTANTS
    Accounts = {"a1", "a2"}
    Days = 2
    Minutes = 2
    Windows <- MCWindows
    MaxFaults = 1
    MaxActs = 1
CHECK_DEADLOCK FALSE
INVARIANTS TodaysMarkIsTrue OnlyRacingSavesAreLost
PROPERTIES CheckedInWhileEnabled
