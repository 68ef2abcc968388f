SPECIFICATION FairSpec
CONSTANTS
    bad = bad
    a1 = a1
    a2 = a2
    Order <- MCOrder
    Bad = {bad}
    Expiries = {0, 16}
    Life = 20
    Lead = 15
    Idle = 10
    Active = 1
    Backoff = 15
    Limit = 1
    Startup = 5
    MaxLag = 1
    MaxFaults = 1
    MaxActs = 1
INVARIANT KeptAlive
PROPERTIES EveryoneIsRenewed
