SPECIFICATION MCSpec
CONSTANTS
    t1 = t1
    t2 = t2
    u1 = u1
    u2 = u2
    e1 = e1
    e2 = e2
    Threads <- MCThreads
    Uids <- MCUids
    Emails <- MCEmails
    None = None
    Uses <- SoundUses
    MaxCalls = 0
    MaxFaults = 0
    Missing = Missing
    NoThread = NoThread
    MaxAccounts = 3
    MaxUsed = 1
    here = here
    there = there
    Legacy = old
    Roots <- MCRoots
    Files <- MCFiles
    Migrations <- MCMigrations
    f1 = f1
    f2 = f2
    f3 = f3
    m1 = m1
    m2 = m2
    BackupFaults = 0
    a1 = a1
    a2 = a2
    o1 = o1
    o2 = o2
    NoOne = NoOne
    MaxCommands = 0
    MaxEvents = 0
CHECK_DEADLOCK FALSE
INVARIANTS DifferentUsersStayApart
