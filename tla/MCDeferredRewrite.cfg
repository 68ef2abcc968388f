SPECIFICATION FairSpec
CONSTANTS
    a1 = a1
    a2 = a2
    l1 = l1
    l2 = l2
    Accounts <- MCAccounts
    Loaders <- MCLoaders
    Capacity = 1
    MaxEdits = 2
    MaxFaults = 1
    Absent = Absent
    NoJob = NoJob
CHECK_DEADLOCK FALSE
INVARIANTS KeysAccountedFor
PROPERTIES MigrationKeepsAccounts KeysAreReleased EventuallyMigrated
