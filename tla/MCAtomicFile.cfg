SPECIFICATION Spec
CONSTANTS
    t1 = t1
    t2 = t2
    j1 = j1
    j2 = j2
    a1 = a1
    Threads <- MCThreads
    Json <- MCJson
    Alien <- MCAlien
    Junk = Junk
    Rot = Rot
    Absent = Absent
    NoThread = NoThread
    BackupMayFail = TRUE
SYMMETRY Symmetry
INVARIANTS TypeOK BackupUsable
PROPERTIES ConditionalNeverClobbers ImplementsLinearFile
