SPECIFICATION FairSpec
CONSTANTS
    Procs = {p1, p2}
    Ghost = ghost
    Inodes = {f1, f2, f3}
    NoFile = NoFile
    StaleStart = TRUE
    MaxTurns = 1
    MaxCrashes = 1
    MaxStalls = 1
CHECK_DEADLOCK FALSE
INVARIANTS
    NoOrphanedLock
PROPERTIES
    AcknowledgedAlone
    NeverWedged
