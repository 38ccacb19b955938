SPECIFICATION Spec
CONSTANTS
    Procs = {p1, p2}
    Ghost = ghost
    Inodes = {f1, f2, f3}
    NoFile = NoFile
    StaleStart = FALSE
    MaxTurns = 3
    MaxCrashes = 1
    MaxStalls = 0
SYMMETRY Symmetry
CHECK_DEADLOCK FALSE
INVARIANTS
    TypeOK
    AcknowledgedKept
    Exclusive
