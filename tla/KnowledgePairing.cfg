SPECIFICATION FairSpec
CONSTANTS
    a1 = a1
    a2 = a2
    d1 = d1
    d2 = d2
    r1 = r1
    r2 = r2
    Attempts = {a1, a2}
    Rollbacks = {b1}
    Deployments = {d1, d2}
    Revisions = {r1, r2}
    None = None
    Uses <- Retried
    Content <- Distinct
    Automated = {a2}
    First = d1
    Faults = {"crash", "disconnect", "commit", "release", "compensate", "pair"}
    MaxFaults = 6
CHECK_DEADLOCK FALSE
INVARIANTS
    TypeOK
    RecordedAreKept
    PairRetained
    OneActiveRevision
PROPERTIES
    EveryCallEnds
