SPECIFICATION Spec
CONSTANTS
    a1 = a1
    a2 = a2
    d1 = d1
    d2 = d2
    r1 = r1
    r2 = r2
    Attempts = {a1, a2}
    Rollbacks = {}
    Deployments = {d1, d2}
    Revisions = {r1, r2}
    None = None
    Uses <- Retried
    Content <- Distinct
    Automated = {}
    First = d1
    Faults = {"commit"}
    MaxFaults = 1
CHECK_DEADLOCK FALSE
INVARIANTS
    RetryReportsCommitted
