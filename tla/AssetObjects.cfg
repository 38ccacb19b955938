SPECIFICATION Spec
CONSTANTS
    p1 = p1
    p2 = p2
    k1 = k1
    k2 = k2
    k3 = k3
    icon = icon
    logo = logo
    photo = photo
    t1 = t1
    t2 = t2
    t3 = t3
    t4 = t4
    d1 = d1
    d2 = d2
    d3 = d3
    None = None
    Procs = {p1, p2}
    Keys = {k1, k2, k3}
    Assets = {icon, logo, photo}
    KeyOf <- MCKeyOf
    Tokens = {t1, t2, t3, t4}
    By <- MCBy
    For <- MCFor
    Bundles <- MCBundles
    Deployments = {d1, d2, d3}
    Uses <- MCUses
    Quota <- MCQuota
    MaxPending = 3
    MaxMarks = 1
    MaxFaults = 1
    MaxLosses = 1
SYMMETRY Symmetry
INVARIANTS
    TypeOK
    QuotaHeld
    PromisesKept
CHECK_DEADLOCK FALSE
