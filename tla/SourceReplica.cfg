SPECIFICATION Spec
CONSTANTS
    w1 = w1
    w2 = w2
    Workers = {w1, w2}
    None = None
    Records = 2
    AtFirst = {1}
    Keys = {k1}
    MaxPages <- MCMaxPages
    MaxClock = 2
    MaxUpsets = 2
INVARIANTS
    TypeOK
    ReplicaMirrorsSource
PROPERTIES
    NeverOlder
    RefreshIsFresh
    RefreshSettles
CHECK_DEADLOCK FALSE
