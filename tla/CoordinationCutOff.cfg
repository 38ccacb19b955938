SPECIFICATION Spec
CONSTANTS
    Invocations = {i1, i2}
    Resources = {r1}
    None = None
    Bound = 1
    MaxTime = 1
    MaxChanges = 0
SYMMETRY Symmetry
CHECK_DEADLOCK FALSE
INVARIANTS
    ProvenIsSettled
