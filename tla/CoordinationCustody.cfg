SPECIFICATION FairSpec
CONSTANTS
    Invocations = {i1, i2}
    Resources = {r1}
    None = None
    Bound = 1
    MaxTime = 2
    MaxChanges = 1
CHECK_DEADLOCK FALSE
INVARIANTS
    TypeOK
    UnsettledWriteHeld
    ResolvedIsFinal
PROPERTIES
    WritesUnderCustody
    ImplementsCustody
    UncertainStaysHeld
    RecoveryUnderOriginalAuthority
    EveryInvocationEnds
