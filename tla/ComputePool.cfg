SPECIFICATION FairSpec
CONSTANTS
    a = a
    b = b
    c = c
    Jobs = {a, b, c}
    None = None
    MaxWorkers = 1
    Budget <- ShortAndLong
    Grace = 1
    RecycleAfter = 2
    MaxTime = 4
CHECK_DEADLOCK FALSE
INVARIANTS
    TypeOK
    NobodyWaitsInVain
    AnswersInTime
    AnswerTellsWhetherItRan
    NoThreadLeaks
PROPERTIES
    NoCallAfterAnswer
    ImplementsService
    EveryJobSettles
