SPECIFICATION Spec
CONSTANTS
    TVs = {tv1}
    Txns = {x1, x2}
    MaxRow = 3
    TicksPerSecond = 2
    MaxObserved = 1
    MaxNow = 5
    MaxEdits = 2
    MaxUrl = 1
INVARIANTS
    TypeOK
    TagMatchIsExact
    DateMatchIsSafe
PROPERTIES
    EventuallyCurrent
    EventuallyAtBaseUrl
CHECK_DEADLOCK FALSE
