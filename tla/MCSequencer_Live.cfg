\* Writers, a rotation, errors and a close: what answers mean, and that all come.
SPECIFICATION FairSpec
CONSTANTS
    a = a
    b = b
    c = c
    Caller = {a, b}
    MaxCalls = 3
    MaxRotates = 1
    Queue = 1
    MaxBatch = 2
    MayFail = TRUE
INVARIANTS
    TypeOK
    AnswersTrue
    FileOrdered
    RealTimeOrder
PROPERTIES
    CallsReturn
CHECK_DEADLOCK FALSE
