\* Requests, checkpoints and a stop at any moment.
SPECIFICATION FairServiceSpec
CONSTANTS
    r1 = r1
    r2 = r2
    Reader = {r1, r2}
    MaxSnap = 2
    GraceExpires = TRUE
    MaxTx = 1
    WALLimit = 1
    MaxErrors = 1
INVARIANTS
    ServiceTypeOK
    RefsCounted
    CurrentMapped
    NoLeak
    ClosedLast
PROPERTIES
    StopReturns
    RequestsEnd
    WritesFolded
CHECK_DEADLOCK FALSE
