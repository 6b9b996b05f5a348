SPECIFICATION FairSpec
CONSTANTS
    p1 = p1
    p2 = p2
    scan = scan
    ingest = ingest
    other = other
    ocr = ocr
    Projects = {p1}
    Work = {scan, ingest}
    TypeOf <- MCTypeOf
    MaxConcurrent = 1
    ReservedLanes = 1
    OcrMax = 1
    Faults = {"replace", "stale", "openFails", "submit"}
    MaxAttempts = 3
    TicksPerDay = 2
    MaxAge = 1
    MaxId = 2
    MaxFaults = 1
    MaxEdits = 1
CHECK_DEADLOCK FALSE
INVARIANTS
    TypeOK
    BooksBalance
    ClaimsFollowTheFile
    NoRowRunTwice
PROPERTIES
    NothingJoinsExclusive
    QueuedWorkRuns
