SPECIFICATION Spec
CONSTANTS
    p1 = p1
    p2 = p2
    scan = scan
    ingest = ingest
    other = other
    ocr = ocr
    Projects = {p1, p2}
    Work = {ingest, ocr}
    TypeOf <- MCTypeOf
    MaxConcurrent = 2
    ReservedLanes = 1
    OcrMax = 1
    Faults = {"corrupt", "spurious"}
    MaxAttempts = 3
    TicksPerDay = 2
    MaxAge = 1
    MaxId = 2
    MaxFaults = 1
    MaxEdits = 0
VIEW MCView
SYMMETRY MCSymmetry
CHECK_DEADLOCK FALSE
INVARIANTS
    LanesBounded
