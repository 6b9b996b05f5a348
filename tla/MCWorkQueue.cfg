SPECIFICATION Spec
CONSTANTS
    w1 = w1
    w2 = w2
    Work <- MCWork
    Priorities = {10}
    Faults = {"crash", "lostClose", "submit", "lostClaim"}
    MaxAttempts = 2
    TicksPerDay = 2
    MaxAge = 1
    MaxId = 3
    MaxTime = 1
    MaxFaults = 2
    MaxOperator = 1
SYMMETRY MCSymmetry
CHECK_DEADLOCK FALSE
INVARIANTS
    TypeOK
    NoRequestForgotten
    LiveClaimHeld
    AttemptsBounded
PROPERTIES
    DedupKeepsTheWork
