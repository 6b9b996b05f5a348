SPECIFICATION FairSpec
CONSTANTS
    w1 = w1
    w2 = w2
    Work = {w1}
    Priorities = {10}
    Faults = {"crash", "lostClose", "lostClaim"}
    MaxAttempts = 2
    TicksPerDay = 2
    MaxAge = 1
    MaxId = 2
    MaxTime = 3
    MaxFaults = 2
    MaxOperator = 0
CHECK_DEADLOCK FALSE
PROPERTIES
    SweepSparesLiveJobs
    RequestAnswered
    StrandedClaimReclaimed
