SPECIFICATION FairSpec
CONSTANTS
    s1 = s1
    s2 = s2
    j1 = j1
    j2 = j2
    operator = operator
    helper = helper
    Nobody = Nobody
    Pids = {s1, s2}
    Projects = {j1, j2}
    Budgets <- MCBudgets
CHECK_DEADLOCK FALSE
INVARIANTS
    TypeOK
    LiveJobsKeepRows
PROPERTIES
    ImplementsSingleIndexer
    NoEnrolmentLost
    StopReachesItsTarget
    WorkDone
