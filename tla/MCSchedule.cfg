SPECIFICATION FairSpec
CONSTANTS
    BaseInterval = 1
    POLL_MAX = 2
    SAFETY_SCAN = 3
    CHANGE_SETTLE = 1
    CHANGE_SPACING = 1
    SCAN_LOST = 1
    None = None
    Budgets <- MCBudgets
INVARIANTS
    TypeOK
    ChangeInHand
    WatchedMeansWatched
PROPERTIES
    ChangesFound
