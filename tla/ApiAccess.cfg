CONSTANTS
    Threads = {t1, t2}
    Limit = 2
    Hour = 2
    PageSize = 1
    MaxTasks = 2
SPECIFICATION FairSpec
INVARIANTS LimitKept RevocationHolds PagesComplete
PROPERTIES EventuallyAdmitted
