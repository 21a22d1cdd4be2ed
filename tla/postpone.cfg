SPECIFICATION FairSpec
CONSTANTS
    Targets = {t1, t2}
    Issues = 3
    Capacity = 1
    OwnMails = 4
    MaxBusy = 1
    MayQuit = TRUE
    MayGo = TRUE
INVARIANTS TypeOK NoDuplicate SetExact
PROPERTY PostponeEnds
CHECK_DEADLOCK FALSE
