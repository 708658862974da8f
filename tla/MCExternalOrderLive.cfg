SPECIFICATION FairSpec
CONSTANTS
    Procs = {p1}
    Ops = {"PREVIEW", "SUBMIT", "RETRY", "RECONCILE", "REFRESH", "RECOVER"}
    Nobody = Nobody
    MaxAttempt = 1
    Quantity = 1
    LimitPrice = 1
    Sides = {"BUY"}
    Spare = 0
    Cumulative = TRUE
    MaxFaults = 2
PROPERTIES
    RepairEnds
CHECK_DEADLOCK FALSE
