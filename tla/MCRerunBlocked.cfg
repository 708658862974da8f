SPECIFICATION FairSpec
CONSTANTS
    Procs = {p1}
    Ops = {"PREVIEW", "SUBMIT", "RECONCILE"}
    Nobody = Nobody
    MaxAttempt = 0
    Quantity = 1
    LimitPrice = 1
    Sides = {"BUY"}
    Spare = 0
    Cumulative = TRUE
    MaxFaults = 0
PROPERTIES
    RerunLiftsBlock
CHECK_DEADLOCK FALSE
