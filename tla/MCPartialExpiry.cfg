SPECIFICATION Spec
CONSTANTS
    Procs = {p1}
    Ops = {"PREVIEW", "SUBMIT", "RECONCILE"}
    Nobody = Nobody
    MaxAttempt = 0
    Quantity = 2
    LimitPrice = 1
    Sides = {"BUY"}
    Spare = 0
    Cumulative = TRUE
    MaxFaults = 0
PROPERTIES
    MatchedChainHasEnded
CHECK_DEADLOCK FALSE
