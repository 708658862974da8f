SPECIFICATION FairSpec
CONSTANTS
    Procs = {p1}
    Ops = {"PREVIEW", "SUBMIT", "RETRY", "RECONCILE", "REFRESH", "RECOVER"}
    Nobody = Nobody
    MaxAttempt = 1
    Quantity = 1
    LimitPrice = 1
    Sides = {"SELL"}
    Spare = 0
    Cumulative = TRUE
    MaxFaults = 0
PROPERTIES
    RefreshKeepsRetryable
CHECK_DEADLOCK FALSE
