SPECIFICATION Spec
CONSTANTS
    Procs = {p1}
    Ops = {"PREVIEW", "SUBMIT", "CANCEL"}
    Nobody = Nobody
    MaxAttempt = 0
    Quantity = 1
    LimitPrice = 1
    Sides = {"BUY"}
    Spare = 0
    Cumulative = TRUE
    MaxFaults = 0
PROPERTIES
    AmbiguousCancelIsUnknown
CHECK_DEADLOCK FALSE
