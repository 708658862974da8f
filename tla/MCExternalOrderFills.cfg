SPECIFICATION Spec
CONSTANTS
    Procs = {p1, p2}
    Ops = {"PREVIEW", "SUBMIT", "RECONCILE", "CANCEL"}
    Nobody = Nobody
    MaxAttempt = 0
    Quantity = 2
    LimitPrice = 2
    Sides = {"BUY"}
    Spare = 0
    Cumulative = TRUE
    MaxFaults = 1
SYMMETRY ProcSymmetry
INVARIANTS
    BooksFollowBroker
    HoldCoversExposure
CHECK_DEADLOCK FALSE
