SPECIFICATION MCSpec
CONSTANTS
    Procs = {p1, p2}
    Ops = {"PREVIEW", "SUBMIT", "RETRY", "RECONCILE"}
    Nobody = Nobody
    MaxAttempt = 1
    Quantity = 1
    LimitPrice = 1
    Sides = {"BUY", "SELL"}
    Spare = 0
    Cumulative = TRUE
    MaxFaults = 2
SYMMETRY ProcSymmetry
INVARIANTS
    ExecutedOnce
    BudgetHeld
PROPERTIES
    RetryRestsOnEvidence
CHECK_DEADLOCK FALSE
