SPECIFICATION OrderSpec
CONSTANTS
    Submitter = {s1}
    Syncer = {y1}
    Quantity = 2
    Funds = {2}
    MaxCrashes = 0
INVARIANT
    CompleteIsBooked
CHECK_DEADLOCK FALSE
