SPECIFICATION MCSpec
CONSTANTS
    w1 = w1
    w2 = w2
    a1 = a1
    mgr = mgr
    Worker = {w1, w2}
    NoWorker = NoWorker
    Role = {a1, mgr}
    Analysts <- TheAnalysts
    Manager = mgr
    MaxAttempt = 2
    Cap = 2
    Request = 1
    Usage = {1, 2}
    Lease = 1
    DayLength = 2
    MaxTime = 2
    MaxRuns = 2
    MaxCrashes = 1
    Process = {w1, w2}
    Symbols = 2
    MaxPasses = 3
    MaxDeaths = 1
SYMMETRY Symmetry
INVARIANTS
    CapKept
PROPERTIES
    NotAskedAgain
    CompletionStands
    CycleTellsTruth
CHECK_DEADLOCK FALSE
