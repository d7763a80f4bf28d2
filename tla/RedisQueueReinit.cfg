CONSTANTS
    w1 = w1
    w2 = w2
    Inserter = inserter
    Workers <- TwoWorkers
    Crews <- FullCrew
    NoKey = NoKey
    INITIALIZING = INITIALIZING
    JOB_ENDED = JOB_ENDED
    Payload = Payload
    N = 1
    BatchSize = 1
    SlowBatches = FALSE
    MaxHandlers = 2
    MaxRuns = 1
    MaxRestarts = 0
    MaxCrashes = 0
    MaxFailures = 1
SPECIFICATION Spec
SYMMETRY Symmetry
INVARIANTS EndIsDeclaredLast Accounted
