CONSTANTS
    w1 = w1
    w2 = w2
    Inserter = inserter
    Workers <- TwoWorkers
    Crews <- AnyCrew
    NoKey = NoKey
    INITIALIZING = INITIALIZING
    JOB_ENDED = JOB_ENDED
    Payload = Payload
    N = 3
    BatchSize = 2
    SlowBatches = FALSE
    MaxHandlers = 1
    MaxRuns = 3
    MaxRestarts = 1
    MaxCrashes = 2
    MaxFailures = 0
SPECIFICATION Spec
SYMMETRY Symmetry
INVARIANTS TypeOK Accounted WrittenOnce EnqueuedPrefix EndIsDeclaredLast
PROPERTY KeepsPromise
