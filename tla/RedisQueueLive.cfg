CONSTANTS
    w1 = w1
    w2 = w2
    Inserter = inserter
    Workers <- TwoWorkers
    Crews <- FullCrew
    NoKey = NoKey
    INITIALIZING = INITIALIZING
    JOB_ENDED = JOB_ENDED
    Payload = Payload
    N = 2
    BatchSize = 1
    SlowBatches = FALSE
    MaxHandlers = 1
    MaxRuns = 2
    MaxRestarts = 1
    MaxCrashes = 1
    MaxFailures = 0
SPECIFICATION FairSpec
PROPERTY RoundEnds
