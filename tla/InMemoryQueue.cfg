CONSTANTS
    W = 2
    N = 3
    BatchSize = 2
    Hwm = 1
    MaxRetries = 2
SPECIFICATION FairSpec
INVARIANTS TypeOK Tracked NoLateResult ReturnsComplete WrittenAtMost
PROPERTIES KeepsPromise RunEnds
