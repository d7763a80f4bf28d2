CONSTANTS
    c1 = c1
    c2 = c2
    c3 = c3
    p1 = p1
    p2 = p2
    None = None
    Configs <- ThreeConfigs
    Prefixes <- TwoPrefixes
    PrefixOf <- Prefixed
    L = 3
    N = 2
    TransactionalDdl = TRUE
    Commands = {"in-memory", "set-config", "clear"}
    MaxRuns = 4
    MaxCrashes = 2
SPECIFICATION Spec
INVARIANTS TypeOK ParentsFirst FinishedExactly
