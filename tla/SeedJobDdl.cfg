CONSTANTS
    c1 = c1
    c2 = c2
    c3 = c3
    p1 = p1
    p2 = p2
    None = None
    Configs <- ThreeConfigs
    Prefixes <- TwoPrefixes
    PrefixOf <- Prefixed
    L = 2
    N = 1
    TransactionalDdl = FALSE
    Commands = {"in-memory"}
    MaxRuns = 3
    MaxCrashes = 1
SPECIFICATION Spec
PROPERTY StartsEmpty
