CONSTANTS
    Divisions = {1, 2, 3}
    DivisionLevel <- MCDivisionLevel
    Above <- MCAbove
    Items = {i1}
    Parents = {a1}
    ItemOf <- MCItemOf
    Places = {p1}
    DivisionConfigs <- MCConfigs
    MaxLoads = 1
    LayerLevels = {3, 4}
    Ndjson = {4}
    Old = {3}
    Lines <- MCLines
    Jobs <- MCJobs
    MaxReads = 1
    MaxPasses = 2
    MaxClicks = 4
    Pins = {1, 2}
    SpotsOf <- MCSpots
    MaxFinds = 2
    Frequencies = {"snapshot", "walking"}
    LocationIds = {1, 2}
    MaxPositions = 2
    MaxLocates = 2
SPECIFICATION Spec
INVARIANTS
    TypeOK ReferencesCounted DrawnIsItsOwn SpinnersAnswered
    CachedIsStored PinIsRight LoadingIsAnswered TrackedByOne
CHECK_DEADLOCK FALSE
