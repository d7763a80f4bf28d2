CONSTANTS
    p = p
    r1 = r1
    r2 = r2
    d1 = d1
    d2 = d2
    c1 = c1
    f1 = f1
    ivo = ivo
    ony = ony
    first = first
    second = second
    Databases = {"sqlite", "postgres", "mongo"}
    Configs <- MCConfigs
    Rows <- MCRows
    Lineage <- MCLineage
    Names <- MCNames
    FirstName <- MCFirstName
    Commands <- MCCommands
SPECIFICATION FairSpec
INVARIANTS TypeOK NamesAgree
PROPERTIES NoStaleRename EveryCommandEnds
