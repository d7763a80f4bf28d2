CONSTANTS
    Databases = {"sqlite", "postgres", "mysql", "mongo"}
    Configs <- MCConfigs
    None = None
SPECIFICATION Spec
INVARIANTS TypeOK LayoutIsJobs InsertFits StatementsFit
