CONSTANTS
    Databases = {"mongo"}
    Configs <- MCConfigs
    None = None
SPECIFICATION Spec
INVARIANT InsertFitsMongo
