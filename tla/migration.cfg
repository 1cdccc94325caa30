SPECIFICATION FairSpec
CONSTANTS
    None = None
    Keys = {1, 2}
    Values = {v1, v2}
    Prefixed = {2}
    BatchSize = 1
    NoOverwrite = FALSE
    Calls = {"keys", "sdskv_migrate_keys", "sdskv_migrate_key_range", "sdskv_migrate_keys_prefixed", "sdskv_migrate_all_keys"}
    MaxCalls = 2
    MaxWrites = 2
    MaxFailures = 1
INVARIANTS TypeOK NoKeyVanishes ThroughMeansComplete NoWriteLost AtMostOneInBoth
PROPERTY MigrationEnds
