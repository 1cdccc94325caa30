SPECIFICATION FairSpec
CONSTANTS
    None = None
    Threads = {t1, t2}
    Keys = {1, 2, 3, 5}
    Values = {v1}
    Configs <- OneOfEach
    Functions = {"put", "erase", "list"}
    Starts = {0, 2}
    MaxKeys = {1, 2}
    Matching = {2, 3}
    Short = {1}
    MaxCalls <- OneAmongTwo
INVARIANTS TypeOK ListContract ListIsOneLook
PROPERTY EveryCallReturns
