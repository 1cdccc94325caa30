SPECIFICATION Spec
CONSTANTS
    None = None
    Threads = {t1, t2, t3}
    Keys = {1}
    Values = {v1, v2}
    Configs <- AtomicDbs
    Functions = {"put", "get", "exists", "erase", "list"}
    Starts = {0}
    MaxKeys = {1}
    Matching = {}
    Short = {1}
    MaxCalls <- OneCall
PROPERTY Implements
