SPECIFICATION Spec
CONSTANTS
    None = None
    c1 = c1
    c2 = c2
    Clients = {c1}
    Keys = {k1, k2}
    EmptyKeys = {}
    Sizes = {1, 2}
    EagerSize = 1
    Functions <- OnePacker
    MaxItems = 2
    MaxCalls = 1
INVARIANT EveryPairIsStored
