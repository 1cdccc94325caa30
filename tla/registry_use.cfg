SPECIFICATION Spec
CONSTANTS
    None = None
    ULTs = {u1, u2}
    Names = {1}
    Addrs = {a1}
    MaxRequests = 3
SYMMETRY Symmetry
INVARIANT UsedDatabaseIsLive
