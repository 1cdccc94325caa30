SPECIFICATION Spec
CONSTANTS
    None = None
    c1 = c1
    c2 = c2
    Clients = {c1, c2}
    Keys = {k1, k2}
    EmptyKeys = {k2}
    Sizes = {0, 1}
    EagerSize = 0
    Functions <- OneWriter
    MaxItems = 2
    MaxCalls = 1
SYMMETRY Symmetry
INVARIANTS TypeOK ReadsAreFresh 
