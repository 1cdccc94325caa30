SPECIFICATION FairSpec
CONSTANTS
    None = None
    ULTs = {u1, u2}
    Names = {1, 2}
    Addrs = {a1, a2}
    MaxRequests = 5
INVARIANTS TypeOK ReaderSeesConsistentRegistry NoLeakNoDangling ListIsComplete
PROPERTIES NameOfIdIsStable EveryRequestCompletes
