SPECIFICATION FairSpec
CONSTANTS
    None = None
    Keys = {1, 2, 3, 4}
    Wanted = {1, 2, 3}
    KeySize <- Lengths
    Sizes = {0, 2}
    PageSize = 2
    BufferSizes = {0, 1, 2}
    MaxWrites = 1
    MaxFailures = 1
INVARIANTS TypeOK PageIsRight ScanIsComplete
PROPERTY ScanEnds
