CONSTANTS
    thread_num = 2
    Nodes = {a, b, c}
    GC_NODE_COUNT_THREADHOLD = 1
    MaxEpoch = 2
SPECIFICATION Spec
SYMMETRY NodeSymmetry
INVARIANTS TypeOK NoUseAfterFree NothingLeftBehind
