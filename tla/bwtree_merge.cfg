CONSTANTS
    Threads = {t1, t2}
    None = None
    Workloads <- ThreeLevels
    LEAF_NODE_SIZE_UPPER_THRESHOLD = 4
    LEAF_NODE_SIZE_LOWER_THRESHOLD = 1
    INNER_NODE_SIZE_UPPER_THRESHOLD = 4
    INNER_NODE_SIZE_LOWER_THRESHOLD = 1
    LEAF_DELTA_CHAIN_LENGTH_THRESHOLD = 1
    INNER_DELTA_CHAIN_LENGTH_THRESHOLD = 1
SPECIFICATION Spec
INVARIANTS FreedOnce RetiredUnreachable LeavesHoldContent NoAssertionFails AbortIsOwned
PROPERTY RemovedIsFrozen
