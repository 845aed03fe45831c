SPECIFICATION Spec
CONSTANTS
    Names = {1, 2, 3, 4, 5, 6, 7, 8, 9}
    Values = {v1}
    None = none
    BTREE_MAX_NUM_ENTRIES = 5
    BTREE_MAX_DEPTH = 4
    CacheLimit = 2
    RebuildLimit = 1
    Prefills <- Small
    Addable <- AddableTo
    Removable <- RemovableFrom
    Refusals = {1}
INVARIANT
    IterationStops
