SPECIFICATION Spec
CONSTANTS
    Names = {1, 2, 3, 4, 5, 6, 7, 8, 9, 10, 11, 12, 13, 14, 15, 16, 17, 18, 19, 20, 21, 22, 23, 24, 25}
    Values = {v1}
    None = none
    BTREE_MAX_NUM_ENTRIES = 5
    BTREE_MAX_DEPTH = 4
    CacheLimit = 2
    RebuildLimit = 1
    Prefills <- Sizes
    Addable <- AddableTo
    Removable <- RemovableFrom
    Refusals = {1}
VIEW DirView
INVARIANTS
    NeverCorrupted
    PagesAccounted
    BtreeSound
    CacheCoherent
PROPERTY
    ImplementsDirectory
