SPECIFICATION Spec
CONSTANTS
    Names <- NameSet
    IV_SIZE = 1
    MAX_SLICE = 3
    Paths <- PathSet
    Targets <- TargetSet
    Attrs = {0, 1}
    Ids = {1, 2, 3}
    Foreign <- ForeignSet
    f_namemax = 6
VIEW TreeView
INVARIANT
    ForeignUntouched
PROPERTY
    ImplementsPlainTree
