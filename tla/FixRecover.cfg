SPECIFICATION FixSpec
CONSTANTS
    Ids = {root, i1, i2}
    Root = root
    Names = {a, b, root, i1, i2}
    UserNames = {a, b}
    Attrs = {m1}
    BlankAttr = blank
    None = none
    NoFile = nofile
    UINT32_MAX = 6
    MaxHandles = 1
    MaxNlink = 2
    RenameOntoNonEmpty = TRUE
SYMMETRY Symmetry
CHECK_DEADLOCK FALSE
INVARIANT
    RecoveredFilesOpen
