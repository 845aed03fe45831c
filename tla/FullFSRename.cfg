SPECIFICATION Spec
CONSTANTS
    Ids = {root, i1, i2, i3}
    Root = root
    Names = {a, b}
    UserNames = {a, b}
    Attrs = {m1}
    BlankAttr = blank
    None = none
    NoFile = nofile
    UINT32_MAX = 4
    MaxHandles = 1
    MaxNlink = 2
    RenameOntoNonEmpty = TRUE
SYMMETRY Symmetry
INVARIANT
    OnlyEmptyDirsGo
