SPECIFICATION Spec
CONSTANTS
    Ids = {i1, i2}
    Ptrs = {p1, p2}
    Attrs = {a1, blank}
    BlankAttr = blank
    MAX_NUM_CLOSED = 2
    NUM_EJECT = 2
    UINT32_MAX = 3
    MaxRef = 2
    MaxNlink = 2
    Null = null
    Freed = freed
    NoFile = nofile
    Blank = unwritten

SYMMETRY Symmetry
INVARIANTS
    TypeOK
    RefCountExact
    ClosedQueueSound
    CacheIsBounded
    CleanAgreesWithDisk
    UnlinkedFilesGo
PROPERTY
    ImplementsOpenFiles
