SPECIFICATION Spec
CONSTANTS
    Threads = {t1, t2}
    Files = {f1, f2}
    Inodes = {i1}
    Keys = {k1, k2, k3, k4}
    ZeroKey = zerokey
    Values = {1, 2}
    None = none
    LockEnabled = TRUE
    TruncFlags = {FALSE, TRUE}
INVARIANTS
    SessionKeysAgree
    ReadsAtomic
PROPERTY
    CallsReturn
