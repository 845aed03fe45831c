SPECIFICATION Spec
CONSTANTS
    Procs = {p1, p2}
    Passwords = {w1}
    KeyFiles = {k1}
    Formats = {1, 3, 4}
    Space = space
    Absent = absent
    Empty = empty
SYMMETRY Symmetry
CHECK_DEADLOCK FALSE
INVARIANTS
    VolumeNeverLost
    MountsExclude
    LockFileHasOwner
    FixesExclude
