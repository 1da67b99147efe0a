SPECIFICATION Spec
CONSTANTS
    Procs = {p1, p2, p3}
    Inodes = {i1, i2, i3}
    None = None
    p1 = p1
    p2 = p2
    p3 = p3
    MaxOpens = 3
    MaxCrashes = 1
CHECK_DEADLOCK FALSE
INVARIANTS ReadsTheConstant NothingLeftBehind
PROPERTIES StillUsedIsKept
