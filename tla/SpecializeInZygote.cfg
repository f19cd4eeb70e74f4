SPECIFICATION Spec
CONSTANTS
    p1 = p1
    p2 = p2
    p3 = p3
    Procs = {p1, p2}
    Zygote = p1
    MaxRetries = 3
    ForkMayFail = TRUE
    JniMayFail = {}
    JniMayMiss = {}
    PltMayFail = FALSE
    ChildZygotes = FALSE
    ReadsEmpty = FALSE
    SelfUnmapEnabled = TRUE
SYMMETRY Symmetry
INVARIANT ZygoteUntouched
CHECK_DEADLOCK FALSE
