SPECIFICATION Spec
CONSTANTS
    p1 = p1
    p2 = p2
    p3 = p3
    Procs = {p1, p2, p3}
    Zygote = p1
    MaxRetries = 3
    ForkMayFail = TRUE
    JniMayFail = {"app"}
    JniMayMiss = {"app"}
    PltMayFail = TRUE
    ChildZygotes = TRUE
    ReadsEmpty = TRUE
    SelfUnmapEnabled = TRUE
SYMMETRY Symmetry
INVARIANTS
    GuardsCounted
    ZygoteKept
    NoCallIntoNothing
    NothingLeftBehind
    OneChildPerCall
PROPERTIES
    QuietAtDecision
CHECK_DEADLOCK FALSE
