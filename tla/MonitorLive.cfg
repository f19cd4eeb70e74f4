SPECIFICATION FairSpec
CONSTANTS
    Pids = {p1, p2}
    Children = {p1}
    NoPid = NoPid
    Abis = {"64"}
    MaxRetryCount = 1
    MaxQueue = 2
    Commands = {"stop"}
    SeizeMayFail = FALSE
    ProcMayFail = FALSE
    StartupRace = FALSE
INVARIANTS
    NoLostWakeup
PROPERTIES
    InitNotFrozen
    StopCompletes
    TraceesNotFrozen
CHECK_DEADLOCK FALSE
