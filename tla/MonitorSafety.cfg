SPECIFICATION Spec
CONSTANTS
    Pids = {p1, p2}
    Children = {p1, p2}
    NoPid = NoPid
    Abis = {"32"}
    MaxRetryCount = 1
    MaxQueue = 1
    Commands = {"start", "stop", "exit", "other"}
    SeizeMayFail = FALSE
    ProcMayFail = TRUE
    StartupRace = TRUE
SYMMETRY PidSymmetry
INVARIANTS
    TypeOK
    InitCustody
    NeverWaitsForNobody
    TrackedAreTracees
    OneDaemonPerAbi
PROPERTIES
    ExitIsFinal
    HandoffIsGated
    ImplementsCustody
CHECK_DEADLOCK FALSE
