SPECIFICATION FairSpec
CONSTANTS
    NSegs = 2
    ExecSegs = {1}
    TangoModes = {TRUE, FALSE}
    ExitKill = TRUE
    MaxStepRetries = 2
    MaxSignals = 3
    MaxFaults = 2
INVARIANTS
    ReleasedWhole
    OnlyWholeImageRuns
    AfterLinker
    TidyRelease
PROPERTY TraceEnds
CHECK_DEADLOCK FALSE
