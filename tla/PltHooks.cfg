SPECIFICATION Spec
CONSTANTS
    MapOrder <- MCMapOrder
    Relocs <- MCRelocs
    Region <- MCRegion
    PrefixOf <- MCPrefixOf
    Runtime = "runtime"
    Art = "art"
    RuntimeHooks <- MCRuntimeHooks
    PropertyHook <- MCPropertyHook
    ArtHook <- MCArtHook
    CoreHooks <- MCCoreHooks
    V3Hooks <- MCV3Hooks
    V3Ignores <- MCV3Ignores
    V4Hooks <- MCV4Hooks
    AnySymbol = "any"
    MaxRegister = 2
    MaxAsked = 2
    MaxRecords = 6
    MaxFaults = 2
INVARIANTS
    CallsComeThrough
    HooksAreRecorded
    UnmapIsSafe
CHECK_DEADLOCK FALSE
