SPECIFICATION Spec
CONSTANTS
    Mains <- MCMains
    Libs <- MCLibs
    Images <- MCImages
    NoImage = NoImage
    Worlds <- MCWorlds
    Threads = {loader, worker}
    Loader = loader
    MaxTlsModules = 4
    MaxDeps = 3
    MaxCustomLibs = 5
    MaxActiveLinkers = 1
INVARIANTS
    ConstructedInOrder
    GoneLeavesNothing
    NothingDangles
    TlsInStep
CHECK_DEADLOCK FALSE
