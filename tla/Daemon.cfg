SPECIFICATION FairSpec
CONSTANTS
    m1 = m1
    m2 = m2
    Modules = {m1, m2}
    Dir <- Two
    MayFail = {m1, m2}
    NoEntry = {m1}
    Zygotes = {z1, z2}
    Apps = {a1}
    Denylisted = {a1}
    Tracer = tracer
    Nobody = nobody
    MaxRespawns = 1
    MaxKills = 1
    MaxAttempts = 2
INVARIANTS
    CompanionIsOwn
    RemovesOwn
PROPERTIES
    RequestsEnd
    ZygoteLoads
CHECK_DEADLOCK FALSE
