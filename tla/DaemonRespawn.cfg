SPECIFICATION Spec
CONSTANTS
    m1 = m1
    m2 = m2
    Modules = {m1, m2}
    Dir <- Two
    MayFail = {m1, m2}
    NoEntry = {m1}
    Zygotes = {z1}
    Apps = {a1}
    Denylisted = {}
    Tracer = tracer
    Nobody = nobody
    MaxRespawns = 1
    MaxKills = 0
    MaxAttempts = 2
INVARIANT IndicesAgree
CHECK_DEADLOCK FALSE
