SPECIFICATION Spec
CONSTANTS
    r1 = r1
    r2 = r2
    r3 = r3
    r4 = r4
    k1 = k1
    k2 = k2
    All = All
    Kinds = {"Sample", "RateLimit", "Dedup"}
    Keys <- TwoKeys
    Runs <- FourRuns
    First = 1
    Thereafter = 2
    Window = 2
    MaxKeys = 1
    MaxClock = 3
CHECK_DEADLOCK FALSE
SYMMETRY Interchangeable
INVARIANTS
    TypeOK
    Measured
    OncePerWindow
    MutesReported
    NobodyBlocked
