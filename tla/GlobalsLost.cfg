SPECIFICATION Spec
CONSTANTS
    r = r
    s = s
    c1 = c1
    c2 = c2
    k1 = k1
    k2 = k2
    v1 = v1
    v2 = v2
    a1 = a1
    t1 = t1
    t2 = t2
    missing = missing
    Nil = Nil
    Loggers <- Family
    Root = r
    Callers <- TwoCallers
    Outputs <- SomeOutputs
    Tags = {t1, t2}
    Keys = {k1, k2}
    Values = {v1, v2}
    AppMaps = {a1}
    PairLists <- SomePairs
    Extracted <- SomeFields
    BadKey <- TheBadKey
    Missing = missing
    Setups <- NilSetups
    MaxCached = 1
    MaxCopies = 4
INVARIANT GlobalsKept
CHECK_DEADLOCK FALSE
