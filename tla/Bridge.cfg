SPECIFICATION Spec
CONSTANTS
    c1 = c1
    c2 = c2
    v1 = v1
    v2 = v2
    nil = nil
    Callers <- TwoCallers
    NumOutputs = 2
    Parts = {"", "a", "b"}
    Attrs <- SomeAttrs
    Values = {v1, v2, nil}
    NoValue = nil
    Setups <- SomeSetups
    SlogLevels <- SomeLevels
INVARIANTS TypeOK HandlersHold ForwardedTruly
CHECK_DEADLOCK FALSE
