SPECIFICATION FairSpec
CONSTANTS
    c1 = c1
    c2 = c2
    s1 = s1
    s2 = s2
    Callers = {c1}
    Slots = {s1}
    NumOutputs = 1
    Levels = {1, 3}
    Messages <- FatalOnly
    Setups <- OneOutput
    Environments <- Quiet
    WritesMayHang = TRUE
    MaxChanges = 1
CHECK_DEADLOCK FALSE
PROPERTY FatalExits
