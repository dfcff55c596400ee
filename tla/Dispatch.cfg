SPECIFICATION FairSpec
CONSTANTS
    c1 = c1
    c2 = c2
    s1 = s1
    s2 = s2
    Callers = {c1}
    Slots = {s1, s2}
    NumOutputs = 2
    Levels = {1, 3}
    Messages <- SomeMessages
    Setups <- SomeSetups
    Environments <- SomeEnvironments
    WritesMayHang = FALSE
    MaxChanges = 1
CHECK_DEADLOCK FALSE
INVARIANTS
    TypeOK
    ServedFaithfully
    ErrorsReported
    OnlyFatalExits
PROPERTY CallsEnd
