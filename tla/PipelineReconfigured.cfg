SPECIFICATION Spec
CONSTANTS
    Writers = {w1}
    Levels = {2, 3, 4}
    Messages <- SomeMessages
    Notice <- Report
    Setups <- PlainSetups
    Spares <- SomeSpares
    Environments <- NoEnvironment
    MaxChanges = 1
CHECK_DEADLOCK FALSE
INVARIANTS
    ReconfiguredSafely
