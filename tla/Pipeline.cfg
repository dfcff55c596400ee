SPECIFICATION FairSpec
CONSTANTS
    Writers = {w1, w2}
    Levels = {2, 3, 4}
    Messages <- SomeMessages
    Notice <- Report
    Setups <- SomeSetups
    Spares <- SomeSpares
    Environments <- SomeEnvironments
    MaxChanges = 1
CHECK_DEADLOCK FALSE
INVARIANTS
    TypeOK
    RunsInOrder
    RoutedOnce
    LinesTrue
    RecorderWorks
PROPERTIES
    WritesReturn
