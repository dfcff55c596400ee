SPECIFICATION FairSpec
CONSTANTS
    t1 = t1
    t2 = t2
    Threads <- TwoThreads
    Room = 1
    MaxWrites = 2
    MaxFlushes = 2
INVARIANTS
    TypeOK
    NothingLostSilently
    CloseHolds
PROPERTY CallsEnd
