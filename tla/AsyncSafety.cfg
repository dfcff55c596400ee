SPECIFICATION Spec
CONSTANTS
    w1 = w1
    w2 = w2
    f1 = f1
    c1 = c1
    c2 = c2
    Worker = Worker
    Writers <- TwoWriters
    Flushers <- OneFlusher
    Closers <- TwoClosers
    Capacity = 2
    MaxWrites = 4
SYMMETRY Interchangeable
INVARIANTS
    TypeOK
    Accounted
    FlushHolds
    WaitsEnd
    NoticesOnce
    CloseHolds
