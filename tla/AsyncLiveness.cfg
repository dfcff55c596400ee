SPECIFICATION FairSpec
CONSTANTS
    w1 = w1
    w2 = w2
    f1 = f1
    c1 = c1
    c2 = c2
    Worker = Worker
    Writers <- TwoWriters
    Flushers <- OneFlusher
    Closers <- OneCloser
    Capacity = 1
    MaxWrites = 2
PROPERTIES
    CallsReturn
    KeepsPromise
