SPECIFICATION Spec
CONSTANTS
    MaxSizeBytes = 2
    MaxBackups = 1
    MaxAge = 1
    Lengths <- ShortAndLong
    MaxWrites = 3
    MaxClock = 2
INVARIANTS
    TypeOK
    EachOnce
    SizeHonest
    FilesBounded
PROPERTY RetainsAndHeals
