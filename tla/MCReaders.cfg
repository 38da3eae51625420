SPECIFICATION FairSpec
CONSTANTS
    Ring = 3
    Limit = 2
    MaxSeq = 4
    MaxGen = 1
    MaxSince = 3
CHECK_DEADLOCK FALSE
INVARIANTS
    TypeOK
    Accounted
PROPERTIES
    ReaderSpec
    CatchesUp
