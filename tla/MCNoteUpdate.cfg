SPECIFICATION FairSpec
CONSTANTS
    c1 = c1
    c2 = c2
    Calls = {c1, c2}
    Creators = {c1}
    Attempts = 3
    Refused = Refused
    None = None
    Values <- MCValues
    Mutate <- MCMutate
CHECK_DEADLOCK FALSE
INVARIANTS
    TypeOK
    OutcomeIsTrue
    ConflictMeansInterference
PROPERTIES
    AtomicSpec
    CallsEnd
