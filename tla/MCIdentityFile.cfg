SPECIFICATION Spec
CONSTANTS
    Processes = {p1, p2, p3}
    None = None
CHECK_DEADLOCK FALSE
INVARIANTS
    TypeOK
    CreatedIsForever
    OneIdentity
    BlockedMeansTrouble
PROPERTY NeverClobbered
