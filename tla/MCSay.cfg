SPECIFICATION Spec
CONSTANTS
    p1 = p1
    p2 = p2
    p3 = p3
    path1 = path1
    None = None
    Posts = {p1, p2, p3}
    Paths = {path1}
    Record <- MCRecord
    MayForce = {p2}
    MaxClock = 2
CHECK_DEADLOCK FALSE
INVARIANTS
    TypeOK
    SayIsTrue
    RecordIsProof
    ProofIsKept
