SPECIFICATION Spec
CONSTANTS
    A = A
    B = B
    C = C
    MaxNoise = 2
    h1 = h1
    h2 = h2
    p1 = p1
    s1 = s1
    s2 = s2
    o1 = o1
    o2 = o2
    o3 = o3
    l1 = l1
    l2 = l2
    bad = bad
    empty = empty
    n1 = n1
    forged = forged
    OffersRoom = OffersRoom
    None = None
    Second = 2
    Dids = {A, B, C}
    HashStatements = {h1, h2}
    PointStatements = {p1}
    Secrets = {s1, s2}
    Refs = {o1, o2, o3, l1, l2}
    Unhashable = {bad}
    Falsy = {empty}
    StatementOf <- MCStatementOf
    Offers <- MCOffers
    Records <- MCRecords
CONSTRAINT NoiseBound
CHECK_DEADLOCK FALSE
INVARIANTS
    TypeOK
    Evidence
    SettledOnTime
    RefundStaysPossible
PROPERTIES
    OutsidersAreHarmless
    ContractSpec
