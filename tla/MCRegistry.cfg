SPECIFICATION Spec
CONSTANTS
    p1 = p1
    p2 = p2
    p3 = p3
    mine = mine
    newer = newer
    foreign = foreign
    Did = Did
    Other = Other
    None = None
    Publishers = {p1, p2, p3}
    Resolvers = {r1}
    Values = {mine, newer, foreign}
    About <- MCAbout
    Call <- MCCall
    MaxStrangers = 1
CHECK_DEADLOCK FALSE
INVARIANTS
    TypeOK
    PublishIsTrue
    ResolveIsTrue
