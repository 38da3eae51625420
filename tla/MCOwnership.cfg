SPECIFICATION Spec
CONSTANTS
    A = A
    B = B
    claimA = claimA
    claimB = claimB
    list1 = list1
    list2 = list2
    None = None
    Calls = {claimA, claimB, list1, list2}
    Claims = {claimA, claimB}
    MaxNonce = 3
    Signer <- MCSigner
    Given <- MCGiven
SYMMETRY Symmetry
CHECK_DEADLOCK FALSE
INVARIANTS
    TypeOK
    StaleMeansOvertaken
    ReturnedIsTrue
PROPERTIES
    NothingIsAppliedLate
