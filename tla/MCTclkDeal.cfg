SPECIFICATION FairSpec
CONSTANTS
    Alice = Alice
    Bob = Bob
    Carol = Carol
    Offer <- MCOffer
    Secret = s1
    Statement = h1
    OtherStatement = h2
    Rail = "paper"
    LockRef = l1
    Nonce = n1
    OffersRoom = OffersRoom
    None = None
    Second = 1
    RefundAfter = 3
    MaxDelay = 1
    MaxNow = 3
    MaxTrouble = 2
CHECK_DEADLOCK FALSE
INVARIANTS
    DealTypeOK
    OneStory
    RevealIsPaid
PROPERTIES
    LockedIsSettled
