SPECIFICATION DealSpec
CONSTANTS
    Alice = Alice
    Bob = Bob
    Carol = Carol
    Offer <- MCOffer
    Secret = s1
    Statement = h1
    OtherStatement = h2
    Rail = "paper"
    LockRef = l1
    Nonce = n1
    OffersRoom = OffersRoom
    None = None
    Second = 2
    RefundAfter = 3
    MaxDelay = 1
    MaxNow = 4
    MaxTrouble = 0
CHECK_DEADLOCK FALSE
PROPERTY
    DueRefundCounts
