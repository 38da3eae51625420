SPECIFICATION FairSpec
CONSTANTS
    Attempts = 3
    PreferV4 = TRUE
    Backoff = 2
    MaxRetryAfter = 60
    MaxRequests = 2
    RetryAfters <- MCRetryAfters
CHECK_DEADLOCK FALSE
INVARIANT ResultIsTyped
