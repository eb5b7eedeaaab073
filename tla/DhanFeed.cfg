SPECIFICATION FeedSpec
CONSTANTS
    t1 = t1
    t2 = t2
    t3 = t3
    Tokens <- MCTokens
    Resolvable <- MCResolvable
    MaxEpoch = 3
    MaxTimers = 2
    MaxQueue = 2
    SendMayFail = TRUE
SYMMETRY TokenSymmetry
INVARIANTS
    ListenersInStep
    WantedServed
