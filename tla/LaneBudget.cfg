CONSTANTS
    t1 = t1
    t2 = t2
    s1 = s1
    s2 = s2
    Browser = Browser
    Analytics = Analytics
    Tokens <- MCTokens
    Streams <- MCStreams
    LeaseOwners <- MCLeaseOwners
    SetOwners <- MCSetOwners
    MaxSeq = 2
    LaneReserve = 1
    MaxGeneration = 2
SPECIFICATION FairLaneSpec
INVARIANTS
    RefcountsExact
    UpstreamExact
    LiveLeasesKept
    AnalyticsShare
PROPERTY
    LaneProgress
