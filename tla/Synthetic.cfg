SPECIFICATION SyntheticSpec
CONSTANTS
    NIFTY = NIFTY
    s1 = s1
    s2 = s2
    BookKeys = {NIFTY}
    MaxOpen = 2
    MaxIds = 2
    MaxUpsets = 2
    MaxUnder = 2
    Budget = 4
    MaxSwitches = 1
    MaxChanges = 3
    MaxQueued = 2
    Keys = {"gate", "maxOpen"}
    Values = {2, 3}
    Env = 1
    Loader = "loader"
    Admins = {"a1", "a2"}
    MaxUpdates = 3
    MaxRestarts = 1
    Streams = {s1, s2}
    MaxBacklog = 2
    MaxFrames = 6
    MaxDisposes = 1
INVARIANTS
    BookAgrees
    LaneFollowsScanner
    ForceIsSaved
    StreamsServed
PROPERTY
    ImplementsPaperBook
CHECK_DEADLOCK FALSE
