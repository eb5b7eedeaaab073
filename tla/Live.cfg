SPECIFICATION LiveSpec
CONSTANTS
    s1 = s1
    s2 = s2
    i1 = i1
    i2 = i2
    b1 = b1
    b2 = b2
    r1 = r1
    r2 = r2
    r3 = r3
    t1 = t1
    Confirmations = 2
    IncludeCarry = TRUE
    MaxEvents = 6
    Signals = {s1, s2}
    MayFail = {"synthetic"}
    Interactive = {i1, i2}
    Background = {b1, b2}
    ClientQueue = 2
    MaxFrames = 5
    MaxPings = 2
    Reads = {r1, r2, r3}
    MinInterval = 2
    AttemptTicks = 1
    MaxReadAttempts = 2
    BackoffTicks = 1
    LaneTokens = {t1}
    MaxDeclares = 3
    MaxLaneOps = 1
    MaxBatches = 1
INVARIANTS
    ShutdownSound
    StreamSound
    WireSound
PROPERTIES
    RulesKept
    PositionEnds
    SignalEnds
    NobodyStuck
    OneAtATime
CHECK_DEADLOCK FALSE
