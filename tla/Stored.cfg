SPECIFICATION StoredSpec
CONSTANTS
    sa = sa
    sb = sb
    c1 = c1
    c2 = c2
    j1 = j1
    j2 = j2
    j3 = j3
    j4 = j4
    b1 = b1
    b2 = b2
    b3 = b3
    Symbols = {sa, sb}
    MaxUnderlyings = 2
    Captures = {c1}
    Watchers = {j1, j2}
    MaxGeneration = 3
    MaxHistory = 2
    MaxPublished = 2
    MaxEvents = 4
    Callers = {j1, j2, j3, j4}
    Concurrency = 2
    PoolQueue = 2
    MaxSlots = 4
    BoardSymbols = {sa, sb}
    DaySlots = 1
    Tasks = {c1, c2}
    MaxQueue = 2
    MaxLogins = 1
    Handlers = {c1, c2}
    Prices = {1, 3}
    MaxTrades = 1
    MaxRequests = 3
    MaxDay = 2
    Backfills = {b1, b2}
    Checks = {b3}
    MaxRuns = 2
    MaxEodUpsets = 2
INVARIANTS
    ServedCurrent
    PoolServes
    CaptureSound
    SpreadsFollowRows
    TradesExplained
CHECK_DEADLOCK FALSE
