SPECIFICATION SessionsSpec
CONSTANTS
    c1 = c1
    c2 = c2
    Tokens = {1, 2}
    Threads = {c1, c2}
    MaxSockets = 2
    MaxLaneCalls = 4
    MaxTokens = 2
    MaxOps = 3
    ConsentLogin = TRUE
    KiteHandlers = {c1, c2}
    MaxLogins = 2
    MaxDay = 2
    MaxKiteRequests = 4
    MaxRestarts = 1
    Registered = {"zerodha", "dhan"}
    Handlers = {c1, c2}
    MaxSessions = 1
    SessionTTL = 0
    QuotesTTL = 1
    CacheEntries = 2
    MaxCreated = 2
    MaxGeneration = 3
    MaxNow = 1
    MaxRequests = 3
    Zerodha = "zerodha"
    Dhan = "dhan"
    Callers = {c1, c2}
    MaxLoads = 3
    MaxGen = 3
    MaxCalls = 2
INVARIANTS
    StoredIsHeld
    LaneServed
    SessionsSound
    UniverseOfCaller
PROPERTY
    SessionKept
CHECK_DEADLOCK FALSE
