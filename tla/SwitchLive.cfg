SPECIFICATION SwitchLiveSpec
CONSTANTS
    Zerodha = Zerodha
    Dhan = Dhan
    s1 = s1
    s2 = s2
    t1 = t1
    DefaultBroker = Dhan
    Streams = {s1, s2}
    MaxGeneration = 3
    MaxCrashes = 1
    StoreMayFail = TRUE
    Tokens = {t1}
    Resolvable = {t1}
    MaxEpoch = 2
    MaxTimers = 2
    MaxQueue = 3
    SendMayFail = FALSE
INVARIANTS
    LeftoverNeedsLateAsk
    SelectionDurable
PROPERTIES
    SwitchCompletes
    FeedProgress
