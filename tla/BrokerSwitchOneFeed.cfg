CONSTANTS
    Zerodha = Zerodha
    Dhan = Dhan
    DefaultBroker = Dhan
    Streams = {s1, s2}
    MaxGeneration = 3
    MaxCrashes = 0
    StoreMayFail = FALSE
SPECIFICATION SwitchSpec
INVARIANT OneBrokerFeeds
