SPECIFICATION SpikeSpec
CONSTANTS
    Symbols = {nifty}
    QueueSize = 1
    MaxTrades = 2
    MaxBreaks = 1
    MaxEvents = 2
    StoreMayFail = TRUE
INVARIANT
    SpikeSound
PROPERTY
    SpikeSteps
