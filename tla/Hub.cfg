SPECIFICATION HubSpec
CONSTANTS
    t1 = t1
    t2 = t2
    b1 = b1
    e1 = e1
    Tokens <- MCTokens
    Browsers = {b1}
    Engines = {e1}
    MaxSockets = 2
    MaxQueue = 2
SYMMETRY TokenSymmetry
INVARIANT
    HubServes
