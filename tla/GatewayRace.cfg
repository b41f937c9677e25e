CONSTANTS
    NoKey = NoKey
    Handlers = {h1, h2}
    Keys = {k1}
    Externals = {x1, x2}
    MaxRequests = 3
    MaxFaults = 0
SPECIFICATION Spec
INVARIANT SameKeySameTrade
CHECK_DEADLOCK FALSE
