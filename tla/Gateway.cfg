\* A larger instance of the gateway alone: no request waits for ever, either.
CONSTANTS
    NoKey = NoKey
    Handlers = {h1, h2, h3}
    Keys = {k1, k2}
    Externals = {x1, x2}
    MaxRequests = 3
    MaxFaults = 1
SPECIFICATION FairSpec
INVARIANTS AcceptedIsDurable RepeatIsAnswered
PROPERTIES KeyNeverMoves EveryRequestEnds
CHECK_DEADLOCK FALSE
