SPECIFICATION IntakeSpec
CONSTANTS
    m1 = m1
    m2 = m2
    n1 = n1
    NoKey = NoKey
    Handlers = {h1, h2}
    Keys = {k1}
    Externals = {x1, x2}
    MaxRequests = 2
    MaxFailures = 1
    Trades <- MCTrades
    Workers = {w1}
    Members <- MCMembers
    Instruments = {n1}
    Listed = {n1}
    WithAccounts <- MCMembers
    Deals <- MCDeals
    MaxTime = 0
    MaxFaults = 1
INVARIANTS
    OnePairForAll
    AcceptedIsDurable
    RepeatIsAnswered
PROPERTIES
    KeepsOutcome
CHECK_DEADLOCK FALSE
