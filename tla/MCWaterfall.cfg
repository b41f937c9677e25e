CONSTANTS
    m1 = m1
    m2 = m2
    m3 = m3
    w1 = w1
    w2 = w2
    Members = {m1, m2, m3}
    Limit <- CreditLimit
    Openings <- Ledgers
    Workers = {w1, w2}
    Crews = {{w1}, {w1, w2}}
    Events = {1, 2}
    Exposures = {3, 9, 25}
    SchemaAccepts = TRUE
    MaxFaults = 1
SPECIFICATION FairSpec
INVARIANTS LedgerMatchesRecord AloneNotOverdrawn
PROPERTY EveryDefaultEnds
CHECK_DEADLOCK FALSE
