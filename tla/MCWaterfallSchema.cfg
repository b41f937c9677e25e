CONSTANTS
    m1 = m1
    m2 = m2
    m3 = m3
    w1 = w1
    w2 = w2
    Members = {m1, m2, m3}
    Limit <- CreditLimit
    Openings <- Seeded
    Workers = {w1}
    Crews = {{w1}}
    Events = {1}
    Exposures = {3, 9}
    SchemaAccepts = FALSE
    MaxFaults = 0
SPECIFICATION Spec
INVARIANT AckedIsRecorded
CHECK_DEADLOCK FALSE
