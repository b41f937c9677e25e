CONSTANTS
    Events = {1, 2, 3}
    Publishers = {p1, p2}
    BatchSize = 2
    Timeliness = {TRUE, FALSE}
    MaxFaults = 2
SPECIFICATION FairSpec
INVARIANTS NeverMissedInTime CopiesCostFaults
PROPERTY EventuallyPublished
CHECK_DEADLOCK FALSE
