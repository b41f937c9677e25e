CONSTANTS
    Events = {1, 2}
    Publishers = {p1}
    BatchSize = 2
    Timeliness = {FALSE}
    MaxFaults = 1
SPECIFICATION Spec
INVARIANT NeverMissed
CHECK_DEADLOCK FALSE
