CONSTANTS
    Events = {1, 2}
    Publishers = {p1, p2}
    BatchSize = 1
    Timeliness = {TRUE, FALSE}
    MaxFaults = 1
    Consumers = {w1, w2}
    Styles = {"poll_loop", "log_and_ack", "skip_unacked", "mark_first"}
    MaxTrouble = 1
SPECIFICATION FairSpec
INVARIANTS NeverMissedInTime CopiesCostFaults
PROPERTIES KeepsDelivery EventuallyDealtWith
CHECK_DEADLOCK FALSE
