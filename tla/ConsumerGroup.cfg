CONSTANTS
    Events = {e1, e2}
    Consumers = {w1, w2}
    Styles = {"poll_loop", "log_and_ack", "skip_unacked", "mark_first"}
    MaxLog = 3
    MaxTrouble = 3
SPECIFICATION Spec
INVARIANTS HandledOnce AckedIsFinished
CHECK_DEADLOCK FALSE
