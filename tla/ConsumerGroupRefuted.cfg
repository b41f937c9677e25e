CONSTANTS
    Events = {e1, e2}
    Consumers = {w1, w2}
    Styles = {"poll_loop", "mark_first"}
    MaxLog = 2
    MaxTrouble = 2
SPECIFICATION Spec
INVARIANTS FailureIsDeadLetter MarkFirstIsFinished
CHECK_DEADLOCK FALSE
