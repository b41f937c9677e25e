SPECIFICATION Spec
CONSTANTS
    Requests = {r1}
    mpc_total_nodes = 3
    mpc_threshold = 2
    Timeout = 2
    ChainIds = {"string"}
    MaxFaults = 0
INVARIANT ThresholdSuffices
CHECK_DEADLOCK FALSE
