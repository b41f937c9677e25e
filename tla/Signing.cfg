SPECIFICATION FairSpec
CONSTANTS
    Requests = {r1, r2}
    mpc_total_nodes = 3
    mpc_threshold = 2
    Timeout = 2
    ChainIds = {"string", "number"}
    MaxFaults = 1
INVARIANTS
    SignedByThreshold
    WorkingNodesSuffice
PROPERTY EveryRequestEnds
CHECK_DEADLOCK FALSE
