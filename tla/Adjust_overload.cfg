SPECIFICATION AdjustSpec
CONSTANTS
    v1 = v1
    v2 = v2
    idle = idle
    head = head
    Vcpus = {v1, v2}
    IDLE = idle
    HEAD = head
    CBS_PERIOD = 2
    CBS_MAX_BUDGET = 2
    EXTRA_QUANTUM = 1
    SECOND = 4
    Params <- Defaults
    FIXPOINT = 16
    EXTRA_UNIT = 4
    INT_MAX = 31
    MaxTime = 6
    MaxStops = 0
    MaxLatency = 1
    TaskletWork = {FALSE}
    Domains <- OneDomain
    WEIGHT_PERIOD = 4
    WEIGHT_SAFETY = 1
    Requests <- Weighted
    MaxAdjusts = 1
CHECK_DEADLOCK FALSE
INVARIANTS
    NeverBehind
