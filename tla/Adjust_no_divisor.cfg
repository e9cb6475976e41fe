SPECIFICATION AdjustSpec
CONSTANTS
    v1 = v1
    v2 = v2
    idle = idle
    head = head
    Vcpus = {v1, v2}
    IDLE = idle
    HEAD = head
    CBS_PERIOD = 2
    CBS_MAX_BUDGET = 2
    EXTRA_QUANTUM = 1
    SECOND = 4
    Params <- Defaults
    FIXPOINT = 16
    EXTRA_UNIT = 4
    INT_MAX = 31
    MaxTime = 3
    MaxStops = 0
    MaxLatency = 1
    TaskletWork = {FALSE}
    Domains <- BothDomain
    WEIGHT_PERIOD = 2
    WEIGHT_SAFETY = 1
    Requests <- TimedWeighted
    MaxAdjusts = 2
CHECK_DEADLOCK FALSE
INVARIANTS
    WeightOrSlice
