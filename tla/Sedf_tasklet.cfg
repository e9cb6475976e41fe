SPECIFICATION FairSpec
CONSTANTS
    v1 = v1
    v2 = v2
    v3 = v3
    idle = idle
    head = head
    Vcpus = {v1, v2}
    IDLE = idle
    HEAD = head
    CBS_PERIOD = 2
    CBS_MAX_BUDGET = 2
    EXTRA_QUANTUM = 1
    SECOND = 4
    Params <- DefaultOrShort
    FIXPOINT = 16
    EXTRA_UNIT = 4
    INT_MAX = 31
    MaxTime = 6
    MaxStops = 0
    MaxLatency = 1
    TaskletWork = {TRUE, FALSE}
INVARIANTS
    NeverBehind
PROPERTIES
    ScheduleServed
    OrderLostOnlyByRenewal
