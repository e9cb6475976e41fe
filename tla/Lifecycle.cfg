SPECIFICATION LifeSpec
CONSTANTS
    v1 = v1
    v2 = v2
    idle = idle
    head = head
    Vcpus = {v1, v2}
    IDLE = idle
    HEAD = head
    CBS_PERIOD = 2
    CBS_MAX_BUDGET = 2
    EXTRA_QUANTUM = 1
    SECOND = 4
    Params <- Defaults
    FIXPOINT = 16
    EXTRA_UNIT = 4
    INT_MAX = 31
    MaxTime = 2
    MaxStops = 1
    MaxLatency = 1
    TaskletWork = {FALSE}
    Cpus = {0, 1}
    ThisCpu = 0
    VcpuId <- FirstIds
    Affinities <- AllMasks
    Away <- Elsewhere
SYMMETRY Symmetric
INVARIANTS
    OnlyResidentsQueued
    PlacedWithData
