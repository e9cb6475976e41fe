SPECIFICATION Spec
CONSTANTS
    v1 = v1
    v2 = v2
    v3 = v3
    idle = idle
    head = head
    Vcpus = {v1, v2}
    IDLE = idle
    HEAD = head
    CBS_PERIOD = 2
    CBS_MAX_BUDGET = 2
    EXTRA_QUANTUM = 1
    SECOND = 4
    Params <- Defaults
    FIXPOINT = 16
    EXTRA_UNIT = 4
    INT_MAX = 31
    MaxTime = 5
    MaxStops = 2
    MaxLatency = 1
    TaskletWork = {FALSE}
SYMMETRY Symmetric
INVARIANTS
    AwakeIffQueued
    AwareIffOnUtilQ
    PenQWanted
    WaitqSorted
    DeadlineNotBehindServer
    StopsRunning
PROPERTIES
    WakeLostOnlyInRace
    OnlyDebtorsPayForOthers
    SolventWakesWait
