SPECIFICATION Spec
CONSTANTS
    v1 = v1
    v2 = v2
    v3 = v3
    idle = idle
    head = head
    Vcpus = {v1, v2, v3}
    IDLE = idle
    HEAD = head
    CBS_PERIOD = 2
    CBS_MAX_BUDGET = 2
    EXTRA_QUANTUM = 1
    SECOND = 4
    Params <- AllParams
    FIXPOINT = 16
    EXTRA_UNIT = 4
    INT_MAX = 31
    MaxTime = 5
    MaxStops = 0
    MaxLatency = 2
    TaskletWork = {FALSE}
SYMMETRY Symmetric
CHECK_DEADLOCK FALSE
INVARIANTS
    TypeOK
    HeadCanRun
    CursorOnRunq
    NoOversleep
    ExtraGivesWay
    ExtraqSorted
PROPERTIES
    ChargedAlike
    ZeroTime
