SPECIFICATION MemSpec
CONSTANTS
    IDLE = IDLE
    ACTIVE = ACTIVE
    Capacity = 4
    NULL = NULL
    UNSET = UNSET
    LIST_POISON1 = LIST_POISON1
    LIST_POISON2 = LIST_POISON2
    BASE_CAP = 2
    SIZEOF_INT = 4
    SIZEOF_SIZE_T = 8
    Inputs <- Accepted
CHECK_DEADLOCK FALSE
INVARIANTS
    SimTypeOK
    IdleIffNoWork
    BudgetBeforeDeadline
    AdmissionSafe
    AllWorkDone
    ArrivalsOnTime
    AccessesValid
    SizesOverrun
    MemoryMatches
    NothingLeaked
    ChartShowsRun
PROPERTIES
    SchedulesFifo
    Exits
