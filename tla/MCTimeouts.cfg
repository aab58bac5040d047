SPECIFICATION TimeoutsSpec
CONSTANTS
    Threads = {t1, t2}
    Cpus = {c1}
    NoThread = NoThread
    NoCpu = NoCpu
    MaxSems = 1
    MaxId = 0
    MaxCount = 1
    InitCounts = {0, 1}
    AcquireCounts = {1}
    ReleaseCounts = {1}
    FlagSets = {{}, {"B_CAN_INTERRUPT"}, {"B_CAN_INTERRUPT", "B_TIMEOUT"}}
    LastCpu = 1
    Events = {e1, e2}
    MaxTime = 2
    NoEvent = NoEvent
INVARIANTS NoFault
PROPERTIES WaitsEnd EventEnds
CHECK_DEADLOCK FALSE
