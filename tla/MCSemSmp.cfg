SPECIFICATION Spec
CONSTANTS
    Threads = {t1, t2}
    Cpus = {c1, c2}
    NoThread = NoThread
    NoCpu = NoCpu
    MaxSems = 1
    MaxId = 1
    MaxCount = 2
    InitCounts = {0, 1}
    AcquireCounts = {1}
    ReleaseCounts = {1, 2}
    FlagSets = {{}, {"B_CAN_INTERRUPT"}, {"B_CAN_INTERRUPT", "B_TIMEOUT"}}
INVARIANTS NoThreadLost OneList WaitsForLiveSem CountMatchesQueue
PROPERTY ImplementsSemSpec
CHECK_DEADLOCK FALSE
VIEW View
SYMMETRY Symmetry
