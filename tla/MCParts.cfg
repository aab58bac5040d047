SPECIFICATION PartsSpec
CONSTANTS
    Threads = {t1, t2, t3}
    Cpus = {cpu}
    NoThread = NoThread
    NoCpu = NoCpu
    MaxSems = 1
    MaxId = 1
    MaxCount = 5
    InitCounts = {0, 1}
    AcquireCounts = {1, 2}
    ReleaseCounts = {1, 2}
    FlagSets = {{}}
    Callers = {u1, u2}
    Files = {f1}
    Nodes = {v1}
    Fds = {d1, d2}
    TableSize = 2
    MaxLeaks = 1
    None = None
    NumGroups = 2
    BlocksPerGroup = 1
    BlockBits = 4
    NumBlocks = 7
    Reserved = 1
    Procs = {p1, p2, p3}
    Msgs = {m1, m2}
    NoMsg = NoMsg
    LastCpu = 1
    Events = {e1, e2}
    MaxTime = 3
    NoEvent = NoEvent
INVARIANTS DeficitMatchesNeeds ReferencesCounted NoStandstill  
    MessagesKept ServedByAll EventLists
PROPERTIES RemovedLast
CHECK_DEADLOCK FALSE
VIEW PartsView
SYMMETRY PartsSymmetry
