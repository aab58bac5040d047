SPECIFICATION SpecKeep
CONSTANTS
    Threads = {t1, t2, t3}
    NoThread = NoThread
    MaxPorts = 1
    MaxId = 0
    Capacities = {1, 2}
    MaxMsgs = 4
    MaxUnits = 4
    EmptyMsgs = {2}
    Null = Null
    Garbage = Garbage
    Smp = FALSE
INVARIANTS NoPortFault ReadInOrder UnitsBacked
CHECK_DEADLOCK FALSE
VIEW View
SYMMETRY Symmetry
