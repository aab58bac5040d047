SPECIFICATION DeleteSpec
CONSTANTS
    Threads = {t1, t2}
    NoThread = NoThread
    MaxPorts = 1
    MaxId = 1
    Capacities = {1}
    MaxMsgs = 2
    MaxUnits = 2
    EmptyMsgs = {}
    Null = Null
    Garbage = Garbage
    Smp = FALSE
INVARIANTS PortTableKept
PROPERTIES DeletionWakes
CHECK_DEADLOCK FALSE
