SPECIFICATION VfsSpec
CONSTANTS
    Callers = {t1, t2}
    Files = {f1}
    Nodes = {v1, v2}
    Fds = {d1, d2}
    TableSize = 2
    MaxLeaks = 1
    None = None
INVARIANT NotBusyWhenDropped
CHECK_DEADLOCK FALSE
