SPECIFICATION LocksSpec
CONSTANTS
    Threads = {t1, t2, t3}
    NoThread = NoThread
    MaxDepth = 2
    MaxReaders = 4
    Clients = {c1, c2}
    Creator = c1
    Task = task
    NoClient = NoClient
    PortCapacity = 1
    MaxPosts = 2
    MaxLocks = 2
INVARIANTS MutualExclusion NoLostWakeup HolderIsOwner WaiterHasOwner RwLockKept
    OwnerHasLooper LooperKept MessagesInOrder
PROPERTIES LocksGranted LooperServes
