SPECIFICATION RestrictedSpec
CONSTANTS
    Blocks = {1, 2, 3}
    LogSize = 8
    MaxTransactionSize = 3
    ValuesInBlock = 3
    MaxTransactions = 3
    MaxCrashes = 1
INVARIANTS LogKept
PROPERTIES ImplementsJournalSpec SyncPersists SpaceComesBack
CHECK_DEADLOCK FALSE
