SPECIFICATION FullLogSpec
CONSTANTS
    Blocks = {1, 2, 3}
    LogSize = 6
    MaxTransactionSize = 3
    ValuesInBlock = 3
    MaxTransactions = 3
    MaxCrashes = 1
PROPERTIES ImplementsJournalSpec
CHECK_DEADLOCK FALSE
