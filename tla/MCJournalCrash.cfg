SPECIFICATION LiveSpec
CONSTANTS
    Blocks = {1, 2, 3}
    LogSize = 8
    MaxTransactionSize = 3
    ValuesInBlock = 3
    MaxTransactions = 2
    MaxCrashes = 1
PROPERTIES CrashConsistent
CHECK_DEADLOCK FALSE
