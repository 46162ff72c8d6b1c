SPECIFICATION SharedSpec
CONSTANTS
    Tabs <- MCTabs
    Guarded <- MCGuarded
    Found = 1
    StoredRuns <- MCStored
    MaxLoads = 1
    MaxRequests = 2
    MaxMarks = 0
    CliRun = 12
CHECK_DEADLOCK FALSE
INVARIANT StoreIsSettled
