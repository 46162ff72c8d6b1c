SPECIFICATION Spec
CONSTANTS
    Tabs <- MCTabs
    Guarded <- MCGuarded
    Found = 1
    StoredRuns <- MCStored
    MaxLoads = 1
    MaxRequests = 2
    MaxMarks = 2
\* A user may stop clicking.
CHECK_DEADLOCK FALSE
INVARIANT TypeOK
INVARIANT TabsShowLatest
INVARIANT RowsAreOfThisScan
INVARIANT ShownScanIsStored
INVARIANT CancelIsOfThisScan
INVARIANT DeltaIsReal
INVARIANT PanelIsTrue
PROPERTY ServesInOrder
PROPERTY EveryRequestAnswered
