SPECIFICATION Spec
CONSTANTS
    Process <- MCProcess
    Trees <- MCTrees
    Options <- MCOptions
    Capacity = 1
    Overlap = FALSE
INVARIANT TypeOK
INVARIANT ExportIsWhole
INVARIANT ExportedRunIsInHistory
INVARIANT FailedScanLeavesNoExport
PROPERTY PublishesWholeRuns
PROPERTY ScanEnds
