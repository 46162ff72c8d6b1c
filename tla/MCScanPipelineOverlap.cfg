SPECIFICATION Spec
CONSTANTS
    Process <- MCProcess
    Trees <- ShortTrees
    Options <- NoForce
    Capacity = 1
    Overlap = TRUE
INVARIANT ExportIsWhole
