SPECIFICATION Spec
CONSTANTS
    Node <- MCNode
    Name <- MCName
    Root = "r"
    Disks <- MCDisks
    Limits <- MCLimits
    MaxPath = 5
INVARIANT TypeOK
INVARIANT ChainIsActivePath
INVARIANT RoutesAreNamedRightly
INVARIANT EnumeratedOnce
INVARIANT NoSilentSkip
INVARIANT DuplicateContentIsListed
INVARIANT PartialIsReported
PROPERTY WalkTerminates
