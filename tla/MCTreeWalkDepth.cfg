SPECIFICATION Spec
CONSTANTS
    Node <- MCNode
    Name <- MCName
    Root = "r"
    Disks <- LocalDisks
    Limits = {2}
    MaxPath = 6
INVARIANT ContentIsUnderFirstPath
