SPECIFICATION Spec
CONSTANTS
    Sid <- MCSid
    GuestAccounts = {"S-1-5-21-7-7-7-501"}
    UacDomainGroups = {"S-1-5-21-1-1-1-512"}
    Rights <- MCRights
    Generics = {"GENERIC_READ"}
    GenericMap <- MCGenericMap
    FullControl <- MCFullControl
    ReadControl = "READ_CONTROL"
    WriteDac = "WRITE_DAC"
    Synchronize = "SYNCHRONIZE"
    Inputs <- OwnerInputs
INVARIANT RealResultWithinBounds
