\* Four states over three root versions, one of them with new keys.
SPECIFICATION Spec
CONSTANTS
    MaxState = 3
    RootOf <- Roots
    KeyOf <- Keys
    RequireOnline = FALSE
    None = None
    Torn = Torn
INVARIANTS
    TypeOK
    OfflineStart
    OnlyTornFilesWedge
PROPERTIES
    RollbackOnlyBehindOldRoot
