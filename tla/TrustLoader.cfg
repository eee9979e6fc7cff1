\* The call of NewVerifier and four verifications.
SPECIFICATION FairSpec
CONSTANTS
    Boot = boot
    Callers = {boot, v1, v2, v3, v4}
    None = None
    Error = Error
INVARIANTS
    TypeOK
    OneProvider
    NoRace
    OnceLoadedAlwaysLoaded
PROPERTIES
    NoStaleResult
    CallReturns
    ImplementsOnce
CHECK_DEADLOCK FALSE
