\* The same repository; one comment of the code as an invariant.
SPECIFICATION Spec
CONSTANTS
    MaxState = 3
    RootOf <- Roots
    KeyOf <- Keys
    RequireOnline = FALSE
    None = None
    Torn = Torn
INVARIANTS
    FailureHasCause
