\* Two processes that share the cache directory, of which one is asked; three versions
\* with the same keys; only the goroutine of the call is fair.
SPECIFICATION PatientSpec
CONSTANTS
    p1 = p1
    p2 = p2
    c1 = c1
    c2 = c2
    root0 = root0
    root1 = root1
    root2 = root2
    Providers = {p1, p2}
    Calls = {c1}
    Home <- HomeSingle
    MaxVersion = 2
    TargetOf <- Distinct2
    KeyOf <- Same2
    RequireOnline = TRUE
    Ticking = FALSE
    None = None
    Torn = Torn
INVARIANTS
    MutualExclusion
    CommitIsNewest
PROPERTIES
    CallReturns
