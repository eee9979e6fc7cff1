\* One process with a ticker and one call, all goroutines fair.
SPECIFICATION UpdatingSpec
CONSTANTS
    p1 = p1
    p2 = p2
    c1 = c1
    c2 = c2
    root0 = root0
    root1 = root1
    root2 = root2
    Providers = {p1}
    Calls = {c1}
    Home <- HomeSingle
    MaxVersion = 1
    TargetOf <- Distinct1
    KeyOf <- Same1
    RequireOnline = TRUE
    Ticking = TRUE
    None = None
    Torn = Torn
PROPERTIES
    SpawnedUpdateEnds
    RecoversWhenHealthy
