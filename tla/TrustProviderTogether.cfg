\* One process, two concurrent calls, three versions of which two name the same trusted root.
SPECIFICATION Spec
CONSTANTS
    p1 = p1
    p2 = p2
    c1 = c1
    c2 = c2
    root0 = root0
    root1 = root1
    root2 = root2
    Providers = {p1}
    Calls = {c1, c2}
    Home <- HomeTogether
    MaxVersion = 2
    TargetOf <- Shared2
    KeyOf <- Keys2
    RequireOnline = FALSE
    Ticking = FALSE
    None = None
    Torn = Torn
INVARIANTS
    TypeOK
    NoErrorMeansRefreshed
    AnswerMatchesMetadata
    AnswerNotOlderThanCall
    CommitIsNewest
PROPERTIES
    ClientNeverOlder
SYMMETRY CallSymmetry
